---------------------------- MODULE ParameterSets ----------------------------
(***************************************************************************)
(* The parameters, what makes a collection of parameter sets valid, and    *)
(* how setting.json holds one: domain/app_config.c and                     *)
(* platform/config_json.c.  A collection has the values of the shared      *)
(* parameters and, by its number, a set of the others.                     *)
(*                                                                         *)
(* A value is an element of its parameter's Limits; every other element    *)
(* stands for one of the wrong type or out of range.  A JSON object is the *)
(* sequence of the values it gives each key that is read: empty where the  *)
(* key is missing, longer than one where it is doubled.  Keys that are not *)
(* read are skipped by the code and left out here.  A float is written     *)
(* with nine digits and a name is matched exactly, so a value that was     *)
(* written is read back as itself.                                         *)
(***************************************************************************)
EXTENDS Integers, Sequences, FiniteSets

CONSTANTS
    Shared, Own, \* names of the parameters of each scope
    Limits,      \* the values each accepts, by name
    Default,     \* of each, by name
    NumberDefault, \* values of some numbers that differ, by number and name
    DefaultNumbers, \* the numbers of the built-in collection: 1 .. 3
    Refused      \* what is not a configuration

Numbers == 1 .. 5
Names == Shared \cup Own
AnyValue == UNION {Limits[p] : p \in Names}
Take(c, names) == [p \in names |-> c[p]]

\* app_config_profiles_t
Collections ==
    [shared : [Shared -> AnyValue], sets : UNION {[D -> [Own -> AnyValue]] : D \in SUBSET Numbers}]

\* Parameters whose values must be ordered; a strict pair may not be equal.
AtMost ==
    {<<"sink_start_mps", "sink_end_mps">>, <<"lift_end_mps", "lift_start_mps">>,
     <<"lift_freq_base_hz", "lift_freq_max_hz">>, <<"sink_freq_min_hz", "sink_freq_start_hz">>,
     <<"lift_time_ms_at_1p0", "lift_time_ms_at_0p2">>,
     <<"lift_time_ms_at_2p5", "lift_time_ms_at_1p0">>,
     <<"lift_time_ms_at_5p0", "lift_time_ms_at_2p5">>,
     <<"predictive_min_mps", "lift_start_mps">>,
     <<"predictive_duration_ms", "predictive_interval_ms">>}
Below == {<<"sink_end_mps", "lift_end_mps">>}

Within(c, pairs) == {q \in pairs : {q[1], q[2]} \subseteq DOMAIN c}

InLimits(p, v) == v \in Limits[p]
Assign(c, p, v) == [c EXCEPT ![p] = v]

\* app_config_validate
Valid(c) ==
    /\ \A p \in DOMAIN c : InLimits(p, c[p])
    /\ \A q \in Within(c, AtMost) : c[q[1]] <= c[q[2]]
    /\ \A q \in Within(c, Below) : c[q[1]] < c[q[2]]

\* app_config_profiles_get_config: the shared values and one set.
Effective(coll, n) == [p \in Names |-> IF p \in Shared THEN coll.shared[p] ELSE coll.sets[n][p]]

ValidCollection(coll) ==
    /\ DOMAIN coll.sets # {} /\ DOMAIN coll.sets \subseteq Numbers
    /\ \A n \in DOMAIN coll.sets : Valid(Effective(coll, n))

\* app_config_profiles_set_config
With(coll, n, c) ==
    [shared |-> Take(c, Shared), sets |-> [coll.sets EXCEPT ![n] = Take(c, Own)]]

\* app_config_set_profile_defaults, app_config_profiles_set_defaults
DefaultsOf(n) ==
    [p \in Names |->
        IF n \in DOMAIN NumberDefault /\ p \in DOMAIN NumberDefault[n]
        THEN NumberDefault[n][p] ELSE Default[p]]

Defaults ==
    [shared |-> Take(Default, Shared), sets |-> [n \in DefaultNumbers |-> Take(DefaultsOf(n), Own)]]

\* A configuration is no refusal, no order reaches a shared parameter, the
\* built-in values are accepted, and those of a number are of its own set.
ASSUME ParameterAssumption ==
    /\ \A scope \in {Shared, Own} : Refused \notin [scope -> AnyValue]
    /\ Shared \cap Own = {} /\ \A q \in AtMost \cup Below : {q[1], q[2]} \cap Shared = {}
    /\ DefaultNumbers # {} /\ DefaultNumbers \subseteq Numbers
    /\ \A n \in Numbers : Valid(DefaultsOf(n))
    /\ \A n \in DOMAIN NumberDefault : DOMAIN NumberDefault[n] \subseteq Own

\* app_config_profiles_sort
Sorted(numbers) ==
    CHOOSE s \in [1 .. Cardinality(numbers) -> numbers] :
        /\ \A i, j \in DOMAIN s : i < j => s[i] < s[j]
        /\ \A n \in numbers : \E i \in DOMAIN s : s[i] = n

\* app_config_profiles_next_index, on the sorted sets
NextNumber(numbers, n) ==
    LET above == {m \in numbers : m > n}
    IN  Sorted(IF above = {} THEN numbers ELSE above)[1]

\* app_config_set_text: the value is accepted alone and with the others.
SetText(c, p, v) ==
    IF InLimits(p, v) /\ Valid(Assign(c, p, v)) THEN Assign(c, p, v) ELSE Refused

\* Mutant of Reset: the default is in range, and is taken.
ResetBlindly(c, n, p) == Assign(c, p, DefaultsOf(n)[p])

\* app_config_reset of one parameter
Reset(c, n, p) ==
    IF Valid(ResetBlindly(c, n, p)) THEN ResetBlindly(c, n, p) ELSE Refused

-----------------------------------------------------------------------------
(* setting.json                                                            *)

\* parse_parameters_object: each parameter of the scope is there once, and its
\* value is of its type and in range (parse_json_parameter).
Parameters(o, scope) ==
    IF \A p \in scope : Len(o[p]) = 1 /\ InLimits(p, o[p][1])
    THEN [p \in scope |-> o[p][1]] ELSE Refused

\* Entries of vario_parameter_sets that say this number.
Numbered(t, n) == {i \in DOMAIN t.sets[1] : t.sets[1][i].number = <<n>>}

\* The set of this number: used if one entry has the number, it is complete,
\* and it is valid with the shared values; otherwise left out.
SetOf(t, n) ==
    LET e == t.sets[1][CHOOSE i \in Numbered(t, n) : TRUE]
        values == IF Len(e.own) = 1 THEN Parameters(e.own[1], Own) ELSE Refused
    IN  IF Cardinality(Numbered(t, n)) # 1 \/ values = Refused THEN Refused
        ELSE IF Valid([p \in Names |-> IF p \in Shared THEN t.shared[1][p][1] ELSE values[p]])
             THEN values ELSE Refused

\* config_json_parse
Parsed(t) ==
    IF t.version # <<1>> \/ Len(t.shared) # 1 \/ Len(t.sets) # 1 THEN Refused
    ELSE IF Parameters(t.shared[1], Shared) = Refused THEN Refused
    ELSE LET good == {n \in Numbers : Numbered(t, n) # {} /\ SetOf(t, n) # Refused}
         IN  IF good = {} THEN Refused
             ELSE [shared |-> Parameters(t.shared[1], Shared),
                   sets |-> [n \in good |-> SetOf(t, n)]]

Once(c) == [p \in DOMAIN c |-> <<c[p]>>]

\* config_json_write, of the sorted sets
Written(coll) ==
    LET numbers == Sorted(DOMAIN coll.sets)
    IN  [version |-> <<1>>, shared |-> <<Once(coll.shared)>>,
         sets |-> <<[i \in DOMAIN numbers |->
                       [number |-> <<numbers[i]>>, own |-> <<Once(coll.sets[numbers[i]])>>]]>>]
=============================================================================
