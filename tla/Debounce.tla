-------------------------------- MODULE Debounce --------------------------------
(***************************************************************************)
(* One switch read every sample period (domain/system_policy.c:            *)
(* system_policy_debounce): a level counts once it has been read unchanged *)
(* for DebounceSteps periods.  The times are counted in such periods.      *)
(***************************************************************************)
EXTENDS Naturals

CONSTANTS
    DebounceSteps,    \* SYSTEM_POLICY_SWITCH_DEBOUNCE_MS in sample periods
    HoldSteps,        \* SYSTEM_POLICY_POWER_OFF_HOLD_MS and POWER_ON_HOLD_MS
    SkipSteps         \* SYSTEM_POLICY_IMU_SKIP_HOLD_MS

ASSUME DebounceStepsAssumption == DebounceSteps \in Nat \ {0}
ASSUME HoldStepsAssumption == HoldSteps \in Nat \ {0}
ASSUME SkipStepsAssumption == SkipSteps \in Nat \ {0}

Buttons == [cand : BOOLEAN, stable : BOOLEAN, valid : BOOLEAN, steady : 0 .. DebounceSteps]

\* A new button: the level being timed and the level reported meanwhile.
Fresh(cand, stable) == [cand |-> cand, stable |-> stable, valid |-> FALSE, steady |-> 0]

\* Mutant of Debounced: a bounce does not start the time anew.
DebouncedNoRestart(b, pressed) ==
    LET t == IF b.steady < DebounceSteps THEN b.steady + 1 ELSE b.steady
    IN  [cand |-> pressed, steady |-> t, valid |-> b.valid \/ t = DebounceSteps,
         stable |-> IF t = DebounceSteps THEN pressed ELSE b.stable]

Debounced(b, pressed) ==
    LET t == IF b.steady < DebounceSteps THEN b.steady + 1 ELSE b.steady
    IN  IF pressed # b.cand THEN [b EXCEPT !.cand = pressed, !.steady = 0]
        ELSE [b EXCEPT !.steady = t,
                       !.valid = @ \/ t = DebounceSteps,
                       !.stable = IF t = DebounceSteps THEN b.cand ELSE @]
=============================================================================
