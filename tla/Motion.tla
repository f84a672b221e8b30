--------------------------------- MODULE Motion ---------------------------------
(***************************************************************************)
(* Flying or standing still, and the power-off after standing still for    *)
(* the configured time: domain/flight_state.c and domain/auto_power_off.c  *)
(* as the system worker drives them every round (app/app_workers.c).       *)
(*                                                                         *)
(* A round is the unit of time.  An instant of the code (..._since_us) is  *)
(* kept as the rounds passed since, capped where the code stops telling    *)
(* values apart, or Never for its 0.  Left out: the display of evidence    *)
(* and elapsed times, and a clock that runs backwards, which esp_timer     *)
(* does not.  `window' and `rest' are history, taken from the inputs.      *)
(***************************************************************************)
EXTENDS Integers

CONSTANTS
    Altitudes,          \* altitudes of the estimator, integers
    Nowhere,            \* no fresh estimate
    Range,              \* FLIGHT_STATE_ALTITUDE_RANGE_M
    GpsConfirm,         \* FLIGHT_STATE_GPS_CONFIRM_US
    StationaryConfirm,  \* stationary_confirm_seconds
    Off                 \* auto_power_off_minutes, where it is not 0

ASSUME MotionAssumption ==
    /\ Altitudes \subseteq Int /\ Nowhere \notin Int /\ Range \in Nat
    /\ {GpsConfirm, StationaryConfirm, Off} \subseteq Nat \ {0}

Never == -1

VARIABLES
    state,      \* "UNKNOWN", "STATIONARY" or "FLYING"
    since,      \* state_since_us
    candidate,  \* stationary_candidate_since_us; Never is ~stationary_tracking
    low, high,  \* altitude_minimum_m, altitude_maximum_m
    flew,       \* flight_condition_active
    gpsSince,   \* gps_high_speed_since_us
    updates,    \* gps_high_speed_updates; 0 is ~gps_sequence_valid
    minutes,    \* the configured auto_power_off_minutes: 0 or Off
    started,    \* started_us of the power-off; Never is ~tracking
    blocked,    \* blocked_stationary_since_us
    triggered,
    asks,       \* what auto_power_off_update has returned
    window,     \* history: the altitude of the last rounds, see Remember
    rest        \* history: rounds at rest without a break

detector == <<state, since, candidate, low, high, flew, gpsSince, updates>>
timer == <<minutes, started, blocked, triggered, asks>>
motionVars == <<detector, timer, window, rest>>

Last == StationaryConfirm + Off + 1
Later(age) == IF age = Never \/ age = Last THEN age ELSE age + 1
Most(a, b) == IF a > b THEN a ELSE b
Least(a, b) == IF a < b THEN a ELSE b

-----------------------------------------------------------------------------
(* flight_state.c                                                          *)

ResetDetector ==
    /\ state' = "UNKNOWN" /\ since' = Never /\ candidate' = Never
    /\ low' = 0 /\ high' = 0 /\ flew' = FALSE /\ gpsSince' = Never /\ updates' = 0

\* update_gps_evidence
UpdateGps(gps, new) ==
    IF gps # "fast" THEN gpsSince' = Never /\ updates' = 0
    ELSE /\ gpsSince' = IF gpsSince = Never THEN 0 ELSE Later(gpsSince)
         /\ updates' = IF updates = 0 \/ new THEN Least(updates + 1, 2) ELSE updates

Fast == gpsSince' # Never /\ (updates' = 2 \/ gpsSince' >= GpsConfirm)
Pending == gpsSince' # Never /\ ~Fast

SetState(s) == state' = s /\ since' = IF s = state THEN Later(since) ELSE 0
StartCandidate(alt) == candidate' = 0 /\ low' = alt /\ high' = alt
ClearCandidate == candidate' = Never /\ low' = 0 /\ high' = 0

\* update_altitude_range: the range since the candidate began has grown too big.
Moved(alt) == candidate # Never /\ Most(high, alt) - Least(low, alt) > Range

\* Mutant of Quiet: a candidate left over from the flight goes on.
QuietGoesOn(alt) ==
    /\ IF candidate = Never THEN StartCandidate(alt)
       ELSE candidate' = Later(candidate) /\ low' = Least(low, alt) /\ high' = Most(high, alt)
    /\ flew' = FALSE
    /\ SetState(IF candidate' >= StationaryConfirm THEN "STATIONARY"
                ELSE IF state = "FLYING" THEN state ELSE "UNKNOWN")

\* No evidence of a flight, and the estimator is fresh.
Quiet(alt) ==
    /\ IF flew \/ candidate = Never THEN StartCandidate(alt)
       ELSE candidate' = Later(candidate) /\ low' = Least(low, alt) /\ high' = Most(high, alt)
    /\ flew' = FALSE
    /\ SetState(IF candidate' >= StationaryConfirm THEN "STATIONARY"
                ELSE IF state = "FLYING" THEN state ELSE "UNKNOWN")

\* flight_state_update: alt is Nowhere if there is no fresh estimate.
UpdateDetector(alt, gps, new) ==
    /\ UpdateGps(gps, new)
    /\ LET used == alt # Nowhere
           evidence == Fast \/ (used /\ Moved(alt))
       IN  \/ /\ evidence
              /\ IF used THEN StartCandidate(alt) ELSE ClearCandidate
              /\ flew' = TRUE /\ SetState("FLYING")
           \/ /\ ~evidence /\ (~used \/ Pending)
              /\ ClearCandidate /\ flew' = FALSE /\ SetState("UNKNOWN")
           \/ ~evidence /\ used /\ ~Pending /\ Quiet(alt)

-----------------------------------------------------------------------------
(* auto_power_off.c                                                        *)

ResetTimer == started' = Never /\ blocked' = Never /\ triggered' = FALSE /\ asks' = FALSE

\* external: external power or a write session of the host.
HeldBack ==
    /\ started' = Never /\ triggered' = FALSE /\ asks' = FALSE
    /\ blocked' = IF state' = "STATIONARY" THEN since' ELSE Never

\* Mutant of Counts: the time spent on external power counts.
CountsAll ==
    LET from == IF started = Never THEN since' ELSE Least(Later(started), since')
        old == triggered /\ started # Never
    IN  /\ started' = from /\ blocked' = Never
        /\ asks' = (~old /\ from >= Off) /\ triggered' = (old \/ from >= Off)

\* Where the count starts: with the stationary state, or now, if the device was
\* held back in that very state.
Counts ==
    LET from == IF started = Never THEN IF Later(blocked) = since' THEN 0 ELSE since'
                ELSE Least(Later(started), since')
        old == triggered /\ started # Never /\ Later(started) <= since'
    IN  /\ started' = from /\ blocked' = Never
        /\ asks' = (~old /\ from >= Off) /\ triggered' = (old \/ from >= Off)

\* auto_power_off_update
UpdateTimer(external) ==
    \/ external /\ HeldBack
    \/ ~external /\ (minutes = 0 \/ state' # "STATIONARY") /\ ResetTimer
    \/ ~external /\ minutes # 0 /\ state' = "STATIONARY" /\ Counts

-----------------------------------------------------------------------------
(* The system worker                                                       *)

\* window[i] is the altitude i rounds ago, if there was no doubt in that round.
Rounds == 0 .. StationaryConfirm
Remember(entry) == window' = [i \in Rounds |-> IF i = 0 THEN entry ELSE window[i - 1]]
Blank == [i \in Rounds |-> Nowhere]

\* What GPS says: system_gps_speed_available, and the speed against the
\* threshold.
GpsInputs == {"none", "slow", "fast"}

\* One round.
MotionRound ==
    \E alt \in Altitudes \cup {Nowhere}, gps \in GpsInputs, new, external \in BOOLEAN :
        /\ UpdateDetector(alt, gps, new)
        /\ UpdateTimer(external)
        /\ Remember(IF gps = "fast" THEN Nowhere ELSE alt)
        /\ rest' = IF state' = "STATIONARY" /\ ~external THEN Least(rest + 1, Off + 2) ELSE 0
        /\ UNCHANGED minutes

\* A round that finds another revision of the configuration begins anew.
Reconfigured ==
    \E alt \in Altitudes \cup {Nowhere}, gps \in GpsInputs, m \in {0, Off} :
        /\ minutes' = m /\ ResetTimer
        /\ \/ /\ gps = "fast" /\ gpsSince' = 0 /\ updates' = 1
           \/ /\ gps # "fast" /\ gpsSince' = Never /\ updates' = 0
        /\ state' = "UNKNOWN" /\ since' = Never /\ flew' = FALSE
        /\ IF alt # Nowhere /\ gps # "fast" THEN StartCandidate(alt) ELSE ClearCandidate
        /\ window' = [Blank EXCEPT ![0] = IF gps = "fast" THEN Nowhere ELSE alt] /\ rest' = 0

\* The configuration cannot be read in this round.
Unreadable == ResetDetector /\ ResetTimer /\ window' = Blank /\ rest' = 0 /\ UNCHANGED minutes

MotionInit ==
    /\ state = "UNKNOWN" /\ since = Never /\ candidate = Never /\ low = 0 /\ high = 0
    /\ flew = FALSE /\ gpsSince = Never /\ updates = 0
    /\ minutes \in {0, Off} /\ started = Never /\ blocked = Never
    /\ triggered = FALSE /\ asks = FALSE
    /\ window = Blank /\ rest = 0

MotionNext == MotionRound \/ Reconfigured \/ Unreadable

MotionSpec == MotionInit /\ [][MotionNext]_motionVars

-----------------------------------------------------------------------------
(* Properties                                                              *)

\* STATIONARY is said only after the whole confirmation time with fresh
\* estimates, without a fast GPS reading and within the altitude range; what was
\* counted before a doubt, a flight or a new configuration does not count.
StationaryMeant ==
    state = "STATIONARY" =>
        \A i, j \in Rounds :
            /\ window[i] # Nowhere /\ window[j] # Nowhere
            /\ window[i] - window[j] <= Range

\* The automatic power-off is asked for once, in the very round that completes
\* the configured time of standing still without external power or a write
\* session; a charger plugged in meanwhile starts the time anew.
OffExactly == asks <=> minutes # 0 /\ rest = Off + 1
=============================================================================
