------------------------------ MODULE SystemPolicyProofs ------------------------------
(***************************************************************************)
(* Proofs about what the system worker decides: by itself (Motion), for    *)
(* every set of altitudes and all confirmation and power-off times, and    *)
(* on account of the switches (Switches), for all debounce and hold times. *)
(*                                                                         *)
(* STATIONARY follows from a candidate's age, and the power-off from the   *)
(* age of its count.  The invariant says what each age is worth: the       *)
(* rounds since a candidate began are known to be quiet (Observed), and a  *)
(* count is as old as the rest without a break (Counted).                  *)
(*                                                                         *)
(* A press follows from the debounced state and the hold time.  KeyInv     *)
(* says what each is worth in levels read at the pin.  PressInv says what  *)
(* a press may still do, LightInv where light sleep is permitted.          *)
(***************************************************************************)
EXTENDS Motion, Switches, TLAPS

Ages == {Never} \cup 0 .. Last

TypeOK ==
    /\ state \in {"UNKNOWN", "STATIONARY", "FLYING"}
    /\ since \in Ages /\ candidate \in Ages /\ gpsSince \in Ages
    /\ low \in Int /\ high \in Int /\ flew \in BOOLEAN
    /\ minutes \in {0, Off} /\ started \in Ages /\ blocked \in Ages
    /\ triggered \in BOOLEAN /\ asks \in BOOLEAN
    /\ window \in [Rounds -> Altitudes \cup {Nowhere}]
    /\ rest \in 0 .. Off + 2

\* A candidate that did not begin in flight has watched every round since.
Observed ==
    ~flew /\ candidate # Never =>
        /\ high - low <= Range
        /\ \A i \in Rounds :
            i <= candidate => window[i] # Nowhere /\ low <= window[i] /\ window[i] <= high

Landed == state = "STATIONARY" => ~flew /\ candidate >= StationaryConfirm /\ since # Never

\* The count and what it has asked for follow the rest; a count that is held
\* back remembers the stationary state it belongs to.
Counted ==
    /\ rest > 0 => state = "STATIONARY"
    /\ rest > 0 /\ minutes # 0 =>
        /\ started # Never /\ started <= since /\ rest = Least(started + 1, Off + 2)
        /\ triggered = (rest >= Off + 1)
    /\ rest = 0 \/ minutes = 0 => started = Never
    /\ rest = 0 /\ minutes # 0 /\ state = "STATIONARY" => blocked = since
    /\ blocked # Never => state = "STATIONARY" /\ blocked = since

Inv == TypeOK /\ Observed /\ Landed /\ Counted /\ OffExactly

USE MotionAssumption DEF Never

\* Ages grow by one round and stop at Last.
LEMMA LaterFacts ==
  ASSUME NEW age \in Ages
  PROVE  /\ Later(age) \in Ages
         /\ Later(age) = Never <=> age = Never
         /\ age # Never => Later(age) = Least(age + 1, Last)
<1> QED BY DEF Ages, Later, Least, Last

LEMMA InitInv == MotionInit => Inv
<1> SUFFICES ASSUME MotionInit PROVE Inv
  OBVIOUS
<1>1. TypeOK
  <2>1. Never \in Ages /\ window \in [Rounds -> Altitudes \cup {Nowhere}]
    BY DEF MotionInit, Ages, Blank
  <2>2. rest \in 0 .. Off + 2 /\ minutes \in {0, Off}
    BY DEF MotionInit
  <2>3. flew \in BOOLEAN /\ triggered \in BOOLEAN /\ asks \in BOOLEAN
    BY DEF MotionInit
  <2>4. state = "UNKNOWN" /\ since = Never /\ candidate = Never /\ gpsSince = Never
        /\ low = 0 /\ high = 0 /\ started = Never /\ blocked = Never
    BY DEF MotionInit
  <2>5. 0 \in Int
    OBVIOUS
  <2> QED BY <2>1, <2>2, <2>3, <2>4, <2>5, Zenon DEF TypeOK
<1>2. Observed /\ Landed /\ Counted /\ OffExactly
  BY DEF MotionInit, Observed, Landed, Counted, OffExactly
<1> QED BY <1>1, <1>2 DEF Inv

-----------------------------------------------------------------------------
(* The detector                                                            *)

\* A fast reading is evidence, or pending evidence, of a flight.
LEMMA FastReading ==
  ASSUME TypeOK, NEW gps \in GpsInputs, NEW new \in BOOLEAN, UpdateGps(gps, new)
  PROVE  gpsSince' \in Ages /\ (gps = "fast" => Fast \/ Pending)
<1>1. CASE gps = "fast"
  <2>1. gpsSince' = IF gpsSince = Never THEN 0 ELSE Later(gpsSince)
    BY <1>1 DEF UpdateGps
  <2>2. gpsSince' \in Ages /\ gpsSince' # Never
    BY <2>1, LaterFacts DEF TypeOK, Ages, Last
  <2> QED BY <2>2 DEF Pending
<1>2. CASE gps # "fast"
  BY <1>2 DEF UpdateGps, Ages
<1> QED BY <1>1, <1>2

\* The age of the state: it grows while the state stays and is new otherwise.
LEMMA SetStateFacts ==
  ASSUME TypeOK, NEW new, SetState(new)
  PROVE  /\ state' = new /\ since' \in Ages
         /\ new = state => since' = Later(since)
         /\ new # state => since' = 0
<1> QED BY LaterFacts DEF SetState, TypeOK, Ages, Last

\* What a round in which nothing is moving does to the candidate.
LEMMA QuietObserves ==
  ASSUME Inv, NEW alt \in Altitudes, Quiet(alt), ~Moved(alt), Remember(alt)
  PROVE  /\ candidate' \in Ages /\ low' \in Int /\ high' \in Int /\ flew' = FALSE
         /\ Observed'
<1>1. /\ alt \in Int /\ alt # Nowhere /\ flew' = FALSE
      /\ \A i \in Rounds : window'[i] = IF i = 0 THEN alt ELSE window[i - 1]
  BY DEF Quiet, Remember, SetState
<1>2. CASE flew \/ candidate = Never
  <2>1. candidate' = 0 /\ low' = alt /\ high' = alt
    BY <1>2 DEF Quiet, StartCandidate
  <2>2. \A i \in Rounds : i <= candidate' => window'[i] = alt
    BY <1>1, <2>1 DEF Rounds
  <2> QED BY <1>1, <2>1, <2>2 DEF Observed, Ages, Last
<1>3. CASE ~flew /\ candidate # Never
  <2>1. candidate' = Later(candidate) /\ low' = Least(low, alt) /\ high' = Most(high, alt)
    BY <1>3 DEF Quiet
  <2>2. /\ candidate' \in Ages /\ candidate' <= candidate + 1
        /\ low' \in Int /\ low' <= low /\ low' <= alt
        /\ high' \in Int /\ high <= high' /\ alt <= high'
    BY <1>1, <1>3, <2>1, LaterFacts DEF Inv, TypeOK, Ages, Least, Most, Last
  <2>3. high' - low' <= Range
    BY <1>3, <2>1 DEF Moved, Inv, TypeOK, Most, Least
  <2>4. ASSUME NEW i \in Rounds, i <= candidate'
        PROVE  window'[i] # Nowhere /\ low' <= window'[i] /\ window'[i] <= high'
    <3>1. CASE i = 0
      BY <1>1, <2>2, <3>1
    <3>2. CASE i # 0
      <4>1. i - 1 \in Rounds /\ i - 1 <= candidate /\ window'[i] = window[i - 1]
        BY <1>1, <1>3, <2>2, <2>4, <3>2 DEF Rounds, Inv, TypeOK, Ages
      <4>2. window[i - 1] # Nowhere /\ low <= window[i - 1] /\ window[i - 1] <= high
        BY <1>3, <4>1 DEF Inv, Observed
      <4>3. window[i - 1] \in Int
        BY <4>1, <4>2 DEF Inv, TypeOK
      <4> QED BY <2>2, <4>1, <4>2, <4>3 DEF Inv, TypeOK
    <3> QED BY <3>1, <3>2
  <2> QED BY <1>1, <2>2, <2>3, <2>4 DEF Observed
<1> QED BY <1>2, <1>3

\* One update of the detector keeps what is known of the candidate.
LEMMA DetectorStep ==
  ASSUME Inv, NEW alt \in Altitudes \cup {Nowhere}, NEW gps \in GpsInputs, NEW new \in BOOLEAN,
         UpdateDetector(alt, gps, new), Remember(IF gps = "fast" THEN Nowhere ELSE alt)
  PROVE  /\ state' \in {"UNKNOWN", "STATIONARY", "FLYING"}
         /\ since' \in Ages /\ candidate' \in Ages /\ gpsSince' \in Ages
         /\ low' \in Int /\ high' \in Int /\ flew' \in BOOLEAN
         /\ window' \in [Rounds -> Altitudes \cup {Nowhere}]
         /\ Observed' /\ Landed'
         /\ state' = "STATIONARY" /\ state = "STATIONARY" => since' = Later(since)
         /\ state' = "STATIONARY" /\ state # "STATIONARY" => since' = 0
<1> DEFINE used == alt # Nowhere
           evidence == Fast \/ (used /\ Moved(alt))
<1>1. gpsSince' \in Ages /\ (gps = "fast" => Fast \/ Pending)
  BY FastReading DEF UpdateDetector, Inv
<1>2. window' \in [Rounds -> Altitudes \cup {Nowhere}]
  BY DEF Remember, Rounds, Inv, TypeOK
<1>3. used => alt \in Int
  OBVIOUS
<1>4. CASE evidence
  <2>1. /\ IF used THEN StartCandidate(alt) ELSE ClearCandidate
        /\ flew' = TRUE /\ SetState("FLYING")
    BY <1>4 DEF UpdateDetector
  <2>2. state' = "FLYING" /\ since' \in Ages
    BY <2>1, SetStateFacts DEF Inv
  <2>3. candidate' \in Ages /\ low' \in Int /\ high' \in Int
    BY <1>3, <2>1 DEF StartCandidate, ClearCandidate, Ages, Last
  <2> QED BY <1>1, <1>2, <2>1, <2>2, <2>3 DEF Observed, Landed
<1>5. CASE ~evidence /\ (~used \/ Pending)
  <2>1. ClearCandidate /\ flew' = FALSE /\ SetState("UNKNOWN")
    BY <1>5 DEF UpdateDetector
  <2>2. state' = "UNKNOWN" /\ since' \in Ages
    BY <2>1, SetStateFacts DEF Inv
  <2>3. candidate' = Never /\ candidate' \in Ages /\ low' \in Int /\ high' \in Int
    BY <2>1 DEF ClearCandidate, Ages
  <2> QED BY <1>1, <1>2, <2>1, <2>2, <2>3 DEF Observed, Landed
<1>6. CASE ~evidence /\ used /\ ~Pending
  <2>1. Quiet(alt) /\ alt \in Altitudes /\ ~Moved(alt) /\ Remember(alt)
    BY <1>1, <1>6 DEF UpdateDetector
  <2>2. /\ candidate' \in Ages /\ low' \in Int /\ high' \in Int /\ flew' = FALSE
        /\ Observed'
    BY <2>1, QuietObserves
  <2> DEFINE told == IF candidate' >= StationaryConfirm THEN "STATIONARY"
                     ELSE IF state = "FLYING" THEN state ELSE "UNKNOWN"
  <2>3. SetState(told)
    BY <2>1 DEF Quiet
  <2>4. /\ state' = told /\ since' \in Ages
        /\ told = state => since' = Later(since)
        /\ told # state => since' = 0
    BY <2>3, SetStateFacts DEF Inv
  <2>5. told \in {"UNKNOWN", "STATIONARY", "FLYING"}
    OBVIOUS
  <2>6. Landed'
    BY <2>2, <2>4, LaterFacts DEF Landed, Inv, TypeOK
  <2> QED BY <1>1, <1>2, <2>2, <2>4, <2>5, <2>6
<1> QED BY <1>4, <1>5, <1>6 DEF UpdateDetector

-----------------------------------------------------------------------------
(* The power-off                                                           *)

\* A count that begins is 0 rounds old, and one that goes on gets a round older.
LEMMA CountFacts ==
  ASSUME Inv, Landed', since' \in Ages, state' = "STATIONARY", minutes # 0, Counts,
         state = "STATIONARY" => since' = Later(since),
         state # "STATIONARY" => since' = 0,
         rest' = Least(rest + 1, Off + 2)
  PROVE  /\ started' \in 0 .. Last /\ started' <= since'
         /\ rest' = Least(started' + 1, Off + 2)
         /\ triggered' = (rest' >= Off + 1) /\ asks' = (rest' = Off + 1)
<1> DEFINE from == IF started = Never THEN IF Later(blocked) = since' THEN 0 ELSE since'
                   ELSE Least(Later(started), since')
           old == triggered /\ started # Never /\ Later(started) <= since'
<1>1. started' = from /\ asks' = (~old /\ from >= Off) /\ triggered' = (old \/ from >= Off)
  BY DEF Counts
<1>2. since' \in 0 .. Last /\ Off \in Nat \ {0} /\ rest \in 0 .. Off + 2
  BY DEF Landed, Ages, Inv, TypeOK
<1>3. CASE rest = 0
  <2>1. started = Never
    BY <1>3 DEF Inv, Counted
  <2>2. from = 0
    <3>1. CASE state = "STATIONARY"
      <4>1. blocked = since
        BY <1>3, <3>1 DEF Inv, Counted
      <4> QED BY <2>1, <3>1, <4>1
    <3>2. CASE state # "STATIONARY"
      BY <2>1, <3>2
    <3> QED BY <3>1, <3>2
  <2>3. ~old /\ ~(from >= Off)
    BY <1>2, <2>1, <2>2
  <2>4. started' = 0 /\ ~asks' /\ ~triggered' /\ asks' \in BOOLEAN /\ triggered' \in BOOLEAN
    BY <1>1, <2>2, <2>3
  <2>5. rest' = 1
    BY <1>2, <1>3 DEF Least
  <2>6. ~(rest' >= Off + 1) /\ ~(rest' = Off + 1) /\ rest' = Least(started' + 1, Off + 2)
    BY <1>2, <2>4, <2>5 DEF Least
  <2>7. started' \in 0 .. Last /\ started' <= since'
    BY <1>2, <2>4 DEF Last
  <2> QED BY <2>4, <2>6, <2>7
<1>4. CASE rest # 0
  <2>1. /\ state = "STATIONARY" /\ started \in 0 .. Last /\ since \in 0 .. Last
        /\ started <= since /\ rest = Least(started + 1, Off + 2)
        /\ triggered = (rest >= Off + 1)
    <3>1. state = "STATIONARY" /\ since \in 0 .. Last
      BY <1>2, <1>4 DEF Inv, Counted, Landed, TypeOK, Ages
    <3>2. /\ started # Never /\ started <= since /\ rest = Least(started + 1, Off + 2)
          /\ triggered = (rest >= Off + 1)
      BY <1>2, <1>4 DEF Inv, Counted
    <3>3. started \in 0 .. Last
      BY <3>2 DEF Inv, TypeOK, Ages
    <3> QED BY <3>1, <3>2, <3>3
  <2>2. Later(started) = Least(started + 1, Last) /\ since' = Least(since + 1, Last)
    BY <2>1, LaterFacts DEF Ages
  <2>3. Later(started) <= since' /\ Later(started) \in 0 .. Last
    BY <1>2, <2>1, <2>2 DEF Least, Last
  <2>4. from = Later(started) /\ old = triggered
    <3>1. started # Never
      BY <2>1
    <3>2. from = Least(Later(started), since')
      BY <3>1
    <3>3. from = Later(started)
      BY <1>2, <2>3, <3>2 DEF Least
    <3>4. old = triggered
      <4>1. triggered \in BOOLEAN
        BY DEF Inv, TypeOK
      <4> QED BY <2>3, <3>1, <4>1, Zenon
    <3> QED BY <3>3, <3>4
  <2>5. (rest >= Off + 1) = (started >= Off) /\ (from >= Off) = (started + 1 >= Off)
    BY <1>2, <2>1, <2>2, <2>4 DEF Least, Last
  <2>6. /\ (rest' >= Off + 1) = (started + 1 >= Off)
        /\ (rest' = Off + 1) = (started + 1 = Off)
        /\ rest' = Least(from + 1, Off + 2)
    BY <1>2, <2>1, <2>2, <2>4 DEF Least, Last
  <2>7. triggered' = (started >= Off \/ started + 1 >= Off)
    BY <1>1, <2>1, <2>4, <2>5
  <2>8. asks' = (~(started >= Off) /\ started + 1 >= Off)
    BY <1>1, <2>1, <2>4, <2>5
  <2>9. triggered' = (started + 1 >= Off) /\ asks' = (started + 1 = Off)
    BY <1>2, <2>1, <2>7, <2>8
  <2> QED BY <1>1, <2>3, <2>4, <2>6, <2>9
<1> QED BY <1>3, <1>4

\* One update of the timer keeps what is known of the count.
LEMMA TimerStep ==
  ASSUME Inv, NEW external \in BOOLEAN, Landed', since' \in Ages, minutes' = minutes,
         state' = "STATIONARY" /\ state = "STATIONARY" => since' = Later(since),
         state' = "STATIONARY" /\ state # "STATIONARY" => since' = 0,
         UpdateTimer(external),
         rest' = IF state' = "STATIONARY" /\ ~external THEN Least(rest + 1, Off + 2) ELSE 0
  PROVE  /\ started' \in Ages /\ blocked' \in Ages
         /\ triggered' \in BOOLEAN /\ asks' \in BOOLEAN /\ rest' \in 0 .. Off + 2
         /\ Counted' /\ OffExactly'
<1>1. rest \in 0 .. Off + 2 /\ Off \in Nat \ {0} /\ minutes \in {0, Off}
  BY DEF Inv, TypeOK
<1>2. rest' \in 0 .. Off + 2 /\ (rest' # 0 <=> state' = "STATIONARY" /\ ~external)
  BY <1>1 DEF Least
<1>3. CASE external
  <2>1. started' = Never /\ triggered' = FALSE /\ asks' = FALSE
    BY <1>3 DEF UpdateTimer, HeldBack
  <2>2. blocked' = IF state' = "STATIONARY" THEN since' ELSE Never
    BY <1>3 DEF UpdateTimer, HeldBack
  <2>3. rest' = 0
    BY <1>2, <1>3
  <2>4. blocked' \in Ages /\ started' \in Ages
    BY <2>1, <2>2 DEF Ages
  <2>5. Counted'
    BY <2>1, <2>2, <2>3 DEF Counted
  <2>6. OffExactly'
    BY <1>1, <2>1, <2>3 DEF OffExactly
  <2> QED BY <1>2, <2>1, <2>4, <2>5, <2>6
<1>4. CASE ~external /\ (minutes = 0 \/ state' # "STATIONARY")
  <2>1. started' = Never /\ blocked' = Never /\ triggered' = FALSE /\ asks' = FALSE
    BY <1>4 DEF UpdateTimer, ResetTimer
  <2>2. minutes' = 0 \/ (rest' = 0 /\ state' # "STATIONARY")
    BY <1>2, <1>4
  <2>3. started' \in Ages /\ blocked' \in Ages
    BY <2>1 DEF Ages
  <2>4. Counted'
    BY <1>2, <2>1, <2>2 DEF Counted
  <2>5. OffExactly'
    BY <1>1, <2>1, <2>2 DEF OffExactly
  <2> QED BY <1>2, <2>1, <2>3, <2>4, <2>5
<1>5. CASE ~external /\ minutes # 0 /\ state' = "STATIONARY"
  <2>1. Counts /\ blocked' = Never
    BY <1>5 DEF UpdateTimer, Counts
  <2>2. /\ started' \in 0 .. Last /\ started' <= since'
        /\ rest' = Least(started' + 1, Off + 2)
        /\ triggered' = (rest' >= Off + 1) /\ asks' = (rest' = Off + 1)
    BY <1>5, <2>1, CountFacts
  <2>3. rest' # 0 /\ started' # Never /\ minutes' # 0
    BY <1>2, <1>5, <2>2
  <2>4. Counted'
    BY <1>5, <2>1, <2>2, <2>3 DEF Counted
  <2>5. OffExactly'
    BY <2>2, <2>3 DEF OffExactly
  <2>6. started' \in Ages /\ blocked' \in Ages
    BY <2>1, <2>2 DEF Ages
  <2> QED BY <1>2, <2>2, <2>4, <2>5, <2>6
<1> QED BY <1>3, <1>4, <1>5

-----------------------------------------------------------------------------
(* The actions                                                             *)

LEMMA InvRound == Inv /\ MotionRound => Inv'
<1> SUFFICES ASSUME Inv, MotionRound PROVE Inv'
  OBVIOUS
<1>1. PICK alt \in Altitudes \cup {Nowhere}, gps \in GpsInputs, new, external \in BOOLEAN :
        /\ UpdateDetector(alt, gps, new)
        /\ UpdateTimer(external)
        /\ Remember(IF gps = "fast" THEN Nowhere ELSE alt)
        /\ rest' = IF state' = "STATIONARY" /\ ~external THEN Least(rest + 1, Off + 2) ELSE 0
        /\ UNCHANGED minutes
  BY DEF MotionRound
<1>2. /\ state' \in {"UNKNOWN", "STATIONARY", "FLYING"}
      /\ since' \in Ages /\ candidate' \in Ages /\ gpsSince' \in Ages
      /\ low' \in Int /\ high' \in Int /\ flew' \in BOOLEAN
      /\ window' \in [Rounds -> Altitudes \cup {Nowhere}]
      /\ Observed' /\ Landed'
      /\ state' = "STATIONARY" /\ state = "STATIONARY" => since' = Later(since)
      /\ state' = "STATIONARY" /\ state # "STATIONARY" => since' = 0
  BY <1>1, DetectorStep
<1>3. /\ started' \in Ages /\ blocked' \in Ages
      /\ triggered' \in BOOLEAN /\ asks' \in BOOLEAN /\ rest' \in 0 .. Off + 2
      /\ Counted' /\ OffExactly'
  BY <1>1, <1>2, TimerStep
<1>4. minutes' \in {0, Off}
  BY <1>1 DEF Inv, TypeOK
<1> QED BY <1>2, <1>3, <1>4, Zenon DEF Inv, TypeOK

\* A restart of the timer in a state without a verdict leaves nothing to count.
LEMMA Restarted ==
  ASSUME ResetTimer, state' = "UNKNOWN", rest' = 0
  PROVE  /\ started' \in Ages /\ blocked' \in Ages
         /\ triggered' \in BOOLEAN /\ asks' \in BOOLEAN /\ rest' \in 0 .. Off + 2
         /\ Landed' /\ Counted' /\ OffExactly'
<1>1. started' = Never /\ blocked' = Never /\ triggered' = FALSE /\ asks' = FALSE
  BY DEF ResetTimer
<1>2. started' \in Ages /\ blocked' \in Ages /\ rest' \in 0 .. Off + 2
  BY <1>1 DEF Ages
<1>3. Landed' /\ Counted'
  BY <1>1 DEF Landed, Counted
<1>4. OffExactly'
  BY <1>1 DEF OffExactly
<1> QED BY <1>1, <1>2, <1>3, <1>4

LEMMA InvReconfigured == Inv /\ Reconfigured => Inv'
<1> SUFFICES ASSUME Inv, Reconfigured PROVE Inv'
  OBVIOUS
<1>1. PICK alt \in Altitudes \cup {Nowhere}, gps \in GpsInputs, m \in {0, Off} :
        /\ minutes' = m /\ ResetTimer
        /\ \/ /\ gps = "fast" /\ gpsSince' = 0 /\ updates' = 1
           \/ /\ gps # "fast" /\ gpsSince' = Never /\ updates' = 0
        /\ state' = "UNKNOWN" /\ since' = Never /\ flew' = FALSE
        /\ IF alt # Nowhere /\ gps # "fast" THEN StartCandidate(alt) ELSE ClearCandidate
        /\ window' = [Blank EXCEPT ![0] = IF gps = "fast" THEN Nowhere ELSE alt] /\ rest' = 0
  BY DEF Reconfigured
<1>2. /\ started' \in Ages /\ blocked' \in Ages
      /\ triggered' \in BOOLEAN /\ asks' \in BOOLEAN /\ rest' \in 0 .. Off + 2
      /\ Landed' /\ Counted' /\ OffExactly'
  BY <1>1, Restarted
<1>3. since' \in Ages /\ gpsSince' \in Ages
  BY <1>1 DEF Ages, Last
<1>4. window' \in [Rounds -> Altitudes \cup {Nowhere}] /\ 0 \in Rounds
  BY <1>1 DEF Blank, Rounds
<1>5. candidate' \in Ages /\ low' \in Int /\ high' \in Int /\ Observed'
  <2>1. CASE alt # Nowhere /\ gps # "fast"
    <3>1. candidate' = 0 /\ low' = alt /\ high' = alt /\ alt \in Int
      BY <1>1, <2>1 DEF StartCandidate
    <3>2. window'[0] = alt
      BY <1>1, <1>4, <2>1 DEF Blank
    <3>3. Observed'
      BY <2>1, <3>1, <3>2 DEF Observed, Rounds
    <3> QED BY <3>1, <3>3 DEF Ages, Last
  <2>2. CASE ~(alt # Nowhere /\ gps # "fast")
    <3>1. candidate' = Never /\ low' = 0 /\ high' = 0
      BY <1>1, <2>2 DEF ClearCandidate
    <3> QED BY <3>1 DEF Observed, Ages
  <2> QED BY <2>1, <2>2
<1>6. state' \in {"UNKNOWN", "STATIONARY", "FLYING"} /\ flew' \in BOOLEAN /\ minutes' \in {0, Off}
  BY <1>1
<1> QED BY <1>2, <1>3, <1>4, <1>5, <1>6, Zenon DEF Inv, TypeOK

LEMMA InvUnreadable == Inv /\ Unreadable => Inv'
<1> SUFFICES ASSUME Inv, Unreadable PROVE Inv'
  OBVIOUS
<1>1. /\ state' = "UNKNOWN" /\ since' = Never /\ candidate' = Never /\ low' = 0 /\ high' = 0
      /\ flew' = FALSE /\ gpsSince' = Never /\ minutes' = minutes
      /\ window' = Blank /\ rest' = 0 /\ ResetTimer
  BY DEF Unreadable, ResetDetector
<1>2. /\ started' \in Ages /\ blocked' \in Ages
      /\ triggered' \in BOOLEAN /\ asks' \in BOOLEAN /\ rest' \in 0 .. Off + 2
      /\ Landed' /\ Counted' /\ OffExactly'
  BY <1>1, Restarted
<1>3. since' \in Ages /\ candidate' \in Ages /\ gpsSince' \in Ages
  BY <1>1 DEF Ages
<1>4. window' \in [Rounds -> Altitudes \cup {Nowhere}]
  BY <1>1 DEF Blank
<1>5. Observed'
  BY <1>1 DEF Observed
<1>6. state' \in {"UNKNOWN", "STATIONARY", "FLYING"} /\ flew' \in BOOLEAN
  BY <1>1
<1>7. low' \in Int /\ high' \in Int /\ minutes' \in {0, Off}
  BY <1>1 DEF Inv, TypeOK
<1> QED BY <1>7,  <1>2, <1>3, <1>4, <1>5, <1>6, Zenon DEF Inv, TypeOK

LEMMA InvNext == Inv /\ [MotionNext]_motionVars => Inv'
<1> SUFFICES ASSUME Inv, [MotionNext]_motionVars PROVE Inv'
  OBVIOUS
<1>1. CASE UNCHANGED motionVars
  BY <1>1 DEF motionVars, detector, timer, Inv, TypeOK, Observed, Landed, Counted, OffExactly
<1> QED BY <1>1, InvRound, InvReconfigured, InvUnreadable DEF MotionNext

\* The inductive invariant holds in every state a behaviour reaches.
THEOREM Invariance == MotionSpec => []Inv
<1> QED BY InitInv, InvNext, PTL DEF MotionSpec

\* STATIONARY is said only after the whole confirmation time of fresh estimates
\* within the altitude range and without a fast GPS reading (flight_state.c).
THEOREM StationaryIsMeant == MotionSpec => []StationaryMeant
<1>1. Inv => StationaryMeant
  <2> SUFFICES ASSUME Inv, state = "STATIONARY", NEW i \in Rounds, NEW j \in Rounds
               PROVE  /\ window[i] # Nowhere /\ window[j] # Nowhere
                      /\ window[i] - window[j] <= Range
    BY DEF StationaryMeant
  <2>1. ~flew /\ candidate # Never /\ i <= candidate /\ j <= candidate
    BY DEF Inv, Landed, TypeOK, Ages, Rounds
  <2>2. /\ high - low <= Range /\ window[i] # Nowhere /\ window[j] # Nowhere
        /\ window[i] <= high /\ low <= window[j]
    BY <2>1 DEF Inv, Observed
  <2>3. window[i] \in Int /\ window[j] \in Int /\ high \in Int /\ low \in Int
    BY <2>2 DEF Inv, TypeOK
  <2> QED BY <2>2, <2>3
<1> QED BY <1>1, Invariance, PTL

\* The power-off is asked for in exactly the round that completes the configured
\* time at rest, and not again before the rest is broken (auto_power_off.c).
THEOREM OffComesExactly == MotionSpec => []OffExactly
<1>1. Inv => OffExactly
  BY DEF Inv
<1> QED BY <1>1, Invariance, PTL

-----------------------------------------------------------------------------

(* The debounced switch                                                    *)

Histories == [level : BOOLEAN, run : 0 .. Longest, freed : BOOLEAN, held : 0 .. HoldSteps]
Judging == {"run", "powerOn", "fatal", "confirm", "qualify", "poll"}
SafeStop == {"wakeInit", "check", "letGo", "confirm", "arm", "await", "qualify", "poll"}
Places == {"boot", "stopping"} \cup Judging \cup SafeStop

KeyTypes ==
    /\ pc \in Places /\ level \in BOOLEAN /\ sw1 \in Buttons /\ past \in Histories
    /\ released \in BOOLEAN /\ hold \in Nat /\ act \in {"none", "volume", "off", "on"}

\* What a debounced level is worth in levels read: the one being timed was read
\* steadily, and a level that counts was there for the debounce time.
Tracks(b, q) ==
    /\ \/ q.run = 0 /\ b.steady = 0 /\ ~b.valid
       \/ q.run > 0 /\ q.level = b.cand /\ b.steady \in {q.run - 1, q.run}
    /\ b.valid /\ ~b.stable => q.freed
    /\ b.valid /\ b.stable => q.held > 0

\* A press counts after a release, and for no longer than it was read.
KeyCounts ==
    /\ pc \in Judging => Tracks(sw1, past)
    /\ pc \in Judging \ {"powerOn"} => hold <= past.held
    /\ pc \in {"fatal", "qualify", "poll"} => hold < HoldSteps
    /\ pc \in {"run", "fatal", "poll"} /\ released => past.freed
    /\ pc \in {"arm", "await", "qualify"} => past.freed

KeyInv == KeyTypes /\ KeyCounts /\ KeyMeant

USE DebounceStepsAssumption, HoldStepsAssumption, SkipStepsAssumption

LEMMA DebouncedFacts ==
  ASSUME NEW b \in Buttons, NEW pressed \in BOOLEAN
  PROVE  /\ Debounced(b, pressed) \in Buttons
         /\ Debounced(b, pressed).cand = pressed
         /\ pressed # b.cand => /\ Debounced(b, pressed).steady = 0
                                /\ Debounced(b, pressed).valid = b.valid
                                /\ Debounced(b, pressed).stable = b.stable
         /\ pressed = b.cand =>
              /\ Debounced(b, pressed).steady = IF b.steady < DebounceSteps THEN b.steady + 1 ELSE b.steady
              /\ Debounced(b, pressed).valid = (b.valid \/ Debounced(b, pressed).steady = DebounceSteps)
              /\ Debounced(b, pressed).stable =
                    IF Debounced(b, pressed).steady = DebounceSteps THEN pressed ELSE b.stable
<1> DEFINE t == IF b.steady < DebounceSteps THEN b.steady + 1 ELSE b.steady
           d == Debounced(b, pressed)
<1>1. t \in 0 .. DebounceSteps
  BY DEF Buttons
<1>2. CASE pressed # b.cand
  <2>1. d = [b EXCEPT !.cand = pressed, !.steady = 0]
    BY <1>2 DEF Debounced
  <2> HIDE DEF d, t
  <2>2. 0 \in 0 .. DebounceSteps
    OBVIOUS
  <2>3. d \in Buttons /\ d.cand = pressed /\ d.steady = 0 /\ d.valid = b.valid /\ d.stable = b.stable
    BY <2>1, <2>2 DEF Buttons
  <2> QED BY <1>2, <2>3 DEF d
<1>3. CASE pressed = b.cand
  <2> DEFINE v == b.valid \/ t = DebounceSteps
             s == IF t = DebounceSteps THEN b.cand ELSE b.stable
  <2>1. d = [b EXCEPT !.steady = t, !.valid = v, !.stable = s]
    BY <1>3 DEF Debounced
  <2>2. v \in BOOLEAN /\ s \in BOOLEAN
    BY DEF Buttons
  <2>3. t = (IF b.steady < DebounceSteps THEN b.steady + 1 ELSE b.steady)
    OBVIOUS
  <2> HIDE DEF d, t, v, s
  <2>4. d \in Buttons /\ d.cand = b.cand /\ d.steady = t /\ d.valid = v /\ d.stable = s
    BY <1>1, <2>1, <2>2 DEF Buttons
  <2> QED BY <1>3, <2>3, <2>4 DEF d, v, s
<1> QED BY <1>2, <1>3

LEMMA ReadsFacts ==
  ASSUME NEW q \in Histories, NEW pressed \in BOOLEAN
  PROVE  /\ Reads(q, pressed) \in Histories /\ Reads(q, pressed).level = pressed
         /\ Reads(q, pressed).run = IF pressed # q.level THEN 1
                                    ELSE IF q.run < Longest THEN q.run + 1 ELSE q.run
         /\ Reads(q, pressed).freed = (q.freed \/ (~pressed /\ Reads(q, pressed).run >= DebounceSteps))
         /\ Reads(q, pressed).held =
              IF ~pressed /\ Reads(q, pressed).run = Longest THEN 0
              ELSE IF q.held > 0 \/ (pressed /\ Reads(q, pressed).run >= DebounceSteps)
                   THEN IF q.held < HoldSteps THEN q.held + 1 ELSE q.held
                   ELSE 0
BY DEF Histories, Reads, Longest

\* One more level is read.
LEMMA JudgeFacts ==
  ASSUME NEW b \in Buttons, NEW q \in Histories, Tracks(b, q), NEW pressed \in BOOLEAN
  PROVE  /\ Tracks(Debounced(b, pressed), Reads(q, pressed))
         /\ q.freed => Reads(q, pressed).freed
         /\ Reads(q, pressed).held >= q.held
              \/ (Debounced(b, pressed).valid /\ ~Debounced(b, pressed).stable)
         /\ Debounced(b, pressed).valid /\ Debounced(b, pressed).stable =>
              Reads(q, pressed).held > q.held \/ Reads(q, pressed).held = HoldSteps
<1> DEFINE c == Debounced(b, pressed)
           r == Reads(q, pressed)
<1>1. /\ c \in Buttons /\ c.cand = pressed
      /\ pressed # b.cand => c.steady = 0 /\ c.valid = b.valid /\ c.stable = b.stable
      /\ pressed = b.cand =>
           /\ c.steady = IF b.steady < DebounceSteps THEN b.steady + 1 ELSE b.steady
           /\ c.valid = (b.valid \/ c.steady = DebounceSteps)
           /\ c.stable = IF c.steady = DebounceSteps THEN pressed ELSE b.stable
  BY DebouncedFacts
<1>2. /\ r \in Histories /\ r.level = pressed
      /\ r.run = IF pressed # q.level THEN 1 ELSE IF q.run < Longest THEN q.run + 1 ELSE q.run
      /\ r.freed = (q.freed \/ (~pressed /\ r.run >= DebounceSteps))
      /\ r.held = IF ~pressed /\ r.run = Longest THEN 0
                  ELSE IF q.held > 0 \/ (pressed /\ r.run >= DebounceSteps)
                       THEN IF q.held < HoldSteps THEN q.held + 1 ELSE q.held
                       ELSE 0
  BY ReadsFacts
<1> HIDE DEF c, r
<1>3. /\ b.cand \in BOOLEAN /\ b.stable \in BOOLEAN /\ b.valid \in BOOLEAN
      /\ c.stable \in BOOLEAN /\ c.valid \in BOOLEAN /\ q.level \in BOOLEAN
      /\ b.steady \in 0 .. DebounceSteps /\ c.steady \in 0 .. DebounceSteps
      /\ q.run \in 0 .. Longest /\ r.run \in 0 .. Longest
      /\ q.freed \in BOOLEAN /\ r.freed \in BOOLEAN
      /\ q.held \in 0 .. HoldSteps /\ r.held \in 0 .. HoldSteps
  BY <1>1, <1>2 DEF Buttons, Histories
<1>4. r.run > 0 /\ c.steady \in {r.run - 1, r.run}
  <2>1. CASE pressed # b.cand
    <3>1. r.run = 1
      BY <1>2, <1>3, <2>1 DEF Tracks, Longest
    <3> QED BY <1>1, <2>1, <3>1
  <2>2. CASE pressed = b.cand /\ q.run = 0
    <3>1. r.run = 1 /\ b.steady = 0
      BY <1>2, <1>3, <2>2 DEF Tracks, Longest
    <3> QED BY <1>1, <2>2, <3>1
  <2>3. CASE pressed = b.cand /\ q.run # 0
    <3>1. q.level = b.cand /\ b.steady \in {q.run - 1, q.run}
      BY <1>3, <2>3 DEF Tracks
    <3> QED BY <1>1, <1>2, <1>3, <2>3, <3>1 DEF Longest
  <2> QED BY <2>1, <2>2, <2>3
\* A level that counts anew has been read for the debounce time.
<1>5. c.steady = DebounceSteps => r.run >= DebounceSteps
  BY <1>3, <1>4
<1>6. c.valid # b.valid \/ c.stable # b.stable => c.steady = DebounceSteps /\ c.stable = pressed
  BY <1>1, <1>3
\* When the hold time is lost, the release has been seen.
<1>7. ~pressed /\ r.run = Longest => c.valid /\ ~c.stable
  <2> SUFFICES ASSUME ~pressed, r.run = Longest PROVE c.valid /\ ~c.stable
    OBVIOUS
  <2>1. c.steady = DebounceSteps
    BY <1>3, <1>4 DEF Longest
  <2>2. pressed = b.cand
    BY <1>1, <1>3, <2>1
  <2> QED BY <1>1, <2>1, <2>2
<1>8. c.valid /\ ~c.stable => r.freed
  BY <1>1, <1>2, <1>3, <1>5, <1>6 DEF Tracks
<1>9. c.valid /\ c.stable => r.held > q.held \/ r.held = HoldSteps
  <2> SUFFICES ASSUME c.valid, c.stable PROVE r.held > q.held \/ r.held = HoldSteps
    OBVIOUS
  <2>1. ~(~pressed /\ r.run = Longest)
    BY <1>7
  <2>2. q.held > 0 \/ (pressed /\ r.run >= DebounceSteps)
    <3>1. CASE b.valid /\ b.stable
      BY <3>1 DEF Tracks
    <3>2. CASE ~(b.valid /\ b.stable)
      BY <1>3, <1>5, <1>6, <3>2
    <3> QED BY <3>1, <3>2
  <2>3. r.held = IF q.held < HoldSteps THEN q.held + 1 ELSE q.held
    BY <1>2, <2>1, <2>2
  <2> QED BY <1>3, <2>3
<1>10. r.held >= q.held \/ (c.valid /\ ~c.stable)
  BY <1>2, <1>3, <1>7
<1>11. c.valid /\ c.stable => r.held > 0
  BY <1>3, <1>9
<1> QED BY <1>1, <1>2, <1>4, <1>8, <1>9, <1>10, <1>11 DEF Tracks, c, r

-----------------------------------------------------------------------------
(* What a press is worth                                                   *)

\* SW1 is read once by a step that judges it.
Judged == sw1' = Debounced(sw1, level) /\ past' = Reads(past, level) /\ level' = level

LEMMA JudgedFacts ==
  ASSUME KeyInv, pc \in Judging, Judged
  PROVE  /\ sw1' \in Buttons /\ past' \in Histories /\ Tracks(sw1', past') /\ level' \in BOOLEAN
         /\ sw1'.valid \in BOOLEAN /\ sw1'.stable \in BOOLEAN
         /\ past.freed => past'.freed
         /\ sw1'.valid /\ ~sw1'.stable => past'.freed
         /\ past'.held \in 0 .. HoldSteps /\ past.held \in 0 .. HoldSteps
         /\ past'.held >= past.held \/ (sw1'.valid /\ ~sw1'.stable)
         /\ sw1'.valid /\ sw1'.stable => past'.held > past.held \/ past'.held = HoldSteps
<1>1. sw1 \in Buttons /\ past \in Histories /\ Tracks(sw1, past) /\ level \in BOOLEAN
  BY DEF KeyInv, KeyTypes, KeyCounts
<1>2. sw1' \in Buttons /\ past' \in Histories
  BY <1>1, DebouncedFacts, ReadsFacts DEF Judged
<1>3. /\ Tracks(sw1', past') /\ (past.freed => past'.freed)
      /\ past'.held >= past.held \/ (sw1'.valid /\ ~sw1'.stable)
      /\ sw1'.valid /\ sw1'.stable => past'.held > past.held \/ past'.held = HoldSteps
  BY <1>1, JudgeFacts DEF Judged
<1> QED BY <1>1, <1>2, <1>3 DEF Tracks, Buttons, Histories, Judged

\* A button taken afresh, before a level is read.
LEMMA FreshTracks ==
  ASSUME NEW cand \in BOOLEAN, NEW stable \in BOOLEAN, NEW q \in Histories, q.run = 0
  PROVE  Fresh(cand, stable) \in Buttons /\ Tracks(Fresh(cand, stable), q)
BY DEF Fresh, Buttons, Tracks

LEMMA AnewFacts ==
  ASSUME NEW q \in Histories
  PROVE  /\ [q EXCEPT !.run = 0, !.held = 0] \in Histories
         /\ [q EXCEPT !.run = 0, !.held = 0].run = 0 /\ [q EXCEPT !.run = 0, !.held = 0].held = 0
         /\ [q EXCEPT !.run = 0, !.held = 0].freed = q.freed
<1> DEFINE r == [q EXCEPT !.run = 0, !.held = 0]
<1>1. 0 \in 0 .. Longest /\ 0 \in 0 .. HoldSteps
  BY DEF Longest
<1> HIDE DEF r
<1>2. r \in Histories /\ r.run = 0 /\ r.held = 0 /\ r.freed = q.freed
  BY <1>1 DEF Histories, r
<1> QED BY <1>2 DEF r

LEMMA UnreadFacts == Unread \in Histories /\ Unread.run = 0 /\ Unread.held = 0
BY DEF Unread, Histories, Longest

LEMMA InitKey == Init => KeyInv
<1> SUFFICES ASSUME Init PROVE KeyInv
  OBVIOUS
<1>1. sw1 \in Buttons
  BY DEF Init, Fresh, Buttons
<1>2. past \in Histories
  BY UnreadFacts DEF Init
<1> QED BY <1>1, <1>2 DEF Init, KeyInv, KeyTypes, KeyCounts, KeyMeant, Places, Judging

LEMMA RoundKey == KeyInv /\ Round => KeyInv'
<1> SUFFICES ASSUME KeyInv, Round PROVE KeyInv'
  OBVIOUS
<1> DEFINE h == Sw1Hold(sw1', sw1.stable)
           a == Sw1Act(sw1', sw1.stable, h)
<1>1. /\ pc = "run" /\ pc' \in {"stopping", "run"} /\ Judged /\ hold' = h /\ act' = a
      /\ released' = (released \/ (sw1'.valid /\ ~sw1'.stable))
  BY DEF Round, Sw1Step, Judged
<1>2. /\ sw1' \in Buttons /\ past' \in Histories /\ Tracks(sw1', past') /\ level' \in BOOLEAN
      /\ sw1'.valid \in BOOLEAN /\ sw1'.stable \in BOOLEAN
      /\ past.freed => past'.freed
      /\ sw1'.valid /\ ~sw1'.stable => past'.freed
      /\ past'.held \in 0 .. HoldSteps /\ past.held \in 0 .. HoldSteps
      /\ past'.held >= past.held \/ (sw1'.valid /\ ~sw1'.stable)
      /\ sw1'.valid /\ sw1'.stable => past'.held > past.held \/ past'.held = HoldSteps
  BY <1>1, JudgedFacts DEF Judging
<1>3. /\ hold \in Nat /\ hold <= past.held /\ released \in BOOLEAN /\ (released => past.freed)
      /\ pc \in Places
  BY <1>1 DEF KeyInv, KeyTypes, KeyCounts, Judging
<1>4. h \in Nat /\ h <= past'.held
  BY <1>2, <1>3 DEF Sw1Hold
<1>5. a \in {"none", "volume", "off", "on"} /\ (a = "off" => released /\ h >= HoldSteps) /\ a # "on"
  BY <1>2, <1>3 DEF Sw1Act
<1>6. KeyTypes'
  BY <1>1, <1>2, <1>3, <1>4, <1>5 DEF KeyTypes, Places
<1>7. KeyCounts'
  BY <1>1, <1>2, <1>3, <1>4 DEF KeyCounts
<1>8. KeyMeant'
  BY <1>1, <1>2, <1>3, <1>4, <1>5 DEF KeyMeant
<1> QED BY <1>6, <1>7, <1>8 DEF KeyInv

\* The other places where SW1 is judged: the hold time grows with a press that counts.
LEMMA JudgesKey ==
  ASSUME KeyInv, pc \in Judging, pc' \in Places, Judged,
         hold' \in Nat, released' \in BOOLEAN, act' \in {"none", "off", "on"},
         pc' \in Judging \ {"powerOn"} => pc # "powerOn" /\ hold' <= past'.held,
         pc' \in {"fatal", "qualify", "poll"} => hold' < HoldSteps,
         pc' \in {"run", "fatal", "poll"} /\ released' => past'.freed,
         pc' \in {"arm", "await", "qualify"} => past'.freed,
         act' # "none" => past'.freed /\ past'.held >= HoldSteps
  PROVE  KeyInv'
<1>1. sw1' \in Buttons /\ past' \in Histories /\ Tracks(sw1', past') /\ level' \in BOOLEAN
  BY JudgedFacts
<1> QED BY <1>1 DEF KeyInv, KeyTypes, KeyCounts, KeyMeant

LEMMA ConfirmKey == KeyInv /\ Confirm => KeyInv'
<1> SUFFICES ASSUME KeyInv, Confirm PROVE KeyInv'
  OBVIOUS
<1>1. /\ pc = "confirm" /\ Judged /\ hold' = 0 /\ act' = "none" /\ released' = released
      /\ pc' \in {"confirm", "check"} \/ (pc' = "arm" /\ sw1'.valid /\ ~sw1'.stable)
  BY DEF Confirm, Judges, Judged, SameWorker
<1>2. /\ sw1'.valid /\ ~sw1'.stable => past'.freed
      /\ past'.held \in 0 .. HoldSteps
  BY <1>1, JudgedFacts DEF Judging
<1>3. released \in BOOLEAN
  BY DEF KeyInv, KeyTypes
<1> QED BY <1>1, <1>2, <1>3, JudgesKey DEF Judging, Places, SafeStop

LEMMA QualifyKey == KeyInv /\ Qualify => KeyInv'
<1> SUFFICES ASSUME KeyInv, Qualify PROVE KeyInv'
  OBVIOUS
<1> DEFINE h == IF sw1'.valid /\ sw1'.stable THEN hold + 1 ELSE hold
           on == sw1'.valid /\ sw1'.stable /\ h >= HoldSteps
           gone == sw1'.valid /\ ~sw1'.stable
<1>1. /\ pc = "qualify" /\ Judged /\ hold' = h /\ act' = (IF on THEN "on" ELSE "none")
      /\ released' = released
      /\ (gone /\ pc' = "check") \/ (~gone /\ ~on /\ pc' = "qualify") \/ (on /\ pc' = "boot")
  BY DEF Qualify, Judges, Judged, SameWorker, Restart
<1>2. /\ past.freed => past'.freed
      /\ past'.held \in 0 .. HoldSteps /\ past.held \in 0 .. HoldSteps
      /\ past'.held >= past.held \/ (sw1'.valid /\ ~sw1'.stable)
      /\ sw1'.valid /\ sw1'.stable => past'.held > past.held \/ past'.held = HoldSteps
      /\ sw1'.valid \in BOOLEAN /\ sw1'.stable \in BOOLEAN
  BY <1>1, JudgedFacts DEF Judging
<1>3. /\ hold \in Nat /\ hold <= past.held /\ hold < HoldSteps /\ past.freed /\ released \in BOOLEAN
  BY <1>1 DEF KeyInv, KeyTypes, KeyCounts, Judging
<1>4. h \in Nat /\ (~gone => h <= past'.held) /\ (~on => h < HoldSteps)
  BY <1>2, <1>3
<1> QED BY <1>1, <1>2, <1>3, <1>4, JudgesKey DEF Judging, Places, SafeStop

LEMMA PollKey == KeyInv /\ Poll => KeyInv'
<1> SUFFICES ASSUME KeyInv, Poll PROVE KeyInv'
  OBVIOUS
<1> DEFINE active == sw1'.valid /\ sw1'.stable /\ released
           h == IF sw1'.valid /\ ~sw1'.stable THEN 0 ELSE IF active THEN hold + 1 ELSE hold
           on == active /\ h >= HoldSteps
<1>1. /\ pc = "poll" /\ Judged /\ hold' = h /\ act' = (IF on THEN "on" ELSE "none")
      /\ released' = (released \/ (sw1'.valid /\ ~sw1'.stable))
      /\ (on /\ pc' = "boot") \/ (~on /\ pc' = "poll")
  BY DEF Poll, Judges, Judged, Restart
<1>2. /\ past.freed => past'.freed
      /\ sw1'.valid /\ ~sw1'.stable => past'.freed
      /\ past'.held \in 0 .. HoldSteps /\ past.held \in 0 .. HoldSteps
      /\ past'.held >= past.held \/ (sw1'.valid /\ ~sw1'.stable)
      /\ sw1'.valid /\ sw1'.stable => past'.held > past.held \/ past'.held = HoldSteps
      /\ sw1'.valid \in BOOLEAN /\ sw1'.stable \in BOOLEAN
  BY <1>1, JudgedFacts DEF Judging
<1>3. /\ hold \in Nat /\ hold <= past.held /\ hold < HoldSteps /\ released \in BOOLEAN
      /\ released => past.freed
  BY <1>1 DEF KeyInv, KeyTypes, KeyCounts, Judging
<1>4. h \in Nat /\ h <= past'.held /\ (~on => h < HoldSteps)
  BY <1>2, <1>3
<1> QED BY <1>1, <1>2, <1>3, <1>4, JudgesKey DEF Judging, Places, SafeStop

LEMMA FatalKey == KeyInv /\ Fatal => KeyInv'
<1> SUFFICES ASSUME KeyInv, Fatal PROVE KeyInv'
  OBVIOUS
<1> DEFINE gone == sw1'.valid /\ ~sw1'.stable
           counts == sw1'.valid /\ sw1'.stable /\ released
           h == IF gone THEN 0 ELSE IF counts THEN hold + 1 ELSE hold
           over == (released \/ gone) /\ h >= HoldSteps
<1>1. /\ pc = "fatal" /\ Judged /\ hold' = h /\ act' = (IF over THEN "off" ELSE "none")
      /\ released' = (released \/ gone) /\ pc' = (IF over THEN "stopping" ELSE "fatal")
  BY DEF Fatal, Judges, Judged
<1>2. /\ past.freed => past'.freed
      /\ gone => past'.freed
      /\ past'.held \in 0 .. HoldSteps /\ past.held \in 0 .. HoldSteps
      /\ past'.held >= past.held \/ gone
      /\ sw1'.valid /\ sw1'.stable => past'.held > past.held \/ past'.held = HoldSteps
      /\ sw1'.valid \in BOOLEAN /\ sw1'.stable \in BOOLEAN
  BY <1>1, JudgedFacts DEF Judging
<1>3. /\ hold \in Nat /\ hold <= past.held /\ hold < HoldSteps /\ released \in BOOLEAN
      /\ released => past.freed
  BY <1>1 DEF KeyInv, KeyTypes, KeyCounts, Judging
<1>4. h \in Nat /\ h <= past'.held /\ (~over => h < HoldSteps)
  BY <1>2, <1>3
<1> QED BY <1>1, <1>2, <1>3, <1>4, JudgesKey DEF Judging, Places, SafeStop

\* system_policy_init or the fatal fallback begins to watch SW1.
LEMMA BeginsKey ==
  ASSUME KeyInv, pc' \in {"run", "fatal", "stopping", "powerOn"}, Begins(0), level' = level
  PROVE  KeyInv'
<1>1. /\ sw1' = Fresh(level, level) /\ hold' = 0 /\ act' = "none" /\ past' = Unread /\ released' = FALSE
      /\ level \in BOOLEAN
  BY DEF Begins, KeyInv, KeyTypes
<1>2. sw1' \in Buttons /\ Tracks(sw1', past') /\ past' \in Histories /\ past'.held = 0
  BY <1>1, UnreadFacts, FreshTracks
<1>3. KeyTypes'
  BY <1>1, <1>2 DEF KeyTypes, Places, Judging
<1>4. KeyCounts'
  BY <1>1, <1>2 DEF KeyCounts
<1>5. KeyMeant'
  BY <1>1 DEF KeyMeant
<1> QED BY <1>3, <1>4, <1>5 DEF KeyInv

LEMMA StartKey == KeyInv /\ (Boot \/ PowerOn) => KeyInv'
<1> SUFFICES ASSUME KeyInv, Boot \/ PowerOn PROVE KeyInv'
  OBVIOUS
<1>1. CASE pc' \in {"run", "fatal", "stopping", "powerOn"} /\ Begins(0) /\ level' = level
  BY <1>1, BeginsKey
<1> DEFINE h == IF sw1'.valid THEN hold + 1 ELSE hold
<1>2. CASE /\ pc = "powerOn" /\ pc' \in {"stopping", "powerOn"} /\ Judged
           /\ hold' \in {h, hold} /\ act' = "none" /\ released' = released
  <2>1. hold \in Nat /\ released \in BOOLEAN
    BY DEF KeyInv, KeyTypes
  <2> QED BY <1>2, <2>1, JudgesKey DEF Judging, Places
<1>3. Boot => pc' \in {"run", "fatal", "stopping", "powerOn"} /\ Begins(0) /\ level' = level
  BY DEF Boot, Starts
<1>4. PowerOn => \/ pc' \in {"run", "fatal", "stopping", "powerOn"} /\ Begins(0) /\ level' = level
                 \/ /\ pc = "powerOn" /\ pc' \in {"stopping", "powerOn"} /\ Judged
                    /\ hold' \in {h, hold} /\ act' = "none" /\ released' = released
  BY DEF PowerOn, Starts, Judges, Judged, SameWorker
<1> QED BY <1>1, <1>2, <1>3, <1>4

\* A wait for a level begins, and SW1 is judged from the next read on.
LEMMA AnewKey ==
  ASSUME KeyInv, pc' \in {"poll", "confirm", "qualify"}, level' = level,
         NEW cand \in BOOLEAN, NEW stable \in BOOLEAN, Anew(Fresh(cand, stable)),
         past' = [past EXCEPT !.run = 0, !.held = 0],
         released' \in BOOLEAN, pc' = "poll" => ~released', pc' = "qualify" => past.freed
  PROVE  KeyInv'
<1>1. /\ sw1' = Fresh(cand, stable) /\ hold' = 0 /\ act' = "none" /\ level' \in BOOLEAN
      /\ past \in Histories
  BY DEF Anew, KeyInv, KeyTypes
<1>2. past' \in Histories /\ past'.run = 0 /\ past'.held = 0 /\ past'.freed = past.freed
  BY <1>1, AnewFacts
<1>3. sw1' \in Buttons /\ Tracks(sw1', past')
  BY <1>1, <1>2, FreshTracks
<1> QED BY <1>1, <1>2, <1>3 DEF KeyInv, KeyTypes, KeyCounts, KeyMeant, Places, SafeStop

LEMMA WaitsKey ==
  ASSUME KeyInv, Polls \/ ConfirmRelease \/ Press
  PROVE  KeyInv'
<1>1. level \in BOOLEAN /\ released \in BOOLEAN
  BY DEF KeyInv, KeyTypes
<1>2. CASE Polls
  BY <1>1, <1>2, AnewKey DEF Polls
<1>3. CASE ConfirmRelease
  BY <1>1, <1>3, AnewKey DEF ConfirmRelease, SameWorker
<1>4. CASE Press
  <2>1. past.freed
    BY <1>4 DEF Press, KeyInv, KeyCounts
  <2> QED BY <1>1, <1>4, <2>1, AnewKey DEF Press, SameWorker
<1> QED BY <1>2, <1>3, <1>4

LEMMA EnterKey == KeyInv /\ EnterSafeStop => KeyInv'
<1> SUFFICES ASSUME KeyInv, EnterSafeStop PROVE KeyInv'
  OBVIOUS
<1>1. /\ pc' = "wakeInit" /\ sw1' = sw1 /\ hold' = 0 /\ act' = "none" /\ past' = Unread
      /\ released' = released /\ level' = level
  BY DEF EnterSafeStop, Anew, SameWorker
<1> QED BY <1>1, UnreadFacts DEF KeyInv, KeyTypes, KeyCounts, KeyMeant, Places, SafeStop,
    Judging

\* The level moves or is waited for, and nobody judges it.
LEMMA RestKey ==
  ASSUME KeyInv, UNCHANGED <<sw1, released, hold, act, past>>, level' \in BOOLEAN,
         \/ pc' = pc \/ pc' \in {"check", "letGo"}
         \/ pc' = "await" /\ pc = "arm"
  PROVE  KeyInv'
BY DEF KeyInv, KeyTypes, KeyCounts, KeyMeant, Places, SafeStop, Judging

LEMMA StepKey == KeyInv /\ [Next]_vars => KeyInv'
<1> SUFFICES ASSUME KeyInv, [Next]_vars PROVE KeyInv'
  OBVIOUS
<1>1. level \in BOOLEAN
  BY DEF KeyInv, KeyTypes
<1>2. CASE WakeInit \/ Check \/ Arm
  BY <1>1, <1>2, WaitsKey, RestKey DEF WakeInit, Check, Arm, Arms, keys
<1>3. CASE LetGo \/ Press
  BY <1>3, WaitsKey DEF LetGo
<1>4. CASE \/ WaitsOn("letGo", FALSE) \/ WaitsOn("await", TRUE)
            \/ Sw1WakeIsr \/ Sw1Moves \/ UNCHANGED vars
  BY <1>1, <1>4, RestKey DEF WaitsOn, Sw1WakeIsr, Sw1Moves, vars, keys
<1> QED
  BY <1>2, <1>3, <1>4, StartKey, RoundKey, FatalKey, EnterKey, ConfirmKey, QualifyKey, PollKey
  DEF Next, Task

\* The debounced state and the hold time are never worth more than was read.
THEOREM SwitchesInvariant == Spec => []KeyInv
BY InitKey, StepKey, PTL DEF Spec

\* SW1 turns the device off, and on again from SAFE_STOP, only after a release
\* for the debounce time and a press for the full hold time, whoever watches it
\* (system_policy_step, run_safe_stop_loop and the fatal fallback).
THEOREM PressesAreMeant == Spec => []KeyMeant
<1>1. KeyInv => KeyMeant
  BY DEF KeyInv
<1> QED BY <1>1, SwitchesInvariant, PTL

-----------------------------------------------------------------------------
(* One thing a press                                                       *)

Doings1 == {<<>>, <<"volume">>, <<"off">>}
Doings3 == {<<>>, <<"profile">>, <<"skip">>}

\* While a press lasts it has at most asked for the power-off, and then its
\* release changes no volume; what is pending for SW3 has not been done.
PressInv ==
    /\ did1 \in Doings1 /\ did3 \in Doings3 /\ short \in BOOLEAN /\ short3 \in BOOLEAN
    /\ pc = "run" /\ sw1.stable => did1 # <<"volume">> /\ (did1 = <<"off">> => ~short)
    /\ sw3.stable /\ short3 => did3 = <<>>

LEMMA Doings ==
  /\ <<>> # <<"volume">> /\ <<>> # <<"off">> /\ <<"off">> # <<"volume">>
  /\ <<>> # <<"profile">> /\ <<>> # <<"skip">>
  /\ \A d \in Doings1 \cup Doings3 : Len(d) <= 1
BY DEF Doings1, Doings3

LEMMA AddsFacts ==
  ASSUME NEW did, NEW before,
         NEW what \in {"none", "volume", "off", "profile", "skip"}
  PROVE  /\ what = "none" /\ before.stable => Adds(did, before, what) = did
         /\ what = "none" /\ ~before.stable => Adds(did, before, what) = <<>>
         /\ (what # "none" /\ (~before.stable \/ did = <<>>)) => Adds(did, before, what) = <<what>>
         /\ (what = "off" /\ did = <<"off">>) => Adds(did, before, what) = <<"off">>
<1> DEFINE old == IF before.stable THEN did ELSE <<>>
<1>1. Adds(did, before, what) =
        IF what = "none" \/ (what = "off" /\ old = <<"off">>) THEN old ELSE Append(old, what)
  BY DEF Adds
<1>2. Append(<<>>, what) = <<what>>
  OBVIOUS
<1>3. (before.stable => old = did) /\ (~before.stable => old = <<>>)
  OBVIOUS
<1> HIDE DEF old
<1>4. CASE what = "none"
  BY <1>1, <1>3, <1>4
<1>5. CASE what # "none" /\ (~before.stable \/ did = <<>>)
  <2>1. old = <<>> /\ old # <<"off">>
    BY <1>3, <1>5, Doings
  <2> QED BY <1>1, <1>2, <1>5, <2>1, Doings
<1>6. CASE what = "off" /\ did = <<"off">> /\ before.stable
  BY <1>1, <1>3, <1>6
<1> QED BY <1>4, <1>5, <1>6

LEMMA Round1Press == PressInv /\ Round =>
    /\ did1' \in Doings1 /\ short' \in BOOLEAN
    /\ (sw1'.stable => did1' # <<"volume">> /\ (did1' = <<"off">> => ~short'))
<1> SUFFICES ASSUME PressInv, Round
             PROVE  /\ did1' \in Doings1 /\ short' \in BOOLEAN
                    /\ sw1'.stable => did1' # <<"volume">> /\ (did1' = <<"off">> => ~short')
  OBVIOUS
<1> DEFINE b == Debounced(sw1, level)
           h == Sw1Hold(b, sw1.stable)
           a == Sw1Act(b, sw1.stable, h)
           begins == b.valid /\ b.stable /\ released /\ ~sw1.stable
<1>1. /\ pc = "run" /\ sw1' = b /\ did1' = Adds(did1, sw1, a)
      /\ short' = IF (b.valid /\ ~b.stable) \/ a = "off" THEN FALSE ELSE short \/ begins
  BY DEF Round, Sw1Step
<1>2. /\ a \in {"none", "volume", "off"} /\ (a = "off" => b.stable)
      /\ a = "volume" => b.valid /\ ~b.stable /\ short
  BY DEF Sw1Act
<1> HIDE DEF b, h, a
<1>3. /\ did1 \in Doings1 /\ short \in BOOLEAN
      /\ sw1.stable => did1 # <<"volume">> /\ (did1 = <<"off">> => ~short)
  BY <1>1 DEF PressInv
<1>4. short' \in BOOLEAN
  BY <1>1, <1>3
<1>5. CASE a = "none"
  <2>1. CASE sw1.stable
    <3>1. did1' = did1
      BY <1>1, <1>2, <1>5, <2>1, AddsFacts
    <3>2. short' => short
      BY <1>1, <1>3, <2>1
    <3> QED BY <1>3, <1>4, <2>1, <3>1, <3>2
  <2>2. CASE ~sw1.stable
    <3>1. did1' = <<>>
      BY <1>1, <1>2, <1>5, <2>2, AddsFacts
    <3> QED BY <1>4, <3>1, Doings DEF Doings1
  <2> QED BY <2>1, <2>2
<1>6. CASE a = "volume"
  <2>1. ~sw1.stable \/ did1 = <<>>
    BY <1>2, <1>3, <1>6 DEF Doings1
  <2>2. did1' = <<"volume">>
    BY <1>1, <1>2, <1>6, <2>1, AddsFacts
  <2> QED BY <1>1, <1>2, <1>4, <1>6, <2>2 DEF Doings1
<1>7. CASE a = "off"
  <2>1. ~sw1.stable \/ did1 = <<>> \/ did1 = <<"off">>
    BY <1>3 DEF Doings1
  <2>2. did1' = <<"off">> /\ ~short'
    BY <1>1, <1>2, <1>7, <2>1, AddsFacts
  <2> QED BY <1>4, <2>2 DEF Doings1
<1> QED BY <1>2, <1>5, <1>6, <1>7

LEMMA Round3Press == PressInv /\ Round =>
    did3' \in Doings3 /\ short3' \in BOOLEAN /\ (sw3'.stable /\ short3' => did3' = <<>>)
<1> SUFFICES ASSUME PressInv, NEW pressed \in BOOLEAN, NEW required \in BOOLEAN,
                    Sw3Step(pressed, required)
             PROVE  did3' \in Doings3 /\ short3' \in BOOLEAN /\ (sw3'.stable /\ short3' => did3' = <<>>)
  BY DEF Round
<1> DEFINE b == Debounced(sw3, pressed)
           down == b.valid /\ b.stable
           begins == down /\ ~sw3.stable
           ends == b.valid /\ ~b.stable /\ sw3.stable
           pending == IF begins THEN required ELSE short3
           counts == down /\ required /\ pending /\ (begins \/ ~skip3)
           h == IF begins THEN 1 ELSE hold3 + 1
           skips == counts /\ h >= SkipSteps
           what == IF skips THEN "skip"
                   ELSE IF (begins /\ ~required) \/ (ends /\ short3 /\ ~skip3) THEN "profile" ELSE "none"
<1>1. /\ sw3' = b /\ short3' = (~ends /\ pending /\ ~skips)
      /\ did3' = Adds(did3, sw3, what)
  BY DEF Sw3Step
<1> HIDE DEF b, h
<1>2. did3 \in Doings3 /\ short3 \in BOOLEAN /\ (sw3.stable /\ short3 => did3 = <<>>)
  BY DEF PressInv
<1>3. what \in {"none", "skip", "profile"}
  OBVIOUS
<1> HIDE DEF what
<1>4. CASE what = "none"
  <2>1. did3' = IF sw3.stable THEN did3 ELSE <<>>
    BY <1>1, <1>3, <1>4, AddsFacts
  <2>2. sw3.stable /\ short3' => short3
    BY <1>1
  <2> QED BY <1>1, <1>2, <2>1, <2>2 DEF Doings3
<1>5. CASE what # "none"
  <2>1. ~sw3.stable \/ did3 = <<>>
    <3>1. ~sw3.stable \/ short3
      BY <1>5 DEF what
    <3> QED BY <1>2, <3>1
  <2>2. did3' = <<what>> /\ what \in {"skip", "profile"}
    <3>1. did3' = <<what>>
      BY <1>1, <1>3, <1>5, <2>1, AddsFacts
    <3> QED BY <1>3, <1>5, <3>1
  <2>3. ~short3'
    BY <1>1, <1>5 DEF what
  <2> QED BY <1>1, <2>2, <2>3 DEF Doings3
<1> QED BY <1>5, <1>4

LEMMA StepPress == PressInv /\ [Next]_vars => PressInv'
<1> SUFFICES ASSUME PressInv, [Next]_vars PROVE PressInv'
  OBVIOUS
<1>1. CASE Round
  <2>1. PressInv /\ Round
    BY <1>1
  <2>2. /\ did1' \in Doings1 /\ short' \in BOOLEAN
        /\ (sw1'.stable => did1' # <<"volume">> /\ (did1' = <<"off">> => ~short'))
    BY <2>1, Round1Press
  <2>3. did3' \in Doings3 /\ short3' \in BOOLEAN /\ (sw3'.stable /\ short3' => did3' = <<>>)
    BY <2>1, Round3Press
  <2> QED BY <2>2, <2>3 DEF PressInv
<1>2. CASE pc' # "run" /\ UNCHANGED <<other, did1, short>>
  BY <1>2 DEF PressInv, other
<1>3. CASE pc' = pc /\ UNCHANGED <<other, did1, short, sw1>>
  BY <1>3 DEF PressInv, other
<1>4. CASE Begins(0)
  BY <1>4 DEF Begins, PressInv, Doings1, Doings3
<1>5. Boot => Begins(0)
  BY DEF Boot
<1>6. PowerOn => Begins(0) \/ (pc' # "run" /\ UNCHANGED <<other, did1, short>>)
  BY DEF PowerOn, SameWorker
<1>7. WakeInit \/ Check \/ LetGo \/ Arm \/ EnterSafeStop \/ Press =>
        pc' # "run" /\ UNCHANGED <<other, did1, short>>
  BY DEF WakeInit, Check, LetGo, Arm, EnterSafeStop, Press, Polls,
         ConfirmRelease, Arms, SameWorker, keys
<1>8. Fatal \/ Confirm \/ Qualify \/ Poll => pc' # "run" /\ UNCHANGED <<other, did1, short>>
  BY DEF Fatal, Confirm, Qualify, Poll, Restart, SameWorker
<1>9. WaitsOn("letGo", FALSE) \/ WaitsOn("await", TRUE) \/ Sw1WakeIsr \/ Sw1Moves
             \/ UNCHANGED vars => pc' = pc /\ UNCHANGED <<other, did1, short, sw1>>
  BY DEF WaitsOn, Sw1WakeIsr, Sw1Moves, vars, keys
<1> QED BY <1>1, <1>2, <1>3, <1>4, <1>5, <1>6, <1>7, <1>8, <1>9 DEF Next, Task

LEMMA InitPress == Init => PressInv
BY DEF Init, PressInv, Fresh, Doings1, Doings3

\* A press of SW1 changes the volume or asks for the power-off, one of SW3
\* selects a profile or skips the calibration; neither does two of these
\* (system_policy_step).
THEOREM EveryPressDoesOneThing == Spec => []OneActPerPress
<1>1. PressInv => OneActPerPress
  BY Doings DEF PressInv, OneActPerPress
<1> QED BY <1>1, InitPress, StepPress, PTL DEF Spec

-----------------------------------------------------------------------------
(* The light-sleep lock                                                    *)

\* Light sleep is permitted in SAFE_STOP only.
LightInv ==
    /\ awake \in BOOLEAN /\ safeSleep \in BOOLEAN /\ judging \in BOOLEAN /\ lockFailed \in BOOLEAN
    /\ safeSleep => pc \in SafeStop
    /\ LightSleepKept

\* What the lock is after a call about it.
LEMMA InteractionFacts ==
  ASSUME LightInv, NEW on \in BOOLEAN, Interaction(on)
  PROVE  /\ awake' \in BOOLEAN /\ safeSleep' = safeSleep /\ lockFailed' \in BOOLEAN
         /\ lockFailed => lockFailed'
         /\ safeSleep /\ ~lockFailed' => awake' = on
BY DEF LightInv, Interaction

LEMMA StepLight == LightInv /\ [Next]_vars => LightInv'
<1> SUFFICES ASSUME LightInv, [Next]_vars PROVE LightInv'
  OBVIOUS
<1> USE DEF LightInv, SafeStop
<1>1. CASE Boot \/ PowerOn \/ Round \/ Fatal
  <2>1. ~safeSleep /\ safeSleep' = safeSleep /\ awake' \in BOOLEAN /\ UNCHANGED <<lockFailed, judging>>
    <3>1. CASE Boot
      BY <3>1 DEF Boot, Starts, PowerInit
    <3>2. CASE PowerOn
      BY <3>2 DEF PowerOn, Starts, PowerInit
    <3>3. CASE Round
      BY <3>3 DEF Round, lights
    <3>4. CASE Fatal
      BY <3>4 DEF Fatal, lights
    <3> QED BY <1>1, <3>1, <3>2, <3>3, <3>4
  <2> QED BY <2>1 DEF LightSleepKept
<1>2. CASE EnterSafeStop
  <2>1. pc = "stopping" /\ pc' = "wakeInit" /\ PrepareSafeStop /\ judging' = judging /\ ~safeSleep
    BY <1>2 DEF EnterSafeStop
  <2>2. /\ safeSleep' \in BOOLEAN /\ awake' \in BOOLEAN /\ lockFailed' \in BOOLEAN
        /\ safeSleep' => ~awake'
    BY <2>1 DEF PrepareSafeStop, PowerInit
  <2> QED BY <2>1, <2>2 DEF LightSleepKept
<1>3. CASE Polls /\ pc \in {"wakeInit", "check", "arm"}
  BY <1>3 DEF Polls, lights, LightSleepKept
<1>4. CASE ConfirmRelease /\ pc \in {"check", "letGo"}
  BY <1>4, InteractionFacts DEF ConfirmRelease, LightSleepKept
<1>5. CASE Press
  BY <1>5, InteractionFacts DEF Press, LightSleepKept
<1>6. CASE UNCHANGED <<lights, judging>> /\ (pc' = pc \/ (pc \in {"wakeInit", "check", "arm"}
                                                    /\ pc' \in {"check", "letGo", "await"}))
  BY <1>6 DEF lights, LightSleepKept
<1>7. CASE Restart
  BY <1>7 DEF Restart, LightSleepKept
<1>8. CASE Confirm
  <2>1. /\ pc = "confirm" /\ judging' = judging
        /\ \/ pc' = pc /\ SameLights
           \/ Interaction(FALSE) /\ pc' \in {"check", "arm"}
    BY <1>8 DEF Confirm
  <2> QED BY <2>1, InteractionFacts DEF LightSleepKept, lights, SameLights
<1>9. CASE Qualify
  <2>1. /\ pc = "qualify"
        /\ \/ pc' = "check" /\ Interaction(FALSE) /\ judging' = judging
           \/ pc' = pc /\ SameLights /\ judging' = judging
           \/ Restart
    BY <1>9 DEF Qualify
  <2> QED BY <1>7, <2>1, InteractionFacts DEF LightSleepKept, lights, SameLights
<1>10. CASE Poll
  <2>1. sw1' = Debounced(sw1, level)
    BY <1>10 DEF Poll, Judges
  <2> DEFINE active == sw1'.valid /\ sw1'.stable /\ released
  <2>2. active \in BOOLEAN
    OBVIOUS
  <2>3. /\ pc = "poll"
        /\ \/ Restart
           \/ Interaction(active) /\ judging' = active /\ pc' = pc
           \/ SameLights /\ judging' = judging /\ pc' = pc
    BY <1>10, <2>1 DEF Poll, Judges
  <2> HIDE DEF active
  <2> QED BY <1>7, <2>2, <2>3, InteractionFacts DEF LightSleepKept, lights, SameLights
<1>11. WakeInit \/ Check \/ Arm =>
         \/ Polls /\ pc \in {"wakeInit", "check", "arm"}
         \/ ConfirmRelease /\ pc \in {"check", "letGo"}
         \/ UNCHANGED <<lights, judging>> /\ pc \in {"wakeInit", "check", "arm"}
            /\ pc' \in {"check", "letGo", "await"}
  BY DEF WakeInit, Check, Arm, Arms
<1>12. LetGo => ConfirmRelease /\ pc \in {"check", "letGo"}
  BY DEF LetGo
<1>13. WaitsOn("letGo", FALSE) \/ WaitsOn("await", TRUE) \/ Sw1WakeIsr \/ Sw1Moves
             \/ UNCHANGED vars => UNCHANGED <<lights, judging>> /\ pc' = pc
  BY DEF WaitsOn, Sw1WakeIsr, Sw1Moves, vars
<1> QED
  BY <1>1, <1>2, <1>3, <1>4, <1>5, <1>6, <1>8, <1>9, <1>10, <1>11, <1>12, <1>13 DEF Next, Task

LEMMA InitLight == Init => LightInv
BY DEF Init, LightInv, LightSleepKept

\* In SAFE_STOP the light-sleep lock is held exactly while a press is judged, as
\* long as no call about it has failed (app_power_set_safe_stop_interaction).
THEOREM LightSleepAlwaysKept == Spec => []LightSleepKept
<1>1. LightInv => LightSleepKept
  BY DEF LightInv
<1> QED BY <1>1, InitLight, StepLight, PTL DEF Spec
=============================================================================
