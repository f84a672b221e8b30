----------------------------- MODULE RecoveryProofs -----------------------------
(***************************************************************************)
(* What comes back after a failure: the device after a watchdog reset      *)
(* (WatchdogRecovery), the GPS receiver after a lost connection (GpsPath). *)
(*                                                                         *)
(* For every range of sequence numbers, every saturation value and every   *)
(* stable period: the device restarts by itself at most once between two   *)
(* confirmations, the first watchdog reset after one is granted such a     *)
(* restart, and no reset but a loss of power costs the journal its last    *)
(* readable record.                                                        *)
(*                                                                         *)
(* For every list of baud rates and intervals and every number of faults:  *)
(* the pairs that are read only advance, and a worker that reads has a     *)
(* receiver that obeys.                                                    *)
(***************************************************************************)
EXTENDS WatchdogRecovery, GpsPath, TLAPS

-----------------------------------------------------------------------------
(* WatchdogRecovery                                                        *)

Bounds == Half \in Nat /\ Half > 1 /\ CountMax \in Nat /\ CountMax > 1
              /\ Stable \in Nat /\ Stable > 0

LEMMA BoundsHold == Bounds
  BY WatchdogAssumption DEF Bounds

LEMMA Zeros == ASSUME Bounds PROVE 0 \in 0..SeqMax /\ 0 \in 0..CountMax
  BY DEF Bounds, SeqMax

\* What a record of the journal can be.
LEMMA RecordFacts ==
  ASSUME NEW r \in Records \cup {Damaged}, Bounds
  PROVE  /\ Valid(r) => r \in Records /\ r.seq \in 0..SeqMax /\ r.count \in 0..CountMax
         /\ r \in Records => Valid(r)
         /\ ~Valid(r) => r = Damaged
  BY DEF Records, Damaged, Valid, Bounds, SeqMax

LEMMA NextSeqFacts ==
  ASSUME NEW s \in 0..SeqMax, Bounds
  PROVE  /\ NextSeq(s) \in 0..SeqMax
         /\ After(NextSeq(s), s) /\ ~After(s, NextSeq(s))
         /\ Apart(NextSeq(s), s) /\ Apart(s, NextSeq(s))
         /\ NextSeq(s) # s
  BY DEF NextSeq, SeqMax, After, Apart, Bounds

\* Of two numbers that are not Half apart, one is after the other or they are
\* equal.
LEMMA OneIsAfter ==
  ASSUME NEW s \in 0..SeqMax, NEW t \in 0..SeqMax, Bounds, Apart(s, t)
  PROVE  /\ s = t \/ After(s, t) \/ After(t, s)
         /\ ~(After(s, t) /\ After(t, s))
         /\ s = t => ~After(s, t)
  BY DEF After, Apart, SeqMax, Bounds

\* What a store leaves alone: the record it would be read from, or its equal.
LEMMA TargetFacts ==
  ASSUME TypeOK, Ranked, Bounds
  PROVE  /\ StoreTarget \in Copies /\ 1 - StoreTarget \in Copies
         /\ StoreTarget # 1 - StoreTarget
         /\ Valid(Selected) => /\ Valid(copy[1 - StoreTarget])
                               /\ copy[1 - StoreTarget].seq = Selected.seq
                               /\ \/ copy[1 - StoreTarget] = Selected
                                  \/ /\ Valid(copy[0]) /\ Valid(copy[1])
                                     /\ copy[0].seq = copy[1].seq
         /\ ~Valid(Selected) => ~Valid(copy[1 - StoreTarget])
<1>1. copy[0] \in Records \cup {Damaged} /\ copy[1] \in Records \cup {Damaged}
  BY DEF TypeOK, Copies
<1>2. CASE ~Valid(copy[0])
  BY <1>2 DEF StoreTarget, Copies, Selected, SelectFrom
<1>3. CASE Valid(copy[0]) /\ ~Valid(copy[1])
  BY <1>3 DEF StoreTarget, Copies, Selected, SelectFrom
<1>4. CASE Valid(copy[0]) /\ Valid(copy[1])
  <2>1. copy[0].seq \in 0..SeqMax /\ copy[1].seq \in 0..SeqMax
    BY <1>1, <1>4, RecordFacts
  <2>2. Apart(copy[0].seq, copy[1].seq)
    BY <1>4 DEF Ranked
  <2>3. /\ \/ copy[0].seq = copy[1].seq
           \/ After(copy[0].seq, copy[1].seq)
           \/ After(copy[1].seq, copy[0].seq)
        /\ ~(After(copy[0].seq, copy[1].seq) /\ After(copy[1].seq, copy[0].seq))
    BY <2>1, <2>2, OneIsAfter
  <2> QED BY <1>4, <2>3 DEF StoreTarget, Copies, Selected, SelectFrom
<1> QED BY <1>2, <1>3, <1>4

\* The effect of Store.
LEMMA StoreFacts ==
  ASSUME TypeOK, Ranked, Bounds, NEW r \in Records, Store(r)
  PROVE  /\ current' = r /\ writing' \in Copies /\ writing' # Idle
         /\ copy' \in [Copies -> Records \cup {Damaged}]
         /\ copy'[writing'] = Damaged
         /\ ~(Valid(copy'[0]) /\ Valid(copy'[1]))
         /\ 1 - writing' \in Copies
         /\ copy'[1 - writing'] = copy[1 - StoreTarget]
         /\ Selected' = copy[1 - StoreTarget]
         /\ writing' = StoreTarget
<1>1. StoreTarget \in Copies /\ 1 - StoreTarget \in Copies /\ StoreTarget # 1 - StoreTarget
  BY TargetFacts
<1>2. copy' = [copy EXCEPT ![StoreTarget] = Damaged] /\ copy \in [Copies -> Records \cup {Damaged}]
  BY DEF Store, TypeOK
<1>3. copy'[StoreTarget] = Damaged /\ copy'[1 - StoreTarget] = copy[1 - StoreTarget]
  BY <1>1, <1>2
<1>4. Selected' = copy'[1 - StoreTarget]
  <2>1. ~Valid(copy'[StoreTarget])
    BY <1>3 DEF Valid
  <2>2. copy'[1 - StoreTarget] \in Records \cup {Damaged}
    BY <1>1, <1>2, <1>3
  <2>3. CASE StoreTarget = 0
    BY <2>1, <2>3 DEF Selected, SelectFrom
  <2>4. CASE StoreTarget = 1
    <3>1. CASE Valid(copy'[0])
      BY <2>1, <2>4, <3>1 DEF Selected, SelectFrom
    <3>2. CASE ~Valid(copy'[0])
      BY <1>3, <2>4, <3>2 DEF Selected, SelectFrom, Valid
    <3> QED BY <3>1, <3>2
  <2> QED BY <1>1, <2>3, <2>4 DEF Copies
<1>5. writing' = StoreTarget /\ current' = r
  BY DEF Store
<1>6. copy' \in [Copies -> Records \cup {Damaged}]
  BY <1>1, <1>2
<1> QED BY <1>1, <1>3, <1>4, <1>5, <1>6 DEF Idle, Copies, Valid

-----------------------------------------------------------------------------
LEMMA InvInit == Init => Inv
<1> SUFFICES ASSUME Init PROVE Inv
  OBVIOUS
<1>1. ~Valid(copy[0]) /\ ~Valid(copy[1]) /\ ~Valid(Selected)
  BY DEF Init, Copies, Valid, Selected, SelectFrom
<1>2. TypeOK
  <2>1. copy \in [Copies -> Records \cup {Damaged}]
    BY DEF Init
  <2>2. current \in Records
    BY BoundsHold DEF Init, Records, SeqMax, Bounds
  <2>3. writing \in Copies \cup {Idle} /\ age \in 0..Stable \cup {NotActive}
    BY DEF Init
  <2>4. resets \in 0..CountMax /\ autos \in Nat /\ survived \in BOOLEAN
    BY BoundsHold, Zeros DEF Init
  <2>5. pc = "off" /\ reset \in ResetKinds /\ action \in Actions
    BY DEF Init, ResetKinds, Actions
  <2> QED BY <2>1, <2>2, <2>3, <2>4, <2>5 DEF TypeOK
<1>3. Ranked /\ PowerIsBack /\ Tied
  BY <1>1 DEF Init, Ranked, PowerIsBack, Tied, Copies
<1>4. Successor /\ CurrentIsSelected /\ RestartOnRecord /\ OneAutoRestart
  BY <1>1 DEF Init, Successor, CurrentIsSelected, RestartOnRecord, OneAutoRestart, Idle
<1>5. CleanRecord /\ FirstRestartGranted
  BY <1>1 DEF Init, CleanRecord, FirstRestartGranted
<1> QED BY <1>2, <1>3, <1>4, <1>5 DEF Inv

\* The steps of the startup and the system worker that leave the journal alone.
LEMMA InvKeep ==
  ASSUME Inv, TypeOK', UNCHANGED <<rtc, current, reset, action, history>>,
         \/ pc' = pc
         \/ writing = Idle /\ pc # "off" /\ pc' \notin {"off", "booting"}
  PROVE  Inv'
<1>1. Selected' = Selected
  BY DEF rtc, Selected
<1>2. Ranked' /\ PowerIsBack' /\ Tied'
  BY DEF Inv, Ranked, PowerIsBack, Tied, rtc, history
<1>3. Successor'
  BY DEF Inv, Successor, Kept, rtc, history
<1>4. CurrentIsSelected' /\ RestartOnRecord' /\ OneAutoRestart'
  BY <1>1 DEF Inv, CurrentIsSelected, RestartOnRecord, OneAutoRestart, rtc, history
<1>5. CleanRecord' /\ FirstRestartGranted'
  BY <1>1 DEF Inv, CleanRecord, FirstRestartGranted, rtc, history
<1> QED BY <1>2, <1>3, <1>4, <1>5 DEF Inv

-----------------------------------------------------------------------------
(* The record read next                                                    *)

LEMMA SelectedFacts ==
  ASSUME copy \in [Copies -> Records \cup {Damaged}], Bounds
  PROVE  /\ Selected \in Records \cup {Damaged}
         /\ Valid(Selected) <=> Valid(copy[0]) \/ Valid(copy[1])
  BY DEF Selected, SelectFrom, Copies

\* The record a boot starts from and the count it stores have their types.
LEMMA PriorFacts ==
  ASSUME TypeOK, Bounds
  PROVE  /\ Prior.seq \in 0..SeqMax /\ Prior.count \in 0..CountMax
         /\ AttemptCount \in 0..CountMax
<1>1. Selected \in Records \cup {Damaged}
  BY SelectedFacts DEF TypeOK
<1>2. 0 \in 0..SeqMax /\ 0 \in 0..CountMax
  BY Zeros
<1>3. Prior.seq \in 0..SeqMax /\ Prior.count \in 0..CountMax
  BY <1>1, <1>2, RecordFacts DEF Prior
<1>4. AttemptCount \in 0..CountMax
  BY <1>3 DEF AttemptCount, Bounds
<1> QED BY <1>3, <1>4

-----------------------------------------------------------------------------
(* Every step keeps the types                                              *)

LEMMA ClearTypes ==
  ASSUME Inv, Bounds, ClearAttempts
  PROVE  /\ copy' \in [Copies -> Records \cup {Damaged}] /\ current' \in Records
         /\ writing' \in Copies \cup {Idle}
         /\ resets' \in 0..CountMax /\ autos' \in Nat /\ survived' \in BOOLEAN
<1>1. CASE current.count = 0 /\ UNCHANGED <<rtc, current>> /\ Cleared
  BY <1>1 DEF Inv, TypeOK, rtc, Cleared, Bounds
<1>2. CASE /\ Store([seq |-> NextSeq(current.seq), count |-> 0])
           /\ UNCHANGED history
  <2>1. current.seq \in 0..SeqMax
    BY DEF Inv, TypeOK, Records
  <2>2. [seq |-> NextSeq(current.seq), count |-> 0] \in Records
    <3>1. NextSeq(current.seq) \in 0..SeqMax /\ 0 \in 0..CountMax
      BY <2>1, NextSeqFacts, Zeros
    <3> QED BY <3>1 DEF Records
  <2>3. /\ current' = [seq |-> NextSeq(current.seq), count |-> 0]
        /\ writing' \in Copies
        /\ copy' \in [Copies -> Records \cup {Damaged}]
    BY <1>2, <2>2, StoreFacts DEF Inv
  <2> QED BY <1>2, <2>2, <2>3 DEF Inv, TypeOK, history
<1> QED BY <1>1, <1>2 DEF ClearAttempts

LEMMA BootTypes ==
  ASSUME Inv, Bounds, BeginBoot
  PROVE  TypeOK'
<1> DEFINE r == [seq |-> NextSeq(Prior.seq), count |-> AttemptCount]
<1>1. r \in Records
  BY PriorFacts, NextSeqFacts DEF Inv, Records
<1>2. Store(r)
  BY DEF BeginBoot
<1>3. /\ current' \in Records /\ writing' \in Copies
      /\ copy' \in [Copies -> Records \cup {Damaged}]
  <2> HIDE DEF r
  <2> QED BY <1>1, <1>2, StoreFacts DEF Inv
<1>4. action' \in Actions
  BY DEF BeginBoot, Actions
<1> QED BY <1>3, <1>4 DEF Inv, TypeOK, BeginBoot, history, NotActive

LEMMA TypeSteps ==
  ASSUME Inv, Bounds, [Next]_vars
  PROVE  TypeOK'
<1> USE DEF Inv
<1>1. CASE BeginBoot
  BY <1>1, BootTypes
<1>2. CASE StoreDone
  <2>1. copy' \in [Copies -> Records \cup {Damaged}]
    BY <1>2 DEF StoreDone, TypeOK
  <2> QED BY <1>2, <2>1 DEF StoreDone, TypeOK, Cleared, history, Bounds
<1>3. CASE RecoveryGesture \/ Confirmed \/ RestartConfirmed
  BY <1>3, ClearTypes DEF RecoveryGesture, Confirmed, RestartConfirmed, TypeOK
<1>4. CASE SkipGesture
  BY <1>4 DEF SkipGesture, TypeOK, rtc
<1>5. CASE AwaitGesture \/ ServiceStop \/ Started
  BY <1>5 DEF AwaitGesture, ServiceStop, Started, TypeOK, rtc, history
<1>6. CASE UpdateActive
  <2>1. age' \in 0..Stable \cup {NotActive} /\ pc' = pc /\ reset' = reset /\ action' = action
    BY <1>6 DEF UpdateActive, TypeOK, Bounds
  <2>2. CASE ClearAttempts
    BY <2>1, <2>2, ClearTypes DEF TypeOK
  <2>3. CASE UNCHANGED <<rtc, current, history>>
    BY <2>1, <2>3 DEF TypeOK, rtc, history
  <2> QED BY <1>6, <2>2, <2>3 DEF UpdateActive
<1>7. CASE SafeStop \/ MarkFatal
  BY <1>7 DEF SafeStop, MarkFatal, TypeOK, rtc, history
<1>8. CASE Tick
  BY <1>8 DEF Tick, TypeOK, rtc, history, Bounds
<1>9. CASE Reset
  BY <1>9 DEF Reset, TypeOK, ResetKinds, Bounds
<1>10. CASE PowerLoss
  <2>1. copy' \in [Copies -> Records \cup {Damaged}]
    BY <1>10 DEF PowerLoss, TypeOK, Copies
  <2> QED BY <1>10, <2>1 DEF PowerLoss, TypeOK, ResetKinds, Bounds
<1>11. CASE UNCHANGED vars
  BY <1>11 DEF vars, rtc, history, TypeOK
<1> QED BY <1>1, <1>2, <1>3, <1>4, <1>5, <1>6, <1>7, <1>8, <1>9, <1>10, <1>11
        DEF Next, Startup, Running

-----------------------------------------------------------------------------
(* Every step keeps the invariant                                          *)

\* With an attempt on record the attempts are cleared by a store; the record it
\* leaves alone is the one the device goes by.
LEMMA ClearSteps ==
  ASSUME Inv, TypeOK', Bounds, ClearAttempts, writing = Idle,
         pc # "off", pc' \notin {"off", "booting"}
  PROVE  Inv'
<1> USE DEF Inv
<1>1. CASE current.count = 0 /\ UNCHANGED <<rtc, current>> /\ Cleared
  <2>1. Selected' = Selected /\ copy' = copy /\ writing' = Idle /\ current' = current
        /\ resets' = 0 /\ autos' = 0 /\ survived' = survived
    BY <1>1 DEF rtc, Selected, Cleared
  <2>2. Ranked' /\ PowerIsBack' /\ Tied' /\ Successor' /\ CurrentIsSelected'
    BY <1>1, <2>1 DEF Ranked, PowerIsBack, Tied, Successor, CurrentIsSelected
  <2>3. RestartOnRecord' /\ OneAutoRestart' /\ FirstRestartGranted'
    BY <2>1 DEF RestartOnRecord, OneAutoRestart, FirstRestartGranted
  <2>4. CleanRecord'
    BY <1>1, <2>1 DEF CleanRecord, CurrentIsSelected
  <2> QED BY <2>2, <2>3, <2>4
<1>2. CASE /\ current.count # 0
           /\ Store([seq |-> NextSeq(current.seq), count |-> 0])
           /\ UNCHANGED history
  <2> DEFINE r == [seq |-> NextSeq(current.seq), count |-> 0]
  <2>1. current.seq \in 0..SeqMax /\ r \in Records
    <3>1. current.seq \in 0..SeqMax
      BY DEF TypeOK, Records
    <3>2. NextSeq(current.seq) \in 0..SeqMax /\ 0 \in 0..CountMax
      BY <3>1, NextSeqFacts, Zeros
    <3> QED BY <3>1, <3>2 DEF Records
  <2>2. r.seq = NextSeq(current.seq) /\ r.count = 0
    OBVIOUS
  <2>3. Selected = current /\ Valid(Selected)
    <3>1. Selected = current
      BY <1>2 DEF CurrentIsSelected
    <3>2. current \in Records
      BY DEF TypeOK
    <3> QED BY <3>1, <3>2, RecordFacts
  <2> HIDE DEF r
  <2>4. /\ current' = r /\ writing' = StoreTarget /\ writing' # Idle
        /\ copy'[writing'] = Damaged /\ ~(Valid(copy'[0]) /\ Valid(copy'[1]))
        /\ copy'[1 - writing'] = copy[1 - StoreTarget]
        /\ Selected' = copy[1 - StoreTarget]
    BY <1>2, <2>1, StoreFacts DEF r
  <2>5. /\ Valid(Selected') /\ Selected'.seq = current.seq
        /\ autos > 0 \/ ~survived => Selected' = current
    BY <2>3, <2>4, TargetFacts DEF Tied, TypeOK
  <2>6. UNCHANGED <<resets, autos, survived>>
    BY <1>2 DEF history
  <2>7. Ranked' /\ PowerIsBack' /\ Tied' /\ CurrentIsSelected'
    BY <2>4 DEF Ranked, PowerIsBack, Tied, CurrentIsSelected
  <2>8. Successor'
    BY <2>2, <2>4, <2>5 DEF Successor, Kept
  <2>9. RestartOnRecord' /\ OneAutoRestart' /\ FirstRestartGranted'
    BY <1>2, <2>5, <2>6 DEF RestartOnRecord, OneAutoRestart, FirstRestartGranted
  <2>10. CleanRecord'
    BY <1>2, <2>3, <2>6 DEF CleanRecord
  <2> QED BY <2>7, <2>8, <2>9, <2>10
<1> QED BY <1>1, <1>2 DEF ClearAttempts

\* The record written follows the one left alone, or is the first after a loss
\* of power.
LEMMA StoreDoneSteps ==
  ASSUME Inv, TypeOK', Bounds, StoreDone
  PROVE  Inv'
<1> USE DEF Inv
<1> DEFINE k == 1 - writing
<1>1. /\ writing \in Copies /\ k \in Copies /\ k # writing
      /\ copy'[writing] = current /\ copy'[k] = Kept
      /\ writing' = Idle /\ UNCHANGED <<current, pc, reset, action>>
  BY DEF StoreDone, TypeOK, Copies, Idle, Kept
<1>2. current \in Records /\ Valid(current) /\ Kept \in Records \cup {Damaged}
      /\ current.seq \in 0..SeqMax
  <2>1. current \in Records /\ Kept \in Records \cup {Damaged}
    BY <1>1 DEF TypeOK, Kept
  <2> QED BY <2>1, RecordFacts
<1>3. Valid(Kept) => Kept.seq \in 0..SeqMax
  BY <1>2, RecordFacts
<1>4. pc # "off" /\ (pc # "booting" => current.count = 0)
  BY <1>1 DEF Successor, Idle, Copies
<1>5. CASE ~Valid(Kept) \/ current.seq = NextSeq(Kept.seq)
  <2>1. Valid(Kept) => /\ After(current.seq, Kept.seq) /\ ~After(Kept.seq, current.seq)
                       /\ Apart(current.seq, Kept.seq) /\ Apart(Kept.seq, current.seq)
                       /\ current.seq # Kept.seq
    BY <1>3, <1>5, NextSeqFacts
  <2>2. Selected' = current
    <3>1. CASE writing = 0
      BY <1>1, <1>2, <2>1, <3>1 DEF Selected, SelectFrom
    <3>2. CASE writing = 1
      BY <1>1, <1>2, <2>1, <3>2 DEF Selected, SelectFrom
    <3> QED BY <1>1, <3>1, <3>2 DEF Copies
  <2>3. Ranked' /\ Tied'
    <3>1. CASE writing = 0
      BY <1>1, <2>1, <3>1 DEF Ranked, Tied
    <3>2. CASE writing = 1
      BY <1>1, <2>1, <3>2 DEF Ranked, Tied
    <3> QED BY <1>1, <3>1, <3>2 DEF Copies
  <2>4. PowerIsBack' /\ Successor' /\ CurrentIsSelected' /\ FirstRestartGranted'
    BY <1>1, <1>4, <2>2 DEF PowerIsBack, Successor, CurrentIsSelected, FirstRestartGranted
  <2>5. CASE pc = "booting"
    <3>1. UNCHANGED <<resets, autos, survived>>
      BY <2>5 DEF StoreDone, history
    <3>2. RestartOnRecord' /\ OneAutoRestart' /\ CleanRecord'
      BY <1>1, <1>2, <2>2, <2>5, <3>1 DEF RestartOnRecord, OneAutoRestart, CleanRecord, Idle,
        Copies
    <3> QED BY <2>3, <2>4, <3>2
  <2>6. CASE pc # "booting"
    <3>1. autos' = 0
      BY <2>6 DEF StoreDone, Cleared
    <3>2. RestartOnRecord' /\ OneAutoRestart' /\ CleanRecord'
      BY <1>1, <1>4, <2>2, <2>6, <3>1 DEF RestartOnRecord, OneAutoRestart, CleanRecord
    <3> QED BY <2>3, <2>4, <3>2
  <2> QED BY <2>5, <2>6
<1>6. CASE /\ Valid(Kept) /\ pc = "booting" /\ survived /\ current.count = 0
           /\ current.seq = 1 /\ Comparable(Kept.seq)
  <2>1. UNCHANGED <<resets, autos, survived>>
    BY <1>6 DEF StoreDone, history
  <2>2. autos = 0
    BY <1>1, <1>6 DEF RestartOnRecord, TypeOK, Idle, Copies
  <2>3. Apart(current.seq, Kept.seq) /\ Apart(Kept.seq, current.seq)
    BY <1>3, <1>6 DEF Apart, Comparable, SeqMax, Bounds
  <2>4. Ranked' /\ Tied'
    <3>1. CASE writing = 0
      BY <1>1, <1>6, <2>1, <2>2, <2>3, <3>1 DEF Ranked, Tied
    <3>2. CASE writing = 1
      BY <1>1, <1>6, <2>1, <2>2, <2>3, <3>2 DEF Ranked, Tied
    <3> QED BY <1>1, <3>1, <3>2 DEF Copies
  <2>5. PowerIsBack' /\ Successor' /\ CurrentIsSelected' /\ FirstRestartGranted'
    BY <1>1, <1>6, <2>1 DEF PowerIsBack, Successor, CurrentIsSelected, FirstRestartGranted
  <2>6. RestartOnRecord' /\ OneAutoRestart' /\ CleanRecord'
    BY <1>1, <1>6, <2>1, <2>2 DEF RestartOnRecord, OneAutoRestart, CleanRecord
  <2> QED BY <2>4, <2>5, <2>6
<1> QED BY <1>1, <1>5, <1>6 DEF Successor, Idle, Copies

LEMMA BootSteps ==
  ASSUME Inv, TypeOK', Bounds, BeginBoot
  PROVE  Inv'
<1> USE DEF Inv
<1> DEFINE r == [seq |-> NextSeq(Prior.seq), count |-> AttemptCount]
<1>1. r \in Records /\ r.seq = NextSeq(Prior.seq) /\ r.count = AttemptCount
  BY PriorFacts, NextSeqFacts DEF Records
<1>2. Store(r) /\ pc = "off" /\ pc' = "booting" /\ UNCHANGED <<reset, resets, autos, survived>>
  BY DEF BeginBoot, history
<1> HIDE DEF r
<1>3. /\ current' = r /\ writing' = StoreTarget /\ writing' # Idle
      /\ copy'[writing'] = Damaged /\ ~(Valid(copy'[0]) /\ Valid(copy'[1]))
      /\ copy'[1 - writing'] = copy[1 - StoreTarget]
      /\ Selected' = copy[1 - StoreTarget]
  BY <1>1, <1>2, StoreFacts
<1>4. /\ Valid(Selected') => /\ Valid(Selected) /\ Selected'.seq = Selected.seq
                             /\ autos > 0 \/ ~survived => Selected' = Selected
      /\ Valid(Selected) => Valid(Selected')
  BY <1>3, TargetFacts DEF Tied, TypeOK
<1>5. Ranked' /\ PowerIsBack' /\ Tied' /\ CurrentIsSelected' /\ FirstRestartGranted'
  BY <1>2, <1>3 DEF Ranked, PowerIsBack, Tied, CurrentIsSelected, FirstRestartGranted
<1>6. CASE reset = "power"
  <2>1. Prior = [seq |-> 0, count |-> 0] /\ AttemptCount = 0
    BY <1>6 DEF Prior, AttemptCount
  <2>2. r.count = 0 /\ r.seq = 1
    BY <1>1, <2>1 DEF NextSeq, SeqMax, Bounds
  <2>3. Valid(Selected') => survived /\ Comparable(Selected'.seq)
    BY <1>2, <1>3, <1>6, TargetFacts DEF PowerIsBack
  <2>4. Successor'
    BY <1>2, <1>3, <2>2, <2>3 DEF Successor, Kept
  <2>5. autos = 0 /\ action' # "AUTO_RECOVER"
    BY <1>2, <1>6 DEF PowerIsBack, BeginBoot
  <2>6. RestartOnRecord' /\ OneAutoRestart'
    BY <1>2, <2>5 DEF RestartOnRecord, OneAutoRestart
  <2>7. CleanRecord'
    BY <1>2, <1>3, <2>2, <2>3 DEF CleanRecord
  <2> QED BY <1>5, <2>4, <2>6, <2>7
<1>7. CASE reset # "power"
  <2>1. Valid(Selected) => Prior = Selected
    BY <1>7 DEF Prior
  <2>2. Successor'
    BY <1>1, <1>2, <1>3, <1>4, <2>1 DEF Successor, Kept
  <2>3. Valid(Selected) => Selected.count \in 0..CountMax
    BY SelectedFacts, RecordFacts DEF TypeOK
  <2>4. autos > 0 => r.count # 0
    BY <1>1, <2>1, <2>3 DEF RestartOnRecord, AttemptCount, Bounds
  <2>5. action' = "AUTO_RECOVER" => autos = 0 /\ r.count = 1
    <3>1. action' = "AUTO_RECOVER" => reset = "watchdog" /\ AttemptCount = 1
      BY DEF BeginBoot
    <3>2. reset = "watchdog" /\ AttemptCount = 1 => Valid(Selected) /\ Selected.count = 0
      BY <2>1, <2>3 DEF AttemptCount, Bounds
    <3> QED BY <1>1, <3>1, <3>2 DEF RestartOnRecord, TypeOK
  <2>6. RestartOnRecord' /\ OneAutoRestart'
    BY <1>2, <1>3, <1>4, <2>4, <2>5 DEF RestartOnRecord, OneAutoRestart
  <2>7. CleanRecord'
    <3>1. ~survived /\ resets = 0 => AttemptCount = 0
      BY <1>2, <2>1 DEF CleanRecord, AttemptCount, Prior
    <3> QED BY <1>1, <1>2, <1>3, <1>4, <3>1 DEF CleanRecord
  <2> QED BY <1>5, <2>2, <2>6, <2>7
<1> QED BY <1>6, <1>7

LEMMA SkipSteps ==
  ASSUME Inv, TypeOK', Bounds, SkipGesture
  PROVE  Inv'
<1> USE DEF Inv
<1>1. /\ writing = Idle /\ pc = "booting" /\ pc' = "starting"
      /\ UNCHANGED <<rtc, current, reset, action, resets, survived>>
  BY DEF SkipGesture, Quiet
<1>2. CASE action # "AUTO_RECOVER"
  <2>1. UNCHANGED history
    BY <1>1, <1>2 DEF SkipGesture, history
  <2> QED BY <1>1, <2>1, InvKeep
<1>3. CASE action = "AUTO_RECOVER"
  <2>1. autos = 0 /\ autos' = 1 /\ current.count = 1
    BY <1>1, <1>3 DEF RestartOnRecord, SkipGesture
  <2>2. Selected = current /\ Valid(Selected)
    <3>1. Selected = current /\ current \in Records
      BY <1>1, <2>1 DEF CurrentIsSelected, TypeOK
    <3> QED BY <3>1, RecordFacts
  <2>3. Selected' = Selected /\ copy' = copy /\ writing' = Idle /\ current' = current
    BY <1>1 DEF rtc, Selected
  <2>4. Ranked' /\ PowerIsBack' /\ Tied' /\ Successor' /\ CurrentIsSelected'
    BY <1>1, <2>1, <2>2, <2>3 DEF Ranked, PowerIsBack, Tied, Successor, CurrentIsSelected
  <2>5. RestartOnRecord' /\ OneAutoRestart' /\ FirstRestartGranted'
    BY <1>1, <2>1, <2>2, <2>3 DEF RestartOnRecord, OneAutoRestart, FirstRestartGranted
  <2>6. CleanRecord'
    BY <1>1, <2>1 DEF CleanRecord
  <2> QED BY <2>4, <2>5, <2>6
<1> QED BY <1>2, <1>3

LEMMA ResetSteps ==
  ASSUME Inv, TypeOK', Bounds, Reset
  PROVE  Inv'
<1> USE DEF Inv
<1>1. /\ Selected' = Selected /\ copy' = copy /\ writing' = Idle /\ current' = current
      /\ pc' = "off" /\ reset' \in {"watchdog", "other"} /\ UNCHANGED <<autos, survived>>
  BY DEF Reset, Selected
<1>2. /\ reset' = "watchdog" => resets' # 0
      /\ reset' = "watchdog" /\ resets' = 1 => resets = 0
      /\ reset' # "watchdog" => resets' = resets
  BY DEF Reset, TypeOK, Bounds
<1>3. Ranked' /\ PowerIsBack' /\ Tied' /\ Successor' /\ CurrentIsSelected'
  BY <1>1 DEF Ranked, PowerIsBack, Tied, Successor, CurrentIsSelected
<1>4. RestartOnRecord' /\ OneAutoRestart'
  BY <1>1 DEF RestartOnRecord, OneAutoRestart
<1>5. CleanRecord' /\ FirstRestartGranted'
  BY <1>1, <1>2 DEF CleanRecord, FirstRestartGranted
<1> QED BY <1>3, <1>4, <1>5

LEMMA PowerLossSteps ==
  ASSUME Inv, TypeOK', Bounds, PowerLoss
  PROVE  Inv'
<1> USE DEF Inv
<1>1. /\ pc' = "off" /\ reset' = "power" /\ writing' = Idle /\ autos' = 0 /\ resets' = 0
      /\ survived' = (\E i \in Copies : copy'[i] # Damaged)
      /\ \A i \in Copies : Valid(copy'[i]) => copy'[i] = copy[i] /\ Comparable(copy[i].seq)
  BY DEF PowerLoss, Valid
<1>2. \A i \in Copies : Valid(copy'[i]) => survived' /\ Comparable(copy'[i].seq)
  BY <1>1 DEF Valid
<1>3. ~survived' => ~Valid(Selected')
  <2>1. ~survived' => ~Valid(copy'[0]) /\ ~Valid(copy'[1])
    BY <1>2 DEF Copies
  <2> QED BY <2>1 DEF Selected, SelectFrom
<1>4. Ranked' /\ PowerIsBack' /\ Tied' /\ Successor' /\ CurrentIsSelected'
  BY <1>1, <1>2 DEF Ranked, PowerIsBack, Tied, Successor, CurrentIsSelected, Copies
<1>5. RestartOnRecord' /\ OneAutoRestart' /\ CleanRecord' /\ FirstRestartGranted'
  BY <1>1, <1>3 DEF RestartOnRecord, OneAutoRestart, CleanRecord, FirstRestartGranted
<1> QED BY <1>4, <1>5

LEMMA InvNext == Inv /\ [Next]_vars => Inv'
<1> SUFFICES ASSUME Inv, [Next]_vars PROVE Inv'
  OBVIOUS
<1> USE BoundsHold, TypeSteps
<1>1. CASE BeginBoot
  BY <1>1, BootSteps
<1>2. CASE StoreDone
  BY <1>2, StoreDoneSteps
<1>3. CASE RecoveryGesture \/ Confirmed \/ RestartConfirmed
  BY <1>3, ClearSteps DEF RecoveryGesture, Confirmed, RestartConfirmed, Quiet
<1>4. CASE SkipGesture
  BY <1>4, SkipSteps
<1>5. CASE AwaitGesture \/ ServiceStop \/ Started \/ SafeStop \/ MarkFatal
  BY <1>5, InvKeep DEF AwaitGesture, ServiceStop, Started, SafeStop, MarkFatal, Quiet
<1>6. CASE UpdateActive
  <2>1. writing = Idle /\ pc = "running" /\ UNCHANGED <<pc, reset, action>>
    BY <1>6 DEF UpdateActive, Quiet
  <2>2. CASE ClearAttempts
    BY <2>1, <2>2, ClearSteps
  <2>3. CASE UNCHANGED <<rtc, current, history>>
    BY <2>1, <2>3, InvKeep
  <2> QED BY <1>6, <2>2, <2>3 DEF UpdateActive
<1>7. CASE Tick
  BY <1>7, InvKeep DEF Tick
<1>8. CASE Reset
  BY <1>8, ResetSteps
<1>9. CASE PowerLoss
  BY <1>9, PowerLossSteps
<1>10. CASE UNCHANGED vars
  BY <1>10, InvKeep DEF vars
<1> QED BY <1>1, <1>2, <1>3, <1>4, <1>5, <1>6, <1>7, <1>8, <1>9, <1>10
        DEF Next, Startup, Running

-----------------------------------------------------------------------------
THEOREM RecoveryInvariant == Spec => []Inv
  BY InvInit, InvNext, PTL DEF Spec

\* Every variable keeps its type, so that no record stored is out of range.
THEOREM RecoveryTypes == Spec => []TypeOK
<1>1. Inv => TypeOK
  BY DEF Inv
<1> QED BY <1>1, RecoveryInvariant, PTL

\* The device restarts by itself at most once between two confirmations
\* (watchdog_recovery_decide over the journal of store_recovery_state).
THEOREM AlwaysOneAutoRestart == Spec => []OneAutoRestart
<1>1. Inv => OneAutoRestart
  BY DEF Inv
<1> QED BY <1>1, RecoveryInvariant, PTL

\* The first watchdog reset after a confirmation finds no attempt on record.
THEOREM FirstRestartAlwaysGranted == Spec => []FirstRestartGranted
<1>1. Inv => FirstRestartGranted
  BY DEF Inv
<1> QED BY <1>1, RecoveryInvariant, PTL

\* A readable record is only lost with the power: store_recovery_state never
\* writes over the last one.
THEOREM JournalAlwaysKept == Spec => JournalKept
<1> DEFINE Keeps == Valid(Selected) /\ ~PowerLoss => Valid(Selected')
<1>1. Inv /\ Inv' /\ [Next]_vars => [Keeps]_vars
  <2> SUFFICES ASSUME Inv, Inv', Next, Valid(Selected), ~PowerLoss PROVE Valid(Selected')
    OBVIOUS
  <2> USE BoundsHold DEF Inv
  <2>1. CASE UNCHANGED copy
    BY <2>1 DEF Selected
  <2>2. ASSUME NEW r \in Records, Store(r) PROVE Valid(Selected')
    BY <2>2, StoreFacts, TargetFacts
  <2>3. CASE BeginBoot
    <3>1. [seq |-> NextSeq(Prior.seq), count |-> AttemptCount] \in Records
      BY PriorFacts, NextSeqFacts DEF Records
    <3> QED BY <2>3, <2>2, <3>1 DEF BeginBoot
  <2>4. CASE StoreDone
    <3>1. writing \in Copies /\ Valid(copy'[writing])
      BY <2>4, RecordFacts DEF StoreDone, TypeOK, Copies, Idle
    <3>2. Valid(copy'[0]) \/ Valid(copy'[1])
      BY <3>1 DEF Copies
    <3> QED BY <3>2 DEF Selected, SelectFrom
  <2>5. CASE ClearAttempts
    <3>1. CASE UNCHANGED rtc
      BY <2>1, <3>1 DEF rtc
    <3>2. CASE Store([seq |-> NextSeq(current.seq), count |-> 0])
      <4>1. current.seq \in 0..SeqMax
        BY DEF TypeOK, Records
      <4>2. NextSeq(current.seq) \in 0..SeqMax /\ 0 \in 0..CountMax
        BY <4>1, NextSeqFacts, Zeros
      <4>3. [seq |-> NextSeq(current.seq), count |-> 0] \in Records
        BY <4>2 DEF Records
      <4> QED BY <2>2, <3>2, <4>3
    <3> QED BY <2>5, <3>1, <3>2 DEF ClearAttempts
  <2>6. CASE RecoveryGesture \/ Confirmed \/ RestartConfirmed
    BY <2>5, <2>6 DEF RecoveryGesture, Confirmed, RestartConfirmed
  <2>7. CASE UpdateActive
    BY <2>1, <2>5, <2>7 DEF UpdateActive, rtc
  <2>8. CASE SkipGesture \/ AwaitGesture \/ ServiceStop \/ Started \/ SafeStop \/ MarkFatal
             \/ Tick \/ Reset
    BY <2>1, <2>8 DEF SkipGesture, AwaitGesture, ServiceStop, Started, SafeStop, MarkFatal,
                      Tick, Reset, rtc
  <2> QED BY <2>3, <2>4, <2>6, <2>7, <2>8 DEF Next, Startup, Running
<1>2. Spec => []Inv /\ [][Next]_vars
  BY RecoveryInvariant DEF Spec
<1> QED BY <1>1, <1>2, PTL DEF JournalKept

\* Both together: the device restarts by itself once between two confirmations
\* (watchdog_recovery_decide).
THEOREM AutoRestartsRight == Spec => []AutoRestarts
<1>1. OneAutoRestart /\ FirstRestartGranted => AutoRestarts
  BY DEF AutoRestarts
<1> QED BY <1>1, AlwaysOneAutoRestart, FirstRestartAlwaysGranted, PTL


-----------------------------------------------------------------------------
(* GpsPath: types                                                          *)

\* What a line or a command may carry.
GpsArgs == Nat \cup Intervals \cup BaudRates \cup {"L96", "other", "done", "refused"}
Answer == {"705", "353", "314", "220", "011", "010"}
Messages == {m \in [name : Answer \cup Kinds, arg : GpsArgs] : m.name \in Kinds => m.arg \in Nat}
GpsCommands == [name : {"605", "353", "314", "220", "251"}, arg : GpsArgs]
\* gps_snapshot_t, and the receiver.
Snapshots == [communicating : BOOLEAN, pair : [Kinds -> Nat], sequence : Nat]
Settings == [search : BOOLEAN, sentences : BOOLEAN, period : GpsArgs]
Models == [model : {"L96", "other"}, baud : GpsArgs, set : Settings, owes : BOOLEAN]

\* The waits before the interval is sent, and those for it.
Connecting == {"probing", "settling", "verifying", "search", "confirming", "output"}
Setting == {"period", "changing"}

\* The type invariant of GpsPath.
GpsTyped ==
    /\ phase \in Connecting \cup Setting \cup {"start", "reading", "retry", "off"}
    /\ pairer \in [Kinds -> Nat]
    /\ shot \in Snapshots /\ latest \in Snapshots
    /\ config \in [interval : Intervals, revision : Nat]
    /\ rx \in Models
    /\ sent \in [kind : Kinds, epoch : Nat]
    /\ cmds \in Seq(GpsCommands) /\ lines \in Seq(Messages)
    /\ active \in GpsArgs /\ wanted \in GpsArgs

\* A reply of one or two lines is appended.
LEMMA Queues ==
    /\ \A S, q, e : q \in Seq(S) /\ e \in S => q \o <<e>> = Append(q, e)
    /\ \A S, q, e, f : q \in Seq(S) /\ e \in S /\ f \in S =>
          q \o <<e, f>> = Append(Append(q, e), f)
<1>1. ASSUME NEW S, NEW q \in Seq(S), NEW e \in S
      PROVE  q \o <<e>> = Append(q, e)
  OBVIOUS
<1>2. ASSUME NEW S, NEW q \in Seq(S), NEW e \in S, NEW f \in S
      PROVE  q \o <<e, f>> = Append(Append(q, e), f)
  OBVIOUS
<1> QED BY <1>1, <1>2

\* Whatever is sent has its type.
LEMMA Sent ==
    /\ \A n \in Answer, a \in GpsArgs : Line(n, a) \in Messages
    /\ \A k \in Kinds, e \in Nat : Line(k, e) \in Messages
    /\ <<>> \in Seq(Messages)
    /\ \A n \in {"605", "353", "314", "220", "251"}, a \in GpsArgs : Command(n, a) \in GpsCommands
    /\ 0 \in GpsArgs /\ Work \in GpsArgs /\ Default \in GpsArgs
<1>1. \A n \in Answer, a \in GpsArgs : Line(n, a) \in Messages
  BY DEF Line, Messages, Answer, Kinds
<1>2. \A k \in Kinds, e \in Nat : Line(k, e) \in Messages
  BY DEF Line, Messages, Kinds, GpsArgs
<1>3. \A n \in {"605", "353", "314", "220", "251"}, a \in GpsArgs : Command(n, a) \in GpsCommands
  BY DEF Command, GpsCommands
<1>4. 0 \in GpsArgs /\ Work \in GpsArgs /\ Default \in GpsArgs
  BY GpsAssumption DEF GpsArgs
<1> QED BY <1>1, <1>2, <1>3, <1>4

\* At the start the types hold ...
LEMMA TypedInit == GpsInit => GpsTyped
<1> SUFFICES ASSUME GpsInit PROVE GpsTyped
  OBVIOUS
<1>1. Nothing \in [Kinds -> Nat] /\ Silent \in Snapshots
  BY DEF Nothing, None, Silent, Snapshots
<1>2. rx \in Models
  <2>1. Unset \in Settings
    BY Sent DEF Unset, Settings, None
  <2>2. BaudRates \subseteq GpsArgs
    BY DEF GpsArgs
  <2> QED BY <2>1, <2>2 DEF GpsInit, Models
<1>3. sent \in [kind : Kinds, epoch : Nat]
  BY DEF GpsInit, Kinds
<1>4. config \in [interval : Intervals, revision : Nat]
  BY DEF GpsInit
<1> QED BY <1>1, <1>2, <1>3, <1>4, Sent DEF GpsInit, GpsTyped, None

\* Ask and Reply keep the queues' types.
LEMMA AskType == ASSUME GpsTyped, NEW c \in GpsCommands, NEW r, NEW w, Ask(c, r, w)
                 PROVE  cmds' \in Seq(GpsCommands) /\ phase' = w
BY DEF GpsTyped, Ask, Heard

\* The commands of gps_l96.c keep the types.
LEMMA DriverType ==
  ASSUME GpsTyped, NEW rest \in Seq(Messages)
  PROVE  /\ \A i : Probe(i) => cmds' \in Seq(GpsCommands) /\ lines' = <<>> /\ phase' = "probing"
         /\ Configure(rest) => cmds' \in Seq(GpsCommands) /\ lines' = rest /\ phase' = "search"
         /\ Confirm(rest) => cmds' \in Seq(GpsCommands) /\ lines' = rest /\ phase' = "confirming"
         /\ SelectSentences(rest) => cmds' \in Seq(GpsCommands) /\ lines' = rest /\ phase' = "output"
         /\ \A v \in GpsArgs : \A w : SetInterval(v, w, rest) =>
               cmds' \in Seq(GpsCommands) /\ lines' = rest /\ phase' = w
         /\ Normalise(rest) => cmds' \in Seq(GpsCommands) /\ lines' = rest /\ phase' = "settling"
BY AskType, Sent DEF Probe, Configure, Confirm, SelectSentences, SetInterval, Normalise, None

\* So does the end of a connection.
LEMMA LoseType ==
  ASSUME GpsTyped, NEW left, Lose(left)
  PROVE  /\ phase' = "retry" /\ lines' = <<>> /\ cmds' = cmds
         /\ shot' = [shot EXCEPT !.communicating = FALSE] /\ latest' \in {latest, shot'}
         /\ shot' \in Snapshots /\ latest' \in Snapshots
BY DEF Lose, Deinit, Publish, GpsTyped, Snapshots

\* One lemma per action: it keeps the types.
LEMMA TypedTakeAnswer == GpsTyped /\ TakeAnswer => GpsTyped'
<1> SUFFICES ASSUME GpsTyped, TakeAnswer PROVE GpsTyped'
  OBVIOUS
<1> DEFINE line == Head(lines)
           rest == Tail(lines)
<1>1. rest \in Seq(Messages) /\ phase \in DOMAIN Awaits
  BY DEF TakeAnswer, Waiting, GpsTyped
<1>2. UNCHANGED <<stop, config, rx, sent>>
  BY DEF TakeAnswer, receiver
<1>3. CASE Answers(line) /\ line.arg = "L96" /\ Identified(rest)
           /\ UNCHANGED <<publics, faults, active, wanted, known, pairer>>
  BY <1>1, <1>2, <1>3, DriverType DEF Identified, GpsTyped, publics, Connecting
<1>4. CASE Acknowledged(rest)
  <2>1. CASE phase = "search" /\ SelectSentences(rest)
             /\ UNCHANGED <<publics, faults, active, wanted, known, pairer>>
    BY <1>1, <1>2, <2>1, DriverType DEF GpsTyped, publics, Connecting
  <2>2. CASE phase = "output" /\ SetInterval(active, "period", rest)
             /\ UNCHANGED <<publics, faults, active, wanted, known, pairer>>
    BY <1>1, <1>2, <2>2, DriverType DEF GpsTyped, publics, Connecting, Setting
  <2>3. CASE phase = "period" /\ Connected(rest)
    <3>1. shot' \in Snapshots /\ latest' \in Snapshots
      BY <2>3 DEF Connected, Publish, GpsTyped, Snapshots
    <3>2. Nothing \in [Kinds -> Nat]
      BY DEF Nothing, None
    <3> QED BY <1>1, <1>2, <2>3, <3>1, <3>2 DEF Connected, GpsTyped
  <2>4. CASE /\ phase = "changing" /\ phase' = "reading" /\ active' = wanted
             /\ lines' = rest
             /\ UNCHANGED <<publics, faults, probe, rate, noticed, cmds, wanted, known, pairer>>
    BY <1>1, <1>2, <2>4 DEF GpsTyped, publics
  <2> QED BY <1>4, <2>1, <2>2, <2>3, <2>4 DEF Acknowledged
<1>5. CASE Lose(faults) /\ UNCHANGED <<active, wanted, known, pairer>>
  BY <1>2, <1>5, LoseType, Sent DEF GpsTyped
<1>6. CASE /\ IsRestartNotice(line)
           /\ IF line.name = "010" THEN Confirm(rest)
              ELSE /\ noticed' = TRUE /\ lines' = rest
                   /\ UNCHANGED <<phase, probe, rate, cmds>>
           /\ UNCHANGED <<publics, faults, active, wanted, known, pairer>>
  BY <1>1, <1>2, <1>6, DriverType DEF GpsTyped, publics, Connecting
<1>7. CASE lines' = rest /\ UNCHANGED <<publics, faults, phase, probe, rate, noticed, cmds,
                                        active, wanted, known, pairer>>
  BY <1>1, <1>2, <1>7 DEF GpsTyped, publics
<1> QED BY <1>3, <1>4, <1>5, <1>6, <1>7 DEF TakeAnswer

LEMMA TypedTimeOut == GpsTyped /\ TimeOut => GpsTyped'
<1> SUFFICES ASSUME GpsTyped, TimeOut PROVE GpsTyped'
  OBVIOUS
<1>1. PICK left : CASE phase = "probing" -> ProbeNext(left)
                    [] phase = "search" /\ noticed ->
                         Confirm(lines) /\ faults' = left /\ UNCHANGED publics
                    [] OTHER -> Lose(left)
  BY DEF TimeOut
<1>2. UNCHANGED <<active, wanted, pairer, config, rx, sent>>
  BY DEF TimeOut, receiver
<1>3. CASE Lose(left)
  BY <1>2, <1>3, LoseType, Sent DEF GpsTyped
<1>4. CASE Probe(probe + 1) /\ UNCHANGED publics
  BY <1>2, <1>4, DriverType, Sent DEF GpsTyped, publics, Connecting
<1>5. CASE Confirm(lines) /\ UNCHANGED publics
  BY <1>2, <1>5, DriverType DEF GpsTyped, publics, Connecting
<1> QED BY <1>1, <1>3, <1>4, <1>5 DEF ProbeNext

LEMMA TypedConnecting == GpsTyped /\ (Settled \/ Connect \/ InstallFails) => GpsTyped'
<1> SUFFICES ASSUME GpsTyped, Settled \/ Connect \/ InstallFails PROVE GpsTyped'
  OBVIOUS
<1>1. CASE Settled
  <2>1. cmds' \in Seq(GpsCommands) /\ phase' = "verifying"
    BY <1>1, AskType, Sent DEF Settled, None
  <2> QED BY <1>1, <2>1 DEF Settled, GpsTyped, publics, receiver, Connecting
<1>2. CASE Connect
  <2>1. Probe(1) /\ UNCHANGED <<pairer, shot, latest, config, rx, sent>>
    BY <1>2 DEF Connect, publics, receiver
  <2>2. active' \in GpsArgs /\ wanted' \in GpsArgs
    BY <1>2, Sent DEF Connect, CopyConfig, GpsTyped, GpsArgs
  <2> QED BY <2>1, <2>2, DriverType, Sent DEF GpsTyped, Connecting
<1>3. CASE InstallFails
  <2>1. PICK left \in 1..faults : CopyConfig(left) /\ Lose(left - 1)
    BY <1>3 DEF InstallFails
  <2>2. UNCHANGED <<pairer, config, rx, sent>>
    BY <1>3 DEF InstallFails, receiver
  <2>3. active' \in GpsArgs /\ wanted' \in GpsArgs
    BY <2>1, Sent DEF CopyConfig, GpsTyped, GpsArgs
  <2> QED BY <2>1, <2>2, <2>3, LoseType, Sent DEF GpsTyped
<1> QED BY <1>1, <1>2, <1>3

LEMMA TypedReading == GpsTyped /\ (NoticeChange \/ ReadSentence) => GpsTyped'
<1> SUFFICES ASSUME GpsTyped, NoticeChange \/ ReadSentence PROVE GpsTyped'
  OBVIOUS
<1>1. CASE NoticeChange
  <2>1. wanted' \in GpsArgs /\ config.interval \in GpsArgs
    BY <1>1 DEF NoticeChange, GpsTyped, GpsArgs
  <2>2. UNCHANGED <<active, pairer, shot, latest, config, rx, sent>>
    BY <1>1 DEF NoticeChange, publics, receiver
  <2>3. CASE SetInterval(config.interval, "changing", lines)
    BY <2>1, <2>2, <2>3, DriverType DEF GpsTyped, Setting
  <2>4. CASE UNCHANGED <<phase, cmds, lines>>
    BY <2>1, <2>2, <2>4 DEF GpsTyped
  <2> QED BY <1>1, <2>3, <2>4 DEF NoticeChange, wire
<1>2. CASE ReadSentence
  <2> DEFINE line == Head(lines)
             held == IF IsSentence(line) THEN [pairer EXCEPT ![line.name] = line.arg] ELSE pairer
  <2>1. lines' \in Seq(Messages) /\ line \in Messages
    BY <1>2 DEF ReadSentence, GpsTyped
  <2>2. UNCHANGED <<phase, cmds, active, wanted, config, rx, sent>>
    BY <1>2 DEF ReadSentence, receiver
  <2>3. held \in [Kinds -> Nat] /\ Nothing \in [Kinds -> Nat]
    BY <2>1 DEF GpsTyped, IsSentence, Messages, Nothing, None
  <2>4. \/ /\ pairer' = Nothing
           /\ shot' = [shot EXCEPT !.pair = held, !.sequence = @ + 1]
           /\ latest' \in {latest, shot'}
        \/ pairer' = held /\ UNCHANGED <<shot, latest>>
    BY <1>2 DEF ReadSentence, Publish, publics, IsSentence
  <2> HIDE DEF held
  <2>5. shot' \in Snapshots /\ latest' \in Snapshots
    <3>1. \A h \in [Kinds -> Nat], n \in Nat :
             [shot EXCEPT !.pair = h, !.sequence = n] \in Snapshots
      BY DEF GpsTyped, Snapshots
    <3>2. shot.sequence + 1 \in Nat
      BY DEF GpsTyped, Snapshots
    <3>3. [shot EXCEPT !.pair = held, !.sequence = shot.sequence + 1] \in Snapshots
      BY <2>3, <3>1, <3>2
    <3>4. shot \in Snapshots /\ latest \in Snapshots
      BY DEF GpsTyped
    <3> QED BY <2>4, <3>3, <3>4
  <2> QED BY <2>1, <2>2, <2>3, <2>4, <2>5 DEF GpsTyped
<1> QED BY <1>1, <1>2

LEMMA TypedOthers ==
    GpsTyped /\ (\/ Stale \/ Retry \/ Stops \/ AcknowledgeLate \/ ReceiverReports
                 \/ LoseCommand \/ LoseLine \/ ChangeInterval \/ RequestStop) => GpsTyped'
<1>1. GpsTyped /\ Stale => GpsTyped'
  <2> SUFFICES ASSUME GpsTyped, Stale PROVE GpsTyped'
    OBVIOUS
  <2>1. PICK left : Lose(left)
    BY DEF Stale
  <2> QED BY <2>1, LoseType, Sent DEF Stale, GpsTyped, receiver
<1>2. GpsTyped /\ Retry => GpsTyped'
  BY DEF Retry, GpsTyped, publics, receiver, wire
<1>3. GpsTyped /\ Stops => GpsTyped'
  <2> SUFFICES ASSUME GpsTyped, Stops PROVE GpsTyped'
    OBVIOUS
  <2>1. shot' \in Snapshots /\ latest' \in Snapshots
    BY DEF Stops, Publish, publics, GpsTyped, Snapshots
  <2> QED BY <2>1, Sent DEF Stops, Deinit, GpsTyped, receiver
<1>4. GpsTyped /\ AcknowledgeLate => GpsTyped'
  <2> SUFFICES ASSUME GpsTyped, AcknowledgeLate PROVE GpsTyped'
    OBVIOUS
  <2>1. rx' \in Models
    BY DEF AcknowledgeLate, GpsTyped, Models
  <2>2. Line("353", "done") \in Messages
    BY Sent DEF Answer, GpsArgs
  <2>3. lines' \in Seq(Messages)
    BY <2>2, Queues DEF AcknowledgeLate, Reply, GpsTyped
  <2> QED BY <2>1, <2>3 DEF AcknowledgeLate, GpsTyped, worker, publics
<1>5. GpsTyped /\ ReceiverReports => GpsTyped'
  <2> SUFFICES ASSUME GpsTyped, ReceiverReports PROVE GpsTyped'
    OBVIOUS
  <2>1. sent' \in [kind : Kinds, epoch : Nat]
    BY DEF ReceiverReports, GpsTyped, Kinds
  <2>2. Line(sent'.kind, sent'.epoch) \in Messages
    BY <2>1, Sent
  <2>3. lines' \in Seq(Messages)
    BY <2>2, Queues DEF ReceiverReports, Reply, GpsTyped
  <2> QED BY <2>1, <2>3 DEF ReceiverReports, GpsTyped, worker, publics
<1>6. GpsTyped /\ (LoseCommand \/ LoseLine) => GpsTyped'
  <2> SUFFICES ASSUME GpsTyped, LoseCommand \/ LoseLine PROVE GpsTyped'
    OBVIOUS
  <2>1. CASE LoseCommand
    <3>1. cmds' \in Seq(GpsCommands)
      BY <2>1 DEF LoseCommand, GpsTyped
    <3> QED BY <2>1, <3>1 DEF LoseCommand, GpsTyped, worker, publics, receiver
  <2>2. CASE LoseLine
    <3>1. lines' \in Seq(Messages)
      BY <2>2 DEF LoseLine, GpsTyped
    <3> QED BY <2>2, <3>1 DEF LoseLine, GpsTyped, worker, publics, receiver
  <2> QED BY <2>1, <2>2
<1>7. GpsTyped /\ (ChangeInterval \/ RequestStop) => GpsTyped'
  <2> SUFFICES ASSUME GpsTyped, ChangeInterval \/ RequestStop PROVE GpsTyped'
    OBVIOUS
  <2>1. config' \in [interval : Intervals, revision : Nat]
    BY DEF ChangeInterval, RequestStop, GpsTyped
  <2> QED BY <2>1 DEF ChangeInterval, RequestStop, GpsTyped, worker, publics, receiver, wire
<1> QED BY <1>1, <1>2, <1>3, <1>4, <1>5, <1>6, <1>7

\* What the receiver does with a command: no more than this.
LEMMA ExecuteEffect ==
  ASSUME GpsTyped, NEW c \in GpsCommands, NEW done \in BOOLEAN, Execute(c, done)
  PROVE  /\ rx' \in Models
         /\ lines' \in Seq(Messages)
<1> DEFINE ack == Line(c.name, IF done THEN "done" ELSE "refused")
<1>1. /\ c.name \in {"353", "314", "220"} => ack \in Messages
      /\ Line("705", rx.model) \in Messages
      /\ Line("011", None) \in Messages /\ Line("010", None) \in Messages
  BY Sent DEF Answer, GpsArgs, None, GpsTyped, Models
<1>2. c.arg \in GpsArgs
  BY DEF GpsCommands
<1>3. rx' \in Models
  <2>1. \A b \in BOOLEAN :
           /\ [rx EXCEPT !.set.search = TRUE] \in Models
           /\ [rx EXCEPT !.set.search = TRUE, !.owes = b] \in Models
           /\ [rx EXCEPT !.set.sentences = TRUE] \in Models
           /\ [rx EXCEPT !.set.period = c.arg] \in Models
           /\ [rx EXCEPT !.baud = c.arg] \in Models
    BY <1>2 DEF GpsTyped, Models, Settings
  <2>2. rx \in Models
    BY DEF GpsTyped
  <2> QED BY <2>1, <2>2 DEF Execute, GpsCommands
<1>4. ASSUME NEW r, NEW a \in Messages, Reply(<<a>>, r)
      PROVE  lines' \in Seq(Messages)
  BY <1>4 DEF Reply, GpsTyped
<1>5. ASSUME NEW r, NEW a \in Messages, NEW b \in Messages, Reply(<<a, b>>, r)
      PROVE  lines' \in Seq(Messages)
  BY <1>5 DEF Reply, GpsTyped
<1> HIDE DEF ack
<1>6. lines' \in Seq(Messages)
  BY <1>1, <1>4, <1>5 DEF Execute, GpsTyped, GpsCommands, ack
<1> QED BY <1>3, <1>6

LEMMA TypedReceiver == GpsTyped /\ (ReceiverAnswers \/ ReceiverRestarts) => GpsTyped'
<1> SUFFICES ASSUME GpsTyped, ReceiverAnswers \/ ReceiverRestarts PROVE GpsTyped'
  OBVIOUS
<1>1. CASE ReceiverAnswers
  <2>1. Head(cmds) \in GpsCommands /\ cmds' \in Seq(GpsCommands)
    BY <1>1 DEF ReceiverAnswers, GpsTyped
  <2>2. PICK done \in BOOLEAN : Execute(Head(cmds), done)
    BY <1>1 DEF ReceiverAnswers
  <2>3. rx' \in Models /\ lines' \in Seq(Messages)
    BY <2>1, <2>2, ExecuteEffect
  <2>4. UNCHANGED <<phase, pairer, shot, latest, config, sent, active, wanted>>
    BY <1>1 DEF ReceiverAnswers, worker, publics
  <2> QED BY <2>1, <2>3, <2>4 DEF GpsTyped
<1>2. CASE ReceiverRestarts
  <2>1. rx' \in Models
    <3>1. Factory \in GpsArgs
      BY GpsAssumption DEF GpsArgs
    <3>2. Unset \in Settings
      BY Sent DEF Unset, Settings, None
    <3> QED BY <1>2, <3>1, <3>2 DEF ReceiverRestarts, GpsTyped, Models
  <2>2. Line("011", None) \in Messages /\ Line("010", None) \in Messages
    BY Sent DEF Answer, None
  <2>3. lines' \in Seq(Messages)
    BY <1>2, <2>2, Queues DEF ReceiverRestarts, Reply, GpsTyped
  <2>4. cmds' \in Seq(GpsCommands)
    BY <1>2 DEF ReceiverRestarts
  <2> QED BY <1>2, <2>1, <2>3, <2>4 DEF ReceiverRestarts, GpsTyped, worker, publics
<1> QED BY <1>1, <1>2

\* ... and every step keeps them.
LEMMA TypedStep == GpsTyped /\ [GpsNext]_gpsVars => GpsTyped'
<1>1. GpsTyped /\ UNCHANGED gpsVars => GpsTyped'
  BY DEF GpsTyped, gpsVars, worker, publics, receiver, wire
<1> QED
  BY <1>1, TypedTakeAnswer, TypedTimeOut, TypedConnecting, TypedReading, TypedOthers,
    TypedReceiver
  DEF GpsNext, Worker, Receiver

-----------------------------------------------------------------------------
(* GpsPath: the pairs advance                                              *)

\* The receiver has sent sentence k of epoch e.
Reported(k, e) == e < sent.epoch \/ (e = sent.epoch /\ k \in {"RMC", sent.kind})

\* A sentence under way is one of the receiver's, and later than what is held and
\* what was published of its kind.
Ahead(l) == Reported(l.name, l.arg) /\ l.arg > pairer[l.name] /\ l.arg > shot.pair[l.name]
SentencesAhead == \A i \in DOMAIN lines : IsSentence(lines[i]) => Ahead(lines[i])
\* The sentences of a kind come in the order of their epochs.
SentencesInOrder ==
    \A i, j \in DOMAIN lines :
        i < j /\ lines[i].name = lines[j].name /\ IsSentence(lines[i])
            => lines[i].arg < lines[j].arg
\* A sentence the pairer holds is later than the pair published.
HeldAhead ==
    \A k \in Kinds :
        /\ Reported(k, pairer[k]) /\ Reported(k, shot.pair[k])
        /\ pairer[k] = None \/ pairer[k] > shot.pair[k]
\* What the others read is the worker's pair, or an older one.
PublishedBehind ==
    /\ shot.pair["RMC"] = shot.pair["GGA"]
    /\ \/ shot.sequence = latest.sequence /\ shot.pair = latest.pair
       \/ shot.sequence > latest.sequence /\ shot.pair["RMC"] > latest.pair["RMC"]

\* The inductive invariant of PairsAdvance.
PairInv == GpsTyped /\ SentencesAhead /\ SentencesInOrder /\ HeldAhead /\ PublishedBehind

\* Steps that bring no sentence and no pair.
NoSentence ==
    /\ sent' = sent
    /\ shot'.pair = shot.pair /\ shot'.sequence = shot.sequence
    /\ \/ latest'.pair = latest.pair /\ latest'.sequence = latest.sequence
       \/ latest'.pair = shot.pair /\ latest'.sequence = shot.sequence
    /\ pairer' \in {pairer, Nothing}
    /\ \E d \in Nat : \A i \in DOMAIN lines' :
          IsSentence(lines'[i]) => i + d \in DOMAIN lines /\ lines'[i] = lines[i + d]

\* It holds at the start, is kept where no sentence comes ...
LEMMA PairInit == GpsInit => PairInv
<1> SUFFICES ASSUME GpsInit PROVE PairInv
  OBVIOUS
<1>1. GpsTyped
  BY TypedInit
<1>2. DOMAIN lines = {}
  BY DEF GpsInit
<1>3. SentencesAhead /\ SentencesInOrder
  BY <1>2 DEF SentencesAhead, SentencesInOrder
<1>4. HeldAhead /\ PublishedBehind
  BY DEF GpsInit, HeldAhead, PublishedBehind, Reported, Silent, Nothing, None, Kinds
<1> QED BY <1>1, <1>3, <1>4 DEF PairInv

LEMMA NoSentenceKeeps == PairInv /\ GpsTyped' /\ NoSentence => PairInv'
<1> SUFFICES ASSUME PairInv, GpsTyped', NoSentence PROVE PairInv'
  OBVIOUS
<1> GpsTyped /\ SentencesAhead /\ SentencesInOrder /\ HeldAhead /\ PublishedBehind
  BY DEF PairInv
<1>1. PICK d \in Nat : \A i \in DOMAIN lines' :
          IsSentence(lines'[i]) => i + d \in DOMAIN lines /\ lines'[i] = lines[i + d]
  BY DEF NoSentence
<1>2. sent' = sent /\ shot'.pair = shot.pair /\ shot'.sequence = shot.sequence
  BY DEF NoSentence
<1>3. \A k \in Kinds : /\ pairer[k] \in Nat /\ shot.pair[k] \in Nat
                       /\ pairer'[k] = pairer[k] \/ pairer'[k] = None
  BY DEF NoSentence, Nothing, GpsTyped, Snapshots
<1>4. SentencesAhead'
  <2> SUFFICES ASSUME NEW i \in DOMAIN lines', NEW l, l = lines'[i], IsSentence(l)
               PROVE  Ahead(l)'
    BY DEF SentencesAhead, IsSentence, Ahead, Reported
  <2>1. i + d \in DOMAIN lines /\ l = lines[i + d]
    BY <1>1
  <2>2. l.arg \in Nat /\ l.name \in Kinds
    BY <2>1 DEF GpsTyped, Messages, IsSentence
  <2>3. Ahead(l)
    BY <2>1 DEF SentencesAhead
  <2> QED BY <1>2, <1>3, <2>2, <2>3 DEF Ahead, Reported, None
<1>5. SentencesInOrder'
  <2> SUFFICES ASSUME NEW i \in DOMAIN lines', NEW j \in DOMAIN lines', i < j,
                      lines'[i].name = lines'[j].name, IsSentence(lines'[i])
               PROVE  lines'[i].arg < lines'[j].arg
    BY DEF SentencesInOrder, IsSentence
  <2>1. i \in Nat /\ j \in Nat
    BY DEF GpsTyped
  <2>2. /\ i + d \in DOMAIN lines /\ lines'[i] = lines[i + d]
        /\ j + d \in DOMAIN lines /\ lines'[j] = lines[j + d]
    BY <1>1 DEF IsSentence
  <2>3. i + d < j + d
    BY <2>1
  <2> QED BY <2>2, <2>3 DEF SentencesInOrder
<1>6. HeldAhead'
  BY <1>2, <1>3 DEF HeldAhead, Reported, GpsTyped, None, Kinds
<1>7. PublishedBehind'
  BY <1>2 DEF PublishedBehind, NoSentence
<1> QED BY <1>4, <1>5, <1>6, <1>7 DEF PairInv

\* ... and where one is sent.
LEMMA ReportKeeps == PairInv /\ GpsTyped' /\ ReceiverReports => PairInv'
<1> SUFFICES ASSUME PairInv, GpsTyped', ReceiverReports PROVE PairInv'
  OBVIOUS
<1> GpsTyped /\ SentencesAhead /\ SentencesInOrder /\ HeldAhead /\ PublishedBehind
  BY DEF PairInv
<1> DEFINE new == Line(sent'.kind, sent'.epoch)
<1>1. UNCHANGED <<pairer, shot, latest>>
  BY DEF ReceiverReports, worker, publics
<1>2. sent \in [kind : Kinds, epoch : Nat] /\ sent' \in [kind : Kinds, epoch : Nat]
  BY DEF GpsTyped
<1>3. \A k \in Kinds, e \in Nat : Reported(k, e) => Reported(k, e)' /\ (k = sent'.kind => e < sent'.epoch)
  BY <1>2 DEF ReceiverReports, Reported, Kinds
<1>4. \A k \in Kinds, e \in Nat : k = sent'.kind /\ e = sent'.epoch => Reported(k, e)'
  BY <1>2 DEF Reported
<1>5. new.name = sent'.kind /\ new.arg = sent'.epoch /\ new \in Messages
  BY <1>2, Sent DEF Line
<1>6. lines' = lines \/ lines' = Append(lines, new)
  BY <1>5, Queues DEF ReceiverReports, Reply, GpsTyped
<1> HIDE DEF new
<1>7. \A k \in Kinds : pairer[k] \in Nat /\ shot.pair[k] \in Nat
  BY DEF GpsTyped, Snapshots
<1>8. HeldAhead'
  BY <1>1, <1>3, <1>7 DEF HeldAhead
<1>9. PublishedBehind'
  BY <1>1 DEF PublishedBehind
<1>10. \A i \in DOMAIN lines : IsSentence(lines[i]) => lines[i].name \in Kinds /\ lines[i].arg \in Nat
  BY DEF GpsTyped, Messages, IsSentence
<1>11. \A i \in DOMAIN lines' :
          \/ (i \in DOMAIN lines /\ lines'[i] = lines[i])
          \/ (lines'[i] = new /\ (\A j \in DOMAIN lines' : j <= i))
  <2>1. CASE lines' = lines
    BY <2>1
  <2>2. CASE lines' = Append(lines, new)
    BY <1>5, <2>2 DEF GpsTyped
  <2> QED BY <1>6, <2>1, <2>2
<1>12. SentencesAhead'
  <2> SUFFICES ASSUME NEW i \in DOMAIN lines', NEW l, l = lines'[i], IsSentence(l)
               PROVE  Ahead(l)'
    BY DEF SentencesAhead, IsSentence, Ahead, Reported
  <2>1. CASE i \in DOMAIN lines /\ lines'[i] = lines[i]
    <3>1. Ahead(l) /\ l.name \in Kinds /\ l.arg \in Nat
      BY <1>10, <2>1 DEF SentencesAhead
    <3> QED BY <1>1, <1>3, <3>1 DEF Ahead
  <2>2. CASE lines'[i] = new
    <3> l.name \in Kinds /\ l.arg \in Nat
      BY <1>2, <1>5, <2>2
    <3>1. Reported(l.name, pairer[l.name]) /\ Reported(l.name, shot.pair[l.name])
      BY DEF HeldAhead
    <3>2. l.arg > pairer[l.name] /\ l.arg > shot.pair[l.name]
      BY <1>2, <1>3, <1>5, <1>7, <2>2, <3>1
    <3>3. Reported(l.name, l.arg)'
      BY <1>4, <1>5, <2>2
    <3> QED BY <1>1, <3>2, <3>3 DEF Ahead
  <2> QED BY <1>11, <2>1, <2>2
<1>13. SentencesInOrder'
  <2> SUFFICES ASSUME NEW i \in DOMAIN lines', NEW j \in DOMAIN lines', i < j,
                      lines'[i].name = lines'[j].name, IsSentence(lines'[i])
               PROVE  lines'[i].arg < lines'[j].arg
    BY DEF SentencesInOrder, IsSentence
  <2>1. i \in Nat /\ j \in Nat
    BY DEF GpsTyped
  <2>2. i \in DOMAIN lines /\ lines'[i] = lines[i]
    BY <1>11, <2>1
  <2>3. CASE j \in DOMAIN lines /\ lines'[j] = lines[j]
    BY <2>2, <2>3 DEF SentencesInOrder, IsSentence
  <2>4. CASE lines'[j] = new
    <3>1. Ahead(lines[i])
      BY <2>2 DEF SentencesAhead, IsSentence
    <3> QED BY <1>2, <1>3, <1>5, <1>10, <2>2, <2>4, <3>1 DEF Ahead, IsSentence
  <2> QED BY <1>11, <2>3, <2>4
<1> QED BY <1>8, <1>9, <1>12, <1>13 DEF PairInv

\* What the last of the lines is.
LEMMA Appended ==
  ASSUME NEW q \in Seq(Messages), NEW m \in Messages
  PROVE  /\ Append(q, m) \in Seq(Messages)
         /\ DOMAIN Append(q, m) = DOMAIN q \cup {Len(q) + 1}
         /\ \A i \in DOMAIN q : Append(q, m)[i] = q[i]
         /\ Append(q, m)[Len(q) + 1] = m
OBVIOUS

\* Lines that are no sentences, or fewer lines, keep the order.
LEMMA SentencesKept ==
  ASSUME GpsTyped,
         \/ lines' \in {lines, <<>>}
         \/ lines # <<>> /\ lines' = Tail(lines)
         \/ \E a \in Messages : ~IsSentence(a) /\ lines' = Append(lines, a)
         \/ \E a, b \in Messages :
               ~IsSentence(a) /\ ~IsSentence(b) /\ lines' = Append(Append(lines, a), b)
  PROVE  \E d \in Nat : \A i \in DOMAIN lines' :
            IsSentence(lines'[i]) => i + d \in DOMAIN lines /\ lines'[i] = lines[i + d]
<1>1. CASE lines' = lines
  <2>1. \A i \in DOMAIN lines' : i + 0 = i
    BY <1>1 DEF GpsTyped
  <2> QED BY <1>1, <2>1
<1>2. CASE lines' = <<>>
  <2>1. DOMAIN lines' = {}
    BY <1>2
  <2> QED BY <2>1
<1>3. CASE lines # <<>> /\ lines' = Tail(lines)
  <2>1. \A i \in DOMAIN lines' : i + 1 \in DOMAIN lines /\ lines'[i] = lines[i + 1]
    BY <1>3 DEF GpsTyped
  <2> QED BY <2>1
<1>4. ASSUME NEW a \in Messages, ~IsSentence(a), lines' = Append(lines, a)
      PROVE  \A i \in DOMAIN lines' :
                IsSentence(lines'[i]) => i + 0 \in DOMAIN lines /\ lines'[i] = lines[i + 0]
  BY <1>4 DEF GpsTyped
<1>5. ASSUME NEW a \in Messages, NEW b \in Messages, ~IsSentence(a), ~IsSentence(b),
             lines' = Append(Append(lines, a), b)
      PROVE  \A i \in DOMAIN lines' :
                IsSentence(lines'[i]) => i + 0 \in DOMAIN lines /\ lines'[i] = lines[i + 0]
  <2> DEFINE more == Append(lines, a)
  <2>1. /\ more \in Seq(Messages) /\ DOMAIN more = DOMAIN lines \cup {Len(lines) + 1}
        /\ \A i \in DOMAIN lines : more[i] = lines[i]
        /\ more[Len(lines) + 1] = a
    BY Appended DEF GpsTyped
  <2> HIDE DEF more
  <2>2. /\ DOMAIN Append(more, b) = DOMAIN more \cup {Len(more) + 1}
        /\ \A i \in DOMAIN more : Append(more, b)[i] = more[i]
        /\ Append(more, b)[Len(more) + 1] = b
    BY <2>1, Appended
  <2>3. lines' = Append(more, b)
    BY <1>5 DEF more
  <2>4. \A i \in DOMAIN lines : i + 0 = i
    BY DEF GpsTyped
  <2> QED BY <1>5, <2>1, <2>2, <2>3, <2>4
<1> QED BY <1>1, <1>2, <1>3, <1>4, <1>5

\* Publishing a snapshot with the pair of the worker's.
LEMMA PublishKept ==
  ASSUME GpsTyped, NEW b \in BOOLEAN, NEW left, Publish([shot EXCEPT !.communicating = b], left)
  PROVE  /\ shot'.pair = shot.pair /\ shot'.sequence = shot.sequence
         /\ \/ latest'.pair = latest.pair /\ latest'.sequence = latest.sequence
            \/ latest'.pair = shot.pair /\ latest'.sequence = shot.sequence
BY DEF Publish, GpsTyped, Snapshots

\* All steps but those that send or read a sentence.
LEMMA WorkerQuiet ==
    GpsTyped /\ (Worker \/ UNCHANGED gpsVars) /\ ~ReadSentence => NoSentence
<1> SUFFICES ASSUME GpsTyped, ~ReadSentence PROVE Worker \/ UNCHANGED gpsVars => NoSentence
  OBVIOUS
<1> DEFINE Shown == /\ shot'.pair = shot.pair /\ shot'.sequence = shot.sequence
                    /\ \/ latest'.pair = latest.pair /\ latest'.sequence = latest.sequence
                       \/ latest'.pair = shot.pair /\ latest'.sequence = shot.sequence
           Held == \/ lines' \in {lines, <<>>}
                   \/ lines # <<>> /\ lines' = Tail(lines)
<1>1. ASSUME sent' = sent, Shown, pairer' \in {pairer, Nothing}, Held PROVE NoSentence
  BY <1>1, SentencesKept DEF NoSentence
<1>2. UNCHANGED publics => Shown
  BY DEF publics
<1>3. \A left : Lose(left) => Shown /\ lines' = <<>>
  BY PublishKept DEF Lose, Deinit
<1> HIDE DEF Shown, Held
<1>4. TakeAnswer => NoSentence
  <2> SUFFICES ASSUME TakeAnswer PROVE NoSentence
    OBVIOUS
  <2> DEFINE rest == Tail(lines)
  <2>1. Identified(rest) => lines' = rest
    BY DEF Identified, Normalise, Configure, SelectSentences
  <2>2. Acknowledged(rest) => lines' = rest /\ Shown /\ pairer' \in {pairer, Nothing}
    <3>1. Connected(rest) => Shown
      BY PublishKept DEF Connected, Shown
    <3> QED BY <1>2, <3>1 DEF Acknowledged, Connected, SelectSentences, SetInterval
  <2>3. lines # <<>> /\ sent' = sent
    BY DEF TakeAnswer, receiver
  <2>4. lines' \in {rest, <<>>} /\ Shown /\ pairer' \in {pairer, Nothing}
    BY <1>2, <1>3, <2>1, <2>2 DEF TakeAnswer, Confirm
  <2> QED BY <1>1, <2>3, <2>4 DEF Held
<1>5. TimeOut => NoSentence
  <2> SUFFICES ASSUME TimeOut PROVE NoSentence
    OBVIOUS
  <2>1. Shown /\ lines' \in {lines, <<>>}
    BY <1>2, <1>3 DEF TimeOut, ProbeNext, Probe, Confirm
  <2> QED BY <1>1, <2>1 DEF TimeOut, receiver, Held
<1>6. Settled => NoSentence
  BY <1>1, <1>2 DEF Settled, receiver, Held
<1>7. Connect => NoSentence
  BY <1>1, <1>2 DEF Connect, Probe, receiver, Held
<1>8. InstallFails => NoSentence
  BY <1>1, <1>3 DEF InstallFails, receiver, Held
<1>9. NoticeChange => NoSentence
  BY <1>1, <1>2 DEF NoticeChange, SetInterval, receiver, wire, Held
<1>10. Stale => NoSentence
  BY <1>1, <1>3 DEF Stale, receiver, Held
<1>11. Retry => NoSentence
  BY <1>1, <1>2 DEF Retry, receiver, wire, Held
<1>12. Stops => NoSentence
  <2> SUFFICES ASSUME Stops PROVE NoSentence
    OBVIOUS
  <2>1. Shown
    BY <1>2, PublishKept DEF Stops, Shown
  <2> QED BY <1>1, <2>1 DEF Stops, Deinit, receiver, Held
<1>13. UNCHANGED gpsVars => NoSentence
  BY <1>1, <1>2 DEF gpsVars, worker, publics, receiver, wire, Held
<1> QED BY <1>4, <1>5, <1>6, <1>7, <1>8, <1>9, <1>10, <1>11, <1>12, <1>13 DEF Worker

LEMMA OthersQuiet ==
    GpsTyped /\ (\/ ReceiverAnswers \/ AcknowledgeLate \/ ReceiverRestarts
                 \/ LoseCommand \/ LoseLine \/ ChangeInterval \/ RequestStop) => NoSentence
<1> SUFFICES ASSUME GpsTyped
             PROVE  (\/ ReceiverAnswers \/ AcknowledgeLate \/ ReceiverRestarts
                     \/ LoseCommand \/ LoseLine \/ ChangeInterval \/ RequestStop) => NoSentence
  OBVIOUS
<1> DEFINE Held == \E d \in Nat : \A i \in DOMAIN lines' :
               IsSentence(lines'[i]) => i + d \in DOMAIN lines /\ lines'[i] = lines[i + d]
<1>1. ASSUME UNCHANGED <<sent, shot, latest, pairer>>, Held PROVE NoSentence
  BY <1>1 DEF NoSentence
<1>2. ASSUME NEW r, NEW a \in Messages, a.name \in Answer, Reply(<<a>>, r) PROVE Held
  <2>1. ~IsSentence(a)
    BY <1>2 DEF IsSentence, Answer, Kinds
  <2>2. lines' = lines \/ lines' = Append(lines, a)
    BY <1>2, Queues DEF Reply, GpsTyped
  <2> QED BY <2>1, <2>2, SentencesKept
<1>3. ASSUME NEW r, NEW a \in Messages, NEW b \in Messages,
             a.name \in Answer, b.name \in Answer, Reply(<<a, b>>, r)
      PROVE  Held
  <2>1. ~IsSentence(a) /\ ~IsSentence(b)
    BY <1>3 DEF IsSentence, Answer, Kinds
  <2>2. lines' = lines \/ lines' = Append(Append(lines, a), b)
    BY <1>3, Queues DEF Reply, GpsTyped
  <2> QED BY <2>1, <2>2, SentencesKept
<1>4. lines' \in {lines, <<>>} \/ (lines # <<>> /\ lines' = Tail(lines)) => Held
  BY SentencesKept
<1>5. /\ Line("705", rx.model) \in Messages /\ Line("353", "done") \in Messages
      /\ Line("011", None) \in Messages /\ Line("010", None) \in Messages
      /\ \A n, a : Line(n, a).name = n
  BY Sent DEF Answer, GpsArgs, None, GpsTyped, Models, Line
<1> HIDE DEF Held
<1>6. ReceiverAnswers => NoSentence
  <2> SUFFICES ASSUME ReceiverAnswers PROVE NoSentence
    OBVIOUS
  <2>1. PICK done \in BOOLEAN : Execute(Head(cmds), done)
    BY DEF ReceiverAnswers
  <2>2. Head(cmds) \in GpsCommands
    BY DEF ReceiverAnswers, GpsTyped
  <2> DEFINE c == Head(cmds)
             ack == Line(c.name, IF done THEN "done" ELSE "refused")
  <2>3. c.name \in {"353", "314", "220"} => ack \in Messages /\ ack.name \in Answer
    BY Sent DEF Answer, GpsArgs, Line
  <2> HIDE DEF c, ack
  <2>4. Held
    <3>1. CASE c.name = "605"
      BY <1>2, <1>5, <2>1, <3>1 DEF Execute, Answer, c
    <3>2. CASE c.name = "251"
      BY <1>4, <2>1, <3>2 DEF Execute, c
    <3>3. CASE c.name = "353"
      BY <1>2, <1>3, <1>5, <2>1, <2>3, <3>3 DEF Execute, Answer, c, ack
    <3>4. CASE c.name = "314"
      BY <1>2, <2>1, <2>3, <3>4 DEF Execute, c, ack
    <3>5. CASE c.name = "220"
      BY <1>2, <2>1, <2>3, <3>5 DEF Execute, c, ack
    <3> QED BY <2>2, <3>1, <3>2, <3>3, <3>4, <3>5 DEF GpsCommands, c
  <2> QED BY <1>1, <2>4 DEF ReceiverAnswers, worker, publics
<1>7. AcknowledgeLate => NoSentence
  BY <1>1, <1>2, <1>5 DEF AcknowledgeLate, Answer, worker, publics
<1>8. ReceiverRestarts => NoSentence
  BY <1>1, <1>3, <1>5 DEF ReceiverRestarts, Answer, worker, publics
<1>9. LoseCommand \/ LoseLine \/ ChangeInterval \/ RequestStop => NoSentence
  BY <1>1, <1>4 DEF LoseCommand, LoseLine, ChangeInterval, RequestStop, worker, publics,
    receiver, wire
<1> QED BY <1>6, <1>7, <1>8, <1>9

\* A sentence is read: it is later than what is held, and a pair later than the last.
LEMMA ReadKeeps ==
    PairInv /\ GpsTyped' /\ ReadSentence =>
        /\ PairInv'
        /\ \/ shot' = shot /\ latest' = latest
           \/ /\ shot'.pair["RMC"] > shot.pair["RMC"] /\ shot'.sequence = shot.sequence + 1
              /\ latest' \in {latest, shot'}
<1> SUFFICES ASSUME PairInv, GpsTyped', ReadSentence
             PROVE  /\ PairInv'
                    /\ \/ shot' = shot /\ latest' = latest
                       \/ /\ shot'.pair["RMC"] > shot.pair["RMC"]
                          /\ shot'.sequence = shot.sequence + 1
                          /\ latest' \in {latest, shot'}
  OBVIOUS
<1> GpsTyped /\ SentencesAhead /\ SentencesInOrder /\ HeldAhead /\ PublishedBehind
  BY DEF PairInv
<1> DEFINE line == Head(lines)
           held == IF IsSentence(line) THEN [pairer EXCEPT ![line.name] = line.arg] ELSE pairer
<1>1. /\ lines # <<>> /\ lines' = Tail(lines) /\ sent' = sent
      /\ line \in Messages /\ line = lines[1] /\ 1 \in DOMAIN lines
      /\ \A i \in DOMAIN lines' : i + 1 \in DOMAIN lines /\ lines'[i] = lines[i + 1] /\ 1 < i + 1
  BY DEF ReadSentence, GpsTyped, receiver
<1>2. \/ /\ IsSentence(line) /\ Paired(held) /\ pairer' = Nothing
         /\ shot' = [shot EXCEPT !.pair = held, !.sequence = shot.sequence + 1]
         /\ latest' \in {latest, shot'}
      \/ pairer' = held /\ shot' = shot /\ latest' = latest
  BY DEF ReadSentence, Publish, publics
<1>3. IsSentence(line) => Ahead(line) /\ line.name \in Kinds /\ line.arg \in Nat
  BY <1>1 DEF SentencesAhead, Messages, IsSentence
<1>4. \A k \in Kinds : pairer[k] \in Nat /\ shot.pair[k] \in Nat
  BY DEF GpsTyped, Snapshots
<1>5. /\ held \in [Kinds -> Nat]
      /\ \A k \in Kinds : held[k] = IF IsSentence(line) /\ k = line.name THEN line.arg ELSE pairer[k]
  BY <1>3 DEF GpsTyped
<1>6. \A k \in Kinds : /\ Reported(k, held[k])
                       /\ held[k] = None \/ held[k] > shot.pair[k]
  BY <1>3, <1>5 DEF HeldAhead, Ahead
<1>7. \A i \in DOMAIN lines' : IsSentence(lines'[i]) =>
          /\ Ahead(lines'[i]) /\ lines'[i].name \in Kinds /\ lines'[i].arg \in Nat
          /\ lines'[i].arg > held[lines'[i].name]
  <2> SUFFICES ASSUME NEW i \in DOMAIN lines', IsSentence(lines'[i])
               PROVE  /\ Ahead(lines'[i]) /\ lines'[i].name \in Kinds /\ lines'[i].arg \in Nat
                      /\ lines'[i].arg > held[lines'[i].name]
    OBVIOUS
  <2>1. /\ Ahead(lines'[i]) /\ lines'[i].name \in Kinds /\ lines'[i].arg \in Nat
    BY <1>1 DEF SentencesAhead, GpsTyped, Messages, IsSentence
  <2>2. CASE IsSentence(line) /\ lines'[i].name = line.name
    BY <1>1, <1>5, <2>1, <2>2 DEF SentencesInOrder
  <2>3. CASE ~(IsSentence(line) /\ lines'[i].name = line.name)
    BY <1>5, <2>1, <2>3 DEF Ahead
  <2> QED BY <2>1, <2>2, <2>3
<1>8. SentencesInOrder'
  <2> SUFFICES ASSUME NEW i \in DOMAIN lines', NEW j \in DOMAIN lines', i < j,
                      lines'[i].name = lines'[j].name, IsSentence(lines'[i])
               PROVE  lines'[i].arg < lines'[j].arg
    BY DEF SentencesInOrder, IsSentence
  <2>1. i \in Nat /\ j \in Nat
    BY DEF GpsTyped
  <2> QED BY <1>1, <2>1 DEF SentencesInOrder
<1> HIDE DEF held, line
<1>9. CASE pairer' = held /\ shot' = shot /\ latest' = latest
  <2>1. SentencesAhead'
    BY <1>1, <1>7, <1>9 DEF SentencesAhead, Ahead, Reported, IsSentence
  <2>2. HeldAhead'
    BY <1>1, <1>6, <1>9 DEF HeldAhead, Reported
  <2>3. PublishedBehind'
    BY <1>9 DEF PublishedBehind
  <2> QED BY <1>8, <1>9, <2>1, <2>2, <2>3 DEF PairInv
<1>10. CASE /\ Paired(held) /\ pairer' = Nothing
            /\ shot' = [shot EXCEPT !.pair = held, !.sequence = shot.sequence + 1]
            /\ latest' \in {latest, shot'}
  <2>1. shot'.pair = held /\ shot'.sequence = shot.sequence + 1
    BY <1>10 DEF GpsTyped, Snapshots
  <2>2. /\ held["RMC"] = held["GGA"] /\ held["RMC"] > shot.pair["RMC"]
        /\ held["RMC"] \in Nat
    BY <1>5, <1>6, <1>10 DEF Paired, Kinds
  <2>3. \A k \in Kinds : pairer'[k] = 0
    BY <1>10 DEF Nothing, None
  <2>4. SentencesAhead'
    <3> SUFFICES ASSUME NEW i \in DOMAIN lines', NEW l, l = lines'[i], IsSentence(l)
                 PROVE  Ahead(l)'
      BY DEF SentencesAhead, IsSentence, Ahead, Reported
    <3>1. Ahead(l) /\ l.name \in Kinds /\ l.arg \in Nat /\ l.arg > held[l.name]
      BY <1>7
    <3>2. Reported(l.name, l.arg)'
      BY <1>1, <3>1 DEF Ahead, Reported
    <3>3. l.arg > 0
      BY <1>4, <3>1 DEF Ahead
    <3> QED BY <2>1, <2>3, <3>1, <3>2, <3>3 DEF Ahead
  <2>5. HeldAhead'
    BY <1>1, <1>6, <2>1, <2>3 DEF HeldAhead, Reported, None, GpsTyped
  <2>6. PublishedBehind'
    <3>1. /\ latest.sequence \in Nat /\ shot.sequence \in Nat
          /\ latest.pair["RMC"] \in Nat /\ shot.pair["RMC"] \in Nat
      BY DEF GpsTyped, Snapshots, Kinds
    <3>2. CASE latest' = shot'
      BY <2>1, <2>2, <3>2 DEF PublishedBehind
    <3>3. CASE latest' = latest
      BY <2>1, <2>2, <3>1, <3>3 DEF PublishedBehind
    <3> QED BY <1>10, <3>2, <3>3
  <2> QED BY <1>8, <1>10, <2>1, <2>2, <2>4, <2>5, <2>6 DEF PairInv
<1> QED BY <1>2, <1>9, <1>10

\* Every step keeps the invariant.
LEMMA PairStep == PairInv /\ [GpsNext]_gpsVars => PairInv'
<1> SUFFICES ASSUME PairInv, [GpsNext]_gpsVars PROVE PairInv'
  OBVIOUS
<1>1. GpsTyped /\ GpsTyped'
  BY TypedStep DEF PairInv
<1> QED
  BY <1>1, ReadKeeps, ReportKeeps, NoSentenceKeeps, WorkerQuiet, OthersQuiet
  DEF GpsNext, Receiver

\* Whatever sentences the wire loses and however often the connection is lost, what
\* the others read is the RMC and the GGA of one epoch, later than any pair before
\* (gps_nmea_pairer_consume, app_resources_publish_gps).
THEOREM PairsAlwaysAdvance == GpsSpec => PairsAdvance
<1>1. PairInv /\ [GpsNext]_gpsVars =>
          [latest'.sequence # latest.sequence =>
              /\ latest'.pair["RMC"] = latest'.pair["GGA"]
              /\ latest'.pair["RMC"] > latest.pair["RMC"]
              /\ latest'.sequence > latest.sequence]_gpsVars
  <2> SUFFICES ASSUME PairInv, [GpsNext]_gpsVars, latest'.sequence # latest.sequence
               PROVE  /\ latest'.pair["RMC"] = latest'.pair["GGA"]
                      /\ latest'.pair["RMC"] > latest.pair["RMC"]
                      /\ latest'.sequence > latest.sequence
    OBVIOUS
  <2>1. PairInv'
    BY PairStep
  <2>2. /\ latest.sequence \in Nat /\ shot.sequence \in Nat
        /\ latest.pair["RMC"] \in Nat /\ shot.pair["RMC"] \in Nat
        /\ shot'.pair["RMC"] \in Nat
    BY <2>1 DEF PairInv, GpsTyped, Snapshots, Kinds
  <2>3. CASE NoSentence
    BY <2>2, <2>3 DEF NoSentence, PairInv, PublishedBehind
  <2>4. CASE ReadSentence
    <3>1. GpsTyped'
      BY <2>1 DEF PairInv
    <3>2. /\ shot'.pair["RMC"] > shot.pair["RMC"] /\ shot'.sequence = shot.sequence + 1
          /\ latest' = shot'
      BY <2>4, <3>1, ReadKeeps
    <3> QED BY <2>1, <2>2, <3>2 DEF PairInv, PublishedBehind
  <2>5. CASE ReceiverReports
    BY <2>5 DEF ReceiverReports, publics
  <2>6. GpsTyped
    BY DEF PairInv
  <2> QED BY <2>3, <2>4, <2>5, <2>6, WorkerQuiet, OthersQuiet DEF GpsNext, Receiver
<1> QED BY <1>1, PairInit, PairStep, PTL DEF GpsSpec, PairsAdvance

-----------------------------------------------------------------------------
(* GpsPath: the receiver is configured                                     *)

\* What is in a queue, wherever: answers that tell that PMTK353 or PMTK314 was
\* taken, and commands or answers about the interval, which name no value.
Items(q) == {q[i] : i \in DOMAIN q}
Tells(m) == m.name \in {"011", "010"} \/ (m.name = "353" /\ m.arg = "done")
Chosen(m) == m.name = "314" /\ m.arg = "done"
NoInterval(q) == \A m \in Items(q) : m.name # "220"
OneInterval(q) ==
    \A i, j \in DOMAIN q : q[i].name = "220" /\ q[j].name = "220" => i = j

\* The interval the worker counts on once its wait is over.
Meant == IF phase = "changing" THEN wanted ELSE active

\* Whoever has been told that a command was taken has a receiver that took it.
SearchTold ==
    /\ rx.owes => rx.set.search
    /\ ~restarted =>
          /\ \A m \in Items(lines) : /\ Tells(m) => rx.set.search
                                     /\ Chosen(m) => rx.set.sentences
          /\ phase \in {"confirming", "output", "reading"} \cup Setting => rx.set.search
          /\ phase = "search" /\ noticed => rx.set.search
          /\ phase \in {"reading"} \cup Setting => rx.set.sentences
\* No interval command is under way before it is sent and once it is answered;
\* between the two there is one, its value is the one meant, and its answer comes
\* after the receiver took it.
PeriodTold ==
    ~restarted /\ ~overdue =>
        /\ phase \in Connecting \cup {"reading"} => NoInterval(cmds) /\ NoInterval(lines)
        /\ phase = "reading" => rx.set.period = active
        /\ phase \in Setting =>
              /\ OneInterval(cmds) /\ OneInterval(lines)
              /\ NoInterval(cmds) \/ NoInterval(lines)
              /\ \A m \in Items(cmds) : m.name = "220" => m.arg = Meant
              /\ \A m \in Items(lines) :
                    m.name = "220" /\ m.arg = "done" => rx.set.period = Meant
\* The inductive invariant of Configured.
ObeyInv == GpsTyped /\ SearchTold /\ PeriodTold

\* What taking the first and adding a last item does to a queue.
LEMMA QueueItems ==
    /\ Items(<<>>) = {} /\ NoInterval(<<>>) /\ OneInterval(<<>>)
    /\ \A S, q : q \in Seq(S) /\ q # <<>> =>
          /\ Head(q) \in Items(q) /\ Items(Tail(q)) \subseteq Items(q)
          /\ NoInterval(q) => NoInterval(Tail(q))
          /\ OneInterval(q) => OneInterval(Tail(q))
          /\ OneInterval(q) /\ Head(q).name = "220" => NoInterval(Tail(q))
    /\ \A S, q, m : q \in Seq(S) /\ m \in S =>
          /\ Items(Append(q, m)) = Items(q) \cup {m}
          /\ NoInterval(q) /\ m.name # "220" => NoInterval(Append(q, m))
          /\ NoInterval(q) => OneInterval(Append(q, m))
          /\ OneInterval(q) /\ m.name # "220" => OneInterval(Append(q, m))
    /\ \A q : NoInterval(q) => OneInterval(q)
<1>1. Items(<<>>) = {} /\ NoInterval(<<>>) /\ OneInterval(<<>>)
  BY DEF Items, NoInterval, OneInterval
<1>2. ASSUME NEW S, NEW q \in Seq(S), q # <<>>
      PROVE  /\ Head(q) \in Items(q) /\ Items(Tail(q)) \subseteq Items(q)
             /\ NoInterval(q) => NoInterval(Tail(q))
             /\ OneInterval(q) => OneInterval(Tail(q))
             /\ OneInterval(q) /\ Head(q).name = "220" => NoInterval(Tail(q))
  <2>1. /\ 1 \in DOMAIN q /\ Head(q) = q[1]
        /\ \A i \in DOMAIN Tail(q) : i \in Nat /\ 1 < i + 1 /\ i + 1 \in DOMAIN q /\ Tail(q)[i] = q[i + 1]
    BY <1>2
  <2>2. Head(q) \in Items(q) /\ Items(Tail(q)) \subseteq Items(q)
    BY <2>1 DEF Items
  <2>3. OneInterval(q) => OneInterval(Tail(q))
    <3> SUFFICES ASSUME OneInterval(q), NEW i \in DOMAIN Tail(q), NEW j \in DOMAIN Tail(q),
                        Tail(q)[i].name = "220", Tail(q)[j].name = "220"
                 PROVE  i = j
      BY DEF OneInterval
    <3>1. i + 1 = j + 1
      BY <2>1 DEF OneInterval
    <3> QED BY <2>1, <3>1
  <2>4. OneInterval(q) /\ Head(q).name = "220" => NoInterval(Tail(q))
    BY <2>1 DEF OneInterval, NoInterval, Items
  <2> QED BY <2>2, <2>3, <2>4 DEF NoInterval
<1>3. ASSUME NEW S, NEW q \in Seq(S), NEW m \in S
      PROVE  /\ Items(Append(q, m)) = Items(q) \cup {m}
             /\ NoInterval(q) /\ m.name # "220" => NoInterval(Append(q, m))
             /\ NoInterval(q) => OneInterval(Append(q, m))
             /\ OneInterval(q) /\ m.name # "220" => OneInterval(Append(q, m))
  <2>1. /\ DOMAIN Append(q, m) = DOMAIN q \cup {Len(q) + 1}
        /\ \A i \in DOMAIN q : Append(q, m)[i] = q[i]
        /\ Append(q, m)[Len(q) + 1] = m
    OBVIOUS
  <2>2. Items(Append(q, m)) = Items(q) \cup {m}
    BY <2>1 DEF Items
  <2>3. NoInterval(q) => OneInterval(Append(q, m))
    BY <2>1 DEF OneInterval, NoInterval, Items
  <2>4. OneInterval(q) /\ m.name # "220" => OneInterval(Append(q, m))
    BY <2>1 DEF OneInterval
  <2> QED BY <2>2, <2>3, <2>4 DEF NoInterval
<1>4. \A q : NoInterval(q) => OneInterval(q)
  BY DEF NoInterval, OneInterval, Items
<1> QED BY <1>1, <1>2, <1>3, <1>4

\* It holds at the start.
LEMMA ObeyInit == GpsInit => ObeyInv
<1> SUFFICES ASSUME GpsInit PROVE ObeyInv
  OBVIOUS
<1>1. GpsTyped
  BY TypedInit
<1>2. SearchTold /\ PeriodTold
  BY QueueItems DEF GpsInit, SearchTold, PeriodTold, Setting, Connecting
<1> QED BY <1>1, <1>2 DEF ObeyInv

\* Ask appends its command, if the receiver hears it.
LEMMA AskItems ==
  ASSUME GpsTyped, NEW c \in GpsCommands, NEW r, NEW w, Ask(c, r, w)
  PROVE  /\ phase' = w
         /\ Items(cmds') \subseteq Items(cmds) \cup {c}
         /\ c.name # "220" /\ NoInterval(cmds) => NoInterval(cmds')
         /\ NoInterval(cmds) => OneInterval(cmds')
BY QueueItems DEF GpsTyped, Ask, Heard

LEMMA AskSetting ==
  ASSUME GpsTyped, NEW n \in {"605", "353", "314", "251"}, NEW a \in GpsArgs,
         NEW r, NEW w, Ask(Command(n, a), r, w)
  PROVE  phase' = w /\ (NoInterval(cmds) => NoInterval(cmds'))
BY AskItems, Sent DEF Command

\* The connection is given up.
LEMMA LoseObeys ==
    ObeyInv /\ GpsTyped' /\ (\E left : Lose(left)) /\ UNCHANGED <<rx, past>> => ObeyInv'
BY QueueItems DEF ObeyInv, Lose, Deinit, past, SearchTold, PeriodTold, Setting, Connecting

\* One lemma per action: a line is taken ...
LEMMA ObeyTakeAnswer == ObeyInv /\ GpsTyped' /\ TakeAnswer => ObeyInv'
<1> SUFFICES ASSUME ObeyInv, GpsTyped', TakeAnswer PROVE ObeyInv'
  OBVIOUS
<1> DEFINE line == Head(lines)
           rest == Tail(lines)
<1>1. /\ line \in Items(lines) /\ Items(rest) \subseteq Items(lines)
      /\ NoInterval(lines) => NoInterval(rest)
      /\ OneInterval(lines) => OneInterval(rest)
      /\ OneInterval(lines) /\ line.name = "220" => NoInterval(rest)
  BY QueueItems DEF TakeAnswer, ObeyInv, GpsTyped
<1>2. UNCHANGED <<rx, restarted, overdue>>
  BY DEF TakeAnswer, receiver, past
<1>3. GpsTyped /\ SearchTold /\ PeriodTold /\ phase \in DOMAIN Awaits
  BY DEF ObeyInv, TakeAnswer, Waiting
<1> HIDE DEF line, rest
<1>4. CASE Answers(line) /\ Awaits[phase] = "705" /\ Identified(rest)
           /\ UNCHANGED <<active, wanted>>
  <2>1. NoInterval(cmds) => NoInterval(cmds')
    BY <1>3, <1>4, AskSetting, Sent DEF Identified, Normalise, Configure, SelectSentences, None
  <2>2. /\ lines' = rest
        /\ \/ phase' = "settling" /\ phase = "probing"
           \/ phase' = "search" /\ phase \in {"probing", "verifying"} /\ noticed' = FALSE
           \/ phase' = "output" /\ phase = "confirming"
    BY <1>4 DEF Identified, Normalise, Configure, SelectSentences, Ask
  <2>3. SearchTold'
    BY <1>1, <1>2, <1>3, <2>2 DEF SearchTold, Setting
  <2>4. PeriodTold'
    BY <1>1, <1>2, <1>3, <2>1, <2>2 DEF PeriodTold, Setting, Connecting
  <2> QED BY <2>3, <2>4 DEF ObeyInv
<1>5. CASE phase = "search" /\ line.name = "353" /\ line.arg = "done" /\ SelectSentences(rest)
           /\ UNCHANGED <<active, wanted>>
  <2>1. NoInterval(cmds) => NoInterval(cmds')
    BY <1>3, <1>5, AskSetting, Sent DEF SelectSentences, None
  <2>2. lines' = rest /\ phase' = "output"
    BY <1>5 DEF SelectSentences, Ask
  <2>3. SearchTold'
    BY <1>1, <1>2, <1>3, <1>5, <2>2 DEF SearchTold, Setting, Tells
  <2>4. PeriodTold'
    BY <1>1, <1>2, <1>3, <1>5, <2>1, <2>2 DEF PeriodTold, Setting, Connecting
  <2> QED BY <2>3, <2>4 DEF ObeyInv
<1>6. CASE phase = "output" /\ line.name = "314" /\ line.arg = "done"
           /\ SetInterval(active, "period", rest) /\ UNCHANGED <<active, wanted>>
  <2>1. active \in GpsArgs /\ Command("220", active) \in GpsCommands
    BY <1>3, Sent DEF GpsTyped
  <2>2. /\ Items(cmds') \subseteq Items(cmds) \cup {Command("220", active)}
        /\ NoInterval(cmds) => OneInterval(cmds')
    BY <1>3, <1>6, <2>1, AskItems DEF SetInterval
  <2>3. lines' = rest /\ phase' = "period"
    BY <1>6 DEF SetInterval, Ask
  <2>4. SearchTold'
    BY <1>1, <1>2, <1>3, <1>6, <2>3 DEF SearchTold, Setting, Tells, Chosen
  <2>5. PeriodTold'
    BY <1>1, <1>2, <1>3, <1>6, <2>2, <2>3, QueueItems
    DEF PeriodTold, Setting, Connecting, NoInterval, Meant, Command
  <2> QED BY <2>4, <2>5 DEF ObeyInv
<1>7. CASE phase \in Setting /\ phase' = "reading" /\ line.name = "220" /\ line.arg = "done"
           /\ lines' = rest /\ cmds' = cmds /\ active' = Meant
  <2>1. SearchTold'
    BY <1>1, <1>2, <1>3, <1>7 DEF SearchTold, Setting
  <2>2. PeriodTold'
    BY <1>1, <1>2, <1>3, <1>7 DEF PeriodTold, Setting, Connecting, NoInterval
  <2> QED BY <2>1, <2>2 DEF ObeyInv
<1>8. CASE Lose(faults)
  BY <1>2, <1>8, LoseObeys DEF past
<1>9. CASE IsRestartNotice(line) /\ line.name = "010" /\ Confirm(rest) /\ UNCHANGED <<active, wanted>>
  <2>1. NoInterval(cmds) => NoInterval(cmds')
    BY <1>3, <1>9, AskSetting, Sent DEF Confirm, None
  <2>2. lines' = rest /\ phase' = "confirming" /\ phase = "search"
    BY <1>9 DEF Confirm, Ask, IsRestartNotice
  <2>3. SearchTold'
    BY <1>1, <1>2, <1>3, <1>9, <2>2 DEF SearchTold, Setting, Tells
  <2>4. PeriodTold'
    BY <1>1, <1>2, <1>3, <2>1, <2>2 DEF PeriodTold, Setting, Connecting
  <2> QED BY <2>3, <2>4 DEF ObeyInv
<1>10. CASE IsRestartNotice(line) /\ noticed' = TRUE /\ lines' = rest
            /\ UNCHANGED <<phase, cmds, active, wanted>>
  <2>1. SearchTold'
    BY <1>1, <1>2, <1>3, <1>10 DEF SearchTold, Setting, Tells, IsRestartNotice
  <2>2. PeriodTold'
    BY <1>1, <1>2, <1>3, <1>10 DEF PeriodTold, Setting, Connecting, IsRestartNotice
  <2> QED BY <2>1, <2>2 DEF ObeyInv
<1>11. CASE lines' = rest /\ UNCHANGED <<phase, noticed, cmds, active, wanted>>
  <2>1. SearchTold'
    BY <1>1, <1>2, <1>3, <1>11 DEF SearchTold
  <2>2. PeriodTold'
    BY <1>1, <1>2, <1>3, <1>11 DEF PeriodTold, Meant
  <2> QED BY <2>1, <2>2 DEF ObeyInv
<1>12. Answers(line) => line.name = Awaits[phase]
  BY DEF Answers
<1>13. ASSUME Answers(line), line.arg = "done", Acknowledged(rest) PROVE ObeyInv'
  <2>1. CASE phase = "search" /\ SelectSentences(rest) /\ UNCHANGED <<active, wanted>>
    BY <1>5, <1>12, <1>13, <2>1 DEF Awaits
  <2>2. CASE phase = "output" /\ SetInterval(active, "period", rest) /\ UNCHANGED <<active, wanted>>
    BY <1>6, <1>12, <1>13, <2>2 DEF Awaits
  <2>3. CASE phase = "period" /\ Connected(rest)
    BY <1>7, <1>12, <1>13, <2>3 DEF Awaits, Connected, Setting, Meant
  <2>4. CASE /\ phase = "changing" /\ phase' = "reading" /\ active' = wanted
             /\ lines' = rest /\ cmds' = cmds
    BY <1>7, <1>12, <1>13, <2>4 DEF Awaits, Setting, Meant
  <2> QED BY <1>13, <2>1, <2>2, <2>3, <2>4 DEF Acknowledged
<1> QED BY <1>4, <1>8, <1>9, <1>10, <1>11, <1>13 DEF TakeAnswer, line, rest

\* ... a wait passes or a connection begins ...
LEMMA ObeyConnecting ==
    ObeyInv /\ GpsTyped' /\ (TimeOut \/ Settled \/ Connect \/ InstallFails) => ObeyInv'
<1> SUFFICES ASSUME ObeyInv, GpsTyped'
             PROVE TimeOut \/ Settled \/ Connect \/ InstallFails => ObeyInv'
  OBVIOUS
<1>1. GpsTyped /\ SearchTold /\ PeriodTold
  BY DEF ObeyInv
<1>2. ASSUME NEW i, Probe(i), UNCHANGED <<rx, restarted, overdue>>, phase \in Connecting
      PROVE  ObeyInv'
  <2>1. NoInterval(cmds) => NoInterval(cmds')
    BY <1>1, <1>2, AskSetting, Sent DEF Probe, None
  <2>2. lines' = <<>> /\ phase' = "probing"
    BY <1>2 DEF Probe, Ask
  <2> QED BY <1>1, <1>2, <2>1, <2>2, QueueItems
          DEF ObeyInv, SearchTold, PeriodTold, Setting, Connecting
<1>3. TimeOut => ObeyInv'
  <2> SUFFICES ASSUME TimeOut PROVE ObeyInv'
    OBVIOUS
  <2>1. UNCHANGED <<rx, restarted, overdue, active, wanted>>
    BY DEF TimeOut, receiver, past
  <2>2. CASE \E left : Lose(left)
    BY <2>1, <2>2, LoseObeys DEF past
  <2>3. CASE phase = "probing" /\ Probe(probe + 1)
    BY <1>2, <2>1, <2>3 DEF Connecting
  <2>4. CASE phase = "search" /\ noticed /\ Confirm(lines)
    <3>1. NoInterval(cmds) => NoInterval(cmds')
      BY <1>1, <2>4, AskSetting, Sent DEF Confirm, None
    <3>2. lines' = lines /\ phase' = "confirming"
      BY <2>4 DEF Confirm, Ask
    <3> QED BY <1>1, <2>1, <2>4, <3>1, <3>2
            DEF ObeyInv, SearchTold, PeriodTold, Setting, Connecting
  <2> QED BY <2>2, <2>3, <2>4 DEF TimeOut, ProbeNext
<1>4. Settled => ObeyInv'
  <2> SUFFICES ASSUME Settled PROVE ObeyInv'
    OBVIOUS
  <2>1. (NoInterval(cmds) => NoInterval(cmds')) /\ phase' = "verifying"
    BY <1>1, AskSetting, Sent DEF Settled, None
  <2> QED BY <1>1, <2>1, QueueItems
          DEF Settled, receiver, past, ObeyInv, SearchTold, PeriodTold, Setting, Connecting
<1>5. Connect => ObeyInv'
  <2> SUFFICES ASSUME Connect PROVE ObeyInv'
    OBVIOUS
  <2>1. (NoInterval(cmds) => NoInterval(cmds')) /\ phase' = "probing" /\ lines' = <<>>
    BY <1>1, AskSetting, Sent DEF Connect, Probe, Ask, None
  <2>2. ~overdue' => NoInterval(cmds)
    BY DEF Connect, NewConnection, NoInterval, Items
  <2> QED BY <1>1, <2>1, <2>2, QueueItems
          DEF Connect, receiver, ObeyInv, SearchTold, PeriodTold, Setting, Connecting
<1>6. InstallFails => ObeyInv'
  BY <1>1, QueueItems DEF InstallFails, Lose, Deinit, receiver, ObeyInv, SearchTold, PeriodTold,
    Setting, Connecting
<1> QED BY <1>3, <1>4, <1>5, <1>6

\* ... the worker reads ...
LEMMA ObeyReading ==
    ObeyInv /\ GpsTyped' /\ (NoticeChange \/ ReadSentence \/ Stale \/ Retry \/ Stops) => ObeyInv'
<1> SUFFICES ASSUME ObeyInv, GpsTyped'
             PROVE  NoticeChange \/ ReadSentence \/ Stale \/ Retry \/ Stops => ObeyInv'
  OBVIOUS
<1>1. GpsTyped /\ SearchTold /\ PeriodTold
  BY DEF ObeyInv
<1>2. NoticeChange => ObeyInv'
  <2> SUFFICES ASSUME NoticeChange PROVE ObeyInv'
    OBVIOUS
  <2>1. UNCHANGED <<rx, restarted, overdue, active>> /\ wanted' = config.interval /\ phase = "reading"
    BY DEF NoticeChange, receiver, past
  <2>2. CASE UNCHANGED <<phase, cmds, lines>>
    BY <1>1, <2>1, <2>2 DEF ObeyInv, SearchTold, PeriodTold, Setting, Connecting
  <2>3. CASE SetInterval(config.interval, "changing", lines)
    <3>1. Command("220", config.interval) \in GpsCommands
      BY <1>1, <2>1, Sent DEF GpsTyped, GpsArgs
    <3>2. /\ Items(cmds') \subseteq Items(cmds) \cup {Command("220", config.interval)}
          /\ NoInterval(cmds) => OneInterval(cmds')
      BY <1>1, <2>3, <3>1, AskItems DEF SetInterval
    <3>3. lines' = lines /\ phase' = "changing"
      BY <2>3 DEF SetInterval, Ask
    <3>4. SearchTold'
      BY <1>1, <2>1, <3>3 DEF SearchTold, Setting
    <3>5. PeriodTold'
      BY <1>1, <2>1, <3>2, <3>3, QueueItems
      DEF PeriodTold, Setting, Connecting, NoInterval, Meant, Command
    <3> QED BY <3>4, <3>5 DEF ObeyInv
  <2> QED BY <2>2, <2>3 DEF NoticeChange, wire
<1>3. ReadSentence => ObeyInv'
  <2> SUFFICES ASSUME ReadSentence PROVE ObeyInv'
    OBVIOUS
  <2>1. Items(lines') \subseteq Items(lines) /\ (NoInterval(lines) => NoInterval(lines'))
    BY <1>1, QueueItems DEF ReadSentence, GpsTyped
  <2> QED BY <1>1, <2>1
          DEF ReadSentence, receiver, past, ObeyInv, SearchTold, PeriodTold, Setting, Connecting
<1>4. Stale => ObeyInv'
  BY LoseObeys DEF Stale, receiver
<1>5. Retry => ObeyInv'
  BY <1>1 DEF Retry, receiver, past, wire, ObeyInv, SearchTold, PeriodTold, Setting, Connecting
<1>6. Stops => ObeyInv'
  BY <1>1, QueueItems DEF Stops, Deinit, receiver, past, ObeyInv, SearchTold, PeriodTold,
    Setting, Connecting
<1> QED BY <1>2, <1>3, <1>4, <1>5, <1>6

\* A reply is heard whole or not at all.
LEMMA ReplyItems ==
  ASSUME GpsTyped
  PROVE  /\ \A r, a : a \in Messages /\ Reply(<<a>>, r) =>
               /\ Items(lines') \subseteq Items(lines) \cup {a}
               /\ NoInterval(lines) => OneInterval(lines')
               /\ a.name # "220" /\ NoInterval(lines) => NoInterval(lines')
               /\ a.name # "220" /\ OneInterval(lines) => OneInterval(lines')
         /\ \A r, a, b : a \in Messages /\ b \in Messages /\ Reply(<<a, b>>, r) =>
               /\ Items(lines') \subseteq Items(lines) \cup {a, b}
               /\ a.name # "220" /\ b.name # "220" =>
                     /\ NoInterval(lines) => NoInterval(lines')
                     /\ OneInterval(lines) => OneInterval(lines')
<1>1. ASSUME NEW r, NEW a \in Messages, Reply(<<a>>, r)
      PROVE  /\ Items(lines') \subseteq Items(lines) \cup {a}
             /\ NoInterval(lines) => OneInterval(lines')
             /\ a.name # "220" /\ NoInterval(lines) => NoInterval(lines')
             /\ a.name # "220" /\ OneInterval(lines) => OneInterval(lines')
  <2>1. lines' = lines \/ lines' = Append(lines, a)
    BY <1>1, Queues DEF Reply, GpsTyped
  <2>2. CASE lines' = lines
    BY <2>2, QueueItems
  <2>3. /\ Items(Append(lines, a)) = Items(lines) \cup {a}
        /\ NoInterval(lines) /\ a.name # "220" => NoInterval(Append(lines, a))
        /\ NoInterval(lines) => OneInterval(Append(lines, a))
        /\ OneInterval(lines) /\ a.name # "220" => OneInterval(Append(lines, a))
    BY QueueItems DEF GpsTyped
  <2> QED BY <2>1, <2>2, <2>3
<1>2. ASSUME NEW r, NEW a \in Messages, NEW b \in Messages, Reply(<<a, b>>, r)
      PROVE  /\ Items(lines') \subseteq Items(lines) \cup {a, b}
             /\ a.name # "220" /\ b.name # "220" =>
                   /\ NoInterval(lines) => NoInterval(lines')
                   /\ OneInterval(lines) => OneInterval(lines')
  <2>1. lines' = lines \/ lines' = Append(Append(lines, a), b)
    BY <1>2, Queues DEF Reply, GpsTyped
  <2>2. Append(lines, a) \in Seq(Messages)
    BY Appended DEF GpsTyped
  <2>3. CASE lines' = lines
    BY <2>3
  <2>4. /\ Items(Append(lines, a)) = Items(lines) \cup {a}
        /\ NoInterval(lines) /\ a.name # "220" => NoInterval(Append(lines, a))
        /\ OneInterval(lines) /\ a.name # "220" => OneInterval(Append(lines, a))
    BY QueueItems DEF GpsTyped
  <2> DEFINE more == Append(lines, a)
  <2> more \in Seq(Messages)
    BY <2>2
  <2> HIDE DEF more
  <2>5. /\ Items(Append(more, b)) = Items(more) \cup {b}
        /\ NoInterval(more) /\ b.name # "220" => NoInterval(Append(more, b))
        /\ OneInterval(more) /\ b.name # "220" => OneInterval(Append(more, b))
    BY QueueItems
  <2> QED BY <2>1, <2>3, <2>4, <2>5 DEF more
<1> QED BY <1>1, <1>2

\* ... the wire and the others ...
LEMMA ObeyOthers ==
    ObeyInv /\ GpsTyped' /\ (\/ AcknowledgeLate \/ ReceiverReports \/ ReceiverRestarts \/ LoseCommand
                            \/ LoseLine \/ ChangeInterval \/ RequestStop \/ UNCHANGED gpsVars)
        => ObeyInv'
<1> SUFFICES ASSUME ObeyInv, GpsTyped'
             PROVE  (\/ AcknowledgeLate \/ ReceiverReports \/ ReceiverRestarts \/ LoseCommand
                     \/ LoseLine \/ ChangeInterval \/ RequestStop \/ UNCHANGED gpsVars) => ObeyInv'
  OBVIOUS
<1>1. GpsTyped /\ SearchTold /\ PeriodTold
  BY DEF ObeyInv
<1>2. ASSUME UNCHANGED <<phase, noticed, active, wanted, cmds, restarted, overdue>>,
             rx'.set = rx.set, rx'.owes => rx.owes,
             \A m \in Items(lines') \ Items(lines) :
                 m.name # "220" /\ ~Chosen(m) /\ (Tells(m) => rx.set.search),
             NoInterval(lines) => NoInterval(lines'), OneInterval(lines) => OneInterval(lines')
      PROVE  ObeyInv'
  <2>1. SearchTold'
    BY <1>1, <1>2 DEF SearchTold
  <2>2. PeriodTold'
    BY <1>1, <1>2 DEF PeriodTold, Meant
  <2> QED BY <2>1, <2>2 DEF ObeyInv
<1>3. AcknowledgeLate => ObeyInv'
  <2> SUFFICES ASSUME AcknowledgeLate PROVE ObeyInv'
    OBVIOUS
  <2> DEFINE a == Line("353", "done")
  <2>1. a \in Messages /\ a.name = "353"
    BY Sent DEF Answer, GpsArgs, Line
  <2>2. /\ Items(lines') \subseteq Items(lines) \cup {a}
        /\ NoInterval(lines) => NoInterval(lines')
        /\ OneInterval(lines) => OneInterval(lines')
    BY <1>1, <2>1, ReplyItems DEF AcknowledgeLate
  <2>3. rx'.set = rx.set /\ rx'.owes = FALSE /\ rx.set.search
    BY <1>1 DEF AcknowledgeLate, SearchTold, GpsTyped, Models
  <2> HIDE DEF a
  <2> QED BY <1>2, <2>1, <2>2, <2>3 DEF AcknowledgeLate, worker, past, Chosen
<1>4. ReceiverReports => ObeyInv'
  <2> SUFFICES ASSUME ReceiverReports PROVE ObeyInv'
    OBVIOUS
  <2> DEFINE a == Line(sent'.kind, sent'.epoch)
  <2>1. a \in Messages /\ a.name \in Kinds
    BY Sent DEF ReceiverReports, GpsTyped, Line
  <2>2. a.name \notin {"220", "314", "353", "010", "011"}
    BY <2>1 DEF Kinds
  <2>3. /\ Items(lines') \subseteq Items(lines) \cup {a}
        /\ NoInterval(lines) => NoInterval(lines')
        /\ OneInterval(lines) => OneInterval(lines')
    BY <1>1, <2>1, <2>2, ReplyItems DEF ReceiverReports
  <2> HIDE DEF a
  <2> QED BY <1>2, <2>2, <2>3 DEF ReceiverReports, worker, past, Chosen, Tells
<1>5. ReceiverRestarts => ObeyInv'
  BY <1>1 DEF ReceiverRestarts, ObeyInv, SearchTold, PeriodTold, GpsTyped, Models
<1>6. LoseLine => ObeyInv'
  <2> SUFFICES ASSUME LoseLine PROVE ObeyInv'
    OBVIOUS
  <2>1. /\ Items(lines') \subseteq Items(lines)
        /\ NoInterval(lines) => NoInterval(lines')
        /\ OneInterval(lines) => OneInterval(lines')
    BY <1>1, QueueItems DEF LoseLine, GpsTyped
  <2> QED BY <1>2, <2>1 DEF LoseLine, worker, receiver, past
<1>7. LoseCommand => ObeyInv'
  <2> SUFFICES ASSUME LoseCommand PROVE ObeyInv'
    OBVIOUS
  <2>1. /\ Items(cmds') \subseteq Items(cmds)
        /\ NoInterval(cmds) => NoInterval(cmds')
        /\ OneInterval(cmds) => OneInterval(cmds')
    BY <1>1, QueueItems DEF LoseCommand, GpsTyped
  <2>2. UNCHANGED <<phase, noticed, active, wanted, lines, rx, restarted, overdue>>
    BY DEF LoseCommand, worker, receiver, past
  <2>3. SearchTold'
    BY <1>1, <2>2 DEF SearchTold
  <2>4. PeriodTold'
    BY <1>1, <2>1, <2>2 DEF PeriodTold, Meant
  <2> QED BY <2>3, <2>4 DEF ObeyInv
<1>8. ChangeInterval \/ RequestStop \/ UNCHANGED gpsVars => ObeyInv'
  BY <1>2 DEF ChangeInterval, RequestStop, gpsVars, worker, receiver, wire, past
<1> QED BY <1>3, <1>4, <1>5, <1>6, <1>7, <1>8

\* ... and the receiver answers.
LEMMA ObeyAnswers == ObeyInv /\ GpsTyped' /\ ReceiverAnswers => ObeyInv'
<1> SUFFICES ASSUME ObeyInv, GpsTyped', ReceiverAnswers PROVE ObeyInv'
  OBVIOUS
<1> DEFINE c == Head(cmds)
<1>1. GpsTyped /\ SearchTold /\ PeriodTold
  BY DEF ObeyInv
<1>2. PICK done \in BOOLEAN : Execute(c, done)
  BY DEF ReceiverAnswers
<1>3. /\ c \in GpsCommands /\ c \in Items(cmds) /\ Items(cmds') \subseteq Items(cmds)
      /\ NoInterval(cmds) => NoInterval(cmds')
      /\ OneInterval(cmds) => OneInterval(cmds')
      /\ OneInterval(cmds) /\ c.name = "220" => NoInterval(cmds')
  BY <1>1, QueueItems DEF ReceiverAnswers, GpsTyped
<1>4. UNCHANGED <<phase, noticed, active, wanted, restarted, overdue>>
  BY DEF ReceiverAnswers, worker, past
<1> DEFINE ack == Line(c.name, IF done THEN "done" ELSE "refused")
<1>5. /\ c.name \in {"353", "314", "220"} => ack \in Messages
      /\ Line("705", rx.model) \in Messages
      /\ Line("011", None) \in Messages /\ Line("010", None) \in Messages
      /\ \A n, a : Line(n, a).name = n /\ Line(n, a).arg = a
  BY <1>1, Sent DEF Answer, GpsArgs, None, GpsTyped, Models, Line
<1>6. rx \in Models /\ rx.set \in Settings
  BY <1>1 DEF GpsTyped, Models
<1> HIDE DEF c
\* What is heard tells only what holds by then, and is an interval's answer only to one.
<1>7. ASSUME rx'.set.search = rx.set.search \/ rx'.set.search = TRUE,
             rx'.set.sentences = rx.set.sentences \/ rx'.set.sentences = TRUE,
             rx'.set.period = rx.set.period, rx'.owes => rx'.set.search,
             \A m \in Items(lines') \ Items(lines) :
                 m.name # "220" /\ (Chosen(m) => rx'.set.sentences) /\ (Tells(m) => rx'.set.search),
             NoInterval(lines) => NoInterval(lines'), OneInterval(lines) => OneInterval(lines')
      PROVE  ObeyInv'
  <2>1. SearchTold'
    BY <1>1, <1>4, <1>7 DEF SearchTold
  <2>2. PeriodTold'
    BY <1>1, <1>3, <1>4, <1>7 DEF PeriodTold, Meant
  <2> QED BY <2>1, <2>2 DEF ObeyInv
<1>8. CASE c.name \in {"605", "251"}
  <2>1. rx'.set = rx.set /\ rx'.owes = rx.owes
    BY <1>2, <1>6, <1>8 DEF Execute, Models
  <2>2. /\ Items(lines') \subseteq Items(lines) \cup {Line("705", rx.model)}
        /\ NoInterval(lines) => NoInterval(lines')
        /\ OneInterval(lines) => OneInterval(lines')
    <3>1. lines' = lines \/ Reply(<<Line("705", rx.model)>>, rx.baud)
      BY <1>2, <1>8 DEF Execute
    <3> QED BY <1>1, <1>5, <3>1, ReplyItems
  <2> QED BY <1>1, <1>5, <1>7, <2>1, <2>2 DEF Chosen, Tells, SearchTold
<1>9. CASE c.name = "314"
  <2>1. /\ rx'.owes = rx.owes /\ rx'.set.search = rx.set.search /\ rx'.set.period = rx.set.period
        /\ rx'.set.sentences = (IF done THEN TRUE ELSE rx.set.sentences)
    <3>1. rx' = IF done THEN [rx EXCEPT !.set.sentences = TRUE] ELSE rx
      BY <1>2, <1>9 DEF Execute
    <3> QED BY <1>6, <3>1 DEF Models, Settings
  <2>2. ack \in Messages /\ ack.name = "314" /\ ack.arg = (IF done THEN "done" ELSE "refused")
    BY <1>5, <1>9
  <2>3. Reply(<<ack>>, rx.baud)
    BY <1>2, <1>9 DEF Execute
  <2> HIDE DEF ack
  <2>4. /\ Items(lines') \subseteq Items(lines) \cup {ack}
        /\ NoInterval(lines) => NoInterval(lines')
        /\ OneInterval(lines) => OneInterval(lines')
    BY <1>1, <2>2, <2>3, ReplyItems
  <2> QED BY <1>1, <1>6, <1>7, <2>1, <2>2, <2>4 DEF Chosen, Tells, SearchTold, Settings
<1>10. CASE c.name = "353"
  <2> DEFINE new == {m \in {ack, Line("011", None), Line("010", None)} : done \/ m = ack}
  <2>1. ack \in Messages /\ ack.name = "353" /\ ack.arg = (IF done THEN "done" ELSE "refused")
    BY <1>5, <1>10
  <2>2. /\ rx'.set.search = (IF done THEN TRUE ELSE rx.set.search) /\ rx'.set.period = rx.set.period
        /\ rx'.set.sentences = rx.set.sentences
        /\ rx'.owes => rx.owes \/ done
    <3>1. \/ rx' = (IF done THEN [rx EXCEPT !.set.search = TRUE] ELSE rx)
          \/ done /\ (\E late \in BOOLEAN : rx' = [rx EXCEPT !.set.search = TRUE, !.owes = late])
      BY <1>2, <1>10 DEF Execute
    <3>2. CASE rx' = rx /\ ~done
      BY <3>2
    <3>3. CASE done /\ rx' = [rx EXCEPT !.set.search = TRUE]
      BY <1>6, <3>3 DEF Models, Settings
    <3>4. ASSUME done, NEW late \in BOOLEAN, rx' = [rx EXCEPT !.set.search = TRUE, !.owes = late]
          PROVE  /\ rx'.set.search = TRUE /\ rx'.set.period = rx.set.period
                 /\ rx'.set.sentences = rx.set.sentences
      BY <1>6, <3>4 DEF Models, Settings
    <3> QED BY <3>1, <3>2, <3>3, <3>4
  <2>3. \/ Reply(<<ack>>, rx.baud)
        \/ done /\ Reply(<<Line("011", None), ack>>, rx.baud)
        \/ done /\ Reply(<<Line("011", None), Line("010", None)>>, rx.baud)
    BY <1>2, <1>10 DEF Execute
  <2> HIDE DEF ack
  <2>4. /\ Items(lines') \subseteq Items(lines) \cup new
        /\ NoInterval(lines) => NoInterval(lines')
        /\ OneInterval(lines) => OneInterval(lines')
    BY <1>1, <1>5, <2>1, <2>3, ReplyItems
  <2>5. \A m \in new : m.name # "220" /\ ~Chosen(m) /\ (Tells(m) => done)
    BY <1>5, <2>1 DEF Chosen, Tells
  <2> HIDE DEF new
  <2> QED BY <1>1, <1>6, <1>7, <2>2, <2>4, <2>5 DEF SearchTold, Settings
<1>11. CASE c.name = "220"
  <2>1. ack \in Messages /\ ack.name = "220" /\ ack.arg = (IF done THEN "done" ELSE "refused")
    BY <1>5, <1>11
  <2>2. /\ rx'.set.search = rx.set.search /\ rx'.set.sentences = rx.set.sentences
        /\ rx'.owes = rx.owes
        /\ rx'.set.period = IF done THEN c.arg ELSE rx.set.period
    BY <1>2, <1>3, <1>6, <1>11 DEF Execute, Models, Settings, GpsCommands
  <2>3. Reply(<<ack>>, rx.baud)
    BY <1>2, <1>11 DEF Execute
  <2> HIDE DEF ack
  <2>4. /\ Items(lines') \subseteq Items(lines) \cup {ack}
        /\ NoInterval(lines) => OneInterval(lines')
    BY <1>1, <2>1, <2>3, ReplyItems
  <2>5. SearchTold'
    BY <1>1, <1>4, <2>1, <2>2, <2>4 DEF SearchTold, Chosen, Tells
  <2>6. PeriodTold'
    BY <1>1, <1>3, <1>4, <1>11, <2>1, <2>2, <2>4 DEF PeriodTold, Meant, NoInterval, Setting,
      Connecting
  <2> QED BY <2>5, <2>6 DEF ObeyInv
<1> QED BY <1>3, <1>8, <1>9, <1>10, <1>11 DEF GpsCommands

\* Every step keeps it.
LEMMA ObeyStep == ObeyInv /\ [GpsNext]_gpsVars => ObeyInv'
<1> SUFFICES ASSUME ObeyInv, [GpsNext]_gpsVars PROVE ObeyInv'
  OBVIOUS
<1>1. GpsTyped'
  BY TypedStep DEF ObeyInv
<1> QED
  BY <1>1, ObeyTakeAnswer, ObeyConnecting, ObeyReading, ObeyOthers, ObeyAnswers
  DEF GpsNext, Worker, Receiver

\* A worker that reads has a receiver which took all three settings, for every list
\* of baud rates and every number of faults: answers are matched by their command's
\* number only, and that is enough unless an interval command of an earlier
\* connection is still under way when the next one begins (wait_for_ack).
THEOREM ReceiverAlwaysConfigured == GpsSpec => []Configured
<1>1. ObeyInv => Configured
  <2> SUFFICES ASSUME ObeyInv, phase = "reading", ~restarted, ~overdue
               PROVE  rx.set = [search |-> TRUE, sentences |-> TRUE, period |-> active]
    BY DEF Configured
  <2>1. rx.set \in Settings
    BY DEF ObeyInv, GpsTyped, Models
  <2>2. rx.set.search = TRUE /\ rx.set.sentences = TRUE /\ rx.set.period = active
    BY <2>1 DEF ObeyInv, SearchTold, PeriodTold, Settings
  <2> QED BY <2>1, <2>2 DEF Settings
<1> QED BY <1>1, ObeyInit, ObeyStep, PTL DEF GpsSpec
=============================================================================
