---------------------------- MODULE BleNusTxProofs ----------------------------
(***************************************************************************)
(* For every number of tokens, of fragments and of GPS pairs: a peer that  *)
(* listens never sees two sentences run together, never a GGA without its  *)
(* RMC right before it, and never the pair it has just had.                *)
(***************************************************************************)
EXTENDS BleNusTx, TLAPS

\* What the transmitter keeps of itself.
TxInv ==
    /\ tx.index = 1 => tx.active.source = "GPS"
    /\ tx.offset > 0 => Active(tx)
    /\ tx.resync => ~Active(tx)
    /\ tx.active.source = "GPS" => tx.gps # tx.active.sequence
    /\ pc = "notifying" => tx.resync \/ Active(tx)

\* What the worker's position says of the link: a fragment on its way to a
\* subscriber belongs to the link that was sampled.
LinkInv ==
    /\ subscribed => connected
    /\ alive => connected
    /\ pc \in {"sending", "notifying"} /\ fresh => subscribed
    /\ pc = "notifying" /\ subscribed => fresh /\ ~stopping

\* A peer that subscribes while the driver stops is sent nothing.
StopInv ==
    stopping /\ Listening =>
        /\ line = Nothing /\ pairDone = 0
        /\ fresh => ~tx.resync /\ ~Partial(tx)

\* The line of the peer is what the transmitter takes it for.
LineInv ==
    /\ Listening /\ fresh => Fits
    /\ Listening /\ ~fresh => line = Nothing

PairInv ==
    /\ Listening /\ fresh /\ tx.index = 1 => before = [of |-> tx.active, index |-> 0]
    /\ Listening /\ fresh /\ pairDone # 0 => tx.done = pairDone
    /\ Listening /\ ~fresh => pairDone = 0

Inv == TypeOK /\ TxInv /\ LinkInv /\ StopInv /\ LineInv /\ PairInv /\ PairOnce

-----------------------------------------------------------------------------
(* What the operations of the transmitter return                           *)

LEMMA NoneFacts ==
  /\ NoTransaction \in Transactions \cup {NoTransaction}
  /\ NoTransaction.source = "none" /\ NoTransaction.sequence = 0
  /\ NoTransaction \notin Transactions
  BY DEF NoTransaction, Transactions

LEMMA Zeros ==
  /\ 0 \in 0..1 /\ 1 \in 0..1 /\ 0 \in 0..(MaxFragments - 1) /\ 0 \in 0..MaxPairs
  /\ 0 \in 0..Tokens /\ Tokens \in 0..Tokens
  BY BleAssumption

\* An active transaction is the vario's or a pair's.
LEMMA ActiveFacts ==
  ASSUME NEW a \in Transactions \cup {NoTransaction}
  PROVE  /\ a.sequence \in 0..MaxPairs
         /\ a.source = "GPS" => a # NoTransaction /\ a \in Transactions /\ a.sequence # 0
         /\ a.source # "GPS" => a.sequence = 0
         /\ a # NoTransaction => a \in Transactions
  BY BleAssumption DEF Transactions, NoTransaction

LEMMA ClearFacts ==
  ASSUME NEW t \in TxTypes
  PROVE  /\ ClearActive(t) \in TxTypes
         /\ ClearActive(t).active = NoTransaction /\ ClearActive(t).index = 0
         /\ ClearActive(t).offset = 0 /\ ClearActive(t).gps = t.gps
         /\ ClearActive(t).resync = t.resync /\ ClearActive(t).done = t.done
<1>1. ClearActive(t) \in TxTypes
  BY Zeros, NoneFacts DEF TxTypes, ClearActive
<1>2. /\ ClearActive(t).active = NoTransaction /\ ClearActive(t).index = 0
      /\ ClearActive(t).offset = 0 /\ ClearActive(t).gps = t.gps
      /\ ClearActive(t).resync = t.resync /\ ClearActive(t).done = t.done
  BY DEF TxTypes, ClearActive
<1> QED BY <1>1, <1>2

\* What is left when nothing waits and there is no budget.
LEMMA EmptyFacts ==
  ASSUME NEW t \in TxTypes
  PROVE  LET u == NoBudget(NoPending(ClearActive(t)))
         IN  /\ u \in TxTypes
             /\ u.active = NoTransaction /\ u.index = 0 /\ u.offset = 0
             /\ u.gps = 0 /\ u.resync = t.resync
<1> DEFINE c == ClearActive(t)
           n == NoPending(c)
<1>1. /\ c \in TxTypes /\ c.active = NoTransaction /\ c.index = 0
      /\ c.offset = 0 /\ c.resync = t.resync
  BY ClearFacts
<1> HIDE DEF c
<1>2. /\ n \in TxTypes /\ n.active = NoTransaction /\ n.index = 0
      /\ n.offset = 0 /\ n.resync = t.resync /\ n.gps = 0
  <2>1. n \in TxTypes
    BY <1>1, Zeros DEF TxTypes, NoPending
  <2> QED BY <1>1, <2>1 DEF TxTypes, NoPending
<1> HIDE DEF n
<1>3. /\ NoBudget(n) \in TxTypes /\ NoBudget(n).active = NoTransaction
      /\ NoBudget(n).index = 0 /\ NoBudget(n).offset = 0
      /\ NoBudget(n).resync = t.resync /\ NoBudget(n).gps = 0
  <2>1. NoBudget(n) \in TxTypes
    BY <1>2, Zeros DEF TxTypes, NoBudget
  <2> QED BY <1>2, <2>1 DEF TxTypes, NoBudget
<1> QED BY <1>3 DEF n, c

\* What a reset, a suspension and a dropped transaction leave.
LEMMA ResetFacts ==
  ASSUME NEW t \in TxTypes
  PROVE  /\ ResetLink(t) \in TxTypes
         /\ ResetLink(t).active = NoTransaction /\ ResetLink(t).index = 0
         /\ ResetLink(t).offset = 0 /\ ResetLink(t).gps = 0
         /\ ResetLink(t).resync = FALSE
<1> DEFINE u == NoBudget(NoPending(ClearActive(t)))
<1>1. /\ u \in TxTypes /\ u.active = NoTransaction /\ u.index = 0 /\ u.offset = 0 /\ u.gps = 0
  BY EmptyFacts
<1>2. ResetLink(t) = [u EXCEPT !.last = "none", !.done = 0, !.resync = FALSE]
  BY DEF ResetLink
<1> HIDE DEF u
<1> QED BY <1>1, <1>2, BleAssumption DEF TxTypes

LEMMA SuspendFacts ==
  ASSUME NEW t \in TxTypes
  PROVE  /\ SuspendStream(t) \in TxTypes
         /\ SuspendStream(t).active = NoTransaction /\ SuspendStream(t).index = 0
         /\ SuspendStream(t).offset = 0 /\ SuspendStream(t).gps = 0
         /\ SuspendStream(t).resync = (t.resync \/ Partial(t))
<1> DEFINE u == NoBudget(NoPending(ClearActive(t)))
           r == t.resync \/ Partial(t)
<1>1. /\ u \in TxTypes /\ u.active = NoTransaction /\ u.index = 0 /\ u.offset = 0 /\ u.gps = 0
  BY EmptyFacts
<1>2. SuspendStream(t) = [u EXCEPT !.done = 0, !.resync = r]
  BY DEF SuspendStream
<1>3. r \in BOOLEAN
  BY DEF TxTypes, Partial, Active
<1> HIDE DEF u, r
<1>4. /\ SuspendStream(t) \in TxTypes
      /\ SuspendStream(t).active = NoTransaction /\ SuspendStream(t).index = 0
      /\ SuspendStream(t).offset = 0 /\ SuspendStream(t).gps = 0
  BY <1>1, <1>2, <1>3, BleAssumption DEF TxTypes
<1>5. SuspendStream(t).resync = r
  BY <1>1, <1>2 DEF TxTypes
<1> QED BY <1>4, <1>5 DEF r

LEMMA RejectFacts ==
  ASSUME NEW t \in TxTypes
  PROVE  /\ Reject(t) \in TxTypes
         /\ t.resync => Reject(t) = t
         /\ ~t.resync => /\ Reject(t).active = NoTransaction /\ Reject(t).index = 0
                         /\ Reject(t).offset = 0 /\ Reject(t).resync = Partial(t)
         /\ Reject(t).gps = t.gps /\ Reject(t).done = t.done
<1> DEFINE c == ClearActive(t)
           r == Partial(t)
<1>1. /\ c \in TxTypes /\ c.active = NoTransaction /\ c.index = 0
      /\ c.offset = 0 /\ c.gps = t.gps /\ c.done = t.done
  BY ClearFacts
<1>2. /\ t.resync => Reject(t) = t
      /\ ~t.resync => Reject(t) = [c EXCEPT !.resync = r]
  BY DEF Reject
<1>3. r \in BOOLEAN
  BY DEF TxTypes, Partial, Active
<1> HIDE DEF c, r
<1>4. ASSUME ~t.resync
      PROVE  /\ Reject(t) \in TxTypes
             /\ Reject(t).active = NoTransaction /\ Reject(t).index = 0
             /\ Reject(t).offset = 0
             /\ Reject(t).gps = t.gps /\ Reject(t).done = t.done
  BY <1>1, <1>2, <1>3, <1>4, BleAssumption DEF TxTypes
<1>5. ~t.resync => Reject(t).resync = r
  BY <1>1, <1>2 DEF TxTypes
<1> QED BY <1>2, <1>4, <1>5 DEF r

LEMMA OfferFacts ==
  ASSUME NEW t \in TxTypes, NEW s \in 0..MaxPairs
  PROVE  /\ OfferGps(t, s) \in TxTypes
         /\ OfferGps(t, s).active = t.active /\ OfferGps(t, s).index = t.index
         /\ OfferGps(t, s).offset = t.offset /\ OfferGps(t, s).resync = t.resync
         /\ OfferGps(t, s).done = t.done
         /\ \/ OfferGps(t, s).gps = t.gps
            \/ /\ OfferGps(t, s).gps = s /\ s # t.done
               /\ ~(t.active.source = "GPS" /\ t.active.sequence = s)
  BY DEF TxTypes, OfferGps

\* The fields the budget leaves alone.
SameStream(t, u) ==
    /\ u \in TxTypes
    /\ u.active = t.active /\ u.index = t.index /\ u.offset = t.offset
    /\ u.resync = t.resync /\ u.done = t.done /\ u.gps = t.gps

LEMMA BudgetFacts ==
  ASSUME NEW t \in TxTypes
  PROVE  SameStream(t, ResetBudget(t)) /\ SameStream(t, RefillBudget(t))
<1>1. SameStream(t, ResetBudget(t))
  <2>1. ResetBudget(t) \in TxTypes
    BY Zeros DEF TxTypes, ResetBudget
  <2> QED BY <2>1 DEF TxTypes, SameStream, ResetBudget
<1>2. SameStream(t, t)
  BY DEF SameStream
<1>3. RefillBudget(t) = t \/ RefillBudget(t) = ResetBudget(t)
  BY DEF RefillBudget
<1> QED BY <1>1, <1>2, <1>3

\* The fragment offered: the marker, the next of what is active, or the first of
\* what was waiting.
LEMMA OfferedFacts ==
  ASSUME NEW t \in TxTypes, t.tokens > 0, HasWork(t)
  PROVE  /\ Offered(t) \in TxTypes
         /\ Offered(t).resync = t.resync /\ Offered(t).done = t.done
         /\ t.resync \/ Active(t) =>
                /\ Offered(t).active = t.active /\ Offered(t).index = t.index
                /\ Offered(t).offset = t.offset /\ Offered(t).gps = t.gps
         /\ ~(t.resync \/ Active(t)) =>
                /\ Offered(t).active \in Transactions
                /\ Offered(t).index = 0 /\ Offered(t).offset = 0
                /\ \/ /\ Offered(t).active.source = "LK8EX1"
                      /\ Offered(t).active.sequence = 0 /\ Offered(t).gps = t.gps
                   \/ /\ Offered(t).active.source = "GPS"
                      /\ Offered(t).active.sequence = t.gps /\ Offered(t).gps = 0
                      /\ t.gps # 0
<1> DEFINE u == IF t.resync \/ Active(t) THEN t ELSE StartNext(t)
<1>1. ASSUME NEW v \in TxTypes
      PROVE  LET w == [v EXCEPT !.tokens = t.tokens - 1]
             IN  /\ w \in TxTypes
                 /\ w.active = v.active /\ w.index = v.index /\ w.offset = v.offset
                 /\ w.resync = v.resync /\ w.done = v.done /\ w.gps = v.gps
  <2>1. t.tokens - 1 \in 0..Tokens
    BY BleAssumption DEF TxTypes
  <2> DEFINE k == t.tokens - 1
  <2> HIDE DEF k
  <2>2. k \in 0..Tokens
    BY <2>1 DEF k
  <2>3. LET w == [v EXCEPT !.tokens = k]
        IN  /\ w \in TxTypes
            /\ w.active = v.active /\ w.index = v.index /\ w.offset = v.offset
            /\ w.resync = v.resync /\ w.done = v.done /\ w.gps = v.gps
    BY <2>2 DEF TxTypes
  <2> QED BY <2>3 DEF k
<1>2. LET v == StartLk8ex1(t)
      IN  /\ v \in TxTypes /\ v.active \in Transactions
          /\ v.active.source = "LK8EX1" /\ v.active.sequence = 0 /\ v.gps = t.gps
          /\ v.index = 0 /\ v.offset = 0 /\ v.resync = t.resync /\ v.done = t.done
  <2> DEFINE a == [source |-> "LK8EX1", sequence |-> 0]
  <2>1. a \in Transactions /\ a.source = "LK8EX1" /\ a.sequence = 0
    BY DEF Transactions
  <2>2. StartLk8ex1(t) = [t EXCEPT !.active = a, !.lk8ex1 = FALSE, !.last = "LK8EX1",
                                   !.index = 0, !.offset = 0]
    BY DEF StartLk8ex1
  <2> HIDE DEF a
  <2>3. "LK8EX1" \in Sources \cup {"none"}
    BY DEF Sources
  <2>4. StartLk8ex1(t) \in TxTypes
    BY <2>1, <2>2, <2>3, Zeros DEF TxTypes
  <2> QED BY <2>1, <2>2, <2>4 DEF TxTypes
<1>3. t.gps # 0 =>
      LET v == StartGps(t)
      IN  /\ v \in TxTypes /\ v.active \in Transactions
          /\ v.active.source = "GPS" /\ v.active.sequence = t.gps /\ v.gps = 0
          /\ v.index = 0 /\ v.offset = 0 /\ v.resync = t.resync /\ v.done = t.done
  <2> SUFFICES ASSUME t.gps # 0
               PROVE  LET v == StartGps(t)
                      IN  /\ v \in TxTypes /\ v.active \in Transactions
                          /\ v.active.source = "GPS" /\ v.active.sequence = t.gps
                          /\ v.gps = 0 /\ v.index = 0 /\ v.offset = 0
                          /\ v.resync = t.resync /\ v.done = t.done
    OBVIOUS
  <2> DEFINE a == [source |-> "GPS", sequence |-> t.gps]
  <2>1. t.gps \in 1..MaxPairs
    BY BleAssumption DEF TxTypes
  <2>2. a \in Transactions /\ a.source = "GPS" /\ a.sequence = t.gps
    BY <2>1 DEF Transactions
  <2>3. StartGps(t) = [t EXCEPT !.active = a, !.gps = 0, !.last = "GPS",
                                !.index = 0, !.offset = 0]
    BY DEF StartGps
  <2> HIDE DEF a
  <2>4. "GPS" \in Sources \cup {"none"}
    BY DEF Sources
  <2>5. StartGps(t) \in TxTypes
    BY <2>2, <2>3, <2>4, Zeros DEF TxTypes
  <2> QED BY <2>2, <2>3, <2>5 DEF TxTypes
<1>4. Offered(t) = [u EXCEPT !.tokens = t.tokens - 1]
  BY DEF Offered
<1>5. CASE t.resync \/ Active(t)
  BY <1>1, <1>4, <1>5
<1>6. CASE ~(t.resync \/ Active(t))
  <2>1. \/ u = StartLk8ex1(t)
        \/ u = StartGps(t) /\ t.gps # 0
    BY <1>6 DEF StartNext, HasWork
  <2>2. CASE u = StartLk8ex1(t)
    BY <1>1, <1>2, <1>4, <1>6, <2>2
  <2>3. CASE u = StartGps(t) /\ t.gps # 0
    BY <1>1, <1>3, <1>4, <1>6, <2>3
  <2> QED BY <2>1, <2>2, <2>3
<1> QED BY <1>5, <1>6

\* A fragment that is taken: more of the sentence, or the end of it.
LEMMA AcceptFacts ==
  ASSUME NEW t \in TxTypes
  PROVE  /\ AcceptMarker(t) \in TxTypes /\ AcceptMarker(t).resync = FALSE
         /\ AcceptMarker(t).active = t.active /\ AcceptMarker(t).index = t.index
         /\ AcceptMarker(t).offset = t.offset /\ AcceptMarker(t).gps = t.gps
         /\ AcceptMarker(t).done = t.done
         /\ t.offset + 1 < MaxFragments => AcceptMore(t) \in TxTypes
         /\ AcceptMore(t).active = t.active /\ AcceptMore(t).index = t.index
         /\ AcceptMore(t).offset = t.offset + 1 /\ AcceptMore(t).gps = t.gps
         /\ AcceptMore(t).resync = t.resync /\ AcceptMore(t).done = t.done
<1>1. AcceptMarker(t) \in TxTypes
  BY DEF TxTypes, AcceptMarker
<1>2. ASSUME t.offset + 1 < MaxFragments PROVE AcceptMore(t) \in TxTypes
  <2> DEFINE k == t.offset + 1
  <2>1. k \in 0..(MaxFragments - 1)
    BY <1>2, BleAssumption DEF TxTypes
  <2>2. AcceptMore(t) = [t EXCEPT !.offset = k]
    BY DEF AcceptMore
  <2> HIDE DEF k
  <2> QED BY <2>1, <2>2 DEF TxTypes
<1> QED BY <1>1, <1>2 DEF TxTypes, AcceptMarker, AcceptMore

LEMMA EndFacts ==
  ASSUME NEW t \in TxTypes, t.index = 1 => t.active.source = "GPS"
  PROVE  /\ AcceptEnd(t) \in TxTypes
         /\ AcceptEnd(t).offset = 0 /\ AcceptEnd(t).gps = t.gps
         /\ AcceptEnd(t).resync = t.resync
         /\ t.active.source = "GPS" /\ t.index = 0 =>
              /\ AcceptEnd(t).active = t.active /\ AcceptEnd(t).index = 1
              /\ AcceptEnd(t).done = t.done
         /\ ~(t.active.source = "GPS" /\ t.index = 0) =>
              /\ AcceptEnd(t).active = NoTransaction /\ AcceptEnd(t).index = 0
         /\ t.active.source # "GPS" => AcceptEnd(t).done = t.done
         /\ t.index = 1 => AcceptEnd(t).done = t.active.sequence
<1>1. CASE t.active.source = "GPS" /\ t.index = 0
  <2>1. AcceptEnd(t) = [t EXCEPT !.index = 1, !.offset = 0]
    BY <1>1 DEF AcceptEnd, Sentences
  <2>2. AcceptEnd(t) \in TxTypes
    BY <2>1, Zeros DEF TxTypes
  <2> QED BY <1>1, <2>1, <2>2 DEF TxTypes
<1>2. CASE ~(t.active.source = "GPS" /\ t.index = 0)
  <2> DEFINE d == IF t.active.source = "GPS" THEN t.active.sequence ELSE t.done
             u == [t EXCEPT !.done = d]
  <2>1. t.index \in 0..1 /\ t.active \in Transactions \cup {NoTransaction} /\ t.done \in 0..MaxPairs
    BY DEF TxTypes
  <2>2. d \in 0..MaxPairs
    BY <2>1, ActiveFacts
  <2>3. ~(t.index + 1 < Sentences(t))
    BY <1>2, <2>1 DEF Sentences
  <2>4. AcceptEnd(t) = ClearActive(u)
    BY <2>3 DEF AcceptEnd
  <2>5. /\ t.active.source # "GPS" => d = t.done
        /\ t.index = 1 => d = t.active.sequence
    OBVIOUS
  <2> HIDE DEF d
  <2>6. u \in TxTypes /\ u.done = d /\ u.gps = t.gps /\ u.resync = t.resync
    BY <2>2 DEF TxTypes
  <2> HIDE DEF u
  <2> QED BY <1>2, <2>4, <2>5, <2>6, ClearFacts
<1> QED BY <1>1, <1>2

-----------------------------------------------------------------------------
(* The invariant                                                           *)

LEMMA InvInit == Init => Inv
<1> SUFFICES ASSUME Init PROVE Inv
  OBVIOUS
<1>1. tx \in TxTypes
  BY Zeros, NoneFacts DEF Init, TxTypes
<1>2. line \in Lines /\ before \in Wholes
  BY DEF Init, Lines, Wholes
<1>3. TypeOK
  BY <1>1, <1>2, Zeros DEF Init, TypeOK
<1>4. TxInv /\ LinkInv
  BY NoneFacts DEF Init, TxInv, LinkInv
<1>5. StopInv /\ LineInv /\ PairInv /\ PairOnce
  BY DEF Init, Listening, StopInv, LineInv, PairInv, PairOnce
<1> QED BY <1>3, <1>4, <1>5 DEF Inv

\* A step that changes neither the transmitter nor what the peer has.
LEMMA InvOutside ==
  ASSUME Inv, StorageMode \/ GpsPair \/ Interval \/ RequestStop \/ EndOfLoop
  PROVE  Inv'
<1>1. /\ UNCHANGED <<tx, usable, busySeen, fresh, alive, connected, subscribed, stopping>>
      /\ UNCHANGED <<line, before, pairDone>>
  BY DEF StorageMode, GpsPair, Interval, RequestStop, EndOfLoop, worker, link, outside, receiver
<1>2. pc' = pc \/ (pc = "sending" /\ pc' = "waiting")
  BY DEF StorageMode, GpsPair, Interval, RequestStop, EndOfLoop, worker
<1>3. TypeOK'
  <2>1. newest' \in 0..MaxPairs
    <3>1. CASE GpsPair
      BY <3>1, BleAssumption DEF Inv, TypeOK, GpsPair
    <3>2. CASE StorageMode \/ Interval \/ RequestStop \/ EndOfLoop
      BY <3>2 DEF Inv, TypeOK, StorageMode, Interval, RequestStop, EndOfLoop, outside
    <3> QED BY <3>1, <3>2
  <2>2. storage' \in BOOLEAN /\ stop' \in BOOLEAN /\ elapsed' \in BOOLEAN
    BY DEF Inv, TypeOK, StorageMode, GpsPair, Interval, RequestStop, EndOfLoop, outside
  <2> QED BY <1>1, <1>2, <2>1, <2>2 DEF Inv, TypeOK, TxTypes
<1>4. TxInv' /\ LinkInv'
  BY <1>1, <1>2 DEF Inv, TxInv, LinkInv, Active
<1>5. StopInv' /\ LineInv' /\ PairInv' /\ PairOnce'
  BY <1>1 DEF Inv, StopInv, LineInv, PairInv, PairOnce, Listening, Fits, Arriving, Partial, Active
<1> QED BY <1>3, <1>4, <1>5 DEF Inv

\* The peer, the stack and the shutdown change the link.
LEMMA InvLink ==
  ASSUME Inv, Connect \/ LinkLost \/ Disconnect \/ Subscribe \/ Unsubscribe \/ BeginShutdown
  PROVE  Inv'
<1>1. UNCHANGED <<tx, pc, busySeen, usable, storage, stop, elapsed, newest>>
  BY DEF Connect, LinkLost, Disconnect, Subscribe, Unsubscribe, BeginShutdown, worker, outside
<1>2. UNCHANGED receiver \/ EndStream
  BY DEF Connect, LinkLost, Disconnect, Subscribe, Unsubscribe, BeginShutdown
<1>3. /\ ~fresh' \/ (fresh' = fresh /\ alive' = FALSE)
      /\ Listening' => /\ ~fresh' /\ EndStream /\ pc # "notifying"
      /\ subscribed' => (subscribed \/ pc # "notifying")
      /\ pc = "notifying" /\ subscribed' => subscribed /\ fresh' = fresh /\ stopping' = stopping
      /\ fresh' => subscribed' = subscribed
  BY DEF Connect, LinkLost, Disconnect, Subscribe, Unsubscribe, BeginShutdown, Listening,
         NotWithinCall
<1>4. TypeOK'
  <2>1. line' \in Lines /\ before' \in Wholes /\ pairDone' \in 0..MaxPairs
    BY <1>2, Zeros DEF Inv, TypeOK, EndStream, Lines, Wholes, receiver
  <2>2. /\ fresh' \in BOOLEAN /\ alive' \in BOOLEAN /\ connected' \in BOOLEAN
        /\ subscribed' \in BOOLEAN /\ stopping' \in BOOLEAN
    BY DEF Inv, TypeOK, Connect, LinkLost, Disconnect, Subscribe, Unsubscribe, BeginShutdown
  <2> QED BY <1>1, <2>1, <2>2 DEF Inv, TypeOK, TxTypes
<1>5. TxInv'
  BY <1>1 DEF Inv, TxInv, Active
<1>6. (subscribed' => connected') /\ (alive' => connected')
  BY DEF Inv, LinkInv, Connect, LinkLost, Disconnect, Subscribe, Unsubscribe, BeginShutdown
<1>7. LinkInv'
  BY <1>1, <1>3, <1>6 DEF Inv, LinkInv
<1>8. StopInv' /\ LineInv' /\ PairInv' /\ PairOnce'
  BY <1>3 DEF StopInv, LineInv, PairInv, PairOnce, EndStream
<1> QED BY <1>4, <1>5, <1>7, <1>8 DEF Inv

LEMMA InvWakeUp ==
  ASSUME Inv, WakeUp
  PROVE  Inv'
<1>1. UNCHANGED <<tx, usable, storage, stop, elapsed, newest>> /\ pc = "waiting"
  BY DEF WakeUp, outside
<1>2. CASE stop
  <2>1. /\ pc' = "stopped" /\ stopping' = TRUE /\ alive' = FALSE /\ connected' = FALSE
        /\ subscribed' = FALSE /\ fresh' = FALSE /\ EndStream /\ busySeen' = busySeen
    BY <1>2 DEF WakeUp
  <2>2. TypeOK'
    <3>1. line' \in Lines /\ before' \in Wholes /\ pairDone' \in 0..MaxPairs
      BY <2>1, Zeros DEF EndStream, Lines, Wholes
    <3> QED BY <1>1, <2>1, <3>1 DEF Inv, TypeOK, TxTypes
  <2>3. TxInv' /\ LinkInv'
    BY <1>1, <2>1 DEF Inv, TxInv, LinkInv, Active
  <2>4. StopInv' /\ LineInv' /\ PairInv' /\ PairOnce'
    BY <2>1 DEF StopInv, LineInv, PairInv, PairOnce, Listening
  <2> QED BY <2>2, <2>3, <2>4 DEF Inv
<1>3. CASE ~stop
  <2>1. /\ pc' = "sampling" /\ busySeen' = storage
        /\ UNCHANGED <<fresh, alive, connected, subscribed, stopping, line, before, pairDone>>
    BY <1>3 DEF WakeUp, link, receiver
  <2>2. TypeOK'
    BY <1>1, <2>1 DEF Inv, TypeOK, TxTypes
  <2>3. TxInv' /\ LinkInv'
    BY <1>1, <2>1 DEF Inv, TxInv, LinkInv, Active
  <2>4. StopInv' /\ LineInv' /\ PairInv' /\ PairOnce'
    BY <1>1, <2>1
       DEF Inv, StopInv, LineInv, PairInv, PairOnce, Listening, Fits, Arriving, Partial, Active
  <2> QED BY <2>2, <2>3, <2>4 DEF Inv
<1> QED BY <1>2, <1>3

\* What Sample leaves the transmitter with: the stream as it was, reset or
\* suspended, and perhaps a pair that is neither complete nor being sent.
LEMMA SampleFacts ==
  ASSUME TypeOK, Sample
  PROVE  /\ tx' \in TxTypes
         /\ tx'.active = AfterLink(tx).active /\ tx'.index = AfterLink(tx).index
         /\ tx'.offset = AfterLink(tx).offset /\ tx'.resync = AfterLink(tx).resync
         /\ tx'.done = AfterLink(tx).done
         /\ \/ tx'.gps = AfterLink(tx).gps
            \/ /\ tx'.gps # AfterLink(tx).done
               /\ ~(/\ AfterLink(tx).active.source = "GPS"
                    /\ AfterLink(tx).active.sequence = tx'.gps)
<1> DEFINE kept == AfterLink(tx)
<1>1. tx \in TxTypes /\ newest \in 0..MaxPairs
  BY DEF TypeOK
<1>2. kept \in TxTypes
  BY <1>1, ResetFacts, SuspendFacts DEF AfterLink
<1>3. PICK intervalChanged \in BOOLEAN, lk8ex1Due \in BOOLEAN, gpsDue \in BOOLEAN :
        LET budgeted == IF ~usable \/ intervalChanged THEN ResetBudget(kept) ELSE kept
            vario    == IF lk8ex1Due THEN [budgeted EXCEPT !.lk8ex1 = TRUE] ELSE budgeted
            offered  == IF gpsDue THEN OfferGps(vario, newest) ELSE vario
        IN tx' = IF LinkUsable THEN RefillBudget(offered) ELSE kept
  BY DEF Sample
<1> HIDE DEF kept
<1> DEFINE budgeted == IF ~usable \/ intervalChanged THEN ResetBudget(kept) ELSE kept
           vario == IF lk8ex1Due THEN [budgeted EXCEPT !.lk8ex1 = TRUE] ELSE budgeted
           offered == IF gpsDue THEN OfferGps(vario, newest) ELSE vario
<1>4. SameStream(kept, kept)
  BY <1>2 DEF SameStream
<1>5. SameStream(kept, budgeted)
  BY <1>2, <1>4, BudgetFacts
<1>6. SameStream(kept, vario)
  <2> HIDE DEF budgeted
  <2>1. [budgeted EXCEPT !.lk8ex1 = TRUE] \in TxTypes
    BY <1>5 DEF SameStream, TxTypes
  <2> QED BY <1>5, <2>1 DEF SameStream, TxTypes
<1> HIDE DEF vario
<1>7. /\ offered \in TxTypes
      /\ offered.active = kept.active /\ offered.index = kept.index
      /\ offered.offset = kept.offset /\ offered.resync = kept.resync
      /\ offered.done = kept.done
      /\ \/ offered.gps = kept.gps
         \/ /\ offered.gps # kept.done
            /\ ~(kept.active.source = "GPS" /\ kept.active.sequence = offered.gps)
  <2>1. CASE gpsDue
    BY <1>1, <1>6, <2>1, OfferFacts DEF SameStream
  <2>2. CASE ~gpsDue
    BY <1>6, <2>2 DEF SameStream
  <2> QED BY <2>1, <2>2
<1>8. tx' = IF LinkUsable THEN RefillBudget(offered) ELSE kept
  BY <1>3 DEF vario
<1> HIDE DEF offered
<1>9. CASE LinkUsable
  <2>1. SameStream(offered, tx')
    BY <1>7, <1>8, <1>9, BudgetFacts
  <2> QED BY <1>7, <2>1 DEF SameStream, kept
<1>10. CASE ~LinkUsable
  BY <1>2, <1>8, <1>10 DEF kept
<1> QED BY <1>9, <1>10

LEMMA InvSample ==
  ASSUME Inv, Sample
  PROVE  Inv'
<1>1. /\ fresh' = TRUE /\ usable' = LinkUsable /\ pc = "sampling"
      /\ pc' = IF LinkUsable THEN "sending" ELSE "waiting"
      /\ elapsed' = (elapsed /\ ~LinkUsable)
      /\ pairDone' = IF ~fresh \/ (usable /\ ~LinkUsable) THEN 0 ELSE pairDone
      /\ UNCHANGED <<busySeen, alive, connected, subscribed, stopping, storage, stop,
                     newest, line, before>>
  BY DEF Sample
<1>2. tx \in TxTypes
  BY DEF Inv, TypeOK
<1>3. TypeOK
  BY DEF Inv
<1>4. LinkUsable \in BOOLEAN /\ (LinkUsable => subscribed)
  BY <1>3 DEF TypeOK, LinkUsable
<1>5. TypeOK'
  BY <1>1, <1>3, <1>4, SampleFacts, Zeros DEF TypeOK, TxTypes
<1>6. LinkInv'
  BY <1>1, <1>4 DEF Inv, LinkInv
<1>7. Listening' = Listening
  BY <1>1 DEF Listening
<1>8. CASE ~fresh \/ (usable /\ ~LinkUsable)
  <2>1. /\ AfterLink(tx).active = NoTransaction /\ AfterLink(tx).index = 0
        /\ AfterLink(tx).offset = 0
        /\ AfterLink(tx).resync = (fresh /\ (tx.resync \/ Partial(tx)))
    BY <1>2, <1>8, ResetFacts, SuspendFacts DEF AfterLink
  <2>2. /\ tx'.active = NoTransaction /\ tx'.index = 0 /\ tx'.offset = 0 /\ tx' \in TxTypes
        /\ tx'.resync = (fresh /\ (tx.resync \/ Partial(tx)))
    BY <1>3, <2>1, SampleFacts
  <2>3. TxInv'
    BY <1>1, <2>2, NoneFacts DEF TxInv, Active
  <2>4. Listening' => tx'.resync \/ line' = Nothing
    BY <1>1, <1>7, <2>2 DEF Inv, TxInv, LineInv, Fits, Partial
  <2>5. LineInv'
    BY <1>1, <2>2, <2>4 DEF LineInv, Fits
  <2>6. StopInv'
    BY <1>1, <1>7, <1>8, <2>2 DEF Inv, StopInv, Partial, Active
  <2>7. PairInv' /\ PairOnce'
    BY <1>1, <1>8, <2>2 DEF PairInv, PairOnce
  <2> QED BY <1>5, <1>6, <2>3, <2>5, <2>6, <2>7 DEF Inv
<1>9. CASE fresh /\ ~(usable /\ ~LinkUsable)
  <2>1. AfterLink(tx) = tx
    BY <1>9 DEF AfterLink
  <2>2. /\ tx'.active = tx.active /\ tx'.index = tx.index /\ tx'.offset = tx.offset
        /\ tx'.resync = tx.resync /\ tx'.done = tx.done
        /\ \/ tx'.gps = tx.gps
           \/ /\ tx'.gps # tx.done
              /\ ~(tx.active.source = "GPS" /\ tx.active.sequence = tx'.gps)
    BY <1>3, <2>1, SampleFacts
  <2>3. TxInv'
    BY <1>1, <2>2 DEF Inv, TxInv, Active
  <2>4. LineInv' /\ StopInv'
    BY <1>1, <1>7, <1>9, <2>2
       DEF Inv, LineInv, StopInv, Fits, Arriving, Partial, Active
  <2>5. PairInv' /\ PairOnce'
    BY <1>1, <1>7, <1>9, <2>2 DEF Inv, PairInv, PairOnce
  <2> QED BY <1>5, <1>6, <2>3, <2>4, <2>5 DEF Inv
<1> QED BY <1>8, <1>9

LEMMA InvSend ==
  ASSUME Inv, SendFragment
  PROVE  Inv'
<1>1. /\ pc = "sending" /\ tx.tokens > 0 /\ HasWork(tx) /\ tx \in TxTypes
      /\ UNCHANGED <<busySeen, usable, fresh, alive, connected, subscribed, stopping,
                     storage, stop, elapsed, newest, line, before, pairDone>>
  BY DEF SendFragment, MaySend, Inv, TypeOK, link, outside, receiver
<1>2. Listening' = Listening
  BY <1>1 DEF Listening
<1>3. CASE connected /\ subscribed /\ ~stopping /\ fresh
  <2>1. tx' = Offered(tx) /\ pc' = "notifying"
    BY <1>3 DEF SendFragment
  <2>2. TypeOK'
    BY <1>1, <2>1, OfferedFacts DEF Inv, TypeOK
  <2>3. LinkInv' /\ StopInv'
    BY <1>1, <1>3 DEF Inv, LinkInv, StopInv
  <2>4. CASE tx.resync \/ Active(tx)
    <3>1. /\ tx'.resync = tx.resync /\ tx'.done = tx.done /\ tx'.active = tx.active
          /\ tx'.index = tx.index /\ tx'.offset = tx.offset /\ tx'.gps = tx.gps
      BY <1>1, <2>1, <2>4, OfferedFacts
    <3>2. TxInv'
      BY <2>1, <2>4, <3>1 DEF Inv, TxInv, Active
    <3>3. LineInv' /\ PairInv' /\ PairOnce'
      BY <1>1, <1>2, <3>1 DEF Inv, LineInv, Fits, Arriving, PairInv, PairOnce
    <3> QED BY <2>2, <2>3, <3>2, <3>3 DEF Inv
  <2>5. CASE ~(tx.resync \/ Active(tx))
    <3>1. /\ tx'.resync = tx.resync /\ tx'.done = tx.done
          /\ tx'.active \in Transactions /\ tx'.index = 0 /\ tx'.offset = 0
          /\ \/ /\ tx'.active.source = "LK8EX1"
                /\ tx'.active.sequence = 0 /\ tx'.gps = tx.gps
             \/ /\ tx'.active.source = "GPS"
                /\ tx'.active.sequence = tx.gps /\ tx'.gps = 0
                /\ tx.gps # 0
      BY <1>1, <2>1, <2>5, OfferedFacts
    <3>2. tx'.active # NoTransaction
      BY <3>1, NoneFacts
    <3>3. TxInv'
      BY <2>5, <3>1, <3>2 DEF TxInv, Active
    <3>4. Listening => line = Nothing
      BY <1>3, <2>5 DEF Inv, TxInv, LineInv, Fits, TypeOK, TxTypes
    <3>5. LineInv'
      BY <1>1, <1>2, <1>3, <3>1, <3>4 DEF LineInv, Fits
    <3>6. PairInv' /\ PairOnce'
      BY <1>1, <1>2, <1>3, <3>1 DEF Inv, PairInv, PairOnce
    <3> QED BY <2>2, <2>3, <3>3, <3>5, <3>6 DEF Inv
  <2> QED BY <2>4, <2>5
<1>4. CASE ~(connected /\ subscribed /\ ~stopping /\ fresh)
  <2>1. tx' = ResetLink(tx) /\ pc' = "waiting"
    BY <1>4 DEF SendFragment
  <2>2. /\ tx' \in TxTypes /\ tx'.active = NoTransaction /\ tx'.index = 0
        /\ tx'.offset = 0 /\ tx'.gps = 0 /\ tx'.resync = FALSE
    BY <1>1, <2>1, ResetFacts
  <2>3. TypeOK' /\ LinkInv'
    BY <1>1, <2>1, <2>2 DEF Inv, TypeOK, LinkInv
  <2>4. TxInv'
    BY <2>1, <2>2, NoneFacts DEF TxInv, Active
  <2>5. Listening => line = Nothing
    BY <1>4 DEF Inv, LinkInv, LineInv, StopInv, Listening
  <2>6. Listening => pairDone = 0
    BY <1>4 DEF Inv, LinkInv, PairInv, StopInv, Listening
  <2>7. StopInv' /\ LineInv'
    BY <1>1, <1>2, <2>2, <2>5, <2>6 DEF StopInv, LineInv, Fits, Partial
  <2>8. PairInv' /\ PairOnce'
    BY <1>1, <1>2, <2>2, <2>6 DEF PairInv, PairOnce
  <2> QED BY <2>3, <2>4, <2>7, <2>8 DEF Inv
<1> QED BY <1>3, <1>4

\* What is offered to a subscriber comes over the link that was sampled.
LEMMA AtNotifying ==
  ASSUME Inv, pc = "notifying"
  PROVE  /\ tx \in TxTypes /\ (tx.resync \/ Active(tx))
         /\ subscribed => fresh /\ ~stopping
         /\ Listening => Fits
  BY DEF Inv, TypeOK, TxInv, LinkInv, LineInv, Listening

\* A transaction that is dropped while the link stays: the marker comes next if
\* the peer has begun a sentence.
LEMMA Dropped ==
  ASSUME Inv, pc = "notifying", pc' = "waiting", tx' \in TxTypes,
         tx'.gps = tx.gps, tx'.done = tx.done,
         tx.resync => /\ tx'.resync /\ tx'.active = tx.active /\ tx'.index = tx.index
                      /\ tx'.offset = tx.offset,
         ~tx.resync => /\ tx'.active = NoTransaction /\ tx'.index = 0
                       /\ tx'.offset = 0 /\ tx'.resync = Partial(tx),
         UNCHANGED <<busySeen, usable, fresh, alive, connected, subscribed, stopping,
                     storage, stop, elapsed, newest, line, before, pairDone>>
  PROVE  Inv'
<1>1. TypeOK' /\ LinkInv'
  BY DEF Inv, TypeOK, LinkInv
<1>2. Listening' = Listening
  BY DEF Listening
<1>3. TxInv'
  BY NoneFacts DEF Inv, TxInv, Active
<1>4. StopInv'
  BY <1>2, AtNotifying DEF StopInv, Listening
<1>5. LineInv'
  <2>1. ~tx.resync /\ ~Partial(tx) => ~(tx.offset > 0)
    BY DEF Inv, TxInv, Partial
  <2> QED BY <1>2, <2>1, AtNotifying DEF Inv, LineInv, Fits, Arriving, Listening
<1>6. PairInv' /\ PairOnce'
  BY <1>2, NoneFacts DEF Inv, PairInv, PairOnce
<1> QED BY <1>1, <1>3, <1>4, <1>5, <1>6 DEF Inv

\* A stream that is given up: no peer listens any more.
LEMMA GivenUp ==
  ASSUME Inv, pc = "notifying", pc' = "waiting", tx' = ResetLink(tx), ~Listening',
         subscribed' \in BOOLEAN, fresh' \in BOOLEAN,
         subscribed' => subscribed,
         UNCHANGED <<busySeen, usable, alive, connected, stopping, storage, stop, elapsed,
                     newest, line, before, pairDone>>
  PROVE  Inv'
<1>1. /\ tx' \in TxTypes /\ tx'.active = NoTransaction /\ tx'.index = 0
      /\ tx'.offset = 0 /\ tx'.gps = 0 /\ tx'.resync = FALSE
  BY AtNotifying, ResetFacts
<1>2. TypeOK' /\ LinkInv'
  BY <1>1 DEF Inv, TypeOK, LinkInv
<1>3. TxInv'
  BY <1>1, NoneFacts DEF TxInv, Active
<1>4. StopInv' /\ LineInv' /\ PairInv' /\ PairOnce'
  BY DEF StopInv, LineInv, PairInv, PairOnce
<1> QED BY <1>2, <1>3, <1>4 DEF Inv

LEMMA InvRefused ==
  ASSUME Inv, NoMemory \/ NotConnected \/ Failed
  PROVE  Inv'
<1>1. /\ pc = "notifying" /\ pc' = "waiting" /\ tx \in TxTypes
      /\ UNCHANGED <<busySeen, usable, alive, connected, stopping, storage, stop, elapsed,
                     newest, line, before, pairDone>>
      /\ Reject(tx) \in TxTypes
  BY RejectFacts DEF NoMemory, NotConnected, Failed, Inv, TypeOK, link, outside, receiver
<1>2. CASE NoMemory
  <2>1. tx' = [Reject(tx) EXCEPT !.tokens = 0] /\ UNCHANGED <<fresh, subscribed>>
    BY <1>2 DEF NoMemory, link
  <2> DEFINE u == Reject(tx)
  <2>2. u \in TxTypes
    BY <1>1
  <2> HIDE DEF u
  <2>3. tx' = [u EXCEPT !.tokens = 0]
    BY <2>1 DEF u
  <2>4. tx' \in TxTypes
    BY <2>2, <2>3, Zeros DEF TxTypes
  <2>5. /\ tx'.active = u.active /\ tx'.index = u.index /\ tx'.offset = u.offset
        /\ tx'.resync = u.resync /\ tx'.gps = u.gps /\ tx'.done = u.done
    BY <2>2, <2>3 DEF TxTypes
  <2> QED BY <1>1, <2>1, <2>4, <2>5, RejectFacts, Dropped DEF u
<1>3. CASE NotConnected
  <2>1. tx' = ResetLink(tx) /\ ~alive /\ UNCHANGED <<fresh, subscribed>>
    BY <1>3 DEF NotConnected, link
  <2>2. ~Listening' /\ subscribed' \in BOOLEAN /\ fresh' \in BOOLEAN
    BY <1>1, <2>1 DEF Listening, Inv, TypeOK
  <2> QED BY <1>1, <2>1, <2>2, GivenUp
<1>4. CASE Failed
  <2>1. CASE tx.resync \/ Partial(tx)
    <3>1. /\ tx' = ResetLink(tx)
          /\ IF fresh /\ ~stopping THEN subscribed' = FALSE /\ fresh' = FALSE
                                   ELSE UNCHANGED <<subscribed, fresh>>
      BY <1>4, <2>1 DEF Failed, ResetConnection
    <3>2. subscribed' \in BOOLEAN /\ fresh' \in BOOLEAN
      BY <3>1 DEF Inv, TypeOK
    <3>3. ~subscribed'
      BY <1>1, <3>1, <3>2, AtNotifying DEF Inv, TypeOK
    <3>4. ~Listening'
      BY <3>3 DEF Listening
    <3> QED BY <1>1, <3>1, <3>2, <3>3, <3>4, GivenUp
  <2>2. CASE ~tx.resync /\ ~Partial(tx)
    <3>1. tx' = Reject(tx) /\ UNCHANGED <<fresh, subscribed>>
      BY <1>4, <2>2 DEF Failed
    <3> QED BY <1>1, <2>2, <3>1, RejectFacts, Dropped
  <2> QED BY <2>1, <2>2
<1> QED BY <1>2, <1>3, <1>4

\* A fragment is taken: the peer, if there is one, has what the transmitter says.
LEMMA InvNotified ==
  ASSUME Inv, Notified
  PROVE  Inv'
<1>1. /\ pc = "notifying" /\ pc' = "sending" /\ alive /\ tx \in TxTypes
      /\ UNCHANGED <<busySeen, usable, fresh, alive, connected, subscribed, stopping,
                     storage, stop, elapsed, newest>>
      /\ subscribed \in BOOLEAN
      /\ line \in Lines /\ before \in Wholes /\ pairDone \in 0..MaxPairs
      /\ TxInv
  BY DEF Notified, Inv, TypeOK, link, outside
<1>2. Listening' = subscribed /\ Listening = subscribed /\ (subscribed => fresh /\ ~stopping)
  BY <1>1, AtNotifying DEF Listening
<1>3. LinkInv' /\ StopInv'
  <2>1. fresh => subscribed
    BY <1>1 DEF Inv, LinkInv
  <2> QED BY <1>1, <1>2, <2>1 DEF Inv, LinkInv, StopInv
<1>4. tx.active \in Transactions \cup {NoTransaction} /\ tx.index \in 0..1
      /\ tx.offset \in 0..(MaxFragments - 1)
  BY <1>1 DEF TxTypes
<1>5. CASE tx.resync /\ tx' = AcceptMarker(tx) /\ Received(Nothing, before, pairDone)
  <2>1. /\ tx' \in TxTypes /\ tx'.resync = FALSE /\ tx'.active = tx.active
        /\ tx'.index = tx.index /\ tx'.offset = tx.offset /\ tx'.gps = tx.gps
        /\ tx'.done = tx.done
    BY <1>1, <1>5, AcceptFacts
  <2>2. ~(tx.offset > 0)
    BY <1>1, <1>5 DEF TxInv
  <2>3. line' \in {Nothing, line} /\ before' = before /\ pairDone' = pairDone
        /\ (subscribed => line' = Nothing)
    BY <1>5 DEF Received, receiver
  <2>4. TypeOK'
    <3>1. line' \in Lines
      BY <1>1, <2>3 DEF Lines
    <3> QED BY <1>1, <2>1, <2>3, <3>1 DEF Inv, TypeOK
  <2>5. TxInv'
    BY <1>1, <2>1 DEF TxInv, Active
  <2>6. LineInv'
    BY <1>1, <1>2, <2>1, <2>2, <2>3 DEF LineInv, Fits
  <2>7. PairInv' /\ PairOnce'
    BY <1>1, <1>2, <2>1, <2>3 DEF Inv, PairInv, PairOnce
  <2> QED BY <1>3, <2>4, <2>5, <2>6, <2>7 DEF Inv
<1>6. CASE /\ ~tx.resync /\ tx.offset + 1 < MaxFragments /\ tx' = AcceptMore(tx)
           /\ Received([Arriving EXCEPT !.at = tx.offset + 1], before, pairDone)
  <2>1. /\ tx' \in TxTypes /\ tx'.resync = tx.resync /\ tx'.active = tx.active
        /\ tx'.index = tx.index /\ tx'.offset = tx.offset + 1 /\ tx'.gps = tx.gps
        /\ tx'.done = tx.done
    BY <1>1, <1>6, AcceptFacts
  <2>2. tx.active \in Transactions /\ Active(tx)
    BY <1>1, <1>4, <1>6, AtNotifying, ActiveFacts DEF Active
  <2> DEFINE l == [of |-> tx.active, index |-> tx.index, at |-> tx.offset + 1]
  <2>3. l \in Lines
    <3>1. tx.offset + 1 \in 0..MaxFragments
      BY <1>4, BleAssumption
    <3> QED BY <1>4, <2>2, <3>1 DEF Lines
  <2>4. [Arriving EXCEPT !.at = tx.offset + 1] = l
    BY DEF Arriving
  <2>5. line' \in {l, line} /\ before' = before /\ pairDone' = pairDone
        /\ (subscribed => line' = l)
    BY <1>6, <2>4 DEF Received, receiver
  <2>6. TypeOK'
    <3>1. line' \in Lines
      BY <1>1, <2>3, <2>5
    <3> QED BY <1>1, <2>1, <2>5, <3>1 DEF Inv, TypeOK
  <2>7. TxInv'
    BY <1>1, <1>6, <2>1, <2>2 DEF TxInv, Active
  <2>8. LineInv'
    <3>1. tx.offset + 1 > 0
      BY <1>4
    <3> QED BY <1>1, <1>2, <2>1, <2>5, <3>1 DEF LineInv, Fits, Arriving
  <2>9. PairInv' /\ PairOnce'
    BY <1>1, <1>2, <2>1, <2>5 DEF Inv, PairInv, PairOnce
  <2> QED BY <1>3, <2>6, <2>7, <2>8, <2>9 DEF Inv
<1>7. CASE /\ ~tx.resync /\ tx' = AcceptEnd(tx)
           /\ Received(Nothing, [of |-> tx.active, index |-> tx.index],
                       IF tx.index = 1 THEN tx.active.sequence ELSE pairDone)
  <2>1. tx.active \in Transactions /\ Active(tx)
    BY <1>1, <1>4, <1>7, AtNotifying, ActiveFacts DEF Active
  <2>2. /\ tx' \in TxTypes /\ tx'.offset = 0 /\ tx'.gps = tx.gps /\ tx'.resync = FALSE
        /\ tx.active.source = "GPS" /\ tx.index = 0 =>
             /\ tx'.active = tx.active /\ tx'.index = 1 /\ tx'.done = tx.done
        /\ ~(tx.active.source = "GPS" /\ tx.index = 0) =>
             /\ tx'.active = NoTransaction /\ tx'.index = 0
        /\ tx.active.source # "GPS" => tx'.done = tx.done
        /\ tx.index = 1 => tx'.done = tx.active.sequence
    BY <1>1, <1>7, EndFacts DEF TxInv, TxTypes
  <2> DEFINE d == IF tx.index = 1 THEN tx.active.sequence ELSE pairDone
             w == [of |-> tx.active, index |-> tx.index]
  <2>3. d \in 0..MaxPairs /\ w \in Wholes
    BY <1>1, <1>4, <2>1, ActiveFacts DEF Wholes
  <2>4. /\ line' \in {Nothing, line} /\ before' \in {w, before} /\ pairDone' \in {d, pairDone}
        /\ subscribed => line' = Nothing /\ before' = w /\ pairDone' = d
    BY <1>7 DEF Received, receiver
  <2>5. TypeOK'
    <3>1. line' \in Lines /\ before' \in Wholes /\ pairDone' \in 0..MaxPairs
      BY <1>1, <2>3, <2>4 DEF Lines
    <3> QED BY <1>1, <2>2, <3>1 DEF Inv, TypeOK
  <2>6. TxInv'
    BY <1>1, <2>2, NoneFacts DEF TxInv, Active
  <2>7. LineInv'
    BY <1>1, <1>2, <2>2, <2>4 DEF LineInv, Fits
  <2>8. PairInv'
    BY <1>1, <1>2, <1>4, <2>2, <2>4 DEF Inv, TxInv, PairInv
  <2>9. PairOnce'
    <3>1. CASE tx.index = 1
      BY <1>1, <1>2, <2>2, <2>4, <3>1, NoneFacts DEF TxInv, PairOnce
    <3>2. CASE tx.index = 0
      BY <1>1, <1>2, <2>2, <2>4, <3>2, NoneFacts DEF Inv, PairOnce
    <3> QED BY <1>4, <3>1, <3>2
  <2> QED BY <1>3, <2>5, <2>6, <2>7, <2>8, <2>9 DEF Inv
<1> QED BY <1>5, <1>6, <1>7 DEF Notified

LEMMA InvStep == Inv /\ [Next]_vars => Inv'
<1> SUFFICES ASSUME Inv, [Next]_vars PROVE Inv'
  OBVIOUS
<1>1. CASE Worker
  BY <1>1, InvWakeUp, InvSample, InvSend, InvOutside, InvNotified, InvRefused DEF Worker
<1>2. CASE Peer \/ Others
  BY <1>2, InvLink, InvOutside DEF Peer, Others
<1>3. CASE UNCHANGED vars
  <2>1. UNCHANGED <<tx, pc, busySeen, usable, fresh, alive, connected, subscribed, stopping,
                    storage, stop, elapsed, newest, line, before, pairDone>>
    BY <1>3 DEF vars, worker, link, outside, receiver
  <2>2. TypeOK' /\ TxInv' /\ LinkInv'
    BY <2>1 DEF Inv, TypeOK, TxTypes, TxInv, LinkInv, Active
  <2>3. StopInv' /\ LineInv' /\ PairInv' /\ PairOnce'
    BY <2>1
       DEF Inv, StopInv, LineInv, PairInv, PairOnce, Listening, Fits, Arriving, Partial, Active
  <2> QED BY <2>2, <2>3 DEF Inv
<1> QED BY <1>1, <1>2, <1>3 DEF Next

-----------------------------------------------------------------------------
\* The transmitter, the worker and the receiver have their types.
THEOREM BleTypes == Spec => []TypeOK
<1>1. Spec => []Inv
  BY InvInit, InvStep, PTL DEF Spec
<1>2. Inv => TypeOK
  BY DEF Inv
<1> QED BY <1>1, <1>2, PTL

\* What ble_nus_tx and the worker promise the receiver: sentences are not
\* interleaved, and one cut off is ended before the next begins.
THEOREM NeverSpliced == Spec => []NoSplice
<1>1. Spec => []Inv
  BY InvInit, InvStep, PTL DEF Spec
<1>2. Inv => NoSplice
  BY AtNotifying DEF NoSplice
<1> QED BY <1>1, <1>2, PTL

\* A GGA that ble_tx_worker offers follows the RMC of its own pair.
THEOREM PairsStayTogether == Spec => []PairTogether
<1>1. Spec => []Inv
  BY InvInit, InvStep, PTL DEF Spec
<1>2. Inv => PairTogether
  <2> SUFFICES ASSUME Inv, pc = "notifying", Listening, ~tx.resync, tx.index = 1
               PROVE  before.of = tx.active /\ before.index = 0
    BY DEF PairTogether
  <2>1. fresh
    BY DEF Inv, LinkInv, Listening
  <2> QED BY <2>1 DEF Inv, PairInv
<1> QED BY <1>1, <1>2, PTL

\* The checks of ble_nus_tx_offer_gps keep a pair the peer has from coming again.
THEOREM PairsGoOutOnce == Spec => []PairOnce
<1>1. Spec => []Inv
  BY InvInit, InvStep, PTL DEF Spec
<1>2. Inv => PairOnce
  BY DEF Inv
<1> QED BY <1>1, <1>2, PTL

\* Both together: a pair of ble_nus_tx_offer_gps goes out in one piece and once.
THEOREM PairsAreKept == Spec => []PairKept
<1>1. PairTogether /\ PairOnce => PairKept
  BY DEF PairKept
<1> QED BY <1>1, PairsStayTogether, PairsGoOutOnce, PTL

=============================================================================
