------------------------------ MODULE BleNusTx ------------------------------
(***************************************************************************)
(* Sentences over a Bluetooth byte stream: the transmitter's state         *)
(* (domain/ble_nus_tx.c), the worker that drives it (app/ble_tx_worker.c)  *)
(* and the link it runs on, which the NimBLE host task changes at any      *)
(* moment (platform/ble_vario.c).  The receiver is a line that sentences   *)
(* are put together on, fragment by fragment.                              *)
(*                                                                         *)
(* A sentence has one to MaxFragments fragments; how many is only known    *)
(* once the last one is accepted.  The link's generation is compared with  *)
(* the one the worker saw last and with nothing else, so it is kept as     *)
(* whether the two are equal (fresh).  Left out: battery notifications,    *)
(* transmit power, statistics and the text of the sentences.               *)
(***************************************************************************)
EXTENDS Naturals

CONSTANTS
    Tokens,       \* BLE_NUS_TX_TOKENS_PER_INTERVAL
    MaxFragments, \* fragments of the longest sentence
    MaxPairs      \* GPS pairs received before the GPS falls silent

ASSUME BleAssumption ==
    /\ Tokens \in Nat /\ Tokens > 0
    /\ MaxFragments \in Nat /\ MaxFragments > 0
    /\ MaxPairs \in Nat

VARIABLES
    tx,        \* ble_nus_tx_state_t of the worker
    pc,        \* where ble_tx_worker_task is
    busySeen,  \* storage_mode_active, as read at the top of the loop
    usable,    \* previous_link_usable
    fresh,     \* nus_link_generation = previous_link_generation
    alive,     \* the stack's own record of the connection, which it drops first
    connected, subscribed, \* connection_handle, notification_subscribed
    storage, stop,         \* APP_EVENT_STORAGE_MODE_REQUEST, APP_EVENT_STOP_REQUEST
    stopping,  \* stop_requested of the driver
    elapsed,   \* next_token_refill_us has come
    newest,    \* sequence of the newest GPS pair, 0 before the first
    line,      \* the receiver: the unfinished sentence, if any
    before,    \* the receiver: the last complete sentence
    pairDone   \* the last complete pair since the stream began or was suspended

worker   == <<pc, busySeen, usable>>
link     == <<fresh, alive, connected, subscribed, stopping>>
outside  == <<storage, stop, elapsed, newest>>
receiver == <<line, before, pairDone>>
vars == <<tx, worker, link, outside, receiver>>

Sources == {"LK8EX1", "GPS"}
Transactions == [source : {"LK8EX1"}, sequence : {0}]
                   \cup [source : {"GPS"}, sequence : 1..MaxPairs]
NoTransaction == [source |-> "none", sequence |-> 0]

\* A sentence of a transaction; at is how much of it has arrived.
Nothing == [of |-> NoTransaction, index |-> 0, at |-> 0]
Lines == [of : Transactions, index : 0..1, at : 0..MaxFragments] \cup {Nothing}

\* A complete sentence, and the start of the stream.
Start == [of |-> NoTransaction, index |-> 0]
Wholes == [of : Transactions, index : 0..1] \cup {Start}

-----------------------------------------------------------------------------
(* The transmitter (domain/ble_nus_tx.c)                                   *)

Active(t) == t.active # NoTransaction
HasWork(t) == Active(t) \/ t.lk8ex1 \/ t.gps # 0 \/ t.resync
Partial(t) == Active(t) /\ t.offset > 0

ClearActive(t) == [t EXCEPT !.active = NoTransaction, !.index = 0, !.offset = 0]

NoPending(t) == [t EXCEPT !.lk8ex1 = FALSE, !.gps = 0]
NoBudget(t) == [t EXCEPT !.tokens = 0, !.timed = FALSE]

ResetLink(t) ==
    [NoBudget(NoPending(ClearActive(t))) EXCEPT !.last = "none", !.done = 0, !.resync = FALSE]

\* Mutant of SuspendStream: a sentence cut off is not resynchronised.
SuspendStreamForgets(t) == [NoBudget(NoPending(ClearActive(t))) EXCEPT !.done = 0]

SuspendStream(t) ==
    [NoBudget(NoPending(ClearActive(t))) EXCEPT !.done = 0, !.resync = t.resync \/ Partial(t)]

\* The newest pair, unless it is complete, being sent or waiting.
OfferGps(t, s) ==
    IF \/ s = 0 \/ s = t.done \/ t.gps = s
       \/ t.active.source = "GPS" /\ t.active.sequence = s
    THEN t ELSE [t EXCEPT !.gps = s]

ResetBudget(t) == [t EXCEPT !.tokens = Tokens, !.timed = TRUE]

RefillBudget(t) == IF t.timed /\ ~elapsed THEN t ELSE ResetBudget(t)

StartLk8ex1(t) ==
    [t EXCEPT !.active = [source |-> "LK8EX1", sequence |-> 0], !.lk8ex1 = FALSE,
              !.last = "LK8EX1", !.index = 0, !.offset = 0]
StartGps(t) ==
    [t EXCEPT !.active = [source |-> "GPS", sequence |-> t.gps], !.gps = 0,
              !.last = "GPS", !.index = 0, !.offset = 0]

\* Mutant of StartNext: the vario comes first.
StartNextVario(t) == IF t.lk8ex1 THEN StartLk8ex1(t) ELSE StartGps(t)

\* With both waiting they take turns.
StartNext(t) ==
    IF t.lk8ex1 /\ (t.gps = 0 \/ t.last # "LK8EX1") THEN StartLk8ex1(t) ELSE StartGps(t)

\* ble_nus_tx_next_fragment, then ble_nus_tx_take_token
Offered(t) ==
    [(IF t.resync \/ Active(t) THEN t ELSE StartNext(t)) EXCEPT !.tokens = t.tokens - 1]

AcceptMarker(t) == [t EXCEPT !.resync = FALSE]

Sentences(t) == IF t.active.source = "GPS" THEN 2 ELSE 1

\* ble_nus_tx_accept_fragment of a fragment that is not the last of its sentence,
\* and of one that is
AcceptMore(t) == [t EXCEPT !.offset = t.offset + 1]
AcceptEnd(t) ==
    IF t.index + 1 < Sentences(t)
    THEN [t EXCEPT !.index = t.index + 1, !.offset = 0]
    ELSE ClearActive([t EXCEPT !.done = IF t.active.source = "GPS" THEN t.active.sequence ELSE @])

\* ble_nus_tx_reject_fragment
Reject(t) == IF t.resync THEN t ELSE [ClearActive(t) EXCEPT !.resync = Partial(t)]

-----------------------------------------------------------------------------
(* The receiver                                                            *)

Arriving == [of |-> tx.active, index |-> tx.index, at |-> tx.offset]

\* The fragment offered goes on where the receiver is.
Fits == tx.resync \/ line = IF tx.offset > 0 THEN Arriving ELSE Nothing

\* Nothing of a stream is left to the peer when it is over, nor when it subscribes.
EndStream == line' = Nothing /\ before' = Start /\ pairDone' = 0

-----------------------------------------------------------------------------
(* The worker (app/ble_tx_worker.c)                                        *)

\* The top of the loop: a stop ends the task, else the storage bit is read.
WakeUp ==
    /\ pc = "waiting"
    /\ \/ /\ stop
          /\ pc' = "stopped" /\ stopping' = TRUE
          /\ alive' = FALSE /\ connected' = FALSE /\ subscribed' = FALSE /\ fresh' = FALSE
          /\ EndStream /\ UNCHANGED busySeen
       \/ /\ ~stop
          /\ pc' = "sampling" /\ busySeen' = storage
          /\ UNCHANGED <<link, receiver>>
    /\ UNCHANGED <<tx, usable, outside>>

LinkUsable == connected /\ subscribed /\ ~busySeen

\* Mutant of AfterLink: the generation is not compared.
AfterLinkMissed(t) == IF usable /\ ~LinkUsable THEN SuspendStream(t) ELSE t

\* What a new generation or the end of the link's use does to the stream
AfterLink(t) ==
    IF ~fresh THEN ResetLink(t) ELSE IF usable /\ ~LinkUsable THEN SuspendStream(t) ELSE t

\* ble_vario_get_nus_link and what follows it: the stream is reset, suspended or
\* resumed, what is due is offered, and the budget is refilled.
Sample ==
    /\ pc = "sampling"
    /\ \E intervalChanged, lk8ex1Due, gpsDue \in BOOLEAN :
          LET kept     == AfterLink(tx)
              budgeted == IF ~usable \/ intervalChanged THEN ResetBudget(kept) ELSE kept
              vario    == IF lk8ex1Due THEN [budgeted EXCEPT !.lk8ex1 = TRUE] ELSE budgeted
              offered  == IF gpsDue THEN OfferGps(vario, newest) ELSE vario
          IN tx' = IF LinkUsable THEN RefillBudget(offered) ELSE kept
    /\ elapsed' = (elapsed /\ ~LinkUsable)
    /\ pairDone' = IF ~fresh \/ (usable /\ ~LinkUsable) THEN 0 ELSE pairDone
    /\ fresh' = TRUE /\ usable' = LinkUsable
    /\ pc' = IF LinkUsable THEN "sending" ELSE "waiting"
    /\ UNCHANGED <<busySeen, alive, connected, subscribed, stopping, storage, stop, newest, line, before>>

\* send_available_fragments goes on.
MaySend == tx.tokens > 0 /\ HasWork(tx)

\* ble_vario_notify_nus_fragment up to the call of NimBLE: the link must be the
\* one sampled.
SendFragment ==
    /\ pc = "sending" /\ MaySend
    /\ \/ /\ connected /\ subscribed /\ ~stopping /\ fresh
          /\ tx' = Offered(tx) /\ pc' = "notifying"
       \/ /\ ~(connected /\ subscribed /\ ~stopping /\ fresh)
          /\ tx' = ResetLink(tx) /\ pc' = "waiting"
    /\ UNCHANGED <<busySeen, usable, link, outside, receiver>>

EndOfLoop ==
    /\ pc = "sending" /\ ~MaySend
    /\ pc' = "waiting"
    /\ UNCHANGED <<tx, busySeen, usable, link, outside, receiver>>

\* A peer that does not listen drops what arrives.
Received(newLine, newBefore, newPair) ==
    IF subscribed THEN line' = newLine /\ before' = newBefore /\ pairDone' = newPair
                  ELSE UNCHANGED receiver

\* NimBLE takes the fragment.
Notified ==
    /\ pc = "notifying" /\ alive /\ pc' = "sending"
    /\ \/ /\ tx.resync
          /\ tx' = AcceptMarker(tx)
          /\ Received(Nothing, before, pairDone)
       \/ /\ ~tx.resync /\ tx.offset + 1 < MaxFragments
          /\ tx' = AcceptMore(tx)
          /\ Received([Arriving EXCEPT !.at = tx.offset + 1], before, pairDone)
       \/ /\ ~tx.resync
          /\ tx' = AcceptEnd(tx)
          /\ Received(Nothing, [of |-> tx.active, index |-> tx.index],
                      IF tx.index = 1 THEN tx.active.sequence ELSE pairDone)
    /\ UNCHANGED <<busySeen, usable, link, outside>>

\* No buffer: the transaction is dropped, the marker kept, the interval is over.
NoMemory ==
    /\ pc = "notifying" /\ pc' = "waiting"
    /\ tx' = [Reject(tx) EXCEPT !.tokens = 0]
    /\ UNCHANGED <<busySeen, usable, link, outside, receiver>>

NotConnected ==
    /\ pc = "notifying" /\ ~alive /\ pc' = "waiting"
    /\ tx' = ResetLink(tx)
    /\ UNCHANGED <<busySeen, usable, link, outside, receiver>>

\* ble_vario_reset_nus_connection, of the generation sampled
ResetConnection ==
    IF fresh /\ ~stopping THEN subscribed' = FALSE /\ fresh' = FALSE
                          ELSE UNCHANGED <<subscribed, fresh>>

\* Another error: in the middle of a sentence, or for the marker, the connection
\* is given up; else the transaction is dropped.
Failed ==
    /\ pc = "notifying" /\ pc' = "waiting"
    /\ \/ /\ tx.resync \/ Partial(tx)
          /\ tx' = ResetLink(tx)
          /\ ResetConnection
       \/ /\ ~tx.resync /\ ~Partial(tx)
          /\ tx' = Reject(tx)
          /\ UNCHANGED <<subscribed, fresh>>
    /\ UNCHANGED <<busySeen, usable, alive, connected, stopping, outside, receiver>>

-----------------------------------------------------------------------------
(* The NimBLE host task, the peer and the other workers                    *)

\* A new stream needs several exchanges over the air: it does not begin within
\* the call of NimBLE the worker is in.
NotWithinCall == pc # "notifying"

Connect ==
    /\ ~connected /\ NotWithinCall /\ pc # "stopped"
    /\ alive' = TRUE /\ connected' = TRUE /\ subscribed' = FALSE /\ fresh' = FALSE
    /\ UNCHANGED <<tx, worker, stopping, outside, receiver>>

\* The stack drops its record, then reports it.
LinkLost ==
    /\ alive /\ alive' = FALSE
    /\ EndStream
    /\ UNCHANGED <<tx, worker, fresh, connected, subscribed, stopping, outside>>
Disconnect ==
    /\ connected /\ ~alive
    /\ connected' = FALSE /\ subscribed' = FALSE /\ fresh' = FALSE
    /\ UNCHANGED <<tx, worker, alive, stopping, outside, receiver>>
Subscribe ==
    /\ alive /\ ~subscribed /\ NotWithinCall
    /\ subscribed' = TRUE /\ fresh' = FALSE
    /\ EndStream
    /\ UNCHANGED <<tx, worker, alive, connected, stopping, outside>>
Unsubscribe ==
    /\ alive /\ subscribed
    /\ subscribed' = FALSE /\ fresh' = FALSE
    /\ EndStream
    /\ UNCHANGED <<tx, worker, alive, connected, stopping, outside>>

\* A write session of the USB host begins and ends.
StorageMode ==
    /\ storage' = ~storage
    /\ UNCHANGED <<tx, worker, link, stop, elapsed, newest, receiver>>
GpsPair ==
    /\ newest < MaxPairs /\ newest' = newest + 1
    /\ UNCHANGED <<tx, worker, link, storage, stop, elapsed, receiver>>
Interval ==
    /\ tx.timed /\ ~elapsed /\ elapsed' = TRUE
    /\ UNCHANGED <<tx, worker, link, storage, stop, newest, receiver>>

\* The system worker: the stop bit, then ble_vario_begin_shutdown.
RequestStop ==
    /\ ~stop /\ stop' = TRUE
    /\ UNCHANGED <<tx, worker, link, storage, elapsed, newest, receiver>>
BeginShutdown ==
    /\ stop /\ ~stopping /\ stopping' = TRUE
    /\ subscribed' = FALSE /\ fresh' = FALSE
    /\ UNCHANGED <<tx, worker, alive, connected, outside, receiver>>

-----------------------------------------------------------------------------
Init ==
    /\ tx = [active |-> NoTransaction, index |-> 0, offset |-> 0, lk8ex1 |-> FALSE,
             gps |-> 0, last |-> "none", done |-> 0, tokens |-> 0, timed |-> FALSE,
             resync |-> FALSE]
    /\ pc = "waiting" /\ busySeen = FALSE /\ usable = FALSE
    /\ fresh = FALSE /\ alive = FALSE /\ connected = FALSE /\ subscribed = FALSE /\ stopping = FALSE
    /\ storage = FALSE /\ stop = FALSE /\ elapsed = FALSE /\ newest = 0
    /\ line = Nothing /\ before = Start /\ pairDone = 0

Worker == WakeUp \/ Sample \/ SendFragment \/ EndOfLoop
             \/ Notified \/ NoMemory \/ NotConnected \/ Failed
Peer == Connect \/ LinkLost \/ Disconnect \/ Subscribe \/ Unsubscribe
Others == StorageMode \/ GpsPair \/ Interval \/ RequestStop \/ BeginShutdown
Next == Worker \/ Peer \/ Others

Spec == Init /\ [][Next]_vars

\* The worker is scheduled and woken at least once a second, time passes, the
\* stack reports a connection it has dropped, and buffers are given back: a link
\* that lives does not refuse for ever.
Fairness ==
    /\ WF_vars(Worker) /\ WF_vars(Interval) /\ WF_vars(Disconnect)
    /\ SF_vars(Notified)
FairSpec == Spec /\ Fairness

-----------------------------------------------------------------------------
(* Properties                                                              *)

TxTypes ==
    [active : Transactions \cup {NoTransaction}, index : 0..1, offset : 0..(MaxFragments - 1),
     lk8ex1 : BOOLEAN, gps : 0..MaxPairs, last : Sources \cup {"none"}, done : 0..MaxPairs,
     tokens : 0..Tokens, timed : BOOLEAN, resync : BOOLEAN]

TypeOK ==
    /\ tx \in TxTypes
    /\ pc \in {"waiting", "sampling", "sending", "notifying", "stopped"}
    /\ busySeen \in BOOLEAN /\ usable \in BOOLEAN
    /\ fresh \in BOOLEAN /\ alive \in BOOLEAN /\ connected \in BOOLEAN /\ subscribed \in BOOLEAN
    /\ stopping \in BOOLEAN /\ storage \in BOOLEAN /\ stop \in BOOLEAN /\ elapsed \in BOOLEAN
    /\ newest \in 0..MaxPairs
    /\ line \in Lines /\ before \in Wholes /\ pairDone \in 0..MaxPairs

\* There is a peer that what is sent reaches.
Listening == alive /\ subscribed

\* The receiver never sees two sentences run together: whatever fragment is
\* about to reach it goes on with the sentence it has begun, begins one on a
\* clean line, or is the marker that ends a line cut off.
NoSplice == pc = "notifying" /\ Listening => Fits

\* GGA only follows the RMC of its own pair, with nothing in between.
PairTogether ==
    pc = "notifying" /\ Listening /\ ~tx.resync /\ tx.index = 1 =>
        before.of = tx.active /\ before.index = 0

\* A pair that the peer has whole is neither waiting nor being sent again, unless
\* the stream was suspended since.
PairOnce ==
    Listening /\ pairDone # 0 => tx.gps # pairDone /\ tx.active.sequence # pairDone

\* A pair goes out in one piece and once.
PairKept == PairTogether /\ PairOnce

\* Both sources get their turn, however often the other one is offered, as long
\* as the link stays the one it is.
BothServed ==
    /\ tx.gps # 0 ~> tx.gps = 0 \/ ~fresh \/ pc = "stopped"
    /\ tx.lk8ex1 ~> ~tx.lk8ex1 \/ ~fresh \/ pc = "stopped"

\* A line cut off is closed, unless the link or its use ends.
ResyncEnds == tx.resync ~> ~tx.resync \/ storage \/ pc = "stopped"

\* No sentence waits for ever, neither behind the other kind nor behind a marker.
StreamGoesOn == BothServed /\ ResyncEnds
=============================================================================
