--------------------------- MODULE MscStorageProofs ---------------------------
(***************************************************************************)
(* Who holds the config FAT, for every set of application tasks and every  *)
(* number of failing calls: the types, the one write in flight, and the    *)
(* moves of the medium under storage_io_mutex; and, as long as no call     *)
(* fails, the drained hand-over and the medium closed until its gate       *)
(* opens.                                                                  *)
(***************************************************************************)
EXTENDS MscStorage, TLAPS

-----------------------------------------------------------------------------
(* The inductive invariant                                                 *)

\* The accepted write is in exactly one hand: the TinyUSB task that fills or
\* completes it, the flag for the worker, the worker, or the queue back.
Handled == job["tusb"] \in {"publish", "completing"}
OneCarrier ==
    /\ Carried => reserved = 1
    /\ Handled => ~ready /\ wpc = "idle" /\ ~posted
    /\ wpc # "idle" => ~ready /\ ~posted
    /\ ready => ~posted
    /\ cmd => Carried /\ ~Handled /\ job["tusb"] # "dead"

\* Without a driver, and once it is uninstalled, there is no TinyUSB task.
DriverGone == ~installed \/ job["console"] = "stopped" => job["tusb"] = "dead"

WriteInv == TypeOK /\ OneCarrier /\ DriverGone

\* Who moves the medium or uses its files holds storage_io_mutex, and while the
\* medium moves the owner is neither side.
IoHeld ==
    /\ \A t \in Movers : call[t] \in Moving => mutex["io"] = t /\ owner \notin {"APP", "HOST"}
    /\ \A a \in Apps : app[a] \in {"recheck", "io"} => mutex["io"] = a

Ownership == IoHeld /\ OwnerIsTrue /\ AppIoIsMounted

-----------------------------------------------------------------------------
(* Types                                                                   *)

\* A group of variables that a step leaves alone keeps its types.
LEMMA Untouched ==
    /\ MediumTypes /\ UNCHANGED medium => MediumTypes'
    /\ WritingTypes /\ UNCHANGED writing => WritingTypes'
    /\ SessionTypes /\ UNCHANGED session => SessionTypes'
    /\ LockTypes /\ UNCHANGED locks => LockTypes'
    /\ PolicyTypes /\ UNCHANGED policy => PolicyTypes'
    /\ HostTypes /\ UNCHANGED host => HostTypes'
    /\ TaskTypes /\ UNCHANGED tasks => TaskTypes'
    /\ EnvTypes /\ UNCHANGED env => EnvTypes'
BY DEF MediumTypes, WritingTypes, SessionTypes, LockTypes, PolicyTypes, HostTypes,
       TaskTypes, EnvTypes, medium, writing, session, locks, policy, host, tasks, env

LEMMA FaultType ==
    ASSUME TypeOK, NoFault \/ Fails
    PROVE  faults' \in 0..MaxFaults
BY AppsAssumption DEF TypeOK, EnvTypes, NoFault, Fails

LEMMA GiveType ==
    ASSUME TypeOK, NEW t \in Movers, GiveTransition(t)
    PROVE  /\ transLocked' = FALSE /\ mutex' \in [Mutexes -> Holders]
           /\ panicked' \in BOOLEAN
<1>1. mutex' \in [Mutexes -> Holders]
  BY DEF TypeOK, LockTypes, GiveTransition, Held, Holders
<1> QED BY <1>1 DEF TypeOK, EnvTypes, GiveTransition

LEMMA TypesInit == Init => TypeOK
<1> SUFFICES ASSUME Init PROVE TypeOK
  OBVIOUS
<1> USE DEF Init
<1>1. MediumTypes /\ PolicyTypes /\ HostTypes
  BY DEF MediumTypes, PolicyTypes, HostTypes
<1>5. WritingTypes
  <2>1. reserved \in 0..1
    OBVIOUS
  <2> QED BY <2>1 DEF WritingTypes
<1>6. SessionTypes
  <2>1. pending \in 0..1
    OBVIOUS
  <2> QED BY <2>1 DEF SessionTypes
<1>2. LockTypes
  BY DEF LockTypes, Mutexes, Holders
<1>3. TaskTypes
  BY DEF TaskTypes, Movers, TusbJobs, CallerJobs, Calls
<1>4. EnvTypes
  <2>1. faults \in 0..MaxFaults
    BY AppsAssumption
  <2> QED BY <2>1 DEF EnvTypes
<1> QED BY <1>1, <1>2, <1>3, <1>4, <1>5, <1>6 DEF TypeOK

(* Each action keeps the types of the groups it assigns to.                *)

LEMMA TypesApply ==
    ASSUME TypeOK, NEW t \in Movers, Apply(t)
    PROVE  TypeOK'
<1>1. TaskTypes'
  BY DEF TypeOK, TaskTypes, Apply, Goes, MediumTypes, Movers, TusbJobs,
     CallerJobs, Calls
<1> QED BY <1>1, Untouched DEF TypeOK, Apply

LEMMA TypesCheck ==
    ASSUME TypeOK, NEW t \in Movers, Check(t)
    PROVE  TypeOK'
<1>1. TaskTypes'
  BY DEF TypeOK, TaskTypes, Check, Goes, Movers, TusbJobs, CallerJobs, Calls
<1> QED BY <1>1, Untouched DEF TypeOK, Check

LEMMA TypesStart ==
    ASSUME TypeOK, NEW t \in Movers, Start(t)
    PROVE  TypeOK'
<1>1. SessionTypes'
  BY DEF TypeOK, SessionTypes, Start, RequestForcedExit, Goes
<1>2. TaskTypes'
  BY DEF TypeOK, TaskTypes, Start, RequestForcedExit, Goes, Movers, TusbJobs,
     CallerJobs, Calls
<1> QED BY <1>1, <1>2, Untouched DEF TypeOK, Start

LEMMA TypesLock ==
    ASSUME TypeOK, NEW t \in Movers, Lock(t)
    PROVE  TypeOK'
<1>1. LockTypes'
  BY DEF TypeOK, LockTypes, Lock, Free, Held, Goes, Mutexes, Holders, Movers
<1>2. TaskTypes'
  BY DEF TypeOK, TaskTypes, Lock, Free, Held, Goes, Movers, TusbJobs,
     CallerJobs, Calls
<1> QED BY <1>1, <1>2, Untouched DEF TypeOK, Lock

LEMMA TypesWorkMount ==
    ASSUME TypeOK, NEW t \in Movers, WorkMount(t)
    PROVE  TypeOK'
<1>1. MediumTypes'
  BY DEF TypeOK, MediumTypes, WorkMount, Fails, NoFault, Free, Held, Goes
<1>2. LockTypes'
  BY DEF TypeOK, LockTypes, WorkMount, Fails, NoFault, Free, Held, Goes,
     Mutexes, Holders, Movers
<1>3. TaskTypes'
  <2>1. call' \in [Movers -> Calls]
    BY DEF TypeOK, TaskTypes, WorkMount, Goes, Calls
  <2>2. ret' \in [Movers -> {"ok", "error", "unfinished"}]
    BY DEF TypeOK, TaskTypes, WorkMount
  <2> QED BY <2>1, <2>2 DEF TypeOK, TaskTypes, WorkMount
<1>4. EnvTypes'
  BY FaultType DEF TypeOK, EnvTypes, WorkMount, Free, Held, Goes
<1> QED BY <1>1, <1>2, <1>3, <1>4, Untouched DEF TypeOK, WorkMount

LEMMA TypesMountFs ==
    ASSUME TypeOK, NEW t \in Movers, MountFs(t)
    PROVE  TypeOK'
<1>1. LockTypes'
  BY DEF TypeOK, LockTypes, MountFs, Fails, NoFault, Held, Goes, Mutexes,
     Holders, Movers
<1>2. TaskTypes'
  BY DEF TypeOK, TaskTypes, MountFs, Fails, NoFault, Held, Goes, Movers,
     TusbJobs, CallerJobs, Calls
<1>3. EnvTypes'
  BY FaultType DEF TypeOK, EnvTypes, MountFs, Held, Goes
<1> QED BY <1>1, <1>2, <1>3, Untouched DEF TypeOK, MountFs

LEMMA TypesWorkUnmount ==
    ASSUME TypeOK, NEW t \in Movers, WorkUnmount(t)
    PROVE  TypeOK'
<1>1. MediumTypes'
  BY DEF TypeOK, MediumTypes, WorkUnmount, Fails, NoFault, Free, Goes
<1>2. TaskTypes'
  BY DEF TypeOK, TaskTypes, WorkUnmount, Fails, NoFault, Free, Goes, Movers,
     TusbJobs, CallerJobs, Calls
<1>3. EnvTypes'
  BY FaultType DEF TypeOK, EnvTypes, WorkUnmount, Free, Goes
<1> QED BY <1>1, <1>2, <1>3, Untouched DEF TypeOK, WorkUnmount

LEMMA TypesEvent ==
    ASSUME TypeOK, NEW t \in Movers, Event(t)
    PROVE  TypeOK'
<1>1. LockTypes'
  BY GiveType DEF TypeOK, LockTypes, Event, Goes, Mutexes, Holders, Movers
<1>2. TaskTypes'
  BY DEF TypeOK, TaskTypes, Event, GiveTransition, Held, Goes, Movers, TusbJobs,
     CallerJobs, Calls
<1>3. EnvTypes'
  BY FaultType, GiveType DEF TypeOK, EnvTypes, Event, Goes
<1> QED BY <1>1, <1>2, <1>3, Untouched DEF TypeOK, Event

LEMMA TypesFailEvent ==
    ASSUME TypeOK, NEW t \in Movers, FailEvent(t)
    PROVE  TypeOK'
<1>1. LockTypes'
  BY GiveType DEF TypeOK, LockTypes, FailEvent, MountFailed, Goes, Mutexes,
     Holders, Movers
<1>2. TaskTypes'
  BY DEF TypeOK, TaskTypes, FailEvent, MountFailed, GiveTransition, Goes,
     Movers, TusbJobs, CallerJobs, Calls
<1>3. EnvTypes'
  BY FaultType, GiveType DEF TypeOK, EnvTypes, FailEvent, MountFailed, Goes
<1> QED BY <1>1, <1>2, <1>3, Untouched DEF TypeOK, FailEvent

LEMMA TypesCleanup ==
    ASSUME TypeOK, NEW t \in Movers, Cleanup(t)
    PROVE  TypeOK'
<1>1. MediumTypes'
  BY DEF TypeOK, MediumTypes, Cleanup, Goes
<1>2. TaskTypes'
  BY DEF TypeOK, TaskTypes, Cleanup, Goes, Movers, TusbJobs, CallerJobs, Calls
<1> QED BY <1>1, <1>2, Untouched DEF TypeOK, Cleanup

LEMMA TypesFinal ==
    ASSUME TypeOK, NEW t \in Movers, Final(t)
    PROVE  TypeOK'
<1>1. MediumTypes'
  BY DEF TypeOK, MediumTypes, Final, Goes
<1>2. TaskTypes'
  BY DEF TypeOK, TaskTypes, Final, Goes, Movers, TusbJobs, CallerJobs, Calls
<1> QED BY <1>1, <1>2, Untouched DEF TypeOK, Final

LEMMA TypesHostWrite ==
    ASSUME TypeOK, HostWrite
    PROVE  TypeOK'
<1>1. WritingTypes'
  BY DEF TypeOK, WritingTypes, HostWrite, Becomes, TusbIdle, UsbReadable
<1>2. TaskTypes'
  BY DEF TypeOK, TaskTypes, HostWrite, Becomes, TusbIdle, UsbReadable, Movers,
     TusbJobs, CallerJobs, Calls
<1> QED BY <1>1, <1>2, Untouched DEF TypeOK, HostWrite

LEMMA TypesPublish ==
    ASSUME TypeOK, Publish
    PROVE  TypeOK'
<1>1. WritingTypes'
  BY DEF TypeOK, WritingTypes, Publish, Becomes
<1>2. HostTypes'
  BY DEF TypeOK, HostTypes, Publish, Becomes
<1>3. TaskTypes'
  BY DEF TypeOK, TaskTypes, Publish, Becomes, Movers, TusbJobs, CallerJobs,
     Calls
<1> QED BY <1>1, <1>2, <1>3, Untouched DEF TypeOK, Publish

LEMMA TypesHostRead ==
    ASSUME TypeOK, HostRead
    PROVE  TypeOK'
<1>1. TaskTypes'
  BY DEF TypeOK, TaskTypes, HostRead, Becomes, TusbIdle, UsbReadable, Movers,
     TusbJobs, CallerJobs, Calls
<1> QED BY <1>1, Untouched DEF TypeOK, HostRead

LEMMA TypesReadMedium ==
    ASSUME TypeOK, ReadMedium
    PROVE  TypeOK'
<1>1. LockTypes'
  BY DEF TypeOK, LockTypes, ReadMedium, Free, Held, Becomes, Mutexes, Holders,
     Movers
<1>2. TaskTypes'
  BY DEF TypeOK, TaskTypes, ReadMedium, Free, Held, Becomes, Movers, TusbJobs,
     CallerJobs, Calls
<1> QED BY <1>1, <1>2, Untouched DEF TypeOK, ReadMedium

LEMMA TypesEject ==
    ASSUME TypeOK, Eject
    PROVE  TypeOK'
<1>1. MediumTypes'
  BY DEF TypeOK, MediumTypes, Eject, RequestMount, TusbIdle
<1>2. TaskTypes'
  BY DEF TypeOK, TaskTypes, Eject, RequestMount, TusbIdle, Movers, TusbJobs,
     CallerJobs, Calls
<1> QED BY <1>1, <1>2, Untouched DEF TypeOK, Eject

LEMMA TypesEjectDone ==
    ASSUME TypeOK, EjectDone
    PROVE  TypeOK'
<1>1. TaskTypes'
  BY DEF TypeOK, TaskTypes, EjectDone, Becomes, Returned, Goes, Movers,
     TusbJobs, CallerJobs, Calls
<1> QED BY <1>1, Untouched DEF TypeOK, EjectDone

LEMMA TypesReset ==
    ASSUME TypeOK, Reset
    PROVE  TypeOK'
<1>1. HostTypes'
  BY DEF TypeOK, HostTypes, Reset, TusbIdle
<1> QED BY <1>1, Untouched DEF TypeOK, Reset

LEMMA TypesAttach ==
    ASSUME TypeOK, Attach
    PROVE  TypeOK'
<1>1. MediumTypes'
  BY DEF TypeOK, MediumTypes, Attach, RequestMount, TusbIdle
<1>2. HostTypes'
  BY DEF TypeOK, HostTypes, Attach, RequestMount, TusbIdle
<1>3. TaskTypes'
  BY DEF TypeOK, TaskTypes, Attach, RequestMount, TusbIdle, Movers, TusbJobs,
     CallerJobs, Calls
<1> QED BY <1>1, <1>2, <1>3, Untouched DEF TypeOK, Attach

LEMMA TypesDetach ==
    ASSUME TypeOK, Detach
    PROVE  TypeOK'
<1>1. MediumTypes'
  BY DEF TypeOK, MediumTypes, Detach, RequestMount, TusbIdle
<1>2. HostTypes'
  BY DEF TypeOK, HostTypes, Detach, RequestMount, TusbIdle
<1>3. TaskTypes'
  BY DEF TypeOK, TaskTypes, Detach, RequestMount, TusbIdle, Movers, TusbJobs,
     CallerJobs, Calls
<1> QED BY <1>1, <1>2, <1>3, Untouched DEF TypeOK, Detach

LEMMA TypesMountToDone ==
    ASSUME TypeOK, MountToDone
    PROVE  TypeOK'
<1>1. LockTypes'
  BY GiveType DEF TypeOK, LockTypes, MountToDone, MountFailed, Becomes,
     Returned, Goes, Mutexes, Holders, Movers, locks
<1>2. TaskTypes'
  BY DEF TypeOK, TaskTypes, MountToDone, Becomes, Returned, Goes, Movers,
     TusbJobs, CallerJobs, Calls
<1>3. EnvTypes'
  BY FaultType, GiveType DEF TypeOK, EnvTypes, MountToDone, MountFailed,
     Becomes, Returned, Goes, Movers, locks
<1> QED BY <1>1, <1>2, <1>3, Untouched DEF TypeOK, MountToDone

LEMMA TypesAttached ==
    ASSUME TypeOK, Attached
    PROVE  TypeOK'
<1>1. MediumTypes'
  BY DEF TypeOK, MediumTypes, Attached, Free, Held, RequestMount, Becomes,
     medium
<1>2. LockTypes'
  BY DEF TypeOK, LockTypes, Attached, Free, Held, RequestMount, Becomes,
     Mutexes, Holders, Movers
<1>3. PolicyTypes'
  BY DEF TypeOK, PolicyTypes, Attached, Free, Held, RequestMount, Becomes
<1>4. TaskTypes'
  BY DEF TypeOK, TaskTypes, Attached, Free, Held, RequestMount, Becomes, Movers,
     TusbJobs, CallerJobs, Calls
<1> QED BY <1>1, <1>2, <1>3, <1>4, Untouched DEF TypeOK, Attached

LEMMA TypesDetached ==
    ASSUME TypeOK, Detached
    PROVE  TypeOK'
<1>1. MediumTypes'
  BY DEF TypeOK, MediumTypes, Detached, Free, Held, RequestMount, Becomes,
     medium
<1>2. LockTypes'
  BY DEF TypeOK, LockTypes, Detached, Free, Held, RequestMount, Becomes,
     Mutexes, Holders, Movers
<1>3. PolicyTypes'
  BY DEF TypeOK, PolicyTypes, Detached, Free, Held, RequestMount, Becomes
<1>4. TaskTypes'
  BY DEF TypeOK, TaskTypes, Detached, Free, Held, RequestMount, Becomes, Movers,
     TusbJobs, CallerJobs, Calls
<1> QED BY <1>1, <1>2, <1>3, <1>4, Untouched DEF TypeOK, Detached

LEMMA TypesRestored ==
    ASSUME TypeOK, Restored
    PROVE  TypeOK'
<1>1. LockTypes'
  BY DEF TypeOK, LockTypes, Restored, Held, Becomes, Returned, Goes, Mutexes,
     Holders, Movers
<1>2. TaskTypes'
  BY DEF TypeOK, TaskTypes, Restored, Held, Becomes, Returned, Goes, Movers,
     TusbJobs, CallerJobs, Calls
<1> QED BY <1>1, <1>2, Untouched DEF TypeOK, Restored

LEMMA TypesDetachForcesExit ==
    ASSUME TypeOK, DetachForcesExit
    PROVE  TypeOK'
<1>1. SessionTypes'
  BY DEF TypeOK, SessionTypes, DetachForcesExit, RequestForcedExit, Becomes
<1>2. TaskTypes'
  BY DEF TypeOK, TaskTypes, DetachForcesExit, RequestForcedExit, Becomes,
     Movers, TusbJobs, CallerJobs, Calls
<1> QED BY <1>1, <1>2, Untouched DEF TypeOK, DetachForcesExit

LEMMA TypesCompleteWrite ==
    ASSUME TypeOK, CompleteWrite
    PROVE  TypeOK'
<1>1. WritingTypes'
  BY DEF TypeOK, WritingTypes, CompleteWrite, Becomes, TusbIdle
<1>2. HostTypes'
  BY DEF TypeOK, HostTypes, CompleteWrite, Becomes, TusbIdle
<1>3. TaskTypes'
  BY DEF TypeOK, TaskTypes, CompleteWrite, Becomes, TusbIdle, Movers, TusbJobs,
     CallerJobs, Calls
<1> QED BY <1>1, <1>2, <1>3, Untouched DEF TypeOK, CompleteWrite

LEMMA TypesReleaseWrite ==
    ASSUME TypeOK, OneCarrier, ReleaseWrite
    PROVE  TypeOK'
<1>1. WritingTypes'
  BY DEF TypeOK, WritingTypes, ReleaseWrite, Becomes, OneCarrier, Carried
<1>2. TaskTypes'
  BY DEF TypeOK, TaskTypes, ReleaseWrite, Becomes, Movers, TusbJobs, CallerJobs,
     Calls
<1> QED BY <1>1, <1>2, Untouched DEF TypeOK, ReleaseWrite

LEMMA TypesNotifyComplete ==
    ASSUME TypeOK, NotifyComplete
    PROVE  TypeOK'
<1>1. SessionTypes'
  <2>1. active' \in BOOLEAN /\ forceExit' \in BOOLEAN
    BY Zenon DEF TypeOK, SessionTypes, NotifyComplete
  <2>2. pending' \in 0..1
    BY DEF NotifyComplete
  <2> QED BY <2>1, <2>2 DEF SessionTypes
<1>2. TaskTypes'
  BY DEF TypeOK, TaskTypes, NotifyComplete, Goes, Becomes, Movers, TusbJobs,
     CallerJobs, Calls
<1> QED BY <1>1, <1>2, Untouched DEF TypeOK, NotifyComplete

LEMMA TypesCallbackDone ==
    ASSUME TypeOK, CallbackDone
    PROVE  TypeOK'
<1>1. WritingTypes'
  BY DEF TypeOK, WritingTypes, CallbackDone, Becomes, Returned, Goes
<1>2. TaskTypes'
  BY DEF TypeOK, TaskTypes, CallbackDone, Becomes, Returned, Goes, Movers,
     TusbJobs, CallerJobs, Calls
<1> QED BY <1>1, <1>2, Untouched DEF TypeOK, CallbackDone

LEMMA TypesTakeWrite ==
    ASSUME TypeOK, TakeWrite
    PROVE  TypeOK'
<1>1. WritingTypes'
  BY DEF TypeOK, WritingTypes, TakeWrite
<1> QED BY <1>1, Untouched DEF TypeOK, TakeWrite

LEMMA TypesBeginWrite ==
    ASSUME TypeOK, BeginWrite
    PROVE  TypeOK'
<1>1. WritingTypes'
  BY DEF TypeOK, WritingTypes, BeginWrite
<1>2. SessionTypes'
  BY DEF TypeOK, SessionTypes, BeginWrite, WritingTypes
<1> QED BY <1>1, <1>2, Untouched DEF TypeOK, BeginWrite

LEMMA TypesWriteMedium ==
    ASSUME TypeOK, WriteMedium
    PROVE  TypeOK'
<1>1. WritingTypes'
  BY DEF TypeOK, WritingTypes, WriteMedium, Free, Held
<1>2. LockTypes'
  BY DEF TypeOK, LockTypes, WriteMedium, Free, Held, Mutexes, Holders, Movers
<1> QED BY <1>1, <1>2, Untouched DEF TypeOK, WriteMedium

LEMMA TypesWritten ==
    ASSUME TypeOK, Written
    PROVE  TypeOK'
<1>1. WritingTypes'
  BY DEF TypeOK, WritingTypes, Written, Held
<1>2. LockTypes'
  BY DEF TypeOK, LockTypes, Written, Held, Mutexes, Holders, Movers
<1> QED BY <1>1, <1>2, Untouched DEF TypeOK, Written

LEMMA TypesIdleTimer ==
    ASSUME TypeOK, IdleTimer
    PROVE  TypeOK'
<1>1. SessionTypes'
  BY DEF TypeOK, SessionTypes, IdleTimer
<1> QED BY <1>1, Untouched DEF TypeOK, IdleTimer

LEMMA TypesRequestMsc ==
    ASSUME TypeOK, RequestMsc
    PROVE  TypeOK'
<1>1. PolicyTypes'
  BY DEF TypeOK, PolicyTypes, RequestMsc, Becomes, SameCall
<1>2. TaskTypes'
  BY DEF TypeOK, TaskTypes, RequestMsc, Becomes, SameCall, Movers, TusbJobs,
     CallerJobs, Calls
<1> QED BY <1>1, <1>2, Untouched DEF TypeOK, RequestMsc, SameCall

LEMMA TypesPollStops ==
    ASSUME TypeOK, PollStops
    PROVE  TypeOK'
<1>1. TaskTypes'
  BY DEF TypeOK, TaskTypes, PollStops, Becomes, SameCall, Movers, TusbJobs,
     CallerJobs, Calls
<1> QED BY <1>1, Untouched DEF TypeOK, PollStops, SameCall

LEMMA TypesPollStarts ==
    ASSUME TypeOK, PollStarts
    PROVE  TypeOK'
<1>1. PolicyTypes'
  BY DEF TypeOK, PolicyTypes, PollStarts, Fails, NoFault, Becomes, SameCall
<1>2. TaskTypes'
  BY DEF TypeOK, TaskTypes, PollStarts, Fails, NoFault, Becomes, SameCall,
     Movers, TusbJobs, CallerJobs, Calls
<1>3. EnvTypes'
  BY FaultType DEF TypeOK, EnvTypes, PollStarts, Becomes, SameCall
<1> QED BY <1>1, <1>2, <1>3, Untouched DEF TypeOK, PollStarts, SameCall

LEMMA TypesPollEnables ==
    ASSUME TypeOK, PollEnables
    PROVE  TypeOK'
<1>1. TaskTypes'
  BY DEF TypeOK, TaskTypes, PollEnables, Becomes, SameCall, Movers, TusbJobs,
     CallerJobs, Calls
<1> QED BY <1>1, Untouched DEF TypeOK, PollEnables, SameCall

LEMMA TypesEnable ==
    ASSUME TypeOK, NEW t \in Callers, Enable(t)
    PROVE  TypeOK'
<1>1. MediumTypes'
  BY DEF TypeOK, MediumTypes, Enable, Free, Held, RequestMount, Becomes,
     SameCall, After, medium
<1>2. LockTypes'
  BY DEF TypeOK, LockTypes, Enable, Free, Held, RequestMount, Becomes, SameCall,
     After, Mutexes, Holders, Movers, Callers
<1>3. PolicyTypes'
  BY DEF TypeOK, PolicyTypes, Enable, Free, Held, RequestMount, Becomes,
     SameCall, After
<1>4. TaskTypes'
  BY DEF TypeOK, TaskTypes, Enable, Free, Held, RequestMount, Becomes, SameCall,
     After, Movers, TusbJobs, CallerJobs, Calls, Callers
<1> QED BY <1>1, <1>2, <1>3, <1>4, Untouched DEF TypeOK, Enable, SameCall

LEMMA TypesEnableDone ==
    ASSUME TypeOK, NEW t \in Callers, EnableDone(t)
    PROVE  TypeOK'
<1>1. LockTypes'
  BY DEF TypeOK, LockTypes, EnableDone, Becomes, Returned, Goes, LeavePolicy,
     Held, After, Mutexes, Holders, Movers, Callers
<1>2. PolicyTypes'
  BY DEF TypeOK, PolicyTypes, EnableDone, Becomes, Returned, Goes, LeavePolicy,
     Held, After
<1>3. TaskTypes'
  BY DEF TypeOK, TaskTypes, EnableDone, Becomes, Returned, Goes, LeavePolicy,
     Held, After, Movers, TusbJobs, CallerJobs, Calls, Callers
<1> QED BY <1>1, <1>2, <1>3, Untouched DEF TypeOK, EnableDone

LEMMA TypesStop ==
    ASSUME TypeOK, Stop
    PROVE  TypeOK'
<1>1. LockTypes'
  BY DEF TypeOK, LockTypes, Stop, Free, Held, Becomes, SameCall, Mutexes,
     Holders, Movers
<1>2. PolicyTypes'
  BY DEF TypeOK, PolicyTypes, Stop, Free, Held, Becomes, SameCall
<1>3. TaskTypes'
  BY DEF TypeOK, TaskTypes, Stop, Free, Held, Becomes, SameCall, Movers,
     TusbJobs, CallerJobs, Calls
<1> QED BY <1>1, <1>2, <1>3, Untouched DEF TypeOK, Stop, SameCall

LEMMA TypesStopIo ==
    ASSUME TypeOK, StopIo
    PROVE  TypeOK'
<1>1. MediumTypes'
  BY DEF TypeOK, MediumTypes, StopIo, Becomes, LeavePolicy, Held, SameCall
<1>2. LockTypes'
  BY DEF TypeOK, LockTypes, StopIo, Becomes, LeavePolicy, Held, SameCall,
     Mutexes, Holders, Movers
<1>3. PolicyTypes'
  BY DEF TypeOK, PolicyTypes, StopIo, Becomes, LeavePolicy, Held, SameCall
<1>4. TaskTypes'
  BY DEF TypeOK, TaskTypes, StopIo, Becomes, LeavePolicy, Held, SameCall,
     Movers, TusbJobs, CallerJobs, Calls
<1> QED BY <1>1, <1>2, <1>3, <1>4, Untouched DEF TypeOK, StopIo, SameCall

LEMMA TypesStopBusy ==
    ASSUME TypeOK, StopBusy
    PROVE  TypeOK'
<1>1. MediumTypes'
  BY DEF TypeOK, MediumTypes, StopBusy, RequestMount
<1>2. TaskTypes'
  BY DEF TypeOK, TaskTypes, StopBusy, RequestMount, Movers, TusbJobs,
     CallerJobs, Calls
<1> QED BY <1>1, <1>2, Untouched DEF TypeOK, StopBusy

LEMMA TypesStopMount ==
    ASSUME TypeOK, StopMount
    PROVE  TypeOK'
<1>1. MediumTypes'
  BY DEF TypeOK, MediumTypes, StopMount, RequestMount
<1>2. TaskTypes'
  BY DEF TypeOK, TaskTypes, StopMount, RequestMount, Movers, TusbJobs,
     CallerJobs, Calls
<1> QED BY <1>1, <1>2, Untouched DEF TypeOK, StopMount

LEMMA TypesStopMoved ==
    ASSUME TypeOK, StopMoved
    PROVE  TypeOK'
<1>1. LockTypes'
  BY DEF TypeOK, LockTypes, StopMoved, Becomes, Returned, Goes, LeavePolicy,
     Held, Mutexes, Holders, Movers
<1>2. PolicyTypes'
  BY DEF TypeOK, PolicyTypes, StopMoved, Becomes, Returned, Goes, LeavePolicy,
     Held
<1>3. TaskTypes'
  BY DEF TypeOK, TaskTypes, StopMoved, Becomes, Returned, Goes, LeavePolicy,
     Held, Movers, TusbJobs, CallerJobs, Calls
<1> QED BY <1>1, <1>2, <1>3, Untouched DEF TypeOK, StopMoved

LEMMA TypesUninstall ==
    ASSUME TypeOK, Uninstall
    PROVE  TypeOK'
<1>1. WritingTypes'
  BY DEF TypeOK, WritingTypes, Uninstall, Fails, NoFault, Goes, Becomes
<1>2. LockTypes'
  BY DEF TypeOK, LockTypes, Uninstall, Fails, NoFault, Goes, Becomes, Mutexes,
     Holders, Movers
<1>3. HostTypes'
  BY DEF TypeOK, HostTypes, Uninstall, Fails, NoFault, Goes, Becomes
<1>4. TaskTypes'
  BY DEF TypeOK, TaskTypes, Uninstall, Fails, NoFault, Goes, Becomes, Movers,
     TusbJobs, CallerJobs, Calls
<1>5. EnvTypes'
  BY FaultType DEF TypeOK, EnvTypes, Uninstall, Goes, Becomes
<1> QED BY <1>1, <1>2, <1>3, <1>4, <1>5, Untouched DEF TypeOK, Uninstall

LEMMA TypesStopped ==
    ASSUME TypeOK, Stopped
    PROVE  TypeOK'
<1>1. PolicyTypes'
  BY DEF TypeOK, PolicyTypes, Stopped, Becomes, SameCall
<1>2. TaskTypes'
  BY DEF TypeOK, TaskTypes, Stopped, Becomes, SameCall, Movers, TusbJobs,
     CallerJobs, Calls
<1> QED BY <1>1, <1>2, Untouched DEF TypeOK, Stopped, SameCall

LEMMA TypesAppBegin ==
    ASSUME TypeOK, NEW a \in Apps, AppBegin(a)
    PROVE  TypeOK'
<1>1. TaskTypes'
  BY DEF TypeOK, TaskTypes, AppBegin, AppGoes, Movers, TusbJobs, CallerJobs,
     Calls
<1> QED BY <1>1, Untouched DEF TypeOK, AppBegin

LEMMA TypesAppTake ==
    ASSUME TypeOK, NEW a \in Apps, AppTake(a)
    PROVE  TypeOK'
<1>1. LockTypes'
  BY DEF TypeOK, LockTypes, AppTake, Free, Held, AppGoes, Mutexes, Holders,
     Movers
<1>2. TaskTypes'
  BY DEF TypeOK, TaskTypes, AppTake, Free, Held, AppGoes, Movers, TusbJobs,
     CallerJobs, Calls
<1> QED BY <1>1, <1>2, Untouched DEF TypeOK, AppTake

LEMMA TypesAppRecheck ==
    ASSUME TypeOK, NEW a \in Apps, AppRecheck(a)
    PROVE  TypeOK'
<1>1. LockTypes'
  BY DEF TypeOK, LockTypes, AppRecheck, Held, AppGoes, Mutexes, Holders, Movers
<1>2. TaskTypes'
  BY DEF TypeOK, TaskTypes, AppRecheck, Held, AppGoes, Movers, TusbJobs,
     CallerJobs, Calls
<1> QED BY <1>1, <1>2, Untouched DEF TypeOK, AppRecheck

LEMMA TypesAppEnd ==
    ASSUME TypeOK, NEW a \in Apps, AppEnd(a)
    PROVE  TypeOK'
<1>1. LockTypes'
  BY DEF TypeOK, LockTypes, AppEnd, Held, AppGoes, Mutexes, Holders, Movers
<1>2. TaskTypes'
  BY DEF TypeOK, TaskTypes, AppEnd, Held, AppGoes, Movers, TusbJobs, CallerJobs,
     Calls
<1> QED BY <1>1, <1>2, Untouched DEF TypeOK, AppEnd

-----------------------------------------------------------------------------
(* The write in flight                                                     *)

\* A step that leaves the buffer, the flag, the worker and the queue alone.
LEMMA CarrierFrame ==
    ASSUME OneCarrier, UNCHANGED <<reserved, ready, wpc, posted>>, cmd' => cmd,
           \/ job'["tusb"] = job["tusb"]
           \/ ~Handled /\ job'["tusb"] \notin {"publish", "completing", "dead"}
    PROVE  OneCarrier'
BY DEF OneCarrier, Carried, Handled

\* What msc_storage_request_mount does on the way to its return.
LEMMA CallFrame ==
    ASSUME NEW t \in Movers, Call(t)
    PROVE  UNCHANGED <<job, app, installed, reserved, ready, wpc, posted, cmd>>
<1>1. CASE Apply(t)
  BY <1>1 DEF Apply, writing, policy, host
<1>2. CASE Check(t)
  BY <1>2 DEF Check, writing, policy, host
<1>3. CASE Start(t)
  BY <1>3 DEF Start, writing, policy, host
<1>4. CASE Lock(t)
  BY <1>4 DEF Lock, writing, policy, host
<1>5. CASE WorkMount(t)
  BY <1>5 DEF WorkMount, writing, policy, host
<1>6. CASE MountFs(t)
  BY <1>6 DEF MountFs, writing, policy, host
<1>7. CASE WorkUnmount(t)
  BY <1>7 DEF WorkUnmount, writing, policy, host
<1>8. CASE Event(t)
  BY <1>8 DEF Event, writing, policy, host
<1>9. CASE FailEvent(t)
  BY <1>9 DEF FailEvent, writing, policy, host
<1>10. CASE Cleanup(t)
  BY <1>10 DEF Cleanup, writing, policy, host
<1>11. CASE Final(t)
  BY <1>11 DEF Final, writing, policy, host
<1> QED BY <1>1, <1>2, <1>3, <1>4, <1>5, <1>6, <1>7, <1>8, <1>9, <1>10, <1>11 DEF Call

LEMMA CarrierInit == Init => OneCarrier
BY DEF Init, OneCarrier, Carried, Handled, Movers

\* Every action keeps the write in one hand.
LEMMA CarrierStep ==
    ASSUME TypeOK, OneCarrier, DriverGone, [Next]_vars
    PROVE  OneCarrier'
<1>1. ASSUME NEW t \in Movers, Call(t) PROVE OneCarrier'
  BY <1>1, CallFrame, CarrierFrame
<1>2. CASE Tusb
  <2>1. CASE HostWrite
    BY <2>1 DEF OneCarrier, Carried, Handled, HostWrite, Becomes, TusbIdle,
         UsbReadable, TypeOK, TaskTypes, WritingTypes, HostTypes, Movers, host
  <2>2. CASE Publish
    BY <2>2 DEF OneCarrier, Carried, Handled, Publish, Becomes, TypeOK, TaskTypes,
         WritingTypes, HostTypes, Movers
  <2>3. CASE HostRead
    BY <2>3, CarrierFrame DEF HostRead, Becomes, TusbIdle, UsbReadable, TypeOK,
       TaskTypes, Movers, Handled, writing, host
  <2>4. CASE ReadMedium
    BY <2>4, CarrierFrame DEF ReadMedium, Free, Held, Becomes, TypeOK, TaskTypes,
       Movers, Handled, writing, host
  <2>5. CASE Eject
    BY <2>5, CarrierFrame DEF Eject, RequestMount, TusbIdle, TypeOK, TaskTypes,
       Movers, Handled, writing, host
  <2>6. CASE EjectDone
    BY <2>6, CarrierFrame DEF EjectDone, Becomes, Returned, Goes, TypeOK,
       TaskTypes, Movers, Handled, writing, host
  <2>7. CASE Reset
    BY <2>7, CarrierFrame DEF Reset, TusbIdle, writing, tasks
  <2>8. CASE Attach
    BY <2>8, CarrierFrame DEF Attach, RequestMount, TusbIdle, TypeOK, TaskTypes,
       Movers, Handled, writing
  <2>9. CASE Detach
    BY <2>9, CarrierFrame DEF Detach, RequestMount, TusbIdle, TypeOK, TaskTypes,
       Movers, Handled, writing
  <2>10. CASE MountToDone
    BY <2>10, CarrierFrame DEF MountToDone, MountFailed, GiveTransition, Becomes,
       Returned, Goes, TypeOK, TaskTypes, Movers, Handled, writing, host
  <2>11. CASE Attached
    BY <2>11, CarrierFrame DEF Attached, Free, Held, RequestMount, Becomes,
       TypeOK, TaskTypes, Movers, Handled, writing, host
  <2>12. CASE Detached
    BY <2>12, CarrierFrame DEF Detached, Free, Held, RequestMount, Becomes,
       TypeOK, TaskTypes, Movers, Handled, writing, host
  <2>13. CASE Restored
    BY <2>13, CarrierFrame DEF Restored, Held, Becomes, Returned, Goes, TypeOK,
       TaskTypes, Movers, Handled, writing, host
  <2>14. CASE DetachForcesExit
    BY <2>14, CarrierFrame DEF DetachForcesExit, RequestForcedExit, Becomes,
       TypeOK, TaskTypes, Movers, Handled, writing, host
  <2>15. CASE CompleteWrite
    BY <2>15 DEF OneCarrier, Carried, Handled, CompleteWrite, Becomes, TusbIdle,
         TypeOK, TaskTypes, WritingTypes, HostTypes, Movers
  <2>16. CASE ReleaseWrite
    BY <2>16 DEF OneCarrier, Carried, Handled, ReleaseWrite, Becomes, TypeOK,
         TaskTypes, WritingTypes, HostTypes, Movers, host
  <2>17. CASE NotifyComplete
    BY <2>17, CarrierFrame DEF NotifyComplete, Goes, Becomes, TypeOK, TaskTypes,
       Movers, Handled, writing, host
  <2>18. CASE CallbackDone
    BY <2>18, CarrierFrame DEF CallbackDone, Becomes, Returned, Goes, TypeOK,
       TaskTypes, Movers, Handled, host
  <2> QED BY <1>2, <2>1, <2>2, <2>3, <2>4, <2>5, <2>6, <2>7, <2>8, <2>9, <2>10,
        <2>11, <2>12, <2>13, <2>14, <2>15, <2>16, <2>17, <2>18 DEF Tusb
<1>3. CASE Worker
  <2>1. CASE TakeWrite
    BY <2>1 DEF OneCarrier, Carried, Handled, TakeWrite, TypeOK, TaskTypes,
         WritingTypes, HostTypes, Movers, host, tasks
  <2>2. CASE BeginWrite
    BY <2>2 DEF OneCarrier, Carried, Handled, BeginWrite, TypeOK, TaskTypes,
         WritingTypes, HostTypes, Movers, host, tasks
  <2>3. CASE WriteMedium
    BY <2>3 DEF OneCarrier, Carried, Handled, WriteMedium, Free, Held, TypeOK,
         TaskTypes, WritingTypes, HostTypes, Movers, host, tasks
  <2>4. CASE Written
    BY <2>4 DEF OneCarrier, Carried, Handled, Written, Held, TypeOK, TaskTypes,
         WritingTypes, HostTypes, Movers, host, tasks
  <2> QED BY <1>3, <2>1, <2>2, <2>3, <2>4 DEF Worker
<1>4. CASE IdleTimer
  BY <1>4, CarrierFrame DEF IdleTimer, writing, host, tasks
<1>5. CASE Lifecycle
  <2>1. CASE RequestMsc
    BY <2>1, CarrierFrame DEF RequestMsc, Becomes, SameCall, TypeOK, TaskTypes,
       Movers, Handled, writing, host
  <2>2. CASE PollStops
    BY <2>2, CarrierFrame DEF PollStops, Becomes, SameCall, TypeOK, TaskTypes,
       Movers, Handled, writing, host
  <2>3. CASE PollStarts
    BY <2>3 DEF OneCarrier, Carried, Handled, PollStarts, Fails, NoFault, Becomes,
         SameCall, TypeOK, TaskTypes, WritingTypes, HostTypes, Movers, writing,
         host, DriverGone
  <2>4. CASE PollEnables
    BY <2>4, CarrierFrame DEF PollEnables, Becomes, SameCall, TypeOK, TaskTypes,
       Movers, Handled, writing, host
  <2>5. ASSUME NEW t \in Callers, Enable(t) PROVE OneCarrier'
    BY <2>5, CarrierFrame DEF Enable, Free, Held, RequestMount, Becomes, SameCall,
       After, TypeOK, TaskTypes, Movers, Handled, Callers, writing, host
  <2>6. ASSUME NEW t \in Callers, EnableDone(t) PROVE OneCarrier'
    BY <2>6, CarrierFrame DEF EnableDone, Becomes, Returned, Goes, LeavePolicy,
       Held, After, TypeOK, TaskTypes, Movers, Handled, Callers, writing, host
  <2>7. CASE Stop
    BY <2>7, CarrierFrame DEF Stop, Free, Held, Becomes, SameCall, TypeOK,
       TaskTypes, Movers, Handled, writing, host
  <2>8. CASE StopIo
    BY <2>8, CarrierFrame DEF StopIo, Becomes, LeavePolicy, Held, SameCall,
       TypeOK, TaskTypes, Movers, Handled, writing, host
  <2>9. CASE StopBusy
    BY <2>9, CarrierFrame DEF StopBusy, RequestMount, TypeOK, TaskTypes, Movers,
       Handled, writing, host
  <2>10. CASE StopMount
    BY <2>10, CarrierFrame DEF StopMount, RequestMount, TypeOK, TaskTypes, Movers,
       Handled, writing, host
  <2>11. CASE StopMoved
    BY <2>11, CarrierFrame DEF StopMoved, Becomes, Returned, Goes, LeavePolicy,
       Held, TypeOK, TaskTypes, Movers, Handled, writing, host
  <2>12. CASE Uninstall
    BY <2>12 DEF OneCarrier, Carried, Handled, Uninstall, Fails, NoFault, Goes,
         Becomes, TypeOK, TaskTypes, WritingTypes, HostTypes, Movers
  <2>13. CASE Stopped
    BY <2>13, CarrierFrame DEF Stopped, Becomes, SameCall, TypeOK, TaskTypes,
       Movers, Handled, writing, host
  <2> QED BY <1>5, <2>1, <2>2, <2>3, <2>4, <2>5, <2>6, <2>7, <2>8, <2>9, <2>10,
        <2>11, <2>12, <2>13 DEF Lifecycle
<1>6. ASSUME NEW a \in Apps, AppIo(a) PROVE OneCarrier'
  <2>1. CASE AppBegin(a)
    BY <2>1, CarrierFrame DEF AppBegin, AppGoes, writing, host
  <2>2. CASE AppTake(a)
    BY <2>2, CarrierFrame DEF AppTake, Free, Held, AppGoes, writing, host
  <2>3. CASE AppRecheck(a)
    BY <2>3, CarrierFrame DEF AppRecheck, Held, AppGoes, writing, host
  <2>4. CASE AppEnd(a)
    BY <2>4, CarrierFrame DEF AppEnd, Held, AppGoes, writing, host
  <2> QED BY <1>6, <2>1, <2>2, <2>3, <2>4 DEF AppIo
<1>7. CASE UNCHANGED vars
  BY <1>7, CarrierFrame DEF vars, writing, host, tasks
<1> QED BY <1>1, <1>2, <1>3, <1>4, <1>5, <1>6, <1>7 DEF Next

-----------------------------------------------------------------------------
(* The TinyUSB task                                                        *)

LEMMA DriverFrame ==
    ASSUME DriverGone, installed' = installed,
           job'["console"] = "stopped" => job["console"] = "stopped",
           job["tusb"] = "dead" => job'["tusb"] = "dead"
    PROVE  DriverGone'
BY DEF DriverGone

LEMMA DriverInit == Init => DriverGone
BY DEF Init, DriverGone, Movers

\* Only PollStarts creates the TinyUSB task again.
LEMMA DriverStep ==
    ASSUME TypeOK, DriverGone, [Next]_vars
    PROVE  DriverGone'
<1>1. ASSUME NEW t \in Movers, Call(t) PROVE DriverGone'
  BY <1>1, CallFrame, DriverFrame
<1>2. CASE Tusb
  <2>1. CASE HostWrite
    BY <2>1, DriverFrame DEF HostWrite, Becomes, TusbIdle, UsbReadable, TypeOK,
       TaskTypes, Movers, policy
  <2>2. CASE Publish
    BY <2>2, DriverFrame DEF Publish, Becomes, TypeOK, TaskTypes, Movers, policy
  <2>3. CASE HostRead
    BY <2>3, DriverFrame DEF HostRead, Becomes, TusbIdle, UsbReadable, TypeOK,
       TaskTypes, Movers, policy
  <2>4. CASE ReadMedium
    BY <2>4, DriverFrame DEF ReadMedium, Free, Held, Becomes, TypeOK, TaskTypes,
       Movers, policy
  <2>5. CASE Eject
    BY <2>5, DriverFrame DEF Eject, RequestMount, TusbIdle, TypeOK, TaskTypes,
       Movers, policy
  <2>6. CASE EjectDone
    BY <2>6, DriverFrame DEF EjectDone, Becomes, Returned, Goes, TypeOK,
       TaskTypes, Movers, policy
  <2>7. CASE Reset
    BY <2>7, DriverFrame DEF Reset, TusbIdle, policy, tasks
  <2>8. CASE Attach
    BY <2>8, DriverFrame DEF Attach, RequestMount, TusbIdle, TypeOK, TaskTypes,
       Movers, policy
  <2>9. CASE Detach
    BY <2>9, DriverFrame DEF Detach, RequestMount, TusbIdle, TypeOK, TaskTypes,
       Movers, policy
  <2>10. CASE MountToDone
    BY <2>10, DriverFrame DEF MountToDone, MountFailed, GiveTransition, Becomes,
       Returned, Goes, TypeOK, TaskTypes, Movers, policy
  <2>11. CASE Attached
    BY <2>11, DriverFrame DEF Attached, Free, Held, RequestMount, Becomes, TypeOK,
       TaskTypes, Movers, policy
  <2>12. CASE Detached
    BY <2>12, DriverFrame DEF Detached, Free, Held, RequestMount, Becomes, TypeOK,
       TaskTypes, Movers, policy
  <2>13. CASE Restored
    BY <2>13, DriverFrame DEF Restored, Held, Becomes, Returned, Goes, TypeOK,
       TaskTypes, Movers, policy
  <2>14. CASE DetachForcesExit
    BY <2>14, DriverFrame DEF DetachForcesExit, RequestForcedExit, Becomes,
       TypeOK, TaskTypes, Movers, policy
  <2>15. CASE CompleteWrite
    BY <2>15, DriverFrame DEF CompleteWrite, Becomes, TusbIdle, TypeOK, TaskTypes,
       Movers, policy
  <2>16. CASE ReleaseWrite
    BY <2>16, DriverFrame DEF ReleaseWrite, Becomes, TypeOK, TaskTypes, Movers,
       policy
  <2>17. CASE NotifyComplete
    BY <2>17, DriverFrame DEF NotifyComplete, Goes, Becomes, TypeOK, TaskTypes,
       Movers, policy
  <2>18. CASE CallbackDone
    BY <2>18, DriverFrame DEF CallbackDone, Becomes, Returned, Goes, TypeOK,
       TaskTypes, Movers, policy
  <2> QED BY <1>2, <2>1, <2>2, <2>3, <2>4, <2>5, <2>6, <2>7, <2>8, <2>9, <2>10,
        <2>11, <2>12, <2>13, <2>14, <2>15, <2>16, <2>17, <2>18 DEF Tusb
<1>3. CASE Worker
  <2>1. CASE TakeWrite
    BY <2>1, DriverFrame DEF TakeWrite, policy, tasks
  <2>2. CASE BeginWrite
    BY <2>2, DriverFrame DEF BeginWrite, policy, tasks
  <2>3. CASE WriteMedium
    BY <2>3, DriverFrame DEF WriteMedium, Free, Held, policy, tasks
  <2>4. CASE Written
    BY <2>4, DriverFrame DEF Written, Held, policy, tasks
  <2> QED BY <1>3, <2>1, <2>2, <2>3, <2>4 DEF Worker
<1>4. CASE IdleTimer
  BY <1>4, DriverFrame DEF IdleTimer, policy, tasks
<1>5. CASE Lifecycle
  <2>1. CASE RequestMsc
    BY <2>1, DriverFrame DEF RequestMsc, Becomes, SameCall, TypeOK, TaskTypes,
       Movers
  <2>2. CASE PollStops
    BY <2>2, DriverFrame DEF PollStops, Becomes, SameCall, TypeOK, TaskTypes,
       Movers, policy
  <2>3. CASE PollStarts
    BY <2>3 DEF DriverGone, PollStarts, Fails, NoFault, Becomes, SameCall, TypeOK,
         TaskTypes, Movers
  <2>4. CASE PollEnables
    BY <2>4, DriverFrame DEF PollEnables, Becomes, SameCall, TypeOK, TaskTypes,
       Movers, policy
  <2>5. ASSUME NEW t \in Callers, Enable(t) PROVE DriverGone'
    BY <2>5, DriverFrame DEF Enable, Free, Held, RequestMount, Becomes, SameCall,
       After, TypeOK, TaskTypes, Movers, Callers, policy
  <2>6. ASSUME NEW t \in Callers, EnableDone(t) PROVE DriverGone'
    BY <2>6, DriverFrame DEF EnableDone, Becomes, Returned, Goes, LeavePolicy,
       Held, After, TypeOK, TaskTypes, Movers, Callers
  <2>7. CASE Stop
    BY <2>7, DriverFrame DEF Stop, Free, Held, Becomes, SameCall, TypeOK,
       TaskTypes, Movers, policy
  <2>8. CASE StopIo
    BY <2>8, DriverFrame DEF StopIo, Becomes, LeavePolicy, Held, SameCall, TypeOK,
       TaskTypes, Movers
  <2>9. CASE StopBusy
    BY <2>9, DriverFrame DEF StopBusy, RequestMount, TypeOK, TaskTypes, Movers,
       policy
  <2>10. CASE StopMount
    BY <2>10, DriverFrame DEF StopMount, RequestMount, TypeOK, TaskTypes, Movers,
       policy
  <2>11. CASE StopMoved
    BY <2>11, DriverFrame DEF StopMoved, Becomes, Returned, Goes, LeavePolicy,
       Held, TypeOK, TaskTypes, Movers
  <2>12. CASE Uninstall
    BY <2>12 DEF DriverGone, Uninstall, Fails, NoFault, Goes, Becomes, TypeOK,
         TaskTypes, Movers, policy
  <2>13. CASE Stopped
    BY <2>13 DEF DriverGone, Stopped, Becomes, SameCall, TypeOK, TaskTypes, Movers
  <2> QED BY <1>5, <2>1, <2>2, <2>3, <2>4, <2>5, <2>6, <2>7, <2>8, <2>9, <2>10,
        <2>11, <2>12, <2>13 DEF Lifecycle
<1>6. ASSUME NEW a \in Apps, AppIo(a) PROVE DriverGone'
  <2>1. CASE AppBegin(a)
    BY <2>1, DriverFrame DEF AppBegin, AppGoes, policy
  <2>2. CASE AppTake(a)
    BY <2>2, DriverFrame DEF AppTake, Free, Held, AppGoes, policy
  <2>3. CASE AppRecheck(a)
    BY <2>3, DriverFrame DEF AppRecheck, Held, AppGoes, policy
  <2>4. CASE AppEnd(a)
    BY <2>4, DriverFrame DEF AppEnd, Held, AppGoes, policy
  <2> QED BY <1>6, <2>1, <2>2, <2>3, <2>4 DEF AppIo
<1>7. CASE UNCHANGED vars
  BY <1>7, DriverFrame DEF vars, policy, tasks
<1> QED BY <1>1, <1>2, <1>3, <1>4, <1>5, <1>6, <1>7 DEF Next

\* Every action keeps the types.
LEMMA TypesStep ==
    ASSUME TypeOK, OneCarrier, DriverGone, [Next]_vars
    PROVE  TypeOK'
<1>1. ASSUME NEW t \in Movers, Call(t) PROVE TypeOK'
  BY <1>1, TypesApply, TypesCheck, TypesStart, TypesLock, TypesWorkMount,
     TypesMountFs, TypesWorkUnmount, TypesEvent, TypesFailEvent, TypesCleanup,
     TypesFinal DEF Call
<1>2. CASE Tusb
  BY <1>2, TypesHostWrite, TypesPublish, TypesHostRead, TypesReadMedium,
     TypesEject, TypesEjectDone, TypesReset, TypesAttach, TypesDetach,
     TypesMountToDone, TypesAttached, TypesDetached, TypesRestored,
     TypesDetachForcesExit, TypesCompleteWrite, TypesReleaseWrite,
     TypesNotifyComplete, TypesCallbackDone DEF Tusb
<1>3. CASE Worker
  BY <1>3, TypesTakeWrite, TypesBeginWrite, TypesWriteMedium, TypesWritten DEF
     Worker
<1>4. CASE IdleTimer
  BY <1>4, TypesIdleTimer
<1>5. CASE Lifecycle
  BY <1>5, TypesRequestMsc, TypesPollStops, TypesPollStarts, TypesPollEnables,
     TypesEnable, TypesEnableDone, TypesStop, TypesStopIo, TypesStopBusy,
     TypesStopMount, TypesStopMoved, TypesUninstall, TypesStopped DEF
     Lifecycle
<1>6. ASSUME NEW a \in Apps, AppIo(a) PROVE TypeOK'
  BY <1>6, TypesAppBegin, TypesAppTake, TypesAppRecheck, TypesAppEnd DEF AppIo
<1>7. CASE UNCHANGED vars
  BY <1>7, Untouched DEF TypeOK, vars
<1> QED BY <1>1, <1>2, <1>3, <1>4, <1>5, <1>6, <1>7 DEF Next

LEMMA WriteInvInit == Init => WriteInv
BY TypesInit, CarrierInit, DriverInit DEF WriteInv

LEMMA WriteInvStep == WriteInv /\ [Next]_vars => WriteInv'
BY TypesStep, CarrierStep, DriverStep DEF WriteInv

\* Every variable keeps its type, and with it the one write buffer is never
\* reserved twice, whatever the interleaving.
THEOREM StorageTypes == Spec => []TypeOK
<1>1. WriteInv => TypeOK
  BY DEF WriteInv
<1> QED BY <1>1, WriteInvInit, WriteInvStep, PTL DEF Spec

\* A host that waits for the end of a WRITE(10) waits for a write that is on its
\* way, across resets, detaches, stops and failing calls.
THEOREM HostIsAlwaysAnswered == Spec => []HostIsAnswered
<1>1. WriteInv => HostIsAnswered
  BY DEF WriteInv, OneCarrier, HostIsAnswered
<1> QED BY <1>1, WriteInvInit, WriteInvStep, PTL DEF Spec

-----------------------------------------------------------------------------
(* The medium and its owner                                                *)

LEMMA MoversAreNotApps ==
    \A a \in Apps : a \notin Movers /\ a # "free" /\ a # "dead"
BY AppsAssumption DEF Movers

\* A step that leaves the medium where it is, the holder of storage_io_mutex
\* alone, and starts no move and no file operation.
LEMMA OwnerFrame ==
    ASSUME Ownership, mountPoint' = mountPoint, mutex'["io"] = mutex["io"],
           owner' \in {owner, "UNAVAILABLE"},
           \A t \in Movers : call'[t] \in Moving => call[t] \in Moving,
           \A a \in Apps : app'[a] \in {"recheck", "io"} => app'[a] = app[a]
    PROVE  Ownership'
BY DEF Ownership, IoHeld, OwnerIsTrue, AppIoIsMounted

\* A step of the task that moves the medium may change the mount point: nobody
\* is at the files, and the owner is neither side.
LEMMA MoveFrame ==
    ASSUME Ownership, NEW t \in Movers, call[t] \in Moving,
           UNCHANGED <<owner, app>>, mutex'["io"] = mutex["io"],
           \A u \in Movers : call'[u] \in Moving => call[u] \in Moving
    PROVE  Ownership'
BY MoversAreNotApps DEF Ownership, IoHeld, OwnerIsTrue, AppIoIsMounted

LEMMA OwnershipInit == Init => Ownership
BY DEF Init, Ownership, IoHeld, OwnerIsTrue, AppIoIsMounted, Moving

\* Every action keeps the medium with its owner.
LEMMA OwnershipStep ==
    ASSUME TypeOK, Ownership, [Next]_vars
    PROVE  Ownership'
<1>1. ASSUME NEW t \in Movers, Call(t) PROVE Ownership'
  <2>1. CASE Apply(t)
    BY <2>1, OwnerFrame DEF Apply, Goes, TypeOK, TaskTypes, Movers, Moving,
       medium, locks
  <2>2. CASE Check(t)
    BY <2>2, OwnerFrame DEF Check, Goes, TypeOK, TaskTypes, Movers, Moving,
       medium, locks
  <2>3. CASE Start(t)
    BY <2>3, OwnerFrame DEF Start, RequestForcedExit, Goes, TypeOK, TaskTypes,
       Movers, Moving, medium, locks
  <2>4. CASE Lock(t)
    <3>1. \A u \in Movers : call[u] \notin Moving
      BY <2>4 DEF Lock, Free, Ownership, IoHeld, Movers
    <3>2. \A a \in Apps : app'[a] \notin {"recheck", "io"}
      BY <2>4, MoversAreNotApps DEF Lock, Free, Ownership, IoHeld
    <3>3. mutex'["io"] = t /\ owner' = "SWITCHING"
      BY <2>4 DEF Lock, Held, TypeOK, LockTypes, Mutexes
    <3>4. \A u \in Movers : call'[u] \in Moving => u = t
      BY <2>4, <3>1 DEF Lock, Goes, TypeOK, TaskTypes
    <3> QED BY <3>2, <3>3, <3>4 DEF Ownership, IoHeld, OwnerIsTrue, AppIoIsMounted
  <2>5. CASE WorkMount(t)
    <3>1. UNCHANGED <<owner, app>> /\ mutex'["io"] = mutex["io"]
      BY <2>5 DEF WorkMount, Held, TypeOK, LockTypes, Mutexes
    <3>2. call[t] \in Moving /\ \A u \in Movers : call'[u] \in Moving => call[u] \in Moving
      BY <2>5 DEF WorkMount, Goes, Moving, TypeOK, TaskTypes
    <3> QED BY <3>1, <3>2, MoveFrame
  <2>6. CASE MountFs(t)
    BY <2>6, OwnerFrame DEF MountFs, Fails, NoFault, Held, Goes, TypeOK,
       TaskTypes, Movers, Moving, LockTypes, Mutexes, medium
  <2>7. CASE WorkUnmount(t)
    <3>1. UNCHANGED <<owner, app>> /\ mutex'["io"] = mutex["io"]
      BY <2>7 DEF WorkUnmount, locks
    <3>2. call[t] \in Moving /\ \A u \in Movers : call'[u] \in Moving => call[u] \in Moving
      BY <2>7 DEF WorkUnmount, Goes, Moving, TypeOK, TaskTypes
    <3> QED BY <3>1, <3>2, MoveFrame
  <2>8. CASE Event(t)
    <3>1. /\ mutex["io"] = t
          /\ \A u \in Movers : call[u] \in Moving => u = t
          /\ \A a \in Apps : app[a] \notin {"recheck", "io"}
      BY <2>8, MoversAreNotApps DEF Event, Moving, Ownership, IoHeld
    <3>2. UNCHANGED <<app, mountPoint>> /\ owner' = IF mountPoint = "APP" THEN "APP" ELSE "HOST"
      BY <2>8 DEF Event, medium
    <3>3. \A u \in Movers : call'[u] \notin Moving
      BY <2>8, <3>1 DEF Event, Goes, Moving, TypeOK, TaskTypes
    <3> QED BY <3>1, <3>2, <3>3 DEF Ownership, IoHeld, OwnerIsTrue, AppIoIsMounted, TypeOK,
            MediumTypes
  <2>9. CASE FailEvent(t)
    BY <2>9, AppsAssumption, MoversAreNotApps DEF TypeOK, TaskTypes, LockTypes,
         Ownership, IoHeld, OwnerIsTrue, AppIoIsMounted, Moving, FailEvent,
         MountFailed, GiveTransition, Goes, Mutexes, medium
  <2>10. CASE Cleanup(t)
    BY <2>10, OwnerFrame DEF Cleanup, Goes, TypeOK, TaskTypes, Movers, Moving,
       locks
  <2>11. CASE Final(t)
    BY <2>11, OwnerFrame DEF Final, Goes, TypeOK, TaskTypes, Movers, Moving, locks
  <2> QED BY <1>1, <2>1, <2>2, <2>3, <2>4, <2>5, <2>6, <2>7, <2>8, <2>9, <2>10,
        <2>11 DEF Call
<1>2. CASE Tusb
  <2>1. CASE HostWrite
    BY <2>1, OwnerFrame DEF HostWrite, Becomes, TusbIdle, UsbReadable, TypeOK,
       TaskTypes, Movers, Moving, medium, locks
  <2>2. CASE Publish
    BY <2>2, OwnerFrame DEF Publish, Becomes, TypeOK, TaskTypes, Movers, Moving,
       medium, locks
  <2>3. CASE HostRead
    BY <2>3, OwnerFrame DEF HostRead, Becomes, TusbIdle, UsbReadable, TypeOK,
       TaskTypes, Movers, Moving, medium, locks
  <2>4. CASE ReadMedium
    BY <2>4, OwnerFrame DEF ReadMedium, Free, Held, Becomes, TypeOK, TaskTypes,
       Movers, Moving, LockTypes, Mutexes, medium
  <2>5. CASE Eject
    BY <2>5, OwnerFrame DEF Eject, RequestMount, TusbIdle, TypeOK, TaskTypes,
       Movers, Moving, locks
  <2>6. CASE EjectDone
    BY <2>6, OwnerFrame DEF EjectDone, Becomes, Returned, Goes, TypeOK, TaskTypes,
       Movers, Moving, medium, locks
  <2>7. CASE Reset
    BY <2>7, OwnerFrame DEF Reset, TusbIdle, medium, locks, tasks
  <2>8. CASE Attach
    BY <2>8, OwnerFrame DEF Attach, RequestMount, TusbIdle, TypeOK, TaskTypes,
       Movers, Moving, locks
  <2>9. CASE Detach
    BY <2>9, OwnerFrame DEF Detach, RequestMount, TusbIdle, TypeOK, TaskTypes,
       Movers, Moving, locks
  <2>10. CASE MountToDone
    BY <2>10, AppsAssumption, MoversAreNotApps DEF TypeOK, TaskTypes, LockTypes,
         Ownership, IoHeld, OwnerIsTrue, AppIoIsMounted, Moving, MountToDone,
         MountFailed, GiveTransition, Becomes, Returned, Goes, Mutexes, medium,
         locks, Movers
  <2>11. CASE Attached
    BY <2>11, OwnerFrame DEF Attached, Free, Held, RequestMount, Becomes, TypeOK,
       TaskTypes, Movers, Moving, LockTypes, Mutexes, medium
  <2>12. CASE Detached
    BY <2>12, OwnerFrame DEF Detached, Free, Held, RequestMount, Becomes, TypeOK,
       TaskTypes, Movers, Moving, LockTypes, Mutexes, medium
  <2>13. CASE Restored
    BY <2>13, OwnerFrame DEF Restored, Held, Becomes, Returned, Goes, TypeOK,
       TaskTypes, Movers, Moving, LockTypes, Mutexes, medium
  <2>14. CASE DetachForcesExit
    BY <2>14, OwnerFrame DEF DetachForcesExit, RequestForcedExit, Becomes, TypeOK,
       TaskTypes, Movers, Moving, medium, locks
  <2>15. CASE CompleteWrite
    BY <2>15, OwnerFrame DEF CompleteWrite, Becomes, TusbIdle, TypeOK, TaskTypes,
       Movers, Moving, medium, locks
  <2>16. CASE ReleaseWrite
    BY <2>16, OwnerFrame DEF ReleaseWrite, Becomes, TypeOK, TaskTypes, Movers,
       Moving, medium, locks
  <2>17. CASE NotifyComplete
    BY <2>17, OwnerFrame DEF NotifyComplete, Goes, Becomes, TypeOK, TaskTypes,
       Movers, Moving, medium, locks
  <2>18. CASE CallbackDone
    BY <2>18, OwnerFrame DEF CallbackDone, Becomes, Returned, Goes, TypeOK,
       TaskTypes, Movers, Moving, medium, locks
  <2> QED BY <1>2, <2>1, <2>2, <2>3, <2>4, <2>5, <2>6, <2>7, <2>8, <2>9, <2>10,
        <2>11, <2>12, <2>13, <2>14, <2>15, <2>16, <2>17, <2>18 DEF Tusb
<1>3. CASE Worker
  <2>1. CASE TakeWrite
    BY <2>1, OwnerFrame DEF TakeWrite, medium, locks, tasks
  <2>2. CASE BeginWrite
    BY <2>2, OwnerFrame DEF BeginWrite, medium, locks, tasks
  <2>3. CASE WriteMedium
    BY <2>3, OwnerFrame DEF WriteMedium, Free, Held, TypeOK, LockTypes, Mutexes,
       medium, tasks
  <2>4. CASE Written
    BY <2>4, OwnerFrame DEF Written, Held, TypeOK, LockTypes, Mutexes, medium,
       tasks
  <2> QED BY <1>3, <2>1, <2>2, <2>3, <2>4 DEF Worker
<1>4. CASE IdleTimer
  BY <1>4, OwnerFrame DEF IdleTimer, medium, locks, tasks
<1>5. CASE Lifecycle
  <2>1. CASE RequestMsc
    BY <2>1, OwnerFrame DEF RequestMsc, Becomes, SameCall, TypeOK, TaskTypes,
       Movers, Moving, medium, locks
  <2>2. CASE PollStops
    BY <2>2, OwnerFrame DEF PollStops, Becomes, SameCall, TypeOK, TaskTypes,
       Movers, Moving, medium, locks
  <2>3. CASE PollStarts
    BY <2>3, OwnerFrame DEF PollStarts, Fails, NoFault, Becomes, SameCall, TypeOK,
       TaskTypes, Movers, Moving, medium, locks
  <2>4. CASE PollEnables
    BY <2>4, OwnerFrame DEF PollEnables, Becomes, SameCall, TypeOK, TaskTypes,
       Movers, Moving, medium, locks
  <2>5. ASSUME NEW t \in Callers, Enable(t) PROVE Ownership'
    BY <2>5, OwnerFrame DEF Enable, Free, Held, RequestMount, Becomes, SameCall,
       After, TypeOK, TaskTypes, Movers, Moving, LockTypes, Mutexes, Callers,
       medium
  <2>6. ASSUME NEW t \in Callers, EnableDone(t) PROVE Ownership'
    BY <2>6, OwnerFrame DEF EnableDone, Becomes, Returned, Goes, LeavePolicy,
       Held, After, TypeOK, TaskTypes, Movers, Moving, LockTypes, Mutexes,
       Callers, medium
  <2>7. CASE Stop
    BY <2>7, OwnerFrame DEF Stop, Free, Held, Becomes, SameCall, TypeOK,
       TaskTypes, Movers, Moving, LockTypes, Mutexes, medium
  <2>8. CASE StopIo
    BY <2>8, OwnerFrame DEF StopIo, Becomes, LeavePolicy, Held, SameCall, TypeOK,
       TaskTypes, Movers, Moving, LockTypes, Mutexes
  <2>9. CASE StopBusy
    BY <2>9, OwnerFrame DEF StopBusy, RequestMount, TypeOK, TaskTypes, Movers,
       Moving, locks
  <2>10. CASE StopMount
    BY <2>10, OwnerFrame DEF StopMount, RequestMount, TypeOK, TaskTypes, Movers,
       Moving, locks
  <2>11. CASE StopMoved
    BY <2>11, OwnerFrame DEF StopMoved, Becomes, Returned, Goes, LeavePolicy,
       Held, TypeOK, TaskTypes, Movers, Moving, LockTypes, Mutexes, medium
  <2>12. CASE Uninstall
    BY <2>12, AppsAssumption, MoversAreNotApps DEF TypeOK, TaskTypes, LockTypes,
         Ownership, IoHeld, OwnerIsTrue, AppIoIsMounted, Moving, Uninstall, Fails,
         NoFault, Goes, Becomes, Mutexes, medium, Movers
  <2>13. CASE Stopped
    BY <2>13, OwnerFrame DEF Stopped, Becomes, SameCall, TypeOK, TaskTypes,
       Movers, Moving, medium, locks
  <2> QED BY <1>5, <2>1, <2>2, <2>3, <2>4, <2>5, <2>6, <2>7, <2>8, <2>9, <2>10,
        <2>11, <2>12, <2>13 DEF Lifecycle
<1>6. ASSUME NEW a \in Apps, AppIo(a) PROVE Ownership'
  <2>1. CASE AppBegin(a)
    BY <2>1, OwnerFrame DEF AppBegin, AppGoes, TypeOK, TaskTypes, medium, locks
  <2>2. CASE AppTake(a)
    <3>1. UNCHANGED <<owner, mountPoint, call>>
      BY <2>2 DEF AppTake, medium
    <3>2. CASE ~Free("io")
      BY <2>2, <3>1, <3>2, OwnerFrame DEF AppTake, AppGoes, TypeOK, TaskTypes
    <3>3. CASE Free("io")
      <4>1. mutex'["io"] = a /\ app' = [app EXCEPT ![a] = "recheck"]
        BY <2>2, <3>3 DEF AppTake, AppGoes, Held, TypeOK, LockTypes, Mutexes
      <4>2. \A u \in Movers : call[u] \notin Moving
        BY <3>3 DEF Free, Ownership, IoHeld, Movers
      <4>3. \A b \in Apps : app[b] \notin {"recheck", "io"}
        BY <3>3, MoversAreNotApps DEF Free, Ownership, IoHeld
      <4> QED BY <3>1, <4>1, <4>2, <4>3 DEF Ownership, IoHeld, OwnerIsTrue, AppIoIsMounted,
              TypeOK, TaskTypes
    <3> QED BY <3>2, <3>3
  <2>3. CASE AppRecheck(a)
    BY <2>3, AppsAssumption, MoversAreNotApps DEF TypeOK, TaskTypes, LockTypes,
         Ownership, IoHeld, OwnerIsTrue, AppIoIsMounted, Moving, AppRecheck, Held,
         AppGoes, Mutexes, medium
  <2>4. CASE AppEnd(a)
    BY <2>4, AppsAssumption, MoversAreNotApps DEF TypeOK, TaskTypes, LockTypes,
         Ownership, IoHeld, OwnerIsTrue, AppIoIsMounted, Moving, AppEnd, Held,
         AppGoes, Mutexes, medium
  <2> QED BY <1>6, <2>1, <2>2, <2>3, <2>4 DEF AppIo
<1>7. CASE UNCHANGED vars
  BY <1>7, OwnerFrame DEF vars, medium, locks, tasks
<1> QED BY <1>1, <1>2, <1>3, <1>4, <1>5, <1>6, <1>7 DEF Next

LEMMA MediumInv ==
    /\ Init => WriteInv /\ Ownership
    /\ WriteInv /\ Ownership /\ [Next]_vars => (WriteInv /\ Ownership)'
BY WriteInvInit, WriteInvStep, OwnershipInit, OwnershipStep DEF WriteInv

\* While a task uses the files of /config, the FAT is mounted for the application
\* and that task holds storage_io_mutex, also when calls fail.
THEOREM AppIoAlwaysMounted == Spec => []AppIoIsMounted
<1>1. Ownership => AppIoIsMounted
  BY DEF Ownership
<1> QED BY <1>1, MediumInv, PTL DEF Spec

\* The owner the rest of the firmware goes by is where the medium is.
THEOREM OwnerAlwaysTrue == Spec => []OwnerIsTrue
<1>1. Ownership => OwnerIsTrue
  BY DEF Ownership
<1> QED BY <1>1, MediumInv, PTL DEF Spec

\* No two tasks move the medium at the same time.
THEOREM AlwaysOneTransition == Spec => []OneTransition
<1>1. Ownership => OneTransition
  BY DEF Ownership, IoHeld, OneTransition
<1> QED BY <1>1, MediumInv, PTL DEF Spec

\* The three together: owner, mount point and storage_io_mutex agree at every
\* step of every transition (msc_storage_event, msc_storage_mount and _unmount).
THEOREM OwnershipAlwaysTrue == Spec => []OwnershipTrue
<1>1. AppIoIsMounted /\ OwnerIsTrue /\ OneTransition => OwnershipTrue
  BY DEF OwnershipTrue
<1> QED BY <1>1, AppIoAlwaysMounted, OwnerAlwaysTrue, AlwaysOneTransition, PTL

-----------------------------------------------------------------------------
(* Where the tasks are                                                     *)

\* The jobs in which a task is inside a move of the medium, and those in which
\* it holds the policy lock.
CallJobs == {"eject", "attach", "detach", "restoreA", "restoreD", "applying", "enabling",
             "stopBack", "stopApp"}
PolicyJobs == {"restoreA", "restoreD", "enabling", "stopIo", "stopBusy", "stopBack",
               "stopMount", "stopApp"}

\* Where each task may be: a move has a caller that asked for it, and the owner of
\* the policy lock is at one of the steps the lock covers.
InPlace ==
    /\ \A t \in Movers :
        /\ job[t] \in PolicyJobs => mutex["policy"] = t
        /\ call[t] # "none" => job[t] \in CallJobs
    /\ job["tusb"] \in TusbJobs /\ (job["tusb"] = "dead" => ~configured)
    /\ \A t \in Callers : job[t] \in CallerJobs

\* Every step keeps the tasks at the places their jobs allow.
LEMMA PlaceStep ==
    ASSUME TypeOK, DriverGone, InPlace, Ownership, [Next]_vars
    PROVE  InPlace'
<1>1. ASSUME NEW t \in Movers, Call(t) PROVE InPlace'
  <2>1. CASE Apply(t)
    BY <2>1 DEF Apply, Goes, locks, host, InPlace, TypeOK, TaskTypes
  <2>2. CASE Check(t)
    BY <2>2 DEF Check, Goes, locks, host, InPlace, TypeOK, TaskTypes
  <2>3. CASE Start(t)
    BY <2>3 DEF Start, Goes, locks, host, InPlace, TypeOK, TaskTypes, LockTypes, Mutexes,
       Movers, Callers, CallJobs, PolicyJobs, TusbJobs, CallerJobs
  <2>4. CASE Lock(t)
    BY <2>4 DEF Lock, Held, Goes, host, InPlace
  <2>5. CASE WorkMount(t)
    <3>1. UNCHANGED <<job, configured>> /\ mutex'["policy"] = mutex["policy"]
      BY <2>5 DEF WorkMount, Held, TypeOK, LockTypes, Mutexes, host
    <3>2. \A u \in Movers : call'[u] # "none" => call[u] # "none"
      BY <2>5 DEF WorkMount, Goes, TypeOK, TaskTypes
    <3> QED BY <3>1, <3>2 DEF InPlace
  <2>6. CASE WorkUnmount(t)
    BY <2>6 DEF WorkUnmount, Goes, locks, host, InPlace, TypeOK, TaskTypes
  <2>7. CASE MountFs(t)
    BY <2>7 DEF MountFs, Held, Goes, host, InPlace, TypeOK, TaskTypes
  <2>8. CASE Event(t)
    BY <2>8 DEF Event, GiveTransition, Goes, host, Held, InPlace, TypeOK, LockTypes, Mutexes
  <2>9. CASE FailEvent(t)
    BY <2>9 DEF FailEvent, MountFailed, Goes, host, GiveTransition, Held, InPlace, TypeOK,
       LockTypes, Mutexes
  <2>10. CASE Cleanup(t)
    BY <2>10 DEF Cleanup, Goes, locks, host, InPlace
  <2>11. CASE Final(t)
    BY <2>11 DEF Final, Goes, locks, host, InPlace
  <2> QED BY <1>1, <2>1, <2>2, <2>3, <2>4, <2>5, <2>6, <2>7, <2>8, <2>9, <2>10, <2>11
        DEF Call
<1>2. CASE Tusb
  <2>1. CASE HostWrite
    BY <2>1 DEF HostWrite, Becomes, TusbIdle, locks, InPlace, Callers, CallJobs, PolicyJobs,
       TusbJobs
  <2>2. CASE Publish
    BY <2>2 DEF Publish, Becomes, locks, InPlace, CallJobs, PolicyJobs, TusbJobs, CallerJobs
  <2>3. CASE HostRead
    BY <2>3 DEF HostRead, Becomes, TusbIdle, locks, InPlace, Callers, CallJobs, PolicyJobs,
       TusbJobs
  <2>4. CASE ReadMedium
    BY <2>4 DEF ReadMedium, Held, Becomes, InPlace, TypeOK, TaskTypes, LockTypes, Mutexes,
       Movers, Callers, CallJobs, PolicyJobs, TusbJobs
  <2>5. CASE Eject
    BY <2>5 DEF Eject, RequestMount, locks, InPlace, TypeOK, TaskTypes, Callers, CallJobs,
       PolicyJobs, TusbJobs
  <2>6. CASE EjectDone
    BY <2>6 DEF EjectDone, Becomes, Returned, locks, Goes, InPlace, TypeOK, TaskTypes,
       PolicyJobs, TusbJobs, CallerJobs
  <2>7. CASE Reset
    BY <2>7 DEF Reset, locks, tasks, InPlace
  <2>8. CASE Attach
    BY <2>8 DEF Attach, RequestMount, TusbIdle, locks, InPlace, TypeOK, TaskTypes, Callers,
       CallJobs, PolicyJobs, TusbJobs
  <2>9. CASE Detach
    BY <2>9 DEF Detach, RequestMount, locks, InPlace, TypeOK, TaskTypes, Callers, CallJobs,
       PolicyJobs, TusbJobs
  <2>10. CASE MountToDone
    BY <2>10 DEF MountToDone, MountFailed, Becomes, Returned, locks, GiveTransition, Goes,
       Held, InPlace, TypeOK, TaskTypes, LockTypes, Mutexes, PolicyJobs, TusbJobs, CallerJobs
  <2>11. CASE Attached
    BY <2>11 DEF Attached, Free, Held, RequestMount, Becomes, InPlace, TypeOK, TaskTypes,
       LockTypes, Mutexes, Movers, Callers, CallJobs, PolicyJobs, TusbJobs
  <2>12. CASE Detached
    BY <2>12 DEF Detached, Free, Held, RequestMount, Becomes, InPlace, TypeOK, TaskTypes,
       LockTypes, Mutexes, Movers, Callers, CallJobs, PolicyJobs, TusbJobs
  <2>13. CASE Restored
    BY <2>13 DEF Restored, Becomes, Returned, Goes, InPlace, TypeOK, TaskTypes, Movers,
       PolicyJobs, TusbJobs, CallerJobs
  <2>14. CASE DetachForcesExit
    BY <2>14 DEF DetachForcesExit, Becomes, locks, InPlace, TypeOK, CallJobs, PolicyJobs,
       TusbJobs, CallerJobs
  <2>15. CASE CompleteWrite
    BY <2>15 DEF CompleteWrite, Becomes, TusbIdle, locks, InPlace, LockTypes, Callers,
       CallJobs, PolicyJobs, TusbJobs
  <2>16. CASE ReleaseWrite
    BY <2>16 DEF ReleaseWrite, Becomes, locks, InPlace, Mutexes, CallJobs, PolicyJobs,
       TusbJobs, CallerJobs
  <2>17. CASE NotifyComplete
    BY <2>17 DEF NotifyComplete, Goes, Becomes, locks, InPlace, TypeOK, TaskTypes, CallJobs,
       PolicyJobs, TusbJobs, CallerJobs
  <2>18. CASE CallbackDone
    BY <2>18 DEF CallbackDone, Becomes, Returned, locks, Goes, InPlace, TypeOK, TaskTypes,
       Movers, PolicyJobs, TusbJobs, CallerJobs
  <2> QED BY <1>2, <2>1, <2>2, <2>3, <2>4, <2>5, <2>6, <2>7, <2>8, <2>9, <2>10, <2>11,
        <2>12, <2>13, <2>14, <2>15, <2>16, <2>17, <2>18 DEF Tusb
<1>3. CASE Worker
  <2>1. CASE TakeWrite
    BY <2>1 DEF TakeWrite, locks, host, tasks, InPlace, TusbJobs
  <2>2. CASE BeginWrite
    BY <2>2 DEF BeginWrite, locks, host, tasks, InPlace, CallerJobs
  <2>3. CASE WriteMedium
    BY <2>3 DEF WriteMedium, Held, host, tasks, InPlace
  <2>4. CASE Written
    BY <2>4 DEF Written, Held, host, tasks, InPlace
  <2> QED BY <1>3, <2>1, <2>2, <2>3, <2>4 DEF Worker
<1>4. CASE IdleTimer
  BY <1>4 DEF IdleTimer, locks, host, tasks, InPlace
<1>5. CASE Lifecycle
  <2>1. CASE RequestMsc
    BY <2>1 DEF RequestMsc, Becomes, SameCall, locks, host, InPlace, CallJobs, PolicyJobs,
       CallerJobs
  <2>2. CASE PollStops
    BY <2>2 DEF PollStops, Becomes, SameCall, locks, host, InPlace, CallJobs, PolicyJobs,
       CallerJobs
  <2>3. CASE PollStarts
    BY <2>3 DEF PollStarts, Becomes, SameCall, locks, InPlace, TypeOK, TaskTypes, Movers,
       Callers, CallJobs, PolicyJobs, TusbJobs, CallerJobs, DriverGone
  <2>4. CASE PollEnables
    BY <2>4 DEF PollEnables, Becomes, SameCall, locks, host, InPlace, CallJobs, PolicyJobs,
       CallerJobs
  <2>5. ASSUME NEW t \in Callers, Enable(t) PROVE InPlace'
    BY <2>5 DEF Enable, Free, Held, RequestMount, Becomes, SameCall, After, host, InPlace,
       TypeOK, TaskTypes, LockTypes, Mutexes, Movers, Callers, CallJobs, PolicyJobs,
       CallerJobs
  <2>6. ASSUME NEW t \in Callers, EnableDone(t) PROVE InPlace'
    BY <2>6 DEF EnableDone, Becomes, Returned, After, host, Goes, InPlace, TypeOK, TaskTypes,
       Movers, Callers, PolicyJobs, CallerJobs
  <2>7. CASE Stop
    BY <2>7 DEF Stop, Free, Held, Becomes, SameCall, host, InPlace, TypeOK, TaskTypes,
       LockTypes, Mutexes, Movers, Callers, CallJobs, PolicyJobs, CallerJobs
  <2>8. CASE StopIo
    BY <2>8 DEF StopIo, Becomes, SameCall, host, InPlace, TypeOK, TaskTypes, Movers, Callers,
       CallJobs, PolicyJobs, CallerJobs
  <2>9. CASE StopBusy
    BY <2>9 DEF StopBusy, RequestMount, locks, host, InPlace, TypeOK, TaskTypes, CallJobs,
       PolicyJobs, CallerJobs
  <2>10. CASE StopMount
    BY <2>10 DEF StopMount, RequestMount, locks, host, InPlace, TypeOK, TaskTypes, CallJobs,
       PolicyJobs, CallerJobs
  <2>11. CASE StopMoved
    BY <2>11 DEF StopMoved, Becomes, Returned, host, Goes, InPlace, TypeOK, TaskTypes,
       Movers, Callers, PolicyJobs, CallerJobs
  <2>12. CASE Uninstall
    BY <2>12 DEF Uninstall, Goes, Becomes, InPlace, TypeOK, TaskTypes, Mutexes, Movers,
       Callers, CallJobs, PolicyJobs, TusbJobs, CallerJobs
  <2>13. CASE Stopped
    BY <2>13 DEF Stopped, Becomes, SameCall, locks, host, InPlace, CallJobs, PolicyJobs,
       CallerJobs
  <2> QED BY <1>5, <2>1, <2>2, <2>3, <2>4, <2>5, <2>6, <2>7, <2>8, <2>9, <2>10, <2>11,
        <2>12, <2>13 DEF Lifecycle
<1>6. ASSUME NEW a \in Apps, AppIo(a) PROVE InPlace'
  <2>1. CASE AppBegin(a)
    BY <2>1 DEF AppBegin, locks, host, InPlace
  <2>2. CASE AppTake(a)
    BY <2>2 DEF AppTake, Held, host, InPlace, TypeOK, LockTypes, Mutexes
  <2>3. CASE AppRecheck(a)
    BY <2>3 DEF AppRecheck, Held, host, InPlace, TypeOK, LockTypes, Mutexes
  <2>4. CASE AppEnd(a)
    BY <2>4 DEF AppEnd, Held, host, InPlace
  <2> QED BY <1>6, <2>1, <2>2, <2>3, <2>4 DEF AppIo
<1>7. CASE UNCHANGED vars
  BY <1>7 DEF vars, locks, host, tasks, InPlace
<1> QED BY <1>1, <1>2, <1>3, <1>4, <1>5, <1>6, <1>7 DEF Next

-----------------------------------------------------------------------------
(* Moves without a failing call                                            *)

\* A step after which no call has failed was no failing call.
LEMMA StillNoFailure ==
    ASSUME TypeOK, [Next]_vars, NoFailureYet'
    PROVE  NoFailureYet /\ ~Fails
<1>1. ~Fails
  BY DEF Fails, NoFailureYet, TypeOK, EnvTypes
<1>2. faults' = faults
  <2>1. ASSUME NEW t \in Movers, Call(t) PROVE faults' = faults
    BY <1>1, <2>1 DEF Call, Apply, Check, Start, Lock, WorkMount, WorkUnmount, MountFs,
       Event, FailEvent, Cleanup, Final, NoFault, env
  <2>2. CASE Tusb
    BY <2>2 DEF Tusb, HostWrite, Publish, HostRead, ReadMedium, Eject, EjectDone, Reset,
       Attach, Detach, MountToDone, Attached, Detached, Restored, DetachForcesExit,
       CompleteWrite, ReleaseWrite, NotifyComplete, CallbackDone, env
  <2>3. CASE Worker \/ IdleTimer
    BY <2>3 DEF Worker, TakeWrite, BeginWrite, WriteMedium, Written, IdleTimer, env
  <2>4. CASE Lifecycle
    BY <1>1, <2>4 DEF Lifecycle, RequestMsc, PollStops, PollStarts, PollEnables, Enable,
       EnableDone, Stop, StopIo, StopBusy, StopMount, StopMoved, Uninstall, Stopped, NoFault,
       env
  <2>5. ASSUME NEW a \in Apps, AppIo(a) PROVE faults' = faults
    BY <2>5 DEF AppIo, AppBegin, AppTake, AppRecheck, AppEnd, env
  <2>6. CASE UNCHANGED vars
    BY <2>6 DEF vars, env
  <2> QED BY <2>1, <2>2, <2>3, <2>4, <2>5, <2>6 DEF Next
<1> QED BY <1>1, <1>2 DEF NoFailureYet

\* As long as no call fails: the FAT is registered exactly while the application
\* has it, no clean-up runs, and a move that ends in an error is one the host's
\* side began and still holds storage_io_mutex for.
Untroubled ==
    /\ ~panicked /\ bound = (mountPoint = "APP") /\ (hostIo => ~transition)
    /\ \A t \in Movers :
        /\ call[t] \notin {"failEvent", "badFs", "cleanup"}
        /\ ret[t] = "error" => /\ call[t] \in {"final", "return"}
                               /\ mutex["io"] = t /\ dest[t] = "USB"
        /\ ret[t] = "unfinished" => call[t] = "return"
        /\ call[t] = "none" => dest[t] = "APP"

\* Steps without a failing call keep it so.
LEMMA SmoothStep ==
    ASSUME TypeOK, InPlace, Ownership, Untroubled, ~Fails, [Next]_vars
    PROVE  Untroubled'
<1>1. ASSUME NEW t \in Movers, Call(t) PROVE Untroubled'
  <2>1. CASE Apply(t)
    BY <2>1 DEF Apply, Goes, medium, locks, env, Untroubled, TypeOK, TaskTypes
  <2>2. CASE Check(t)
    BY <2>2 DEF Check, Goes, medium, locks, env, Untroubled, TypeOK, TaskTypes
  <2>3. CASE Start(t)
    BY <2>3 DEF Start, Goes, medium, locks, env, Untroubled
  <2>4. CASE Lock(t)
    BY <2>4 DEF Lock, Free, Goes, medium, env, Untroubled, Movers
  <2>5. CASE WorkMount(t)
    <3>1. /\ UNCHANGED <<hostIo, transition, panicked, ret, dest>> /\ bound' = TRUE /\ mountPoint' = "APP"
          /\ call[t] = "work" /\ call' = [call EXCEPT ![t] = "fs"] /\ mutex' = [mutex EXCEPT !["mux"] = t]
      BY <2>5 DEF WorkMount, Held, Goes
    <3>2. mutex'["io"] = mutex["io"]
      BY <3>1 DEF Mutexes
    <3>3. \A u \in Movers : call'[u] = IF u = t THEN "fs" ELSE call[u]
      BY <3>1 DEF TypeOK, TaskTypes
    <3>4. \A u \in Movers : ret'[u] = ret[u] /\ dest'[u] = dest[u]
      BY <3>1
    <3>5. ret[t] \notin {"error", "unfinished"}
      BY <3>1 DEF Untroubled
    <3>6. ~panicked' /\ (hostIo' => ~transition') /\ bound' = (mountPoint' = "APP")
      BY <3>1 DEF Untroubled
    <3>7. ASSUME NEW u \in Movers
          PROVE  /\ call'[u] \notin {"failEvent", "badFs", "cleanup"}
                 /\ ret'[u] = "error" => /\ call'[u] \in {"final", "return"}
                                         /\ mutex'["io"] = u /\ dest'[u] = "USB"
                 /\ ret'[u] = "unfinished" => call'[u] = "return"
                 /\ call'[u] = "none" => dest'[u] = "APP"
      BY <3>2, <3>3, <3>4, <3>5 DEF Untroubled
    <3> QED BY <3>6, <3>7 DEF Untroubled
  <2>6. CASE WorkUnmount(t)
    <3>0. /\ UNCHANGED <<hostIo, transition, panicked, mutex, dest>> /\ bound' = FALSE
          /\ call[t] = "work" /\ dest[t] = "USB"
      BY <2>6 DEF WorkUnmount, locks
    <3>5. mutex["io"] = t
      BY <3>0 DEF Ownership, IoHeld, Moving
    <3>6. bound => mountPoint' = "USB"
      BY <2>6 DEF WorkUnmount
    <3>7. ~bound => mountPoint' = "USB"
      BY <2>6 DEF WorkUnmount, Untroubled, TypeOK, MediumTypes
    <3>1. mountPoint' = "USB" /\ mutex["io"] = t
      BY <3>5, <3>6, <3>7
    <3>2. \/ call' = [call EXCEPT ![t] = "final"] /\ ret' = [ret EXCEPT ![t] = "error"]
          \/ call' = [call EXCEPT ![t] = "event"] /\ ret' = ret
      BY <2>6 DEF WorkUnmount, Goes
    <3>3. \A u \in Movers \ {t} : call'[u] = call[u] /\ ret'[u] = ret[u]
      BY <3>2 DEF TypeOK, TaskTypes
    <3>4. call'[t] \in {"final", "event"} /\ (ret'[t] = "unfinished" => ret[t] = "unfinished")
          /\ (ret'[t] = "error" => ret[t] = "error" \/ call'[t] = "final")
      BY <3>2 DEF TypeOK, TaskTypes
    <3> QED BY <3>0, <3>1, <3>3, <3>4 DEF Untroubled
  <2>7. CASE MountFs(t)
    BY <2>7 DEF MountFs, Held, Goes, medium, Untroubled, TypeOK, TaskTypes
  <2>8. CASE Event(t)
    BY <2>8 DEF Event, GiveTransition, Goes, medium, Untroubled, Ownership, IoHeld, Moving
  <2>9. CASE FailEvent(t)
    BY <2>9 DEF FailEvent, Untroubled
  <2>10. CASE Cleanup(t)
    BY <2>10 DEF Cleanup, Untroubled
  <2>11. CASE Final(t)
    BY <2>11 DEF Final, Goes, locks, env, Untroubled, TypeOK, MediumTypes, TaskTypes,
       EnvTypes
  <2> QED BY <1>1, <2>1, <2>2, <2>3, <2>4, <2>5, <2>6, <2>7, <2>8, <2>9, <2>10, <2>11
        DEF Call
<1>2. CASE Tusb
  <2>1. CASE HostWrite
    BY <2>1 DEF HostWrite, medium, locks, env, Untroubled, InPlace
  <2>2. CASE Publish
    BY <2>2 DEF Publish, medium, locks, env, Untroubled, Callers, CallJobs, PolicyJobs
  <2>3. CASE HostRead
    BY <2>3 DEF HostRead, medium, locks, env, Untroubled
  <2>4. CASE ReadMedium
    BY <2>4 DEF ReadMedium, Held, medium, env, Untroubled, TypeOK, LockTypes, Mutexes
  <2>5. CASE Eject
    BY <2>5 DEF Eject, RequestMount, TusbIdle, locks, env, Untroubled, InPlace, TypeOK,
       TaskTypes, CallJobs
  <2>6. CASE EjectDone
    BY <2>6 DEF EjectDone, Returned, medium, locks, env, Goes, Untroubled, TypeOK, TaskTypes
  <2>7. CASE Reset
    BY <2>7 DEF Reset, medium, locks, tasks, env, Untroubled
  <2>8. CASE Attach
    BY <2>8 DEF Attach, RequestMount, TusbIdle, locks, env, Untroubled, InPlace, TypeOK,
       TaskTypes, CallJobs
  <2>9. CASE Detach
    BY <2>9 DEF Detach, RequestMount, TusbIdle, locks, env, Untroubled, InPlace, TypeOK,
       TaskTypes, CallJobs
  <2>10. CASE MountToDone
    BY <2>10 DEF MountToDone, MountFailed, Returned, medium, locks, GiveTransition, Goes,
       Untroubled, TypeOK, TaskTypes, Movers
  <2>11. CASE Attached
    BY <2>11 DEF Attached, Free, RequestMount, medium, env, Untroubled, InPlace, TypeOK,
       TaskTypes, Movers, Callers, CallJobs, PolicyJobs, CallerJobs
  <2>12. CASE Detached
    BY <2>12 DEF Detached, Free, RequestMount, medium, env, Untroubled, InPlace, TypeOK,
       TaskTypes, Movers, Callers, CallJobs, PolicyJobs, CallerJobs
  <2>13. CASE Restored
    BY <2>13 DEF Restored, Held, Returned, medium, env, Goes, Untroubled, TypeOK, TaskTypes
  <2>14. CASE DetachForcesExit
    BY <2>14 DEF DetachForcesExit, medium, locks, env, Untroubled
  <2>15. CASE CompleteWrite
    BY <2>15 DEF CompleteWrite, medium, locks, env, Untroubled
  <2>16. CASE ReleaseWrite
    BY <2>16 DEF ReleaseWrite, medium, locks, env, Untroubled
  <2>17. CASE NotifyComplete
    BY <2>17 DEF NotifyComplete, Goes, medium, locks, env, Untroubled, InPlace, CallJobs
  <2>18. CASE CallbackDone
    BY <2>18 DEF CallbackDone, Returned, medium, locks, env, Goes, Untroubled, TypeOK,
       TaskTypes
  <2> QED BY <1>2, <2>1, <2>2, <2>3, <2>4, <2>5, <2>6, <2>7, <2>8, <2>9, <2>10, <2>11,
        <2>12, <2>13, <2>14, <2>15, <2>16, <2>17, <2>18 DEF Tusb
<1>3. CASE Worker
  <2>1. CASE TakeWrite
    BY <2>1 DEF TakeWrite, medium, locks, tasks, env, Untroubled
  <2>2. CASE BeginWrite
    BY <2>2 DEF BeginWrite, medium, locks, tasks, env, Untroubled
  <2>3. CASE WriteMedium
    BY <2>3 DEF WriteMedium, Held, medium, tasks, env, Untroubled
  <2>4. CASE Written
    BY <2>4 DEF Written, Held, medium, tasks, env, Untroubled
  <2> QED BY <1>3, <2>1, <2>2, <2>3, <2>4 DEF Worker
<1>4. CASE IdleTimer
  BY <1>4 DEF IdleTimer, medium, locks, tasks, env, Untroubled
<1>5. CASE Lifecycle
  <2>1. CASE RequestMsc
    BY <2>1 DEF RequestMsc, SameCall, medium, locks, env, Untroubled
  <2>2. CASE PollStops
    BY <2>2 DEF PollStops, SameCall, medium, locks, env, Untroubled
  <2>3. CASE PollStarts
    BY <2>3 DEF PollStarts, SameCall, medium, locks, Untroubled
  <2>4. CASE PollEnables
    BY <2>4 DEF PollEnables, SameCall, medium, locks, env, Untroubled
  <2>5. ASSUME NEW t \in Callers, Enable(t) PROVE Untroubled'
    BY <2>5 DEF Enable, Held, RequestMount, SameCall, medium, env, Untroubled, InPlace,
       TypeOK, TaskTypes, LockTypes, Mutexes, CallJobs
  <2>6. ASSUME NEW t \in Callers, EnableDone(t) PROVE Untroubled'
    BY <2>6 DEF EnableDone, Returned, LeavePolicy, medium, env, Goes, Held, Untroubled,
       TypeOK, TaskTypes
  <2>7. CASE Stop
    BY <2>7 DEF Stop, Held, SameCall, medium, env, Untroubled, TypeOK, LockTypes, Mutexes
  <2>8. CASE StopIo
    BY <2>8 DEF StopIo, SameCall, LeavePolicy, env, Held, Untroubled, TypeOK, LockTypes,
       Mutexes
  <2>9. CASE StopBusy
    BY <2>9 DEF StopBusy, RequestMount, locks, env, Untroubled, TypeOK, TaskTypes, EnvTypes
  <2>10. CASE StopMount
    BY <2>10 DEF StopMount, RequestMount, locks, env, Untroubled, TypeOK, MediumTypes,
       TaskTypes
  <2>11. CASE StopMoved
    BY <2>11 DEF StopMoved, Returned, LeavePolicy, medium, env, Goes, Held, Untroubled,
       TypeOK, TaskTypes, LockTypes
  <2>12. CASE Uninstall
    BY <2>12 DEF Uninstall, Goes, medium, Untroubled, TypeOK, TaskTypes, Mutexes
  <2>13. CASE Stopped
    BY <2>13 DEF Stopped, SameCall, medium, locks, env, Untroubled
  <2> QED BY <1>5, <2>1, <2>2, <2>3, <2>4, <2>5, <2>6, <2>7, <2>8, <2>9, <2>10, <2>11,
        <2>12, <2>13 DEF Lifecycle
<1>6. ASSUME NEW a \in Apps, AppIo(a) PROVE Untroubled'
  <2>1. CASE AppBegin(a)
    BY <2>1 DEF AppBegin, medium, locks, env, Untroubled, InPlace
  <2>2. CASE AppTake(a)
    BY <2>2, MoversAreNotApps DEF AppTake, Free, medium, env, Untroubled, Movers
  <2>3. CASE AppRecheck(a)
    BY <2>3, MoversAreNotApps DEF AppRecheck, medium, env, Untroubled, Ownership, IoHeld
  <2>4. CASE AppEnd(a)
    BY <2>4, MoversAreNotApps DEF AppEnd, medium, env, Untroubled, Ownership, IoHeld
  <2> QED BY <1>6, <2>1, <2>2, <2>3, <2>4 DEF AppIo
<1>7. CASE UNCHANGED vars
  BY <1>7 DEF vars, medium, locks, tasks, env, Untroubled, Callers
<1> QED BY <1>1, <1>2, <1>3, <1>4, <1>5, <1>6, <1>7 DEF Next

-----------------------------------------------------------------------------
(* Writes are drained before the medium changes hands                      *)

\* storage_io_mutex belongs to a task that will not give it back: tud_task has
\* ended with it, or its owner is done with the move.
IoLost ==
    \/ mutex["io"] = "dead"
    \/ \E t \in Movers : /\ mutex["io"] = t /\ call[t] \notin Moving
                         /\ ~(ret[t] = "error" /\ job[t] \in {"attach", "detach"})

\* The TinyUSB task handles no SCSI command: it is inside a bus event, or the
\* device is not configured.
Parked ==
    \/ job["tusb"] \in {"attach", "attached", "detach", "detached"}
    \/ (job["tusb"] \in {"idle", "dead"} /\ ~configured)

\* A caller is on its way to mount the FAT for the application.
HandsBack(u) == call[u] \in {"check", "start", "lock", "work"} /\ dest[u] = "APP"

\* The inductive form of DrainBeforeHandover: the TinyUSB task moves the medium
\* only without a reserved write; a reserved write keeps the medium on the host's
\* side; and a caller that hands it back found no write and no command can bring
\* one any more, unless it waits for a mutex that is lost.
Drained ==
    /\ call["tusb"] \notin {"none", "apply", "return"} => reserved = 0
    /\ reserved # 0 => mountPoint = "USB"
    /\ \A u \in Callers : HandsBack(u) =>
          IoLost \/ (reserved = 0 /\ (hostIo \/ requested = "USB" => Parked))

\* A lost storage_io_mutex stays lost.
LEMMA LostStays ==
    ASSUME TypeOK, InPlace, Ownership, Untroubled, ~Fails, [Next]_vars,
           IoLost
    PROVE  IoLost'
<1>1. ASSUME NEW t \in Movers, Call(t) PROVE IoLost'
  <2>1. CASE Apply(t)
    BY <2>1 DEF Apply, Goes, medium, writing, locks, host, IoLost, Ownership, IoHeld, Moving,
       Untroubled, InPlace, TypeOK, TaskTypes, LockTypes, Mutexes, Movers, Callers, CallJobs,
       PolicyJobs, CallerJobs
  <2>2. CASE Check(t)
    BY <2>2 DEF Check, Goes, locks, IoLost, Moving, TypeOK, TaskTypes
  <2>3. CASE Start(t)
    BY <2>3 DEF Start, Goes, locks, IoLost, Moving
  <2>4. CASE Lock(t)
    BY <2>4 DEF Lock, Free, IoLost, Movers
  <2>5. CASE WorkMount(t)
    BY <2>5 DEF WorkMount, IoLost, Ownership, IoHeld, Moving, Movers
  <2>6. CASE WorkUnmount(t)
    BY <2>6 DEF WorkUnmount, locks, IoLost, Ownership, IoHeld, Moving
  <2>7. CASE MountFs(t)
    BY <2>7 DEF MountFs, Held, IoLost, Ownership, IoHeld, Moving
  <2>8. CASE Event(t)
    BY <2>8 DEF Event, GiveTransition, Goes, IoLost, Moving, Movers
  <2>9. CASE FailEvent(t)
    BY <2>9 DEF FailEvent, Untroubled
  <2>10. CASE Cleanup(t)
    BY <2>10 DEF Cleanup, Untroubled
  <2>11. CASE Final(t)
    BY <2>11 DEF Final, Goes, locks, IoLost, Moving
  <2> QED BY <1>1, <2>1, <2>2, <2>3, <2>4, <2>5, <2>6, <2>7, <2>8, <2>9, <2>10, <2>11
        DEF Call
<1>2. CASE Tusb
  <2>1. CASE HostWrite
    BY <2>1 DEF HostWrite, Becomes, locks, IoLost
  <2>2. CASE Publish
    BY <2>2 DEF Publish, Becomes, locks, IoLost
  <2>3. CASE HostRead
    BY <2>3 DEF HostRead, Becomes, locks, IoLost
  <2>4. CASE ReadMedium
    BY <2>4 DEF ReadMedium, Held, Becomes, IoLost, TypeOK, TaskTypes, LockTypes, Mutexes
  <2>5. CASE Eject
    BY <2>5 DEF Eject, RequestMount, locks, IoLost, Moving, TypeOK, TaskTypes
  <2>6. CASE EjectDone
    BY <2>6 DEF EjectDone, Becomes, Returned, locks, Goes, IoLost, Moving
  <2>7. CASE Reset
    BY <2>7 DEF Reset, locks, tasks, IoLost
  <2>8. CASE Attach
    BY <2>8 DEF Attach, RequestMount, TusbIdle, locks, IoLost, Moving, Untroubled, InPlace,
       TypeOK, TaskTypes, CallJobs
  <2>9. CASE Detach
    BY <2>9 DEF Detach, RequestMount, TusbIdle, locks, IoLost, Moving, Untroubled, InPlace,
       TypeOK, TaskTypes, CallJobs
  <2>10. CASE MountToDone
    BY <2>10 DEF MountToDone, MountFailed, Becomes, Returned, locks, GiveTransition, Goes,
       IoLost, Moving, Movers
  <2>11. CASE Attached
    BY <2>11 DEF Attached, Held, RequestMount, Becomes, IoLost, Moving, TypeOK, TaskTypes,
       LockTypes, Mutexes, Callers
  <2>12. CASE Detached
    BY <2>12 DEF Detached, Held, RequestMount, Becomes, IoLost, Ownership, Moving,
       Untroubled, TypeOK, TaskTypes, LockTypes, Mutexes
  <2>13. CASE Restored
    BY <2>13 DEF Restored, Held, Becomes, Returned, Goes, IoLost, Moving, InPlace
  <2>14. CASE DetachForcesExit
    BY <2>14 DEF DetachForcesExit, Becomes, locks, IoLost
  <2>15. CASE CompleteWrite
    BY <2>15 DEF CompleteWrite, Becomes, locks, IoLost
  <2>16. CASE ReleaseWrite
    BY <2>16 DEF ReleaseWrite, Becomes, locks, IoLost
  <2>17. CASE NotifyComplete
    BY <2>17 DEF NotifyComplete, Goes, Becomes, locks, IoLost, Moving
  <2>18. CASE CallbackDone
    BY <2>18 DEF CallbackDone, Becomes, Returned, locks, Goes, IoLost, Moving, PolicyJobs,
       CallerJobs
  <2> QED BY <1>2, <2>1, <2>2, <2>3, <2>4, <2>5, <2>6, <2>7, <2>8, <2>9, <2>10, <2>11,
        <2>12, <2>13, <2>14, <2>15, <2>16, <2>17, <2>18 DEF Tusb
<1>3. CASE Worker
  <2>1. CASE TakeWrite
    BY <2>1 DEF TakeWrite, locks, tasks, IoLost, Mutexes
  <2>2. CASE BeginWrite
    BY <2>2 DEF BeginWrite, locks, tasks, IoLost
  <2>3. CASE WriteMedium
    BY <2>3 DEF WriteMedium, Held, tasks, IoLost
  <2>4. CASE Written
    BY <2>4 DEF Written, Held, tasks, IoLost
  <2> QED BY <1>3, <2>1, <2>2, <2>3, <2>4 DEF Worker
<1>4. CASE IdleTimer
  BY <1>4 DEF IdleTimer, locks, tasks, IoLost
<1>5. CASE Lifecycle
  <2>1. CASE RequestMsc
    BY <2>1 DEF RequestMsc, Becomes, SameCall, locks, IoLost
  <2>2. CASE PollStops
    BY <2>2 DEF PollStops, Becomes, SameCall, locks, IoLost
  <2>3. CASE PollStarts
    BY <2>3 DEF PollStarts, SameCall, locks, IoLost, TypeOK, TaskTypes
  <2>4. CASE PollEnables
    BY <2>4 DEF PollEnables, Becomes, SameCall, medium, locks, IoLost
  <2>5. ASSUME NEW t \in Callers, Enable(t) PROVE IoLost'
    BY <2>5 DEF Enable, Held, RequestMount, Becomes, SameCall, After, writing, IoLost,
       Moving, TypeOK, TaskTypes, LockTypes, Mutexes
  <2>6. ASSUME NEW t \in Callers, EnableDone(t) PROVE IoLost'
    BY <2>6 DEF EnableDone, Becomes, Returned, LeavePolicy, After, Goes, Held, IoLost, Moving
  <2>7. CASE Stop
    BY <2>7 DEF Stop, Held, Becomes, SameCall, IoLost, TypeOK, TaskTypes, LockTypes, Mutexes
  <2>8. CASE StopIo
    BY <2>8 DEF StopIo, Becomes, SameCall, LeavePolicy, Held, IoLost, TypeOK, TaskTypes,
       LockTypes, Mutexes
  <2>9. CASE StopBusy
    BY <2>9 DEF StopBusy, RequestMount, locks, IoLost, Moving, TypeOK, TaskTypes
  <2>10. CASE StopMount
    BY <2>10 DEF StopMount, RequestMount, locks, IoLost, Moving, TypeOK, TaskTypes
  <2>11. CASE StopMoved
    BY <2>11 DEF StopMoved, Becomes, Returned, LeavePolicy, Goes, Held, IoLost, Moving,
       TypeOK, TaskTypes
  <2>12. CASE Uninstall
    BY <2>12 DEF Uninstall, Goes, Becomes, IoLost, TypeOK, TaskTypes, Mutexes
  <2>13. CASE Stopped
    BY <2>13 DEF Stopped, Becomes, SameCall, locks, IoLost
  <2> QED BY <1>5, <2>1, <2>2, <2>3, <2>4, <2>5, <2>6, <2>7, <2>8, <2>9, <2>10, <2>11,
        <2>12, <2>13 DEF Lifecycle
<1>6. ASSUME NEW a \in Apps, AppIo(a) PROVE IoLost'
  <2>1. CASE AppBegin(a)
    BY <2>1 DEF AppBegin, locks, IoLost
  <2>2. CASE AppTake(a)
    BY <2>2, MoversAreNotApps DEF AppTake, Free, IoLost, Movers
  <2>3. CASE AppRecheck(a)
    BY <2>3, MoversAreNotApps DEF AppRecheck, IoLost, Ownership, IoHeld
  <2>4. CASE AppEnd(a)
    BY <2>4, MoversAreNotApps DEF AppEnd, IoLost, Ownership, IoHeld, Callers
  <2> QED BY <1>6, <2>1, <2>2, <2>3, <2>4 DEF AppIo
<1>7. CASE UNCHANGED vars
  BY <1>7 DEF vars, locks, tasks, IoLost, TypeOK
<1> QED BY <1>1, <1>2, <1>3, <1>4, <1>5, <1>6, <1>7 DEF Next

\* Steps without a failing call keep the hand-over drained.
LEMMA DrainedStep ==
    ASSUME WriteInv, InPlace, Ownership, Untroubled, Drained, ~Fails, [Next]_vars
    PROVE  Drained'
<1> TypeOK /\ OneCarrier /\ DriverGone
  BY DEF WriteInv
<1>0. IoLost => IoLost'
  BY LostStays
<1>1. ASSUME NEW t \in Movers, Call(t) PROVE Drained'
  <2>1. CASE Apply(t)
    BY <2>1, <1>0 DEF Apply, Goes, medium, writing, host, Drained, HandsBack, Parked,
       Ownership, Untroubled, TypeOK, TaskTypes, Movers, Callers
  <2>2. CASE Check(t)
    BY <2>2, <1>0 DEF Check, Goes, medium, writing, host, Drained, HandsBack, Parked, TypeOK,
       TaskTypes, Movers, Callers
  <2>3. CASE Start(t)
    BY <2>3, <1>0 DEF Start, Goes, medium, writing, host, Drained, HandsBack, Parked
  <2>4. CASE Lock(t)
    BY <2>4, <1>0 DEF Lock, Goes, medium, writing, host, Drained, HandsBack, Parked
  <2>5. CASE WorkMount(t)
    <3>1. /\ UNCHANGED <<requested, hostIo, job, dest, reserved, configured>> /\ mountPoint' = "APP"
          /\ call[t] = "work" /\ dest[t] = "APP" /\ call' = [call EXCEPT ![t] = "fs"]
      BY <2>5 DEF WorkMount, Goes, writing, host
    <3>2. mutex["io"] = t /\ ~IoLost
      BY <3>1, AppsAssumption DEF Ownership, IoHeld, IoLost, Moving, Movers
    <3>3. reserved = 0
      <4>1. CASE t = "tusb"
        BY <3>1, <4>1 DEF Drained
      <4>2. CASE t \in Callers
        BY <3>1, <3>2, <4>2 DEF Drained, HandsBack
      <4> QED BY <4>1, <4>2 DEF Movers, Callers
    <3>4. \A u \in Movers : call'[u] = IF u = t THEN "fs" ELSE call[u]
      BY <3>1 DEF TypeOK, TaskTypes
    <3>5. \A u \in Callers : HandsBack(u)' => HandsBack(u)
      BY <3>1, <3>4 DEF HandsBack
    <3>6. Parked' = Parked
      BY <3>1 DEF Parked
    <3> QED BY <1>0, <3>1, <3>3, <3>5, <3>6 DEF Drained
  <2>6. CASE WorkUnmount(t)
    BY <2>6, <1>0 DEF WorkUnmount, Goes, writing, host, Drained, HandsBack, Parked, TypeOK,
       TaskTypes, Movers, Callers, PolicyJobs
  <2>7. CASE MountFs(t)
    BY <2>7, <1>0 DEF MountFs, Goes, medium, writing, host, Drained, HandsBack, Parked,
       TypeOK, TaskTypes, Movers, Callers
  <2>8. CASE Event(t)
    BY <2>8, <1>0 DEF Event, Goes, medium, writing, host, Drained, HandsBack, Parked,
       LockTypes, Movers
  <2>9. CASE FailEvent(t)
    BY <2>9, <1>0 DEF FailEvent, Goes, medium, writing, host, Drained, HandsBack, Parked
  <2>10. CASE Cleanup(t)
    BY <2>10, <1>0 DEF Cleanup, Goes, writing, host, Drained, HandsBack, Parked, Movers,
       Callers
  <2>11. CASE Final(t)
    <3>1. /\ UNCHANGED <<requested, mountPoint, job, dest, ret, mutex, reserved, configured>>
          /\ call[t] = "final" /\ call' = [call EXCEPT ![t] = "return"]
      BY <2>11 DEF Final, Goes, writing, host, locks
    <3>2. \A u \in Movers : call'[u] = IF u = t THEN "return" ELSE call[u]
      BY <3>1 DEF TypeOK, TaskTypes
    <3>3. call'["tusb"] \notin {"none", "apply", "return"} => call["tusb"] = call'["tusb"]
      BY <3>2 DEF Movers
    <3>4. hostIo' => \/ hostIo
                     \/ requested = "USB"
                     \/ ret[t] = "error"
      BY <2>11 DEF Final, Untroubled, TypeOK, TaskTypes
    <3>5. ASSUME NEW u \in Callers, HandsBack(u)'
          PROVE  IoLost' \/ (reserved' = 0 /\ (hostIo' \/ requested' = "USB" => Parked'))
      <4>1. u # t /\ HandsBack(u)
        BY <3>1, <3>2, <3>5 DEF HandsBack
      <4>2. t = "tusb" /\ job[t] \notin {"restoreA", "restoreD"}
        BY <3>1, <4>1 DEF HandsBack, InPlace, CallJobs, PolicyJobs, CallerJobs, Callers,
           Movers
      <4>3. CASE ret[t] = "error" /\ job[t] \notin {"attach", "detach"}
        BY <3>1, <3>2, <4>3 DEF IoLost, Untroubled, Moving
      <4>4. CASE ret[t] = "error" /\ job[t] \in {"attach", "detach"}
        BY <1>0, <3>1, <4>1, <4>2, <4>4 DEF Parked, Drained
      <4>5. CASE ret[t] # "error"
        BY <1>0, <3>1, <3>4, <4>1, <4>5 DEF Parked, Drained
      <4> QED BY <4>3, <4>4, <4>5
    <3> QED BY <3>1, <3>3, <3>5 DEF Drained
  <2> QED BY <1>1, <2>1, <2>2, <2>3, <2>4, <2>5, <2>6, <2>7, <2>8, <2>9, <2>10, <2>11
        DEF Call
<1>2. CASE Tusb
  <2>1. CASE HostWrite
    BY <2>1, <1>0 DEF HostWrite, TusbIdle, UsbReadable, medium, Drained, HandsBack, Parked,
       IoHeld, InPlace, Movers, CallJobs
  <2>2. CASE Publish
    BY <2>2, <1>0 DEF Publish, medium, Drained, HandsBack, OneCarrier, Carried
  <2>3. CASE HostRead
    BY <2>3, <1>0 DEF HostRead, TusbIdle, medium, writing, Drained, HandsBack, Parked,
       CallJobs
  <2>4. CASE ReadMedium
    BY <2>4, <1>0 DEF ReadMedium, medium, writing, Drained, HandsBack, Parked, CallJobs
  <2>5. CASE Eject
    BY <2>5, <1>0 DEF Eject, RequestMount, writing, Drained, HandsBack, OneCarrier, TypeOK,
       TaskTypes, Movers, Callers
  <2>6. CASE EjectDone
    BY <2>6, <1>0 DEF EjectDone, Returned, medium, writing, Goes, Drained, HandsBack, Parked
  <2>7. CASE Reset
    BY <2>7, <1>0 DEF Reset, medium, writing, tasks, Drained, HandsBack, Parked
  <2>8. CASE Attach
    BY <2>8, <1>0 DEF Attach, RequestMount, TusbIdle, writing, Drained, HandsBack, Parked,
       TypeOK, TaskTypes, Movers, Callers, PolicyJobs
  <2>9. CASE Detach
    BY <2>9, <1>0 DEF Detach, RequestMount, writing, Drained, HandsBack, TypeOK, TaskTypes,
       Movers, Callers, CallerJobs
  <2>10. CASE MountToDone
    BY <2>10, <1>0 DEF MountToDone, Becomes, Returned, medium, writing, Goes, Drained,
       HandsBack, Parked, LockTypes
  <2>11. CASE Attached
    BY <2>11, <1>0 DEF Attached, Free, RequestMount, medium, writing, Drained, HandsBack,
       InPlace, TypeOK, TaskTypes, Movers, Callers, CallJobs, PolicyJobs, CallerJobs
  <2>12. CASE Detached
    BY <2>12, <1>0 DEF Detached, Free, RequestMount, medium, writing, Drained, HandsBack,
       InPlace, TypeOK, TaskTypes, Mutexes, Movers, Callers, CallJobs, PolicyJobs, CallerJobs
  <2>13. CASE Restored
    BY <2>13, <1>0 DEF Restored, Returned, medium, writing, Goes, Drained, HandsBack, Parked,
       LockTypes, Mutexes
  <2>14. CASE DetachForcesExit
    BY <2>14, <1>0 DEF DetachForcesExit, medium, writing, Drained, HandsBack, Parked
  <2>15. CASE CompleteWrite
    BY <2>15, <1>0 DEF CompleteWrite, medium, Drained, HandsBack, OneCarrier, Carried
  <2>16. CASE ReleaseWrite
    BY <2>16, <1>0 DEF ReleaseWrite, Drained, HandsBack, OneCarrier, Carried, Mutexes
  <2>17. CASE NotifyComplete
    BY <2>17, <1>0 DEF NotifyComplete, Goes, medium, writing, Drained, HandsBack, Parked
  <2>18. CASE CallbackDone
    BY <2>18, <1>0 DEF CallbackDone, Returned, medium, Goes, Drained, HandsBack, Parked
  <2> QED BY <1>2, <2>1, <2>2, <2>3, <2>4, <2>5, <2>6, <2>7, <2>8, <2>9, <2>10, <2>11,
        <2>12, <2>13, <2>14, <2>15, <2>16, <2>17, <2>18 DEF Tusb
<1>3. CASE Worker
  <2>1. CASE TakeWrite
    BY <2>1, <1>0 DEF TakeWrite, medium, tasks, Drained, HandsBack, OneCarrier, Carried
  <2>2. CASE BeginWrite
    BY <2>2, <1>0 DEF BeginWrite, medium, tasks, Drained, HandsBack, OneCarrier, Carried
  <2>3. CASE WriteMedium
    BY <2>3, <1>0 DEF WriteMedium, medium, host, tasks, Drained, HandsBack, OneCarrier,
       Carried
  <2>4. CASE Written
    BY <2>4, <1>0 DEF Written, medium, host, tasks, Drained, HandsBack, OneCarrier, Carried
  <2> QED BY <1>3, <2>1, <2>2, <2>3, <2>4 DEF Worker
<1>4. CASE IdleTimer
  BY <1>4, <1>0 DEF IdleTimer, medium, writing, host, tasks, Drained, HandsBack, Parked
<1>5. CASE Lifecycle
  <2>1. CASE RequestMsc
    BY <2>1, <1>0 DEF RequestMsc, Becomes, SameCall, medium, writing, host, Drained,
       HandsBack, Parked
  <2>2. CASE PollStops
    BY <2>2, <1>0 DEF PollStops, Becomes, SameCall, medium, writing, locks, host, Drained,
       HandsBack, Parked
  <2>3. CASE PollStarts
    BY <2>3, <1>0 DEF PollStarts, Becomes, SameCall, medium, writing, locks, host, Drained,
       HandsBack, Parked, TypeOK, TaskTypes, Movers, DriverGone
  <2>4. CASE PollEnables
    BY <2>4, <1>0 DEF PollEnables, Becomes, SameCall, medium, writing, host, Drained,
       HandsBack, Parked, OneCarrier
  <2>5. ASSUME NEW t \in Callers, Enable(t) PROVE Drained'
    BY <2>5, <1>0 DEF Enable, Free, RequestMount, SameCall, medium, writing, Drained,
       HandsBack, OneCarrier, Carried, InPlace, TypeOK, TaskTypes, Movers, Callers, CallJobs,
       PolicyJobs, CallerJobs
  <2>6. ASSUME NEW t \in Callers, EnableDone(t) PROVE Drained'
    BY <2>6, <1>0 DEF EnableDone, Becomes, Returned, medium, writing, host, Goes, Drained,
       HandsBack, Parked
  <2>7. CASE Stop
    BY <2>7, <1>0 DEF Stop, Becomes, SameCall, medium, writing, host, Drained, HandsBack,
       Parked, TypeOK, TaskTypes, Movers
  <2>8. CASE StopIo
    BY <2>8, <1>0 DEF StopIo, Becomes, SameCall, writing, host, Drained, HandsBack, Parked,
       OneCarrier, TypeOK, TaskTypes, Movers
  <2>9. CASE StopBusy
    BY <2>9, <1>0 DEF StopBusy, RequestMount, writing, Drained, HandsBack, Carried, InPlace,
       TypeOK, TaskTypes, Movers, Callers, CallJobs, PolicyJobs, CallerJobs
  <2>10. CASE StopMount
    BY <2>10, <1>0 DEF StopMount, RequestMount, writing, Drained, HandsBack, TypeOK,
       TaskTypes, Movers, Callers
  <2>11. CASE StopMoved
    BY <2>11, <1>0 DEF StopMoved, Becomes, Returned, medium, writing, host, Goes, Held,
       Drained, HandsBack, Parked, TypeOK, TaskTypes, Movers, Callers
  <2>12. CASE Uninstall
    BY <2>12, <1>0 DEF Uninstall, Goes, Becomes, medium, Drained, HandsBack, Parked, TypeOK,
       TaskTypes, Movers
  <2>13. CASE Stopped
    BY <2>13, <1>0 DEF Stopped, Becomes, SameCall, medium, writing, host, Drained, HandsBack,
       Parked
  <2> QED BY <1>5, <2>1, <2>2, <2>3, <2>4, <2>5, <2>6, <2>7, <2>8, <2>9, <2>10, <2>11,
        <2>12, <2>13 DEF Lifecycle
<1>6. ASSUME NEW a \in Apps, AppIo(a) PROVE Drained'
  <2>1. CASE AppBegin(a)
    BY <2>1, <1>0 DEF AppBegin, medium, writing, host, Drained, HandsBack, Parked
  <2>2. CASE AppTake(a)
    BY <2>2, <1>0 DEF AppTake, Free, Held, medium, writing, host, Drained, HandsBack, Parked
  <2>3. CASE AppRecheck(a)
    BY <2>3, <1>0 DEF AppRecheck, medium, writing, host, Drained, HandsBack, Parked
  <2>4. CASE AppEnd(a)
    BY <2>4, <1>0 DEF AppEnd, medium, writing, host, Drained, HandsBack, Parked
  <2> QED BY <1>6, <2>1, <2>2, <2>3, <2>4 DEF AppIo
<1>7. CASE UNCHANGED vars
  BY <1>7, <1>0 DEF vars, medium, writing, host, tasks, Drained, HandsBack, Parked
<1> QED BY <1>1, <1>2, <1>3, <1>4, <1>5, <1>6, <1>7 DEF Next

-----------------------------------------------------------------------------
(* Before the gate opens only the attach event reaches for the medium      *)

\* The TinyUSB task is at the attach event, or no host can reach the medium.
AtAttach ==
    \/ job["tusb"] \in {"attach", "attached"}
    \/ (job["tusb"] \in {"idle", "dead"} /\ ~configured)

\* Before usb_device_request_msc opens the gate no WRITE(10) is accepted or called
\* back.  The medium may stand on the host's side while the TinyUSB task is at the
\* attach event (tud_mount_cb) or no host is configured; the event turns back at
\* the closed gate.
Closed ==
    /\ reserved = 0 /\ ~callbackActive /\ ~exposure /\ ~wasExposed
    /\ job["console"] \notin {"enable", "enabling", "stopBusy", "stopBack"} /\ job["main"] = "idle"
    /\ hostIo => AtAttach
    /\ requested = "USB" => AtAttach
    /\ \A t \in Movers :
          dest[t] = "USB" \/ (requested = "USB" /\ call[t] # "none") =>
             job["tusb"] \in {"attach", "attached"}

\* Steps without a failing call keep Closed until the gate opens.
LEMMA ClosedStep ==
    ASSUME WriteInv, InPlace, Ownership, Untroubled, gate \/ Closed, ~Fails, [Next]_vars
    PROVE  gate' \/ Closed'
<1> TypeOK /\ OneCarrier /\ DriverGone
  BY DEF WriteInv
<1>1. ASSUME NEW t \in Movers, Call(t) PROVE gate' \/ Closed'
  <2>1. CASE Apply(t)
    BY <2>1 DEF Apply, medium, writing, policy, host, Closed, AtAttach, TypeOK, TaskTypes
  <2>2. CASE Check(t)
    BY <2>2 DEF Check, medium, writing, policy, host, Closed, AtAttach, OneCarrier, Carried,
       Untroubled, InPlace, TypeOK, TaskTypes, PolicyTypes, Movers, Callers, CallJobs,
       PolicyJobs, CallerJobs
  <2>3. CASE Start(t)
    BY <2>3 DEF Start, medium, writing, policy, host, Closed, AtAttach
  <2>4. CASE Lock(t)
    BY <2>4 DEF Lock, medium, writing, policy, host, Closed, AtAttach
  <2>5. CASE WorkMount(t)
    BY <2>5 DEF WorkMount, writing, policy, host, Closed, AtAttach
  <2>6. CASE WorkUnmount(t)
    BY <2>6 DEF WorkUnmount, writing, policy, Closed, AtAttach
  <2>7. CASE MountFs(t)
    BY <2>7 DEF MountFs, medium, writing, policy, host, Closed, AtAttach
  <2>8. CASE Event(t)
    BY <2>8 DEF Event, medium, writing, policy, host, Closed, AtAttach
  <2>9. CASE FailEvent(t)
    BY <2>9 DEF FailEvent, Untroubled
  <2>10. CASE Cleanup(t)
    BY <2>10 DEF Cleanup, Untroubled
  <2>11. CASE Final(t)
    BY <2>11 DEF Final, writing, policy, host, Closed, AtAttach, Untroubled, TypeOK,
       TaskTypes, PolicyTypes
  <2> QED BY <1>1, <2>1, <2>2, <2>3, <2>4, <2>5, <2>6, <2>7, <2>8, <2>9, <2>10, <2>11
        DEF Call
<1>2. CASE Tusb
  <2>1. CASE HostWrite
    BY <2>1 DEF HostWrite, TusbIdle, UsbReadable, policy, Closed, AtAttach
  <2>2. CASE Publish
    BY <2>2 DEF Publish, policy, Closed, OneCarrier, Carried
  <2>3. CASE HostRead
    BY <2>3 DEF HostRead, TusbIdle, UsbReadable, policy, Closed, AtAttach
  <2>4. CASE ReadMedium
    BY <2>4 DEF ReadMedium, Becomes, medium, writing, policy, Closed, AtAttach, TypeOK,
       TaskTypes, Movers
  <2>5. CASE Eject
    BY <2>5 DEF Eject, RequestMount, TusbIdle, writing, policy, Closed
  <2>6. CASE EjectDone
    BY <2>6 DEF EjectDone, Becomes, Returned, medium, writing, policy, Closed, AtAttach
  <2>7. CASE Reset
    BY <2>7 DEF Reset, medium, writing, policy, tasks, Closed, AtAttach
  <2>8. CASE Attach
    BY <2>8 DEF Attach, RequestMount, writing, policy, Closed, AtAttach, TypeOK, TaskTypes,
       Movers
  <2>9. CASE Detach
    BY <2>9 DEF Detach, RequestMount, TusbIdle, writing, policy, Closed
  <2>10. CASE MountToDone
    BY <2>10 DEF MountToDone, Becomes, Returned, medium, writing, policy, Closed, AtAttach
  <2>11. CASE Attached
    BY <2>11 DEF Attached, Free, RequestMount, writing, Closed, Untroubled, InPlace, TypeOK,
       TaskTypes, Movers, Callers, CallJobs, PolicyJobs, CallerJobs
  <2>12. CASE Detached
    BY <2>12 DEF Detached, RequestMount, Becomes, medium, writing, Closed, AtAttach, TypeOK,
       TaskTypes, Movers
  <2>13. CASE Restored
    BY <2>13 DEF Restored, Becomes, Returned, medium, writing, policy, Closed, AtAttach,
       TaskTypes
  <2>14. CASE DetachForcesExit
    BY <2>14 DEF DetachForcesExit, Becomes, medium, writing, policy, Closed, AtAttach
  <2>15. CASE CompleteWrite
    BY <2>15 DEF CompleteWrite, policy, Closed, OneCarrier, Carried
  <2>16. CASE ReleaseWrite
    BY <2>16 DEF ReleaseWrite, policy, Closed, OneCarrier, Carried, PolicyTypes
  <2>17. CASE NotifyComplete
    BY <2>17 DEF NotifyComplete, Becomes, medium, writing, policy, Closed, AtAttach
  <2>18. CASE CallbackDone
    BY <2>18 DEF CallbackDone, Becomes, Returned, medium, policy, Closed, AtAttach, Movers
  <2> QED BY <1>2, <2>1, <2>2, <2>3, <2>4, <2>5, <2>6, <2>7, <2>8, <2>9, <2>10, <2>11,
        <2>12, <2>13, <2>14, <2>15, <2>16, <2>17, <2>18 DEF Tusb
<1>3. CASE Worker
  <2>1. CASE TakeWrite
    BY <2>1 DEF TakeWrite, policy, Closed, OneCarrier, Carried, CallJobs, PolicyJobs
  <2>2. CASE BeginWrite
    BY <2>2 DEF BeginWrite, policy, Closed, OneCarrier, Carried
  <2>3. CASE WriteMedium
    BY <2>3 DEF WriteMedium, policy, Closed, OneCarrier, Carried, CallerJobs
  <2>4. CASE Written
    BY <2>4 DEF Written, policy, Closed, OneCarrier, Carried
  <2> QED BY <1>3, <2>1, <2>2, <2>3, <2>4 DEF Worker
<1>4. CASE IdleTimer
  BY <1>4 DEF IdleTimer, medium, writing, policy, host, tasks, Closed, AtAttach
<1>5. CASE Lifecycle
  <2>1. CASE RequestMsc
    BY <2>1 DEF RequestMsc
  <2>2. CASE PollStops
    BY <2>2 DEF PollStops, Becomes, SameCall, medium, writing, policy, host, Closed, AtAttach
  <2>3. CASE PollStarts
    BY <2>3 DEF PollStarts, SameCall, medium, writing, host, Closed, AtAttach, TypeOK,
       TaskTypes, Movers, DriverGone
  <2>4. CASE PollEnables
    BY <2>4 DEF PollEnables, Becomes, writing, policy
  <2>5. ASSUME NEW t \in Callers, Enable(t) PROVE gate' \/ Closed'
    BY <2>5 DEF Enable, Closed, Callers
  <2>6. ASSUME NEW t \in Callers, EnableDone(t) PROVE gate' \/ Closed'
    BY <2>6 DEF EnableDone, Returned, Goes, Closed, Callers
  <2>7. CASE Stop
    BY <2>7 DEF Stop, Becomes, SameCall, medium, writing, host, Closed, AtAttach, TypeOK,
       TaskTypes, Movers
  <2>8. CASE StopIo
    BY <2>8 DEF StopIo, Becomes, SameCall, writing, host, Closed, AtAttach, TypeOK,
       TaskTypes, Movers
  <2>9. CASE StopBusy
    BY <2>9 DEF StopBusy, policy, Closed
  <2>10. CASE StopMount
    BY <2>10 DEF StopMount, RequestMount, writing, policy, Closed
  <2>11. CASE StopMoved
    BY <2>11 DEF StopMoved, Becomes, Returned, medium, writing, host, Closed, AtAttach,
       TypeOK, TaskTypes, Movers
  <2>12. CASE Uninstall
    BY <2>12 DEF Uninstall, Goes, Becomes, policy, Closed, AtAttach, Untroubled, InPlace,
       TypeOK, TaskTypes, Movers, CallJobs
  <2>13. CASE Stopped
    BY <2>13 DEF Stopped, Becomes, SameCall, medium, writing, host, Closed, AtAttach
  <2> QED BY <1>5, <2>1, <2>2, <2>3, <2>4, <2>5, <2>6, <2>7, <2>8, <2>9, <2>10, <2>11,
        <2>12, <2>13 DEF Lifecycle
<1>6. ASSUME NEW a \in Apps, AppIo(a) PROVE gate' \/ Closed'
  <2>1. CASE AppBegin(a)
    BY <2>1 DEF AppBegin, medium, writing, policy, host, Closed, AtAttach
  <2>2. CASE AppTake(a)
    BY <2>2 DEF AppTake, medium, writing, policy, host, Closed, AtAttach, Untroubled
  <2>3. CASE AppRecheck(a)
    BY <2>3 DEF AppRecheck, medium, writing, policy, host, Closed, AtAttach
  <2>4. CASE AppEnd(a)
    BY <2>4 DEF AppEnd, medium, writing, policy, host, Closed, AtAttach
  <2> QED BY <1>6, <2>1, <2>2, <2>3, <2>4 DEF AppIo
<1>7. CASE UNCHANGED vars
  BY <1>7 DEF vars, medium, writing, policy, host, tasks, Closed, AtAttach, TypeOK
<1> QED BY <1>1, <1>2, <1>3, <1>4, <1>5, <1>6, <1>7 DEF Next

-----------------------------------------------------------------------------
(* The two properties together                                             *)

\* The inductive invariant of both properties: what holds always, and what holds
\* as long as no call has failed.
GuardInv ==
    /\ WriteInv /\ Ownership /\ InPlace
    /\ NoFailureYet => Untroubled /\ Drained /\ (gate \/ Closed)

\* It holds at the start ...
LEMMA GuardInit == Init => GuardInv
<1> SUFFICES ASSUME Init PROVE GuardInv
  OBVIOUS
<1>1. WriteInv /\ Ownership
  BY MediumInv
<1>2. InPlace
  BY DEF Init, InPlace, PolicyJobs, TusbJobs, CallerJobs, Movers, Callers
<1>3. Untroubled
  BY DEF Init, Untroubled, Movers
<1>4. Drained
  BY DEF Init, Drained, HandsBack, Movers, Callers
<1>5. Closed
  BY DEF Init, Closed, Movers
<1> QED BY <1>1, <1>2, <1>3, <1>4, <1>5 DEF GuardInv

\* ... and every step keeps it: the parts that hold until a call fails follow
\* from each other's values before the step.
LEMMA GuardStep == GuardInv /\ [Next]_vars => GuardInv'
<1> SUFFICES ASSUME GuardInv, [Next]_vars PROVE GuardInv'
  OBVIOUS
<1>1. WriteInv' /\ Ownership'
  BY MediumInv DEF GuardInv
<1>2. InPlace'
  BY PlaceStep DEF GuardInv, WriteInv
<1>3. ASSUME NoFailureYet' PROVE Untroubled' /\ Drained' /\ (gate \/ Closed)'
  <2>1. TypeOK /\ WriteInv /\ Ownership /\ InPlace
    BY DEF GuardInv, WriteInv
  <2>2. NoFailureYet /\ ~Fails
    BY <1>3, <2>1, StillNoFailure
  <2>3. Untroubled /\ Drained /\ (gate \/ Closed)
    BY <2>2 DEF GuardInv
  <2> QED BY <2>1, <2>2, <2>3, SmoothStep, DrainedStep, ClosedStep
<1> QED BY <1>1, <1>2, <1>3 DEF GuardInv

\* An accepted WRITE(10) is drained before the medium changes hands and its
\* host is answered, whatever eject, attach, detach, enable and stop do
\* meanwhile: deffered_writes in msc_storage_request_mount and
\* msc_storage_apply_requested_mount holds back every mount.
THEOREM WriteAlwaysKept == Spec => []WriteKept
<1>1. GuardInv => DrainBeforeHandover
  BY DEF GuardInv, DrainBeforeHandover, Drained
<1>2. GuardInv => HostIsAnswered
  BY DEF GuardInv, WriteInv, OneCarrier, HostIsAnswered
<1>3. DrainBeforeHandover /\ HostIsAnswered => WriteKept
  BY DEF WriteKept
<1> QED BY <1>1, <1>2, <1>3, GuardInit, GuardStep, PTL DEF Spec

\* Until a call fails: while a task of the application is inside
\* usb_device_storage_begin_app_io / end_app_io the medium is mounted for it and
\* no host sector is written; between two events of the TinyUSB task a configured
\* host can read the medium only once usb_device_request_msc has opened the gate
\* (tud_mount_cb hands it over earlier, the attach event takes it back); and no
\* task gives back another's storage_io_mutex.
THEOREM MediumAlwaysGuarded == Spec => []MediumGuarded
<1>1. GuardInv => FatExclusive
  <2> SUFFICES ASSUME GuardInv, NoFailureYet, NEW a \in Apps, app[a] = "io"
               PROVE  mountPoint = "APP" /\ bound /\ wpc # "write"
    BY DEF FatExclusive
  <2>1. mountPoint = "APP" /\ bound
    BY DEF GuardInv, Ownership, AppIoIsMounted, Untroubled
  <2>2. reserved = 0
    BY <2>1 DEF GuardInv, Drained
  <2>3. wpc = "idle"
    BY <2>2 DEF GuardInv, WriteInv, OneCarrier, Carried
  <2> QED BY <2>1, <2>3
<1>2. GuardInv => GateKept
  BY DEF GuardInv, GateKept, Closed, AtAttach, TusbIdle, UsbReadable
<1>3. GuardInv => NoForeignGive
  BY DEF GuardInv, NoForeignGive, Untroubled
<1>4. FatExclusive /\ GateKept /\ NoForeignGive => MediumGuarded
  BY DEF MediumGuarded
<1> QED BY <1>1, <1>2, <1>3, <1>4, GuardInit, GuardStep, PTL DEF Spec

=============================================================================
