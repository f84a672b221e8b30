------------------------- MODULE SensorWorkerProofs -------------------------
(***************************************************************************)
(* Safety of SensorWorker for every error limit, number of calibration     *)
(* samples and of warm-up samples, every capacity of the sample buffer,    *)
(* and any number of interrupts and of failed releases: the types, the     *)
(* truth of what the other tasks are told, the finality of a skip, and the *)
(* refinement of SampleFifo.                                               *)
(***************************************************************************)
EXTENDS SensorWorker, FiniteSetTheorems, TLAPS

-----------------------------------------------------------------------------
(* The inductive invariant                                                 *)

\* sensor_task_state_t: the record's parts, and the record.
Device == [ready : BOOLEAN, irq : Nat, errs : Nat, wait : BOOLEAN]
Controller ==
    [persisted : BOOLEAN, skipped : BOOLEAN, pending : BOOLEAN, wait : BOOLEAN, n : Nat]
Filter == [warm : 0 .. Warmup, accel : BOOLEAN, init : BOOLEAN, t : Nat]
Result == [pressure : BOOLEAN, estimate : BOOLEAN, fused : BOOLEAN,
           imuCal : BOOLEAN, imuStale : BOOLEAN, vert : BOOLEAN]
TaskState ==
    [bmp : Device, imu : Device, timeout : BOOLEAN, cfg : BOOLEAN, fusion : BOOLEAN,
     ctl : Controller, est : Filter, res : Result, dirty : BOOLEAN, started : BOOLEAN,
     quiesced : BOOLEAN]
\* What a driver owns, and the sample buffer.
Handle == [dev : BOOLEAN, isr : BOOLEAN, irq : Nat]
Ring == [slot : [0 .. Capacity - 1 -> Nat], head : 0 .. Capacity - 1, count : 0 .. Capacity]

\* A pass up to the barometer's start, and after it.
EarlyPCs == {"take1", "take2", "skip", "bus", "imu", "bmp"}
LatePCs == {"take3", "take4", "config", "readImu", "readBmp", "drain", "save", "stale",
            "recover", "publish", "top"}
PCs == EarlyPCs \cup LatePCs \cup {"fatal", "gone"}

\* The type invariant.
TypeOK ==
    /\ pc \in PCs
    /\ drv \in [Devices -> Handle]
    /\ bus \in BOOLEAN /\ file \in BOOLEAN
    /\ s \in TaskState /\ seen \in Result
    /\ ring \in Ring
    /\ cutoff \in Nat /\ clock \in 0 .. MaxTime /\ faults \in 0 .. MaxFaults

\* The task is in its loop, neither halted nor gone.
Works == pc \notin {"fatal", "gone"}
\* A result promises only what a device that is ready backs.
Backed(r) ==
    /\ r.estimate \/ r.pressure => s.bmp.ready
    /\ r.fused => s.imu.ready /\ s.ctl.persisted

\* A barometer that is ready has its bus.
BusThereFor == (s.bmp.ready => bus) /\ (pc \in {"imu", "bmp"} => bus)
\* A skipped IMU stays off, and one that is ready is not reported degraded.
ImuTold == (s.ctl.skipped => ~s.imu.ready) /\ (Works /\ s.imu.ready => "DEGRADED" \notin bits)
\* In storage mode both devices are absent and nothing is reported.
Idle ==
    s.quiesced => /\ pc \in {"top", "fatal", "gone"}
                  /\ s.bmp = Absent /\ s.imu = Absent
                  /\ "RECOVERING" \notin bits
\* A barometer that waits for its next start is reported as being recovered, one
\* that is ready is not, and after the start of a pass it is one of the two.
BmpTold ==
    Works /\ ~s.quiesced =>
        /\ "RECOVERING" \in bits => ~s.bmp.ready
        /\ s.bmp.wait => "RECOVERING" \in bits
        /\ pc \in LatePCs => s.bmp.ready \/ "RECOVERING" \in bits
\* The result in preparation, and a batch only while the barometer is ready.
ResultBacked ==
    Works => /\ Backed(s.res)
             /\ s.res.imuCal => s.ctl.persisted
             /\ pc = "drain" => s.bmp.ready
\* After storage mode the published result may still be the one from before it,
\* until the pass has tried to start the barometer.
Fresh == pc \in EarlyPCs /\ ~s.bmp.ready /\ ~s.bmp.wait
\* The published result is true unless a newer one waits to be published.
SeenBacked == Works /\ ~s.quiesced => s.dirty \/ Backed(seen) \/ Fresh

\* The inductive invariant of WhatIsTold and SkipIsFinal.
ToldInv == /\ TypeOK /\ PhaseTold /\ BusThereFor /\ ImuTold /\ Idle /\ BmpTold
           /\ ResultBacked /\ SeenBacked

-----------------------------------------------------------------------------
(* Types                                                                   *)

\* The constants of the model have their types.
LEMMA StartValues ==
    /\ EstReset \in Filter /\ NoResult \in Result
    /\ Absent \in Device /\ Failed \in Device /\ Online \in Device
    /\ ~Absent.ready /\ ~Absent.wait /\ Absent.irq = 0
    /\ ~Failed.ready /\ Failed.wait /\ Failed.irq = 0
    /\ Online.ready /\ ~Online.wait /\ Online.irq = 0
<1>1. 0 \in 0 .. Warmup
  BY LimitsAssumption
<1>2. EstReset \in Filter
  BY <1>1 DEF EstReset, Filter
<1>3. NoResult \in Result
  BY DEF NoResult, Result
<1>4. Absent \in Device /\ ~Absent.ready /\ ~Absent.wait /\ Absent.irq = 0
  BY DEF Absent, Device
<1>5. Failed \in Device /\ ~Failed.ready /\ Failed.wait /\ Failed.irq = 0
  BY <1>4 DEF Failed, Device
<1>6. Online \in Device /\ Online.ready /\ ~Online.wait /\ Online.irq = 0
  BY <1>4 DEF Online, Device
<1> QED BY <1>2, <1>3, <1>4, <1>5, <1>6

\* The operators on the parts of the state keep their types.
LEMMA NoMotionType ==
    ASSUME NEW r \in Result, NEW stale \in BOOLEAN PROVE NoMotion(r, stale) \in Result
BY DEF NoMotion, Result

LEMMA ControllerType ==
    ASSUME NEW c \in Controller
    PROVE  /\ ResetCollection(c) \in Controller /\ RequestSkip(c) \in Controller
           /\ SaveSucceeded(c) \in Controller /\ SaveFailed(c) \in Controller
           /\ \A class \in SampleClass, fits \in BOOLEAN : Collect(c, class, fits) \in Controller
<1>1. ResetCollection(c) \in Controller /\ RequestSkip(c) \in Controller
  BY DEF ResetCollection, RequestSkip, Controller
<1>2. SaveSucceeded(c) \in Controller /\ SaveFailed(c) \in Controller
  BY DEF SaveSucceeded, SaveFailed, Controller
<1>3. ASSUME NEW class \in SampleClass, NEW fits \in BOOLEAN
      PROVE  Collect(c, class, fits) \in Controller
  <2>1. CalSamples \in Nat
    BY LimitsAssumption
  <2>2. \A n \in Nat : [c EXCEPT !.n = n] \in Controller
    BY DEF Controller
  <2>3. c.n + 1 \in Nat
    BY DEF Controller
  <2>4. [c EXCEPT !.n = CalSamples, !.pending = TRUE, !.wait = FALSE] \in Controller
    BY <2>1 DEF Controller
  <2>5. \/ Collect(c, class, fits) = c
        \/ Collect(c, class, fits) = [c EXCEPT !.n = 0]
        \/ Collect(c, class, fits) = [c EXCEPT !.n = c.n + 1]
        \/ Collect(c, class, fits) = [c EXCEPT !.n = CalSamples, !.pending = TRUE, !.wait = FALSE]
    BY DEF Collect
  <2> QED BY <2>2, <2>3, <2>4, <2>5
<1> QED BY <1>1, <1>2, <1>3

LEMMA FilterType ==
    ASSUME NEW e \in Filter
    PROVE  /\ DisableFusion(e) \in Filter
           /\ \A t \in Nat : UpdateImu(e, t) \in Filter
<1>1. 0 \in 0 .. Warmup
  BY LimitsAssumption
<1> QED BY <1>1 DEF DisableFusion, UpdateImu, EstReset, Filter

\* So do those on the whole of it.
LEMMA InvalidateEstimateType ==
    ASSUME NEW st \in TaskState PROVE InvalidateEstimate(st) \in TaskState
<1> DEFINE r == [st.res EXCEPT !.pressure = FALSE, !.estimate = FALSE]
<1>1. r \in Result
  BY DEF TaskState, Result
<1>2. InvalidateEstimate(st) = [st EXCEPT !.res = r, !.est = EstReset]
  BY DEF InvalidateEstimate, TaskState, Result
<1> HIDE DEF r
<1> QED BY <1>1, <1>2, StartValues DEF TaskState

LEMMA InvalidateImuType ==
    ASSUME NEW st \in TaskState, NEW stale \in BOOLEAN
    PROVE  InvalidateImu(st, stale) \in TaskState
<1>1. /\ NoMotion(st.res, stale) \in Result
      /\ ResetCollection(st.ctl) \in Controller
      /\ DisableFusion(st.est) \in Filter
  BY NoMotionType, ControllerType, FilterType DEF TaskState
<1> QED BY <1>1, StartValues DEF TaskState, InvalidateImu

LEMMA OfflineBmpType ==
    ASSUME NEW st \in TaskState PROVE OfflineBmp(st) \in TaskState
<1> DEFINE x == InvalidateEstimate(st)
<1>1. x \in TaskState
  BY InvalidateEstimateType
<1>2. OfflineBmp(st) = [x EXCEPT !.bmp = Failed]
  BY DEF OfflineBmp
<1> HIDE DEF x
<1> QED BY <1>1, <1>2, StartValues DEF TaskState

LEMMA RestartFusionType ==
    ASSUME NEW st \in TaskState PROVE RestartFusion(st) \in TaskState
<1>1. NoMotion(st.res, st.res.imuStale) \in Result /\ DisableFusion(st.est) \in Filter
  BY NoMotionType, FilterType DEF TaskState, Result
<1> QED BY <1>1 DEF TaskState, RestartFusion

\* The operations of imu_sample_buffer.c keep the ring a ring.
LEMMA RingType ==
    ASSUME NEW r \in Ring
    PROVE  /\ EmptyRing \in Ring /\ ClearRing(r) \in Ring
           /\ r.count > 0 => DropOldest(r) \in Ring /\ Oldest(r) \in Nat
           /\ \A t \in Nat : PushSample(r, t) \in Ring
<1>0. 0 \in 0 .. Capacity - 1 /\ 0 \in 0 .. Capacity /\ Capacity \in Nat /\ Capacity > 0
  BY CapacityAssumption
<1>1. EmptyRing \in Ring /\ ClearRing(r) \in Ring
  BY <1>0 DEF EmptyRing, ClearRing, Ring
<1>2. \A a \in Nat : a % Capacity \in 0 .. Capacity - 1
  BY CapacityAssumption
<1>3. ASSUME r.count > 0 PROVE DropOldest(r) \in Ring /\ Oldest(r) \in Nat
  <2>1. (r.head + 1) % Capacity \in 0 .. Capacity - 1 /\ r.count - 1 \in 0 .. Capacity
    BY <1>0, <1>2, <1>3 DEF Ring
  <2> QED BY <2>1 DEF DropOldest, Oldest, Ring
<1>4. ASSUME NEW t \in Nat PROVE PushSample(r, t) \in Ring
  <2> DEFINE q == IF r.count = Capacity THEN DropOldest(r) ELSE r
  <2>1. q \in Ring /\ q.count + 1 \in 0 .. Capacity
    <3>1. CASE r.count = Capacity
      BY <1>0, <1>3, <3>1 DEF DropOldest, Ring
    <3>2. CASE r.count # Capacity
      BY <1>0, <3>2 DEF Ring
    <3> QED BY <3>1, <3>2
  <2>2. PushSample(r, t) = [q EXCEPT !.slot = [q.slot EXCEPT ![SlotOf(q, q.count)] = t],
                                     !.count = q.count + 1]
    BY <2>1 DEF PushSample, Ring
  <2> HIDE DEF q
  <2>3. SlotOf(q, q.count) \in 0 .. Capacity - 1
    <3>1. q.head + q.count \in Nat
      BY <1>0, <2>1 DEF Ring
    <3> QED BY <1>2, <3>1 DEF SlotOf
  <2>4. [q.slot EXCEPT ![SlotOf(q, q.count)] = t] \in [0 .. Capacity - 1 -> Nat]
    BY <2>1, <2>3 DEF Ring
  <2> QED BY <2>1, <2>2, <2>4 DEF Ring
<1> QED BY <1>1, <1>3, <1>4

\* Releasing or starting a driver brings no interrupt.
LEMMA ReleaseType ==
    ASSUME TypeOK, NEW D \in SUBSET Devices, Release(D)
    PROVE  /\ drv' \in [Devices -> Handle] /\ faults' \in 0 .. MaxFaults
           /\ \A d \in Devices : drv'[d].irq \in {0, drv[d].irq}
<1>1. PICK left \in [D -> Leftovers] :
          /\ drv' = [d \in Devices |-> IF d \in D THEN left[d] ELSE drv[d]]
          /\ faults' = faults + Cardinality({d \in D : left[d] # NoDevice})
          /\ faults' <= MaxFaults
  BY DEF Release
<1>2. Cardinality({d \in D : left[d] # NoDevice}) \in Nat
  <2>1. IsFiniteSet(Devices)
    <3>1. IsFiniteSet({} \cup {"bmp"})
      BY FS_EmptySet, FS_AddElement
    <3>2. IsFiniteSet(({} \cup {"bmp"}) \cup {"imu"})
      BY <3>1, FS_AddElement
    <3>3. ({} \cup {"bmp"}) \cup {"imu"} = Devices
      BY DEF Devices
    <3> QED BY <3>2, <3>3
  <2> QED BY <2>1, FS_Subset, FS_CardinalityType
<1>3. \A d \in D : left[d] \in Handle /\ left[d].irq = 0
  BY DEF Leftovers, Handle
<1> QED BY <1>1, <1>2, <1>3, LimitsAssumption DEF TypeOK

LEMMA StartType ==
    ASSUME TypeOK, NEW d \in Devices, StartFails(d) \/ StartWorks(d)
    PROVE  /\ drv' \in [Devices -> Handle] /\ faults' \in 0 .. MaxFaults
           /\ \A e \in Devices : drv'[e].irq \in {0, drv[e].irq}
<1>1. CASE StartFails(d)
  BY <1>1, LimitsAssumption DEF StartFails, TypeOK, Leftovers, Handle
<1>2. CASE StartWorks(d)
  BY <1>2 DEF StartWorks, TypeOK, Handle
<1> QED BY <1>1, <1>2

\* One lemma per action: it keeps the types.
LEMMA TypeQuiet == TypeOK /\ (\/ NoSkip \/ BeginPass \/ BusNotDue \/ BusThere \/ ImuNotTried
      \/ BmpNotTried \/ KeepConfig \/ SaveNotDue \/ NoRecovery \/ EndPassQuietly) => TypeOK'
<1> SUFFICES ASSUME TypeOK, (\/ NoSkip \/ BeginPass \/ BusNotDue \/ BusThere \/ ImuNotTried
      \/ BmpNotTried \/ KeepConfig \/ SaveNotDue \/ NoRecovery \/ EndPassQuietly) PROVE TypeOK'
  OBVIOUS
<1> QED
  BY DEF NoSkip, BeginPass, BusNotDue, BusThere, ImuNotTried, BmpNotTried, KeepConfig,
     SaveNotDue, NoRecovery, EndPassQuietly, TypeOK, outside, hardware, samples, Go, PCs,
     EarlyPCs, LatePCs

LEMMA TypeNothingServed ==
    TypeOK /\ (\E d \in Devices, from, to \in PCs : NothingServed(d, from, to)) => TypeOK'
<1> SUFFICES ASSUME TypeOK, (\E d \in Devices, from, to \in PCs : NothingServed(d, from,
to)) PROVE TypeOK'
  OBVIOUS
<1> QED
  BY DEF NothingServed, TypeOK, outside, hardware, samples, Go

LEMMA TypeInterrupt == TypeOK /\ (\E d \in Devices : Interrupt(d)) => TypeOK'
<1> SUFFICES ASSUME TypeOK, (\E d \in Devices : Interrupt(d)) PROVE TypeOK'
  OBVIOUS
<1>1. clock' \in 0 .. MaxTime
  BY LimitsAssumption DEF Interrupt, TypeOK
<1>2. drv' \in [Devices -> Handle]
  BY <1>1 DEF Interrupt, TypeOK, Handle
<1> QED
  BY <1>1, <1>2 DEF Interrupt, TypeOK, outside, samples

LEMMA TypeOthers == TypeOK /\ (HoldSw3 \/ StorageMode \/ RequestStop) => TypeOK'
<1> SUFFICES ASSUME TypeOK, (HoldSw3 \/ StorageMode \/ RequestStop) PROVE TypeOK'
  OBVIOUS
<1> QED
  BY DEF HoldSw3, StorageMode, RequestStop, TypeOK, hardware, samples

LEMMA TypeStop == TypeOK /\ (Stop \/ Fatal) => TypeOK'
<1> SUFFICES ASSUME TypeOK, (Stop \/ Fatal) PROVE TypeOK'
  OBVIOUS
<1>1. drv' \in [Devices -> Handle] /\ faults' \in 0 .. MaxFaults
  BY ReleaseType DEF Stop, Fatal
<1> QED
  BY <1>1 DEF Stop, Fatal, TypeOK, outside, samples, Go, PCs

LEMMA TypeEnterStorage == TypeOK /\ EnterStorage => TypeOK'
<1> SUFFICES ASSUME TypeOK, EnterStorage PROVE TypeOK'
  OBVIOUS
<1>1. drv' \in [Devices -> Handle] /\ faults' \in 0 .. MaxFaults
  BY ReleaseType DEF EnterStorage
<1>2. bus' \in BOOLEAN
  BY DEF EnterStorage, DeinitBus
<1>3. InvalidateEstimate(s) \in TaskState
  BY InvalidateEstimateType DEF TypeOK
<1>4. NoMotion(InvalidateEstimate(s).res, FALSE) \in Result
  BY <1>3, NoMotionType DEF TaskState
<1>5. s' \in TaskState
  BY <1>3, <1>4, StartValues DEF EnterStorage, TaskState
<1>6. seen' \in Result
  BY <1>5 DEF EnterStorage, TypeOK, TaskState
<1>7. ring' \in Ring
  BY RingType DEF EnterStorage, TypeOK
<1> QED
  BY <1>1, <1>2, <1>3, <1>4, <1>5, <1>6, <1>7 DEF EnterStorage, TypeOK

LEMMA TypeLeaveStorage == TypeOK /\ LeaveStorage => TypeOK'
<1> SUFFICES ASSUME TypeOK, LeaveStorage PROVE TypeOK'
  OBVIOUS
<1>1. s' \in TaskState
  BY StartValues DEF LeaveStorage, TypeOK, TaskState
<1>2. ring' \in Ring
  BY RingType DEF LeaveStorage, TypeOK
<1> QED
  BY <1>1, <1>2 DEF LeaveStorage, TypeOK, hardware, Go, PCs, EarlyPCs

LEMMA TypeCollects == TypeOK /\ Collects => TypeOK'
<1> SUFFICES ASSUME TypeOK, Collects PROVE TypeOK'
  OBVIOUS
<1>1. \A d \in Devices : /\ [s[d] EXCEPT !.irq = drv[d].irq] \in Device
                           /\ [drv[d] EXCEPT !.irq = 0] \in Handle
  BY DEF TypeOK, TaskState, Devices, Device, Handle
<1>2. \A d \in Devices, from, to \in PCs : Take(d, from, to) =>
          s' \in TaskState /\ drv' \in [Devices -> Handle]
  BY <1>1 DEF Take, TypeOK, TaskState, Devices
<1>3. s' \in TaskState /\ drv' \in [Devices -> Handle]
  BY <1>2 DEF Collects, Devices, PCs, EarlyPCs, LatePCs
<1> QED
  BY <1>1, <1>2, <1>3 DEF Collects, Take, TypeOK, outside, samples, Go, PCs, EarlyPCs,
     LatePCs

LEMMA TypeHandleSkip == TypeOK /\ HandleSkip => TypeOK'
<1> SUFFICES ASSUME TypeOK, HandleSkip PROVE TypeOK'
  OBVIOUS
<1>1. drv' \in [Devices -> Handle] /\ faults' \in 0 .. MaxFaults
  BY ReleaseType DEF HandleSkip, TypeOK, Devices
<1>2. [s.imu EXCEPT !.ready = FALSE, !.irq = 0] \in Device
  BY DEF TypeOK, TaskState, Device
<1>3. /\ RequestSkip(s.ctl) \in Controller /\ DisableFusion(s.est) \in Filter
      /\ NoMotion(s.res, TRUE) \in Result
  BY ControllerType, FilterType, NoMotionType DEF TypeOK, TaskState
<1>4. s' \in TaskState
  BY <1>2, <1>3 DEF HandleSkip, TypeOK, TaskState
<1>5. ring' \in Ring
  BY RingType DEF HandleSkip, TypeOK
<1> QED
  BY <1>1, <1>2, <1>3, <1>4, <1>5 DEF HandleSkip, TypeOK, Go, PCs, EarlyPCs

LEMMA TypeInitBus == TypeOK /\ InitBus => TypeOK'
<1> SUFFICES ASSUME TypeOK, InitBus PROVE TypeOK'
  OBVIOUS
<1>1. [s.bmp EXCEPT !.wait = TRUE] \in Device
  BY DEF TypeOK, TaskState, Device
<1>2. s' \in TaskState
  BY <1>1 DEF InitBus, TypeOK, TaskState
<1> QED
  BY <1>1, <1>2 DEF InitBus, TypeOK, samples, PCs, EarlyPCs, LatePCs

LEMMA TypeInitImu == TypeOK /\ InitImu => TypeOK'
<1> SUFFICES ASSUME TypeOK, InitImu PROVE TypeOK'
  OBVIOUS
<1>1. drv' \in [Devices -> Handle] /\ faults' \in 0 .. MaxFaults
  BY StartType DEF InitImu, TypeOK, Devices
<1>2. [s.res EXCEPT !.imuStale = FALSE] \in Result /\ DisableFusion(s.est) \in Filter
  BY FilterType DEF TypeOK, TaskState, Result
<1>3. s' \in TaskState
  BY <1>2, StartValues DEF InitImu, TypeOK, TaskState
<1> QED
  BY <1>1, <1>2, <1>3 DEF InitImu, TypeOK, samples, Go, PCs, EarlyPCs

LEMMA TypeInitImuFails == TypeOK /\ InitImuFails => TypeOK'
<1> SUFFICES ASSUME TypeOK, InitImuFails PROVE TypeOK'
  OBVIOUS
<1>1. drv' \in [Devices -> Handle] /\ faults' \in 0 .. MaxFaults
  BY StartType DEF InitImuFails, TypeOK, Devices
<1>2. [s.imu EXCEPT !.wait = TRUE] \in Device /\ NoMotion(s.res, TRUE) \in Result
  BY NoMotionType DEF TypeOK, TaskState, Device
<1>3. s' \in TaskState
  BY <1>2 DEF InitImuFails, TypeOK, TaskState
<1> QED
  BY <1>1, <1>2, <1>3 DEF InitImuFails, TypeOK, samples, Go, PCs, EarlyPCs

LEMMA TypeInitBmp == TypeOK /\ InitBmp => TypeOK'
<1> SUFFICES ASSUME TypeOK, InitBmp PROVE TypeOK'
  OBVIOUS
<1>1. drv' \in [Devices -> Handle] /\ faults' \in 0 .. MaxFaults
  BY StartType DEF InitBmp, Devices
<1>2. s' \in TaskState
  BY StartValues DEF InitBmp, TypeOK, TaskState
<1>3. ring' \in Ring
  BY RingType DEF InitBmp, TypeOK
<1> QED
  BY <1>1, <1>2, <1>3 DEF InitBmp, TypeOK, Go, PCs, LatePCs

LEMMA TypeInitBmpFails == TypeOK /\ InitBmpFails => TypeOK'
<1> SUFFICES ASSUME TypeOK, InitBmpFails PROVE TypeOK'
  OBVIOUS
<1>1. drv' \in [Devices -> Handle] /\ faults' \in 0 .. MaxFaults
  BY StartType DEF InitBmpFails, Devices
<1>2. s' \in TaskState
  BY StartValues DEF InitBmpFails, TypeOK, TaskState
<1> QED
  BY <1>1, <1>2 DEF InitBmpFails, TypeOK, samples, Go, PCs, LatePCs

LEMMA TypeRefreshConfig == TypeOK /\ RefreshConfig => TypeOK'
<1> SUFFICES ASSUME TypeOK, RefreshConfig PROVE TypeOK'
  OBVIOUS
<1>1. s' \in TaskState
  BY RestartFusionType DEF RefreshConfig, TypeOK
<1>2. ring' \in Ring
  BY RingType DEF RefreshConfig, TypeOK
<1> QED
  BY <1>1, <1>2 DEF RefreshConfig, TypeOK, hardware, Go, PCs, LatePCs

\* Serving an interrupt and recording an error keep the state's type.
LEMMA ServeType ==
    ASSUME s \in TaskState, NEW d \in Devices
    PROVE  /\ Serve(d) \in TaskState
           /\ \A how : RecordError(d, how) \in TaskState
<1>1. s[d] \in Device /\ [s[d] EXCEPT !.irq = 0] \in Device
  BY DEF TaskState, Device, Devices
<1>2. Serve(d) = [s EXCEPT ![d] = [s[d] EXCEPT !.irq = 0]]
  BY DEF Serve
<1>3. Serve(d) \in TaskState
  BY <1>1, <1>2 DEF TaskState, Devices
<1>4. ASSUME NEW how PROVE RecordError(d, how) \in TaskState
  <2> DEFINE x == Serve(d)
             y == [x[d] EXCEPT !.errs = @ + 1]
  <2>1. y \in Device
    BY <1>3 DEF TaskState, Device, Devices
  <2>2. RecordError(d, how) = [x EXCEPT ![d] = y, !.dirty = TRUE,
  !.timeout = x.timeout \/ how = "timeout"]
    BY DEF RecordError
  <2>3. (x.timeout \/ how = "timeout") \in BOOLEAN
    OBVIOUS
  <2>4. x \in TaskState
    BY <1>3
  <2> HIDE DEF x
  <2> QED BY <2>1, <2>2, <2>3, <2>4 DEF TaskState, Devices
<1> QED BY <1>3, <1>4

LEMMA TypeMeasureImu == TypeOK /\ MeasureImu => TypeOK'
<1> SUFFICES ASSUME TypeOK, MeasureImu PROVE TypeOK'
  OBVIOUS
<1>1. /\ s \in TaskState /\ ring \in Ring /\ s.imu.irq \in Nat
      /\ Serve("imu") \in TaskState /\ \A how : RecordError("imu", how) \in TaskState
  BY ServeType DEF TypeOK, TaskState, Device, Devices
<1>2. CASE ImuSample
  <2>1. [Serve("imu").imu EXCEPT !.errs = 0] \in Device
    BY <1>1 DEF TaskState, Device
  <2>2. [Serve("imu").res EXCEPT !.imuStale = FALSE] \in Result
    BY <1>1 DEF TaskState, Result
  <2>3. s' \in TaskState
    BY <1>1, <1>2, <2>1, <2>2 DEF ImuSample, TaskState
  <2>4. ring' \in Ring
    BY <1>1, <1>2, RingType DEF ImuSample
  <2> QED BY <1>2, <2>3, <2>4 DEF MeasureImu, ImuSample, Go, TypeOK, PCs, EarlyPCs, LatePCs
<1>3. CASE s' = Serve("imu") /\ UNCHANGED <<drv, faults, ring, bits>>
  BY <1>1, <1>3 DEF MeasureImu, Go, TypeOK, PCs, EarlyPCs, LatePCs
<1>4. ASSUME NEW how \in Errors, ImuError(how) PROVE TypeOK'
  <2>1. s' \in TaskState
    BY <1>1, <1>4, InvalidateImuType DEF ImuError
  <2>2. ring' \in Ring
    BY <1>1, <1>4, RingType DEF ImuError
  <2>3. drv' \in [Devices -> Handle] /\ faults' \in 0 .. MaxFaults
    BY <1>4, ReleaseType DEF ImuError, Devices, TypeOK
  <2> QED BY <2>1, <2>2, <2>3 DEF MeasureImu, Go, TypeOK, PCs, EarlyPCs, LatePCs
<1> QED BY <1>2, <1>3, <1>4 DEF MeasureImu

LEMMA TypeMeasureBmp == TypeOK /\ MeasureBmp => TypeOK'
<1> SUFFICES ASSUME TypeOK, MeasureBmp PROVE TypeOK'
  OBVIOUS
<1>1. /\ s \in TaskState /\ ring \in Ring /\ s.bmp.irq \in Nat
      /\ Serve("bmp") \in TaskState /\ \A how : RecordError("bmp", how) \in TaskState
  BY ServeType DEF TypeOK, TaskState, Device, Devices
<1>2. pc' \in PCs
  BY DEF MeasureBmp, PCs, EarlyPCs, LatePCs
<1>3. ASSUME NEW valid \in BOOLEAN, BmpSample(valid) PROVE TypeOK'
  <2>1. [Serve("bmp").bmp EXCEPT !.errs = 0] \in Device
    BY <1>1 DEF TaskState, Device
  <2>2. \A b \in BOOLEAN : [Serve("bmp").res EXCEPT !.pressure = b] \in Result
    BY <1>1 DEF TaskState, Result
  <2>3. (Serve("bmp").res.pressure \/ valid) \in BOOLEAN
    OBVIOUS
  <2>4. s' \in TaskState
    BY <1>1, <1>3, <2>1, <2>2, <2>3 DEF BmpSample, TaskState
  <2> QED BY <1>1, <1>2, <1>3, <2>4 DEF MeasureBmp, BmpSample, TypeOK
<1>4. CASE s' = Serve("bmp") /\ UNCHANGED <<drv, faults, samples, bits>>
  BY <1>1, <1>2, <1>4 DEF MeasureBmp, TypeOK, samples
<1>5. ASSUME NEW how \in Errors, BmpError(how) PROVE TypeOK'
  <2>1. s' \in TaskState
    BY <1>1, <1>5, OfflineBmpType DEF BmpError
  <2>2. ring' \in Ring
    BY <1>1, <1>5, RingType DEF BmpError
  <2>3. drv' \in [Devices -> Handle] /\ faults' \in 0 .. MaxFaults
    BY <1>5, ReleaseType DEF BmpError, Devices, TypeOK
  <2> QED BY <1>2, <1>5, <2>1, <2>2, <2>3 DEF MeasureBmp, BmpError, TypeOK
<1> QED BY <1>3, <1>4, <1>5 DEF MeasureBmp

\* The steps of the fusion and of the calibration do, too.
LEMMA FuseType ==
    ASSUME NEW st \in TaskState, NEW t \in Nat, NEW class \in SampleClass, NEW auto \in BOOLEAN
    PROVE  Fuse(st, t, class, auto) \in TaskState
<1> DEFINE used == AcceptsImu(st.est, t, class = "still")
           r(a, b) == [st.res EXCEPT !.imuCal = a, !.vert = b]
<1>1. DisableFusion(st.est) \in Filter /\ UpdateImu(st.est, t) \in Filter
  BY FilterType DEF TaskState
<1>2. \A a, b \in BOOLEAN : r(a, b) \in Result
  BY DEF TaskState, Result
<1>3. used \in BOOLEAN /\ (class = "still") \in BOOLEAN /\ (~auto \/ used) \in BOOLEAN
  BY DEF AcceptsImu
<1>4. CASE ~st.fusion
  <2>1. Fuse(st, t, class, auto) = [st EXCEPT !.fusion = (class = "still"),
  !.est = DisableFusion(st.est),
                                              !.res = r(class = "still", FALSE)]
    BY <1>4 DEF Fuse, TaskState, Result
  <2> HIDE DEF r
  <2> QED BY <1>1, <1>2, <1>3, <2>1 DEF TaskState
<1>5. CASE st.fusion
  <2>1. Fuse(st, t, class, auto) =
          [st EXCEPT !.res = r(TRUE, ~auto \/ used),
                     !.est = IF auto /\ used THEN UpdateImu(st.est, t) ELSE DisableFusion(st.est)]
    BY <1>5 DEF Fuse, TaskState, Result
  <2> HIDE DEF r, used
  <2> QED BY <1>1, <1>2, <1>3, <2>1 DEF TaskState
<1> QED BY <1>4, <1>5 DEF TaskState

LEMMA CalibrateType ==
    ASSUME NEW st \in TaskState, NEW class \in SampleClass, NEW fits \in BOOLEAN
    PROVE  Calibrate(st, class, fits) \in TaskState
<1>1. Collect(st.ctl, class, fits) \in Controller /\ NoMotion(st.res, st.res.imuStale) \in Result
  BY ControllerType, NoMotionType DEF TaskState, Result
<1> QED BY <1>1 DEF Calibrate, TaskState

LEMMA TypeDrain == TypeOK /\ Drain => TypeOK'
<1> SUFFICES ASSUME TypeOK, NEW class \in SampleClass, NEW either \in BOOLEAN,
                    ring.count > 0, UNCHANGED <<pc, file, seen, hardware, cutoff>>,
                    s' = IF ~s.ctl.persisted THEN Calibrate(s, class, either)
                         ELSE IF class = "bad" THEN RestartFusion(s)
                         ELSE Fuse(s, Oldest(ring), class, either),
                    ring' = IF s.ctl.persisted /\ class = "bad" THEN ClearRing(ring)
                            ELSE DropOldest(ring)
             PROVE  TypeOK'
  BY DEF Drain, PopsThrough
<1>1. s \in TaskState /\ ring \in Ring
  BY DEF TypeOK
<1>2. ring' \in Ring /\ Oldest(ring) \in Nat
  BY <1>1, RingType
<1>3. s' \in TaskState
  BY <1>1, <1>2, CalibrateType, RestartFusionType, FuseType
<1> QED BY <1>2, <1>3 DEF TypeOK, hardware

\* The estimator's state after a sample of the barometer.
LEMMA UpdateBaroType ==
    ASSUME TypeOK, NEW e \in Filter, NEW wanted, NEW how
    PROVE  UpdateBaro(e, wanted, how) \in Filter
<1> DEFINE f == IF how = "restart" THEN EstReset ELSE e
           w == IF f.warm < Warmup THEN f.warm + 1 ELSE Warmup
           broken == f.init /\ (how = "unfused" \/ f.t > cutoff)
<1>1. f \in Filter
  BY StartValues
<1> HIDE DEF f
<1>2. w \in 0 .. Warmup
  BY <1>1, LimitsAssumption DEF Filter
<1> HIDE DEF w
<1>3. [f EXCEPT !.warm = w] \in Filter
  BY <1>1, <1>2 DEF Filter
<1>4. [f EXCEPT !.warm = w, !.init = TRUE, !.t = cutoff] \in Filter
  BY <1>1, <1>2 DEF Filter, TypeOK
<1>5. DisableFusion(f) \in Filter
  BY <1>1, FilterType
<1>6. [DisableFusion(f) EXCEPT !.warm = w] \in Filter
  BY <1>2, <1>5 DEF Filter
<1>7. UpdateBaro(e, wanted, how) =
          IF how = "wild" THEN EstReset
          ELSE IF w < Warmup THEN [f EXCEPT !.warm = w]
          ELSE IF wanted /\ f.accel /\ ~broken THEN [f EXCEPT !.warm = w, !.init = TRUE,
          !.t = cutoff]
          ELSE [DisableFusion(f) EXCEPT !.warm = w]
  BY DEF UpdateBaro, f, w
<1> HIDE DEF broken
<1> QED BY <1>3, <1>4, <1>6, <1>7, StartValues

LEMMA TypeEstimate == TypeOK /\ Estimate => TypeOK'
<1> SUFFICES ASSUME TypeOK, Estimate PROVE TypeOK'
  OBVIOUS
<1>1. PICK how \in EstimateOutcome, auto \in BOOLEAN :
          LET wanted == auto /\ s.imu.ready /\ s.res.imuCal /\ s.res.vert /\ ~s.res.imuStale
              e == UpdateBaro(s.est, wanted, how)
          IN  s' = [s EXCEPT !.est = e,
                       !.res.estimate = e.warm = Warmup,
                       !.res.fused = e.warm = Warmup /\ e.init /\ how # "refused"]
  BY DEF Estimate
<1> DEFINE wanted == auto /\ s.imu.ready /\ s.res.imuCal /\ s.res.vert /\ ~s.res.imuStale
           e == UpdateBaro(s.est, wanted, how)
<1> wanted \in BOOLEAN
  BY DEF TypeOK, TaskState, Result, Device
<1> HIDE DEF wanted
<1>2. e \in Filter
  BY UpdateBaroType DEF TypeOK, TaskState
<1> HIDE DEF e
<1>3. \A a, b \in BOOLEAN : [s.res EXCEPT !.estimate = a, !.fused = b] \in Result
  BY DEF TypeOK, TaskState, Result
<1>4. s' \in TaskState
  BY <1>1, <1>2, <1>3 DEF TypeOK, TaskState, Result, wanted, e
<1> QED BY <1>4 DEF Estimate, Go, TypeOK, outside, hardware, PCs, EarlyPCs, LatePCs

LEMMA TypeSave == TypeOK /\ (SaveWorks \/ SaveFails) => TypeOK'
<1> SUFFICES ASSUME TypeOK, SaveWorks \/ SaveFails PROVE TypeOK'
  OBVIOUS
<1>1. SaveSucceeded(s.ctl) \in Controller /\ SaveFailed(s.ctl) \in Controller
  BY ControllerType DEF TypeOK, TaskState
<1>2. s' \in TaskState
  BY <1>1 DEF SaveWorks, SaveFails, TypeOK, TaskState
<1> QED
  BY <1>2 DEF SaveWorks, SaveFails, Go, TypeOK, outside, hardware, samples, PCs, EarlyPCs,
    LatePCs

LEMMA TypeCheckStale == TypeOK /\ CheckStale => TypeOK'
<1> SUFFICES ASSUME TypeOK, CheckStale PROVE TypeOK'
  OBVIOUS
<1>1. PICK late \in SUBSET {d \in Devices : s[d].ready} :
        LET b == IF "bmp" \in late THEN OfflineBmp(s) ELSE s
            i == IF "imu" \in late THEN InvalidateImu(b, TRUE) ELSE b
        IN  /\ Release(late)
            /\ s' = [i EXCEPT !.dirty = @ \/ late # {}]
            /\ ring' = IF late = {} THEN ring ELSE ClearRing(ring)
  BY DEF CheckStale
<1> DEFINE b == IF "bmp" \in late THEN OfflineBmp(s) ELSE s
           i == IF "imu" \in late THEN InvalidateImu(b, TRUE) ELSE b
<1>2. b \in TaskState
  BY OfflineBmpType DEF TypeOK
<1> HIDE DEF b
<1>3. i \in TaskState
  BY <1>2, InvalidateImuType
<1>4. s' = [i EXCEPT !.dirty = (i.dirty \/ late # {})]
  BY <1>1 DEF b
<1> HIDE DEF i
<1>5. s' \in TaskState
  <2>1. (i.dirty \/ late # {}) \in BOOLEAN
    OBVIOUS
  <2> QED BY <1>3, <1>4, <2>1 DEF TaskState
<1>6. drv' \in [Devices -> Handle] /\ faults' \in 0 .. MaxFaults
  BY <1>1, ReleaseType
<1>7. ring' \in Ring
  BY <1>1, RingType DEF TypeOK
<1> QED BY <1>5, <1>6, <1>7 DEF CheckStale, Go, TypeOK, PCs, EarlyPCs, LatePCs

LEMMA TypeRecoverBus == TypeOK /\ RecoverBus => TypeOK'
<1> SUFFICES ASSUME TypeOK, RecoverBus PROVE TypeOK'
  OBVIOUS
<1> DEFINE st == InvalidateEstimate(InvalidateImu(s, TRUE))
<1>1. st \in TaskState
  BY InvalidateImuType, InvalidateEstimateType DEF TypeOK
<1>2. \E retry \in {Absent, Failed} :
          s' = [st EXCEPT !.bmp = retry, !.imu = retry, !.timeout = FALSE, !.dirty = TRUE]
  BY DEF RecoverBus
<1> HIDE DEF st
<1>3. s' \in TaskState
  <2>1. \A d \in Device : [st EXCEPT !.bmp = d, !.imu = d, !.timeout = FALSE,
  !.dirty = TRUE] \in TaskState
    BY <1>1 DEF TaskState
  <2> QED BY <1>2, <2>1, StartValues
<1>4. bus' \in BOOLEAN
  BY DEF RecoverBus, RecreateBus, BusFree
<1>5. ring' \in Ring
  BY RingType DEF RecoverBus, TypeOK
<1>6. drv' \in [Devices -> Handle] /\ faults' \in 0 .. MaxFaults
  BY ReleaseType DEF RecoverBus
<1> QED BY <1>3, <1>4, <1>5, <1>6 DEF RecoverBus, Go, TypeOK, PCs, EarlyPCs, LatePCs

LEMMA TypePublish == TypeOK /\ (EndStartup \/ EndPass) => TypeOK'
<1> SUFFICES ASSUME TypeOK, EndStartup \/ EndPass PROVE TypeOK'
  OBVIOUS
<1>1. PICK vario, diagnostics \in BOOLEAN : Publish(vario, diagnostics)
  BY DEF EndStartup, EndPass
<1>2. s' \in TaskState /\ seen' \in Result
  BY <1>1 DEF Publish, TypeOK, TaskState
<1> QED
  BY <1>2 DEF EndStartup, EndPass, Go, TypeOK, hardware, samples, PCs, EarlyPCs, LatePCs

\* Every step keeps the types.
LEMMA TypeStep == TypeOK /\ [Next]_vars => TypeOK'
<1> SUFFICES ASSUME TypeOK, [Next]_vars PROVE TypeOK'
  OBVIOUS
<1>1. CASE Worker
  <2>1. NothingServed("imu", "readImu", "readBmp") \/ NothingServed("bmp", "readBmp",
  "save") => TypeOK'
    BY TypeNothingServed DEF Devices, PCs, EarlyPCs, LatePCs
  <2> QED BY <1>1, <2>1, TypeQuiet, TypeStop, TypeEnterStorage, TypeLeaveStorage, TypeCollects,
       TypeHandleSkip, TypeInitBus, TypeInitImu, TypeInitImuFails, TypeInitBmp, TypeInitBmpFails,
       TypeRefreshConfig, TypeMeasureImu, TypeMeasureBmp, TypeDrain, TypeEstimate, TypeSave,
       TypeCheckStale, TypeRecoverBus, TypePublish DEF Worker
<1>2. CASE Others
  BY <1>2, TypeOthers, TypeInterrupt DEF Others
<1>3. CASE UNCHANGED vars
  BY <1>3 DEF vars, TypeOK
<1> QED BY <1>1, <1>2, <1>3 DEF Next

LEMMA TypeInit == Init => TypeOK
<1> SUFFICES ASSUME Init PROVE TypeOK
  OBVIOUS
<1>1. EmptyRing \in Ring
  <2>1. 0 \in 0 .. Capacity - 1 /\ 0 \in 0 .. Capacity
    BY CapacityAssumption
  <2> QED BY <2>1 DEF EmptyRing, Ring
<1>2. ControllerInit(file) \in Controller
  BY DEF Init, ControllerInit, Controller
<1>3. s \in TaskState
  BY <1>2, StartValues DEF Init, TaskState
<1>4. drv \in [Devices -> Handle]
  BY DEF Init, NoDevice, Handle
<1>5. 0 \in 0 .. MaxTime /\ 0 \in 0 .. MaxFaults
  BY LimitsAssumption
<1> QED BY <1>1, <1>3, <1>4, <1>5, StartValues DEF Init, TypeOK, PCs, EarlyPCs, LatePCs

-----------------------------------------------------------------------------
(* What the others are told                                                *)

\* What the invariant reads of the task's state: the controller's, the
\* barometer's and the IMU's part.
Same(x, st) == /\ x.ctl.persisted = st.ctl.persisted /\ x.ctl.skipped = st.ctl.skipped
               /\ x.ctl.pending = st.ctl.pending /\ x.quiesced = st.quiesced
SameBmp(x, st) == /\ x.bmp.ready = st.bmp.ready /\ x.bmp.wait = st.bmp.wait
                  /\ x.res.estimate = st.res.estimate /\ x.res.pressure = st.res.pressure
SameImu(x, st) == x.imu.ready = st.imu.ready /\ x.res.fused = st.res.fused /\ x.res.imuCal = st.res.imuCal
NoBmp(x) == ~x.bmp.ready /\ ~x.res.estimate /\ ~x.res.pressure
NoImu(x) == ~x.imu.ready /\ ~x.res.fused /\ ~x.res.imuCal

\* What an operator on the state changes of that.
LEMMA InvalidateImuEffect ==
    ASSUME NEW st \in TaskState, NEW stale \in BOOLEAN
    PROVE  LET x == InvalidateImu(st, stale)
           IN  Same(x, st) /\ SameBmp(x, st) /\ NoImu(x) /\ x.bmp = st.bmp /\ x.dirty = st.dirty
BY StartValues DEF InvalidateImu, NoMotion, ResetCollection, Same, SameBmp, NoImu, TaskState,
   Controller, Result

LEMMA InvalidateEstimateEffect ==
    ASSUME NEW st \in TaskState
    PROVE  LET x == InvalidateEstimate(st)
           IN  /\ Same(x, st) /\ SameImu(x, st) /\ ~x.res.estimate /\ ~x.res.pressure
               /\ x.dirty = st.dirty
BY DEF InvalidateEstimate, Same, SameImu, TaskState, Result

LEMMA OfflineBmpEffect ==
    ASSUME NEW st \in TaskState
    PROVE  LET x == OfflineBmp(st)
           IN  /\ Same(x, st) /\ SameImu(x, st) /\ NoBmp(x) /\ x.bmp.wait
               /\ x.dirty = st.dirty
BY StartValues DEF OfflineBmp, InvalidateEstimate, Same, SameImu, NoBmp, TaskState, Result

LEMMA RecordErrorEffect ==
    ASSUME s \in TaskState, NEW d \in Devices, NEW how
    PROVE  LET x == RecordError(d, how)
           IN  Same(x, s) /\ SameBmp(x, s) /\ SameImu(x, s) /\ x.dirty
<1>1. CASE d = "bmp"
  BY <1>1 DEF RecordError, Serve, Same, SameBmp, SameImu, TaskState
<1>2. CASE d = "imu"
  BY <1>2 DEF RecordError, Serve, Same, SameBmp, SameImu, TaskState
<1> QED BY <1>1, <1>2 DEF Devices

LEMMA ServeEffect ==
    ASSUME s \in TaskState, NEW d \in Devices
    PROVE  LET x == Serve(d)
           IN  Same(x, s) /\ SameBmp(x, s) /\ SameImu(x, s) /\ x.dirty = s.dirty
<1>1. CASE d = "bmp"
  BY <1>1 DEF Serve, Same, SameBmp, SameImu
<1>2. CASE d = "imu"
  BY <1>2 DEF Serve, Same, SameBmp, SameImu
<1> QED BY <1>1, <1>2 DEF Devices

\* One lemma per action: it keeps what the others are told true.
LEMMA ToldInitBus == ToldInv /\ TypeOK' /\ InitBus => ToldInv'
<1> SUFFICES ASSUME ToldInv, TypeOK', InitBus PROVE ToldInv'
  OBVIOUS
<1> s \in TaskState /\ PhaseTold /\ BusThereFor /\ ImuTold /\ Idle /\ BmpTold /\ ResultBacked /\ SeenBacked
  BY DEF ToldInv, TypeOK
<1>1. CASE bus' = TRUE /\ pc' = "imu" /\ UNCHANGED <<s, bits>>
  BY <1>1 DEF InitBus, ToldInv, PhaseTold, BusThereFor, ImuTold, Idle, BmpTold, ResultBacked,
     SeenBacked, Backed, Works, Fresh, EarlyPCs, LatePCs
<1>2. CASE /\ pc' = "take3" /\ bits' = bits \cup {"RECOVERING"} /\ UNCHANGED bus
           /\ \E timeout \in BOOLEAN :
                s' = [s EXCEPT !.bmp.wait = TRUE, !.dirty = TRUE, !.timeout = @ \/ timeout]
  <2>1. /\ Same(s', s) /\ SameImu(s', s) /\ s'.dirty /\ s'.bmp.wait /\ s'.bmp.ready = s.bmp.ready
        /\ s'.res = s.res
    BY <1>2 DEF Same, SameImu, TaskState, Device
  <2>2. file' = file /\ seen' = seen /\ ~bus /\ pc = "bus"
    BY DEF InitBus
  <2>3. ~s'.bmp.ready /\ ~s'.res.estimate /\ ~s'.res.pressure
    BY <2>1, <2>2 DEF BusThereFor, ResultBacked, Backed, Works
  <2> QED
    BY <1>2, <2>1, <2>2, <2>3 DEF ToldInv, PhaseTold, BusThereFor, ImuTold, Idle, BmpTold,
       ResultBacked, SeenBacked, Backed, Works
<1> QED BY <1>1, <1>2 DEF InitBus

LEMMA ToldMeasureImu == ToldInv /\ TypeOK' /\ MeasureImu => ToldInv'
<1> SUFFICES ASSUME ToldInv, TypeOK', MeasureImu PROVE ToldInv'
  OBVIOUS
<1> /\ s \in TaskState /\ PhaseTold /\ BusThereFor /\ ImuTold /\ Idle /\ BmpTold
    /\ ResultBacked /\ SeenBacked
  BY DEF ToldInv, TypeOK
<1>1. pc = "readImu" /\ pc' = "readBmp" /\ UNCHANGED <<file, seen, bus>>
  BY DEF MeasureImu, Go
<1>2. CASE ImuSample
  <2>1. /\ Same(s', s) /\ SameBmp(s', s) /\ SameImu(s', s) /\ s'.dirty
        /\ bits' = bits
    BY <1>2 DEF ImuSample, Serve, Same, SameBmp, SameImu, TaskState, Device, Result
  <2> QED
    BY <1>1, <2>1 DEF Same, SameBmp, SameImu, ToldInv, PhaseTold, Required, BusThereFor,
       ImuTold, Idle, BmpTold, ResultBacked, SeenBacked, Backed, Works, LatePCs
<1>3. CASE s' = Serve("imu") /\ bits' = bits
  <2>1. Same(s', s) /\ SameBmp(s', s) /\ SameImu(s', s) /\ s'.dirty = s.dirty
    BY <1>3, ServeEffect DEF Devices
  <2> QED
    BY <1>1, <1>3, <2>1 DEF Same, SameBmp, SameImu, ToldInv, PhaseTold, Required,
       BusThereFor, ImuTold, Idle, BmpTold, ResultBacked, SeenBacked, Backed, Works, Fresh,
       EarlyPCs, LatePCs
<1>4. ASSUME NEW how \in Errors, ImuError(how) PROVE ToldInv'
  <2> DEFINE st == RecordError("imu", how)
  <2>1. /\ st \in TaskState
        /\ Same(st, s) /\ SameBmp(st, s) /\ SameImu(st, s) /\ st.dirty
    BY RecordErrorEffect, ServeType DEF Devices
  <2> HIDE DEF st
  <2>2. CASE s' = st /\ bits' = bits
    BY <1>1, <2>1, <2>2 DEF Same, SameBmp, SameImu, ToldInv, PhaseTold, Required,
       BusThereFor, ImuTold, Idle, BmpTold, ResultBacked, SeenBacked, Backed, Works, LatePCs
  <2>3. CASE s' = InvalidateImu(st, TRUE) /\ bits' = Lifecycle(bits, FALSE, TRUE)
    <3>1. Same(s', st) /\ SameBmp(s', st) /\ NoImu(s') /\ s'.dirty = st.dirty
      BY <2>1, <2>3, InvalidateImuEffect
    <3> QED
      BY <1>1, <2>1, <2>3, <3>1 DEF Same, SameBmp, NoImu, Lifecycle, ToldInv, PhaseTold,
         Required, BusThereFor, ImuTold, Idle, BmpTold, ResultBacked, SeenBacked, Backed,
         Works, LatePCs
  <2> QED BY <1>4, <2>2, <2>3 DEF ImuError, st
<1> QED BY <1>2, <1>3, <1>4 DEF MeasureImu

LEMMA ToldMeasureBmp == ToldInv /\ TypeOK' /\ MeasureBmp => ToldInv'
<1> SUFFICES ASSUME ToldInv, TypeOK', MeasureBmp PROVE ToldInv'
  OBVIOUS
<1> /\ s \in TaskState /\ PhaseTold /\ BusThereFor /\ ImuTold /\ Idle /\ BmpTold
    /\ ResultBacked /\ SeenBacked
  BY DEF ToldInv, TypeOK
<1>1. pc = "readBmp" /\ s.bmp.ready /\ UNCHANGED <<file, seen, bus>> /\ pc' \in {"drain", "save"}
  BY DEF MeasureBmp, Served
<1>2. ASSUME NEW valid, BmpSample(valid) PROVE ToldInv'
  <2>1. /\ Same(s', s) /\ SameImu(s', s) /\ s'.dirty /\ bits' = bits
        /\ s'.bmp.ready = s.bmp.ready /\ s'.bmp.wait = s.bmp.wait
    BY <1>2 DEF BmpSample, Serve, Same, SameImu, TaskState, Device, Result
  <2> QED
    BY <1>1, <2>1 DEF Same, SameImu, ToldInv, PhaseTold, Required, BusThereFor, ImuTold,
       Idle, BmpTold, ResultBacked, SeenBacked, Backed, Works
<1>3. CASE s' = Serve("bmp") /\ UNCHANGED bits
  <2>1. Same(s', s) /\ SameBmp(s', s) /\ SameImu(s', s) /\ s'.dirty = s.dirty
    BY <1>3, ServeEffect DEF Devices
  <2> QED
    BY <1>1, <1>3, <2>1 DEF Same, SameBmp, SameImu, ToldInv, PhaseTold, Required,
       BusThereFor, ImuTold, Idle, BmpTold, ResultBacked, SeenBacked, Backed, Works, Fresh
<1>4. ASSUME NEW how \in Errors, BmpError(how), pc' = "save" PROVE ToldInv'
  <2> DEFINE st == RecordError("bmp", how)
  <2>1. /\ st \in TaskState
        /\ Same(st, s) /\ SameBmp(st, s) /\ SameImu(st, s) /\ st.dirty
    BY RecordErrorEffect, ServeType DEF Devices
  <2> HIDE DEF st
  <2>2. CASE s' = st /\ bits' = bits
    BY <1>1, <2>1, <2>2 DEF Same, SameBmp, SameImu, ToldInv, PhaseTold, Required,
       BusThereFor, ImuTold, Idle, BmpTold, ResultBacked, SeenBacked, Backed, Works
  <2>3. CASE s' = OfflineBmp(st) /\ bits' = bits \cup {"RECOVERING"}
    <3>1. Same(s', st) /\ SameImu(s', st) /\ NoBmp(s') /\ s'.dirty = st.dirty
      BY <2>1, <2>3, OfflineBmpEffect
    <3> QED
      BY <1>1, <1>4, <2>1, <2>3, <3>1 DEF Same, SameImu, NoBmp, ToldInv, PhaseTold, Required,
         BusThereFor, ImuTold, Idle, BmpTold, ResultBacked, SeenBacked, Backed, Works
  <2> QED BY <1>4, <2>2, <2>3 DEF BmpError, st
<1> QED BY <1>2, <1>3, <1>4 DEF MeasureBmp, Errors

LEMMA ToldEstimate == ToldInv /\ TypeOK' /\ Estimate => ToldInv'
<1> SUFFICES ASSUME ToldInv, TypeOK', Estimate PROVE ToldInv'
  OBVIOUS
<1> /\ s \in TaskState /\ PhaseTold /\ BusThereFor /\ ImuTold /\ Idle /\ BmpTold
    /\ ResultBacked /\ SeenBacked
  BY DEF ToldInv, TypeOK
<1>1. pc = "drain" /\ pc' = "save" /\ s.bmp.ready /\ UNCHANGED <<bits, file, seen, bus>>
  BY DEF Estimate, Go, outside, hardware, ResultBacked, Works
<1>2. PICK how \in EstimateOutcome, auto \in BOOLEAN :
        LET wanted == auto /\ s.imu.ready /\ s.res.imuCal /\ s.res.vert /\ ~s.res.imuStale
            e == UpdateBaro(s.est, wanted, how)
        IN  s' = [s EXCEPT !.est = e,
                     !.res.estimate = e.warm = Warmup,
                     !.res.fused = e.warm = Warmup /\ e.init /\ how # "refused"]
  BY DEF Estimate
<1> DEFINE wanted == auto /\ s.imu.ready /\ s.res.imuCal /\ s.res.vert /\ ~s.res.imuStale
           e == UpdateBaro(s.est, wanted, how)
<1>3. e.warm = Warmup /\ e.init => wanted
  <2> HIDE DEF wanted
  <2>1. s.est \in Filter /\ Warmup \in Nat /\ Warmup > 1
    BY LimitsAssumption DEF TaskState
  <2> QED BY <2>1 DEF UpdateBaro, DisableFusion, EstReset
<1>4. /\ Same(s', s) /\ s'.bmp = s.bmp /\ s'.imu = s.imu /\ s'.dirty = s.dirty
      /\ s'.res.pressure = s.res.pressure /\ s'.res.imuCal = s.res.imuCal
      /\ s'.res.fused => e.warm = Warmup /\ e.init
  <2> HIDE DEF e
  <2> QED BY <1>2 DEF e, Same, TaskState, Result
<1>5. s'.res.fused => s.imu.ready /\ s.ctl.persisted
  BY <1>1, <1>3, <1>4 DEF ResultBacked, Works
<1> HIDE DEF e, wanted
<1> QED
  BY <1>1, <1>4, <1>5 DEF Same, ToldInv, PhaseTold, Required, BusThereFor, ImuTold, Idle,
     BmpTold, ResultBacked, SeenBacked, Backed, Works, Fresh

LEMMA ToldSave == ToldInv /\ TypeOK' /\ (SaveWorks \/ SaveFails) => ToldInv'
<1> SUFFICES ASSUME ToldInv, TypeOK', SaveWorks \/ SaveFails PROVE ToldInv'
  OBVIOUS
<1> /\ s \in TaskState /\ PhaseTold /\ BusThereFor /\ ImuTold /\ Idle /\ BmpTold
    /\ ResultBacked /\ SeenBacked
  BY DEF ToldInv, TypeOK
<1>1. pc = "save" /\ pc' = "stale" /\ s.ctl.pending /\ UNCHANGED <<seen, bus>>
  BY DEF SaveWorks, SaveFails, Go, outside, hardware
<1> DEFINE Kept == /\ SameBmp(s', s) /\ SameImu(s', s) /\ s'.dirty /\ s'.quiesced = s.quiesced
                   /\ s'.ctl.skipped = s.ctl.skipped
<1>2. CASE SaveWorks
  <2>1. Kept
    BY <1>2 DEF SaveWorks, SaveSucceeded, SameBmp, SameImu, TaskState, Controller
  <2>2. /\ file' /\ s'.ctl.persisted /\ ~s'.ctl.pending
        /\ bits' = (bits \ {"REQUIRED", "SKIP_REQUEST"}) \cup {"SAVED"}
    BY <1>2 DEF SaveWorks, SaveSucceeded, TaskState, Controller
  <2> QED
    BY <1>1, <2>1, <2>2 DEF SameBmp, SameImu, ToldInv, PhaseTold, Required, BusThereFor,
       ImuTold, Idle, BmpTold, ResultBacked, SeenBacked, Backed, Works, LatePCs
<1>3. CASE SaveFails
  <2>1. Kept
    BY <1>3 DEF SaveFails, SaveFailed, SameBmp, SameImu, TaskState, Controller
  <2>2. Same(s', s) /\ UNCHANGED <<file, bits>>
    BY <1>3 DEF SaveFails, SaveFailed, outside, Same, TaskState, Controller
  <2> QED
    BY <1>1, <2>1, <2>2 DEF Same, SameBmp, SameImu, ToldInv, PhaseTold, Required,
       BusThereFor, ImuTold, Idle, BmpTold, ResultBacked, SeenBacked, Backed, Works, LatePCs
<1> QED BY <1>2, <1>3

LEMMA ToldCheckStale == ToldInv /\ TypeOK' /\ CheckStale => ToldInv'
<1> SUFFICES ASSUME ToldInv, TypeOK', CheckStale PROVE ToldInv'
  OBVIOUS
<1> /\ s \in TaskState /\ PhaseTold /\ BusThereFor /\ ImuTold /\ Idle /\ BmpTold
    /\ ResultBacked /\ SeenBacked
  BY DEF ToldInv, TypeOK
<1>1. pc = "stale" /\ pc' = "recover" /\ UNCHANGED <<file, seen, bus>>
  BY DEF CheckStale, Go
<1>2. PICK late \in SUBSET {d \in Devices : s[d].ready} :
        LET b == IF "bmp" \in late THEN OfflineBmp(s) ELSE s
            i == IF "imu" \in late THEN InvalidateImu(b, TRUE) ELSE b
        IN  /\ s' = [i EXCEPT !.dirty = @ \/ late # {}]
            /\ bits' = LET r == IF "bmp" \in late THEN bits \cup {"RECOVERING"} ELSE bits
                       IN  IF "imu" \in late THEN Lifecycle(r, FALSE, TRUE) ELSE r
  BY DEF CheckStale
<1> DEFINE b == IF "bmp" \in late THEN OfflineBmp(s) ELSE s
           i == IF "imu" \in late THEN InvalidateImu(b, TRUE) ELSE b
<1>3. /\ b \in TaskState /\ Same(b, s) /\ SameImu(b, s) /\ b.dirty = s.dirty
      /\ IF "bmp" \in late THEN NoBmp(b) ELSE SameBmp(b, s)
  BY OfflineBmpType, OfflineBmpEffect DEF Same, SameImu, SameBmp
<1> HIDE DEF b
<1>4. /\ i \in TaskState /\ Same(i, b) /\ SameBmp(i, b) /\ i.dirty = b.dirty
      /\ IF "imu" \in late THEN NoImu(i) ELSE SameImu(i, b)
  BY <1>3, InvalidateImuType, InvalidateImuEffect DEF Same, SameImu, SameBmp
<1>5. s' = [i EXCEPT !.dirty = i.dirty \/ late # {}]
  BY <1>2 DEF b
<1> HIDE DEF i
<1>6. /\ Same(s', i) /\ SameBmp(s', i) /\ SameImu(s', i)
      /\ s'.dirty = (i.dirty \/ late # {})
  BY <1>4, <1>5 DEF Same, SameImu, SameBmp
<1>7. CASE "bmp" \in late
  BY <1>1, <1>2, <1>3, <1>4, <1>6, <1>7 DEF Same, SameBmp, SameImu, NoBmp, NoImu, Lifecycle,
     ToldInv, PhaseTold, Required, BusThereFor, ImuTold, Idle, BmpTold, ResultBacked,
     SeenBacked, Backed, Works
<1>8. CASE "bmp" \notin late
  BY <1>1, <1>2, <1>3, <1>4, <1>6, <1>8 DEF Same, SameBmp, SameImu, NoImu, Lifecycle,
     ToldInv, PhaseTold, Required, BusThereFor, ImuTold, Idle, BmpTold, ResultBacked,
     SeenBacked, Backed, Works, Fresh, EarlyPCs, LatePCs
<1> QED BY <1>7, <1>8

LEMMA ToldRecoverBus == ToldInv /\ TypeOK' /\ RecoverBus => ToldInv'
<1> SUFFICES ASSUME ToldInv, TypeOK', RecoverBus PROVE ToldInv'
  OBVIOUS
<1> /\ s \in TaskState /\ PhaseTold /\ BusThereFor /\ ImuTold /\ Idle /\ BmpTold
    /\ ResultBacked /\ SeenBacked
  BY DEF ToldInv, TypeOK
<1>1. /\ pc = "recover" /\ pc' = "publish" /\ UNCHANGED <<file, seen>>
      /\ bits' = Lifecycle(bits \cup {"RECOVERING"}, FALSE, TRUE)
  BY DEF RecoverBus, Go
<1> DEFINE i == InvalidateImu(s, TRUE)
           st == InvalidateEstimate(i)
<1>2. PICK works \in BOOLEAN :
        LET retry == IF works THEN Absent ELSE Failed
        IN  s' = [st EXCEPT !.bmp = retry, !.imu = retry, !.timeout = FALSE, !.dirty = TRUE]
  BY DEF RecoverBus
<1>3. i \in TaskState /\ Same(i, s) /\ NoImu(i)
  BY InvalidateImuType, InvalidateImuEffect
<1> HIDE DEF i
<1>4. st \in TaskState /\ Same(st, i) /\ SameImu(st, i) /\ ~st.res.estimate /\ ~st.res.pressure
  BY <1>3, InvalidateEstimateType, InvalidateEstimateEffect
<1> HIDE DEF st
<1>5. /\ Same(s', st) /\ s'.res = st.res /\ s'.dirty
      /\ ~s'.bmp.ready /\ ~s'.imu.ready
  BY <1>2, <1>4, StartValues DEF Same
<1> QED
  BY <1>1, <1>3, <1>4, <1>5 DEF Same, SameImu, NoImu, Lifecycle, ToldInv, PhaseTold,
     Required, BusThereFor, ImuTold, Idle, BmpTold, ResultBacked, SeenBacked, Backed

LEMMA ToldQuiet ==
    ToldInv /\ TypeOK' /\ (NoSkip \/ BeginPass \/ BusNotDue \/ BusThere \/ ImuNotTried \/ BmpNotTried
      \/ KeepConfig \/ SaveNotDue \/ NoRecovery \/ EndPassQuietly) => ToldInv'
<1> SUFFICES ASSUME ToldInv, TypeOK',
                    \/ NoSkip \/ BeginPass \/ BusNotDue \/ BusThere \/ ImuNotTried \/ BmpNotTried
                    \/ KeepConfig \/ SaveNotDue \/ NoRecovery \/ EndPassQuietly
             PROVE  ToldInv'
  OBVIOUS
<1> s \in TaskState /\ PhaseTold /\ BusThereFor /\ ImuTold /\ Idle /\ BmpTold /\ ResultBacked /\ SeenBacked
  BY DEF ToldInv, TypeOK
<1>1. PhaseTold'
  BY StartValues DEF NoSkip, BeginPass, BusNotDue, BusThere, ImuNotTried, BmpNotTried,
     KeepConfig, SaveNotDue, NoRecovery, EndPassQuietly, PhaseTold, outside
<1>2. BusThereFor'
  BY StartValues DEF NoSkip, BeginPass, BusNotDue, BusThere, ImuNotTried, BmpNotTried,
     KeepConfig, SaveNotDue, NoRecovery, EndPassQuietly, BusThereFor, Go, hardware
<1>3. ImuTold'
  BY StartValues DEF NoSkip, BeginPass, BusNotDue, BusThere, ImuNotTried, BmpNotTried,
     KeepConfig, SaveNotDue, NoRecovery, EndPassQuietly, ImuTold, Works, Go, outside
<1>4. Idle' /\ BmpTold'
  BY StartValues DEF NoSkip, BeginPass, BusNotDue, BusThere, ImuNotTried, BmpNotTried,
     KeepConfig, SaveNotDue, NoRecovery, EndPassQuietly, Idle, BmpTold, Works, LatePCs, Go,
     outside
<1>5. ResultBacked'
  BY StartValues DEF NoSkip, BeginPass, BusNotDue, BusThere, ImuNotTried, BmpNotTried,
     KeepConfig, SaveNotDue, NoRecovery, EndPassQuietly, ResultBacked, Backed, Works, Go,
     Device, Controller, Result, TaskState, Devices
<1>6. SeenBacked'
  BY StartValues DEF NoSkip, BeginPass, BusNotDue, BusThere, ImuNotTried, BmpNotTried,
     KeepConfig, SaveNotDue, NoRecovery, EndPassQuietly, SeenBacked, Backed, Works, Fresh,
     EarlyPCs, Go, outside, hardware
<1> QED BY <1>1, <1>2, <1>3, <1>4, <1>5, <1>6 DEF ToldInv

LEMMA ToldNothingServed ==
    ToldInv /\ TypeOK' /\ (\/ NothingServed("imu", "readImu", "readBmp")
                          \/ NothingServed("bmp", "readBmp", "save")) => ToldInv'
<1> SUFFICES ASSUME ToldInv, TypeOK',
                    \/ NothingServed("imu", "readImu", "readBmp")
                    \/ NothingServed("bmp", "readBmp", "save")
             PROVE  ToldInv'
  OBVIOUS
<1> s \in TaskState /\ PhaseTold /\ BusThereFor /\ ImuTold /\ Idle /\ BmpTold /\ ResultBacked /\ SeenBacked
  BY DEF ToldInv, TypeOK
<1>1. PhaseTold'
  BY StartValues DEF NothingServed, PhaseTold, outside
<1>2. BusThereFor'
  BY StartValues DEF NothingServed, BusThereFor, Go, hardware
<1>3. ImuTold'
  BY StartValues DEF NothingServed, ImuTold, Works, Go, outside
<1>4. Idle' /\ BmpTold'
  BY StartValues DEF NothingServed, Idle, BmpTold, Works, LatePCs, Go, outside
<1>5. ResultBacked'
  BY StartValues DEF NothingServed, ResultBacked, Backed, Works, Go
<1>6. SeenBacked'
  BY StartValues DEF NothingServed, SeenBacked, Backed, Works, Fresh, EarlyPCs, Go, outside
<1> QED BY <1>1, <1>2, <1>3, <1>4, <1>5, <1>6 DEF ToldInv

LEMMA ToldInterrupt == ToldInv /\ TypeOK' /\ (\E d \in Devices : Interrupt(d)) => ToldInv'
<1> SUFFICES ASSUME ToldInv, TypeOK', (\E d \in Devices : Interrupt(d)) PROVE ToldInv'
  OBVIOUS
<1> s \in TaskState /\ PhaseTold /\ BusThereFor /\ ImuTold /\ Idle /\ BmpTold /\ ResultBacked /\ SeenBacked
  BY DEF ToldInv, TypeOK
<1>1. PhaseTold'
  BY StartValues DEF Interrupt, PhaseTold, outside
<1>2. BusThereFor'
  BY StartValues DEF Interrupt, BusThereFor
<1>3. ImuTold'
  BY StartValues DEF Interrupt, ImuTold, Works, outside
<1>4. Idle' /\ BmpTold'
  BY StartValues DEF Interrupt, Idle, BmpTold, Works, outside
<1>5. ResultBacked'
  BY StartValues DEF Interrupt, ResultBacked, Backed, Works
<1>6. SeenBacked'
  BY StartValues DEF Interrupt, SeenBacked, Backed, Works, Fresh, outside
<1> QED BY <1>1, <1>2, <1>3, <1>4, <1>5, <1>6 DEF ToldInv

LEMMA ToldOthers == ToldInv /\ TypeOK' /\ (HoldSw3 \/ StorageMode \/ RequestStop) => ToldInv'
<1> SUFFICES ASSUME ToldInv, TypeOK', (HoldSw3 \/ StorageMode \/ RequestStop) PROVE ToldInv'
  OBVIOUS
<1> s \in TaskState /\ PhaseTold /\ BusThereFor /\ ImuTold /\ Idle /\ BmpTold /\ ResultBacked /\ SeenBacked
  BY DEF ToldInv, TypeOK
<1>1. PhaseTold'
  BY StartValues DEF HoldSw3, StorageMode, RequestStop, PhaseTold
<1>2. BusThereFor'
  BY StartValues DEF HoldSw3, StorageMode, RequestStop, BusThereFor, hardware
<1>3. ImuTold'
  BY StartValues DEF HoldSw3, StorageMode, RequestStop, ImuTold, Works
<1>4. Idle' /\ BmpTold'
  BY StartValues DEF HoldSw3, StorageMode, RequestStop, Idle, BmpTold, Works
<1>5. ResultBacked'
  BY StartValues DEF HoldSw3, StorageMode, RequestStop, ResultBacked, Backed, Works
<1>6. SeenBacked'
  BY StartValues DEF HoldSw3, StorageMode, RequestStop, SeenBacked, Backed, Works, Fresh
<1> QED BY <1>1, <1>2, <1>3, <1>4, <1>5, <1>6 DEF ToldInv

LEMMA ToldStop == ToldInv /\ TypeOK' /\ (Stop \/ Fatal) => ToldInv'
<1> SUFFICES ASSUME ToldInv, TypeOK', (Stop \/ Fatal) PROVE ToldInv'
  OBVIOUS
<1> s \in TaskState /\ PhaseTold /\ BusThereFor /\ ImuTold /\ Idle /\ BmpTold /\ ResultBacked /\ SeenBacked
  BY DEF ToldInv, TypeOK
<1>1. PhaseTold'
  BY StartValues DEF Stop, Fatal, PhaseTold, outside
<1>2. BusThereFor'
  BY StartValues DEF Stop, Fatal, BusThereFor, Go
<1>3. ImuTold'
  BY StartValues DEF Stop, Fatal, ImuTold, Works, Go
<1>4. Idle' /\ BmpTold'
  BY StartValues DEF Stop, Fatal, Idle, BmpTold, Works, Go, outside
<1>5. ResultBacked'
  BY StartValues DEF Stop, Fatal, ResultBacked, Works, Go, Controller, Result, TaskState,
     Devices
<1>6. SeenBacked'
  BY StartValues DEF Stop, Fatal, SeenBacked, Works, Go
<1> QED BY <1>1, <1>2, <1>3, <1>4, <1>5, <1>6 DEF ToldInv

LEMMA ToldEnterStorage == ToldInv /\ TypeOK' /\ EnterStorage => ToldInv'
<1> SUFFICES ASSUME ToldInv, TypeOK', EnterStorage PROVE ToldInv'
  OBVIOUS
<1> s \in TaskState /\ PhaseTold /\ BusThereFor /\ ImuTold /\ Idle /\ BmpTold /\ ResultBacked /\ SeenBacked
  BY DEF ToldInv, TypeOK
<1>1. PhaseTold'
  BY StartValues DEF EnterStorage, InvalidateEstimate, Lifecycle, PhaseTold
<1>2. BusThereFor'
  BY StartValues DEF EnterStorage, BusThereFor
<1>3. ImuTold'
  BY StartValues DEF EnterStorage, Lifecycle, ImuTold
<1>4. Idle' /\ BmpTold'
  BY StartValues DEF EnterStorage, Lifecycle, Idle, BmpTold, Works
<1>5. ResultBacked'
  BY StartValues DEF EnterStorage, InvalidateEstimate, NoMotion, ResultBacked, Backed,
     Result, TaskState
<1>6. SeenBacked'
  BY StartValues DEF EnterStorage, SeenBacked
<1> QED BY <1>1, <1>2, <1>3, <1>4, <1>5, <1>6 DEF ToldInv

LEMMA ToldLeaveStorage == ToldInv /\ TypeOK' /\ LeaveStorage => ToldInv'
<1> SUFFICES ASSUME ToldInv, TypeOK', LeaveStorage PROVE ToldInv'
  OBVIOUS
<1> s \in TaskState /\ PhaseTold /\ BusThereFor /\ ImuTold /\ Idle /\ BmpTold /\ ResultBacked /\ SeenBacked
  BY DEF ToldInv, TypeOK
<1>1. PhaseTold'
  BY StartValues DEF LeaveStorage, PhaseTold
<1>2. BusThereFor'
  BY StartValues DEF LeaveStorage, BusThereFor, Go
<1>3. ImuTold'
  BY StartValues DEF LeaveStorage, ImuTold
<1>4. Idle' /\ BmpTold'
  BY StartValues DEF LeaveStorage, Idle, BmpTold, LatePCs, Go
<1>5. ResultBacked'
  BY StartValues DEF LeaveStorage, Idle, ResultBacked, Backed, Works, Go
<1>6. SeenBacked'
  BY StartValues DEF LeaveStorage, SeenBacked, Fresh, EarlyPCs, Go
<1> QED BY <1>1, <1>2, <1>3, <1>4, <1>5, <1>6 DEF ToldInv

LEMMA ToldCollects == ToldInv /\ TypeOK' /\ Collects => ToldInv'
<1> SUFFICES ASSUME ToldInv, TypeOK', Collects PROVE ToldInv'
  OBVIOUS
<1> s \in TaskState /\ PhaseTold /\ BusThereFor /\ ImuTold /\ Idle /\ BmpTold /\ ResultBacked /\ SeenBacked
  BY DEF ToldInv, TypeOK
<1>1. PhaseTold'
  BY StartValues DEF Collects, Take, PhaseTold, outside, TaskState
<1>2. BusThereFor'
  BY StartValues DEF Collects, Take, BusThereFor, Go, TaskState
<1>3. ImuTold'
  BY StartValues DEF Collects, Take, ImuTold, Works, Go, outside, TaskState
<1>4. Idle' /\ BmpTold'
  BY StartValues DEF Collects, Take, Idle, BmpTold, Works, LatePCs, Go, outside, Device,
     TaskState
<1>5. ResultBacked'
  BY StartValues DEF Collects, Take, ResultBacked, Backed, Works, Go, Device, TaskState
<1>6. SeenBacked'
  BY StartValues DEF Collects, Take, SeenBacked, Backed, Works, Fresh, EarlyPCs, Go, outside,
     Device, TaskState
<1> QED BY <1>1, <1>2, <1>3, <1>4, <1>5, <1>6 DEF ToldInv

LEMMA ToldHandleSkip == ToldInv /\ TypeOK' /\ HandleSkip => ToldInv'
<1> SUFFICES ASSUME ToldInv, TypeOK', HandleSkip PROVE ToldInv'
  OBVIOUS
<1> s \in TaskState /\ PhaseTold /\ BusThereFor /\ ImuTold /\ Idle /\ BmpTold /\ ResultBacked /\ SeenBacked
  BY DEF ToldInv, TypeOK
<1>1. PhaseTold'
  BY StartValues DEF HandleSkip, SkipAsked, Required, RequestSkip, Lifecycle, PhaseTold,
     Required, Controller, TaskState
<1>2. BusThereFor'
  BY StartValues DEF HandleSkip, BusThereFor, Go
<1>3. ImuTold'
  BY StartValues DEF HandleSkip, ImuTold, Device, TaskState
<1>4. Idle' /\ BmpTold'
  BY StartValues DEF HandleSkip, Lifecycle, Idle, BmpTold, Works, LatePCs, Go
<1>5. ResultBacked'
  BY StartValues DEF HandleSkip, NoMotion, ResultBacked, Backed, Works, Go, Result, TaskState
<1>6. SeenBacked'
  BY StartValues DEF HandleSkip, SeenBacked
<1> QED BY <1>1, <1>2, <1>3, <1>4, <1>5, <1>6 DEF ToldInv

LEMMA ToldInitImu == ToldInv /\ TypeOK' /\ InitImu => ToldInv'
<1> SUFFICES ASSUME ToldInv, TypeOK', InitImu PROVE ToldInv'
  OBVIOUS
<1> s \in TaskState /\ PhaseTold /\ BusThereFor /\ ImuTold /\ Idle /\ BmpTold /\ ResultBacked /\ SeenBacked
  BY DEF ToldInv, TypeOK
<1>1. PhaseTold'
  BY StartValues DEF InitImu, Lifecycle, PhaseTold
<1>2. BusThereFor'
  BY StartValues DEF InitImu, BusThereFor, Go
<1>3. ImuTold'
  BY StartValues DEF InitImu, ImuTried, Lifecycle, ImuTold
<1>4. Idle' /\ BmpTold'
  BY StartValues DEF InitImu, Lifecycle, Idle, BmpTold, Works, LatePCs, Go
<1>5. ResultBacked'
  BY StartValues DEF InitImu, ResultBacked, Backed, Works, Go, Result, TaskState
<1>6. SeenBacked'
  BY StartValues DEF InitImu, SeenBacked
<1> QED BY <1>1, <1>2, <1>3, <1>4, <1>5, <1>6 DEF ToldInv

LEMMA ToldInitImuFails == ToldInv /\ TypeOK' /\ InitImuFails => ToldInv'
<1> SUFFICES ASSUME ToldInv, TypeOK', InitImuFails PROVE ToldInv'
  OBVIOUS
<1> s \in TaskState /\ PhaseTold /\ BusThereFor /\ ImuTold /\ Idle /\ BmpTold /\ ResultBacked /\ SeenBacked
  BY DEF ToldInv, TypeOK
<1>1. PhaseTold'
  BY StartValues DEF InitImuFails, Lifecycle, PhaseTold
<1>2. BusThereFor'
  BY StartValues DEF InitImuFails, BusThereFor, Go
<1>3. ImuTold'
  BY StartValues DEF InitImuFails, ImuTried, ImuTold, Device, TaskState
<1>4. Idle' /\ BmpTold'
  BY StartValues DEF InitImuFails, Lifecycle, Idle, BmpTold, Works, LatePCs, Go
<1>5. ResultBacked'
  BY StartValues DEF InitImuFails, NoMotion, ResultBacked, Backed, Works, Go, Result,
     TaskState
<1>6. SeenBacked'
  BY StartValues DEF InitImuFails, SeenBacked
<1> QED BY <1>1, <1>2, <1>3, <1>4, <1>5, <1>6 DEF ToldInv

LEMMA ToldInitBmp == ToldInv /\ TypeOK' /\ InitBmp => ToldInv'
<1> SUFFICES ASSUME ToldInv, TypeOK', InitBmp PROVE ToldInv'
  OBVIOUS
<1> s \in TaskState /\ PhaseTold /\ BusThereFor /\ ImuTold /\ Idle /\ BmpTold /\ ResultBacked /\ SeenBacked
  BY DEF ToldInv, TypeOK
<1>1. PhaseTold'
  BY StartValues DEF InitBmp, PhaseTold
<1>2. BusThereFor'
  BY StartValues DEF InitBmp, BusThereFor, Go
<1>3. ImuTold'
  BY StartValues DEF InitBmp, ImuTold, Works, Go
<1>4. Idle' /\ BmpTold'
  BY StartValues DEF InitBmp, Idle, BmpTold, Go
<1>5. ResultBacked'
  BY StartValues DEF InitBmp, ResultBacked, Backed, Works, Go
<1>6. SeenBacked'
  BY StartValues DEF InitBmp, SeenBacked
<1> QED BY <1>1, <1>2, <1>3, <1>4, <1>5, <1>6 DEF ToldInv

LEMMA ToldInitBmpFails == ToldInv /\ TypeOK' /\ InitBmpFails => ToldInv'
<1> SUFFICES ASSUME ToldInv, TypeOK', InitBmpFails PROVE ToldInv'
  OBVIOUS
<1> s \in TaskState /\ PhaseTold /\ BusThereFor /\ ImuTold /\ Idle /\ BmpTold /\ ResultBacked /\ SeenBacked
  BY DEF ToldInv, TypeOK
<1>1. PhaseTold'
  BY StartValues DEF InitBmpFails, PhaseTold
<1>2. BusThereFor'
  BY StartValues DEF InitBmpFails, BusThereFor, Go
<1>3. ImuTold'
  BY StartValues DEF InitBmpFails, ImuTold, Works, Go
<1>4. Idle' /\ BmpTold'
  BY StartValues DEF InitBmpFails, Idle, BmpTold, Go
<1>5. ResultBacked'
  BY StartValues DEF InitBmpFails, ResultBacked, Backed, Works, Go
<1>6. SeenBacked'
  BY StartValues DEF InitBmpFails, SeenBacked
<1> QED BY <1>1, <1>2, <1>3, <1>4, <1>5, <1>6 DEF ToldInv

LEMMA ToldRefreshConfig == ToldInv /\ TypeOK' /\ RefreshConfig => ToldInv'
<1> SUFFICES ASSUME ToldInv, TypeOK', RefreshConfig PROVE ToldInv'
  OBVIOUS
<1> s \in TaskState /\ PhaseTold /\ BusThereFor /\ ImuTold /\ Idle /\ BmpTold /\ ResultBacked /\ SeenBacked
  BY DEF ToldInv, TypeOK
<1>1. PhaseTold'
  BY StartValues DEF RefreshConfig, RestartFusion, Lifecycle, PhaseTold
<1>2. BusThereFor'
  BY StartValues DEF RefreshConfig, RestartFusion, BusThereFor, Go, hardware
<1>3. ImuTold'
  BY StartValues DEF RefreshConfig, RestartFusion, Lifecycle, ImuTold
<1>4. Idle' /\ BmpTold'
  BY StartValues DEF RefreshConfig, RestartFusion, Lifecycle, Idle, BmpTold, Works, LatePCs,
     Go
<1>5. ResultBacked'
  BY StartValues DEF RefreshConfig, RestartFusion, NoMotion, ResultBacked, Backed, Works, Go,
     Result, TaskState
<1>6. SeenBacked'
  BY StartValues DEF RefreshConfig, RestartFusion, SeenBacked, Backed, Works, Fresh,
     EarlyPCs, Go
<1> QED BY <1>1, <1>2, <1>3, <1>4, <1>5, <1>6 DEF ToldInv

LEMMA ToldDrain == ToldInv /\ TypeOK' /\ Drain => ToldInv'
<1> SUFFICES ASSUME ToldInv, TypeOK', Drain PROVE ToldInv'
  OBVIOUS
<1> s \in TaskState /\ PhaseTold /\ BusThereFor /\ ImuTold /\ Idle /\ BmpTold /\ ResultBacked /\ SeenBacked
  BY DEF ToldInv, TypeOK
<1>1. PhaseTold'
  BY StartValues DEF Drain, Calibrate, Collect, RestartFusion, Fuse, Required, Lifecycle,
     PhaseTold, Required, Controller, Devices
<1>2. BusThereFor'
  BY StartValues DEF Drain, Calibrate, RestartFusion, Fuse, BusThereFor, hardware
<1>3. ImuTold'
  BY StartValues DEF Drain, Calibrate, Collect, RestartFusion, Fuse, Lifecycle, ImuTold,
     Device
<1>4. Idle' /\ BmpTold'
  BY StartValues DEF Drain, Calibrate, RestartFusion, Fuse, Lifecycle, Idle, BmpTold, Works,
     Device
<1>5. ResultBacked'
  BY StartValues DEF Drain, Calibrate, RestartFusion, NoMotion, Fuse, ResultBacked, Backed,
     Works
<1>6. SeenBacked'
  BY StartValues DEF Drain, Calibrate, RestartFusion, Fuse, SeenBacked, Backed, Works, Fresh,
     Controller, Result, TaskState, Devices
<1> QED BY <1>1, <1>2, <1>3, <1>4, <1>5, <1>6 DEF ToldInv

LEMMA ToldPublish == ToldInv /\ TypeOK' /\ (EndStartup \/ EndPass) => ToldInv'
<1> SUFFICES ASSUME ToldInv, TypeOK', EndStartup \/ EndPass PROVE ToldInv'
  OBVIOUS
<1> s \in TaskState /\ s' \in TaskState /\ seen' \in Result
  BY DEF ToldInv, TypeOK
<1> PhaseTold /\ BusThereFor /\ ImuTold /\ Idle /\ BmpTold /\ ResultBacked /\ SeenBacked
  BY DEF ToldInv
<1>1. pc = "publish" /\ pc' = "top" /\ UNCHANGED <<file, hardware>>
  BY DEF EndStartup, EndPass, Go
<1>2. (bits' \ bits) \subseteq {"STARTUP", "FATAL"} /\ bits \subseteq bits'
  BY DEF EndStartup, EndPass
<1>3. PICK vario, diagnostics \in BOOLEAN : Publish(vario, diagnostics)
  BY DEF EndStartup, EndPass
<1>4. /\ UNCHANGED <<s.ctl, s.bmp, s.imu, s.res, s.quiesced>>
      /\ seen' = (IF vario THEN s.res ELSE seen)
      /\ s'.dirty = (~vario \/ ~diagnostics)
  BY <1>3 DEF Publish
<1>5. PhaseTold'
  BY <1>1, <1>2, <1>4 DEF PhaseTold
<1>6. BusThereFor'
  BY <1>1, <1>4 DEF BusThereFor, hardware
<1>7. ImuTold'
  BY <1>1, <1>2, <1>4 DEF ImuTold, Works
<1>8. Idle' /\ BmpTold'
  BY <1>1, <1>2, <1>4 DEF Idle, BmpTold, Works, LatePCs
<1>9. ResultBacked'
  BY <1>1, <1>4 DEF ResultBacked, Backed, Works
<1>10. SeenBacked'
  BY <1>1, <1>2, <1>4 DEF ResultBacked, SeenBacked, Backed, Works
<1> QED BY <1>5, <1>6, <1>7, <1>8, <1>9, <1>10 DEF ToldInv

\* Every step keeps ToldInv, and it holds at the start.
LEMMA ToldStep == ToldInv /\ [Next]_vars => ToldInv'
<1> SUFFICES ASSUME ToldInv, [Next]_vars PROVE ToldInv'
  OBVIOUS
<1>1. TypeOK'
  BY TypeStep DEF ToldInv
<1>2. CASE Worker
  BY <1>1, <1>2, ToldQuiet, ToldNothingServed, ToldStop, ToldEnterStorage, ToldLeaveStorage,
     ToldCollects, ToldHandleSkip, ToldInitBus, ToldInitImu, ToldInitImuFails, ToldInitBmp,
     ToldInitBmpFails, ToldRefreshConfig, ToldMeasureImu, ToldMeasureBmp, ToldDrain,
    ToldEstimate,
     ToldSave, ToldCheckStale, ToldRecoverBus, ToldPublish DEF Worker
<1>3. CASE Others
  BY <1>1, <1>3, ToldOthers, ToldInterrupt DEF Others
<1>4. CASE UNCHANGED vars
  BY <1>1, <1>4 DEF vars, ToldInv, PhaseTold, Required, BusThereFor, ImuTold, Idle, BmpTold,
     ResultBacked, SeenBacked, Backed, Works, Fresh, EarlyPCs, LatePCs
<1> QED BY <1>2, <1>3, <1>4 DEF Next

LEMMA ToldInit == Init => ToldInv
<1> SUFFICES ASSUME Init PROVE ToldInv
  OBVIOUS
<1>1. s = [bmp |-> Absent, imu |-> Absent, timeout |-> FALSE, cfg |-> FALSE, fusion |-> FALSE,
           ctl |-> ControllerInit(file), est |-> EstReset, res |-> NoResult,
           dirty |-> TRUE, started |-> FALSE, quiesced |-> FALSE]
  BY DEF Init
<1>2. PhaseTold
  BY <1>1 DEF Init, PhaseTold, Required, ControllerInit
<1> QED
  BY <1>1, <1>2, TypeInit, StartValues DEF Init, NoResult, ToldInv, BusThereFor, ImuTold, Idle,
     BmpTold, ResultBacked, SeenBacked, Backed, Works, EarlyPCs, LatePCs

\* The event bits (REQUIRED, SKIPPED, SAVED, RECOVERING, DEGRADED) and the published
\* result are true whatever transfers fail, whichever device is released, late or
\* taken back, and whenever a write session, a skip or a save comes between
\* (sensor_execute_work, app_sensor_worker_task).
THEOREM WhatIsAlwaysTold == Spec => []WhatIsTold
<1>1. ToldInv => BitsTrue
  BY DEF ToldInv, BitsTrue, LampsTrue, AtRest, ImuTold, BmpTold, Works, LatePCs
<1>2. ToldInv => SnapshotHonest
  BY DEF ToldInv, SnapshotHonest, AtRest, SeenBacked, Backed, Works, Fresh, EarlyPCs
<1>3. BitsTrue /\ SnapshotHonest => WhatIsTold
  BY DEF WhatIsTold
<1> QED BY <1>1, <1>2, <1>3, ToldInit, ToldStep, PTL DEF Spec

-----------------------------------------------------------------------------
(* A skip is final                                                         *)

\* The bit that tells of a skip is never taken back.
LEMMA SkippedStays == [Next]_vars /\ "SKIPPED" \in bits => "SKIPPED" \in bits'
<1> SUFFICES ASSUME [Next]_vars, "SKIPPED" \in bits PROVE "SKIPPED" \in bits'
  OBVIOUS
<1>1. CASE UNCHANGED bits
  BY <1>1
<1>2. ASSUME NEW how \in Errors, ImuError(how) \/ BmpError(how) PROVE "SKIPPED" \in bits'
  BY <1>2 DEF ImuError, BmpError, Lifecycle
<1>3. CASE MeasureImu \/ MeasureBmp
  BY <1>1, <1>2, <1>3 DEF MeasureImu, MeasureBmp, ImuSample, BmpSample, Errors, BmpReads
<1>4. CASE CheckStale \/ RecoverBus \/ Drain \/ RefreshConfig \/ EnterStorage \/ HandleSkip
            \/ InitImu \/ InitImuFails
  BY <1>4 DEF CheckStale, RecoverBus, Drain, RefreshConfig, EnterStorage, HandleSkip, InitImu,
     InitImuFails, Lifecycle
<1>5. CASE Stop \/ LeaveStorage \/ InitBus \/ InitBmp \/ InitBmpFails \/ SaveWorks \/ EndStartup
            \/ HoldSw3 \/ StorageMode \/ RequestStop
  BY <1>5 DEF Stop, LeaveStorage, InitBus, InitBmp, InitBmpFails, SaveWorks, EndStartup,
    HoldSw3,
     StorageMode, RequestStop
<1>6. CASE \/ Fatal \/ BeginPass \/ Collects \/ NoSkip \/ BusNotDue \/ BusThere \/ ImuNotTried
           \/ BmpNotTried \/ KeepConfig \/ NothingServed("imu", "readImu", "readBmp")
           \/ NothingServed("bmp", "readBmp", "save") \/ Estimate \/ SaveFails \/ SaveNotDue
           \/ NoRecovery \/ EndPass \/ EndPassQuietly
           \/ (\E d \in Devices : Interrupt(d)) \/ UNCHANGED vars
  BY <1>1, <1>6 DEF Fatal, BeginPass, Collects, Take, NoSkip, BusNotDue, BusThere, ImuNotTried,
     BmpNotTried, KeepConfig, NothingServed, Estimate, SaveFails, SaveNotDue, NoRecovery,
    EndPass,
     EndPassQuietly, Interrupt, outside, vars
<1> QED BY <1>3, <1>4, <1>5, <1>6 DEF Next, Worker, Others

\* Only a pending calibration is written.
LEMMA OnlySavedOnce == [Next]_vars /\ ~s.ctl.pending => file' = file
<1> SUFFICES ASSUME [Next]_vars, ~s.ctl.pending PROVE file' = file
  OBVIOUS
<1>1. CASE Worker
  BY <1>1 DEF Worker, outside, Stop, Fatal, EnterStorage, LeaveStorage, BeginPass, Collects,
    Take,
     HandleSkip, NoSkip, InitBus, BusNotDue, BusThere, InitImu, InitImuFails, ImuNotTried,
    InitBmp,
     InitBmpFails, BmpNotTried, RefreshConfig, KeepConfig, NothingServed, MeasureImu,
    MeasureBmp,
     Drain, Estimate, SaveWorks, SaveFails, SaveNotDue, CheckStale, RecoverBus, NoRecovery,
     EndStartup, EndPass, EndPassQuietly
<1>2. CASE Others \/ UNCHANGED vars
  BY <1>2 DEF Others, HoldSw3, StorageMode, RequestStop, Interrupt, outside, vars
<1> QED BY <1>1, <1>2 DEF Next

\* After sensor_handle_accel_calibration_skip no later step of the boot saves a
\* calibration or starts the IMU.
THEOREM SkipIsAlwaysFinal == Spec => SkipIsFinal
<1>1. ToldInv /\ [Next]_vars => (s.ctl.skipped => s'.ctl.skipped /\ file' = file /\ ~s'.imu.ready)
  <2> SUFFICES ASSUME ToldInv, [Next]_vars, s.ctl.skipped
               PROVE  s'.ctl.skipped /\ file' = file /\ ~s'.imu.ready
    OBVIOUS
  <2>1. ToldInv'
    BY ToldStep
  <2>2. "SKIPPED" \in bits /\ ~s.ctl.pending
    BY DEF ToldInv, PhaseTold
  <2>3. s'.ctl.skipped
    BY <2>1, <2>2, SkippedStays DEF ToldInv, PhaseTold
  <2> QED BY <2>1, <2>2, <2>3, OnlySavedOnce DEF ToldInv, ImuTold
<1> QED BY <1>1, ToldInit, ToldStep, PTL DEF Spec, SkipIsFinal

-----------------------------------------------------------------------------
(* The ring as a sequence                                                  *)

\* Indices below twice the capacity wrap around once; two samples of a ring that
\* has room never share a slot.
LEMMA WrapAround ==
    /\ \A a \in 0 .. Capacity - 1 : a % Capacity = a
    /\ \A a \in Capacity .. 2 * Capacity - 1 : a % Capacity = a - Capacity
BY CapacityAssumption

LEMMA SlotsDiffer ==
    ASSUME NEW h \in 0 .. Capacity - 1, NEW n \in 0 .. Capacity - 1, NEW k \in 0 .. n - 1
    PROVE  /\ (h + k) % Capacity # (h + n) % Capacity
           /\ (h + k) % Capacity \in 0 .. Capacity - 1
<1>1. Capacity \in Nat /\ Capacity > 0 /\ h \in Int /\ n \in Int /\ k \in Int
  BY CapacityAssumption
<1>2. CASE h + n < Capacity
  <2>1. (h + k) % Capacity = h + k /\ (h + n) % Capacity = h + n
    BY <1>1, <1>2, WrapAround
  <2> QED BY <1>1, <1>2, <2>1
<1>3. CASE h + n >= Capacity /\ h + k < Capacity
  <2>1. (h + k) % Capacity = h + k /\ (h + n) % Capacity = h + n - Capacity
    BY <1>1, <1>3, WrapAround
  <2> QED BY <1>1, <1>3, <2>1
<1>4. CASE h + k >= Capacity
  <2>1. (h + k) % Capacity = h + k - Capacity /\ (h + n) % Capacity = h + n - Capacity
    BY <1>1, <1>4, WrapAround
  <2> QED BY <1>1, <1>4, <2>1
<1> QED BY <1>1, <1>2, <1>3, <1>4

\* The ring as a sequence, and what each operation does to it.
LEMMA ContentsType ==
    ASSUME NEW r \in Ring
    PROVE  /\ Contents(r) \in Seq(Nat) /\ Len(Contents(r)) = r.count
           /\ \A k \in 1 .. r.count : Contents(r)[k] = r.slot[SlotOf(r, k - 1)]
<1>1. r.count \in Nat
  BY CapacityAssumption DEF Ring
<1>2. ASSUME NEW k \in 1 .. r.count PROVE r.slot[SlotOf(r, k - 1)] \in Nat
  <2>1. r.head + (k - 1) \in Nat
    BY <1>1, CapacityAssumption DEF Ring
  <2>2. SlotOf(r, k - 1) \in 0 .. Capacity - 1
    BY <2>1, CapacityAssumption DEF SlotOf
  <2> QED BY <2>2 DEF Ring
<1>3. Contents(r) \in [1 .. r.count -> Nat]
  BY <1>2 DEF Contents
<1>4. Contents(r) \in Seq(Nat) /\ Len(Contents(r)) = r.count
  <2>1. \A n \in Nat : \A f \in [1 .. n -> Nat] : f \in Seq(Nat) /\ Len(f) = n
    OBVIOUS
  <2> QED BY <1>1, <1>3, <2>1
<1> QED BY <1>4 DEF Contents

LEMMA ClearedContents ==
    ASSUME NEW r \in Ring PROVE Contents(ClearRing(r)) = <<>>
<1>1. ClearRing(r) \in Ring /\ ClearRing(r).count = 0
  BY RingType DEF ClearRing, Ring
<1> QED BY <1>1, ContentsType

LEMMA DroppedContents ==
    ASSUME NEW r \in Ring, r.count > 0
    PROVE  Contents(DropOldest(r)) = Tail(Contents(r)) /\ Contents(r) # <<>>
<1> DEFINE d == DropOldest(r)
<1>0. Capacity \in Nat /\ Capacity > 0
  BY CapacityAssumption
<1>1. d \in Ring /\ d.count = r.count - 1 /\ d.slot = r.slot /\ d.head = (r.head + 1) % Capacity
  BY RingType DEF DropOldest, Ring
<1> HIDE DEF d
<1>2. ASSUME NEW k \in 1 .. d.count PROVE SlotOf(d, k - 1) = SlotOf(r, k)
  <2>1. k \in 1 .. Capacity - 1 /\ r.head \in 0 .. Capacity - 1 /\ k \in Int /\ r.head \in Int
    BY <1>0, <1>1 DEF Ring
  <2>2. CASE r.head + 1 = Capacity
    <3>1. d.head = 0
      BY <1>0, <1>1, <2>1, <2>2, WrapAround
    <3>2. (d.head + (k - 1)) % Capacity = k - 1
      BY <1>0, <2>1, <3>1, WrapAround
    <3>3. (r.head + k) % Capacity = k - 1
      BY <1>0, <2>1, <2>2, WrapAround
    <3> QED BY <3>2, <3>3 DEF SlotOf
  <2>3. CASE r.head + 1 # Capacity
    <3>1. d.head = r.head + 1
      BY <1>0, <1>1, <2>1, <2>3, WrapAround
    <3>2. d.head + (k - 1) = r.head + k
      BY <2>1, <3>1
    <3> QED BY <3>2 DEF SlotOf
  <2> QED BY <2>2, <2>3
<1> DEFINE C == Contents(r)
           D == Contents(d)
<1>3. C \in Seq(Nat) /\ Len(C) = r.count /\ \A k \in 1 .. r.count : C[k] = r.slot[SlotOf(r, k - 1)]
  BY ContentsType
<1>4. D \in Seq(Nat) /\ Len(D) = d.count /\ \A k \in 1 .. d.count : D[k] = d.slot[SlotOf(d, k - 1)]
  BY <1>1, ContentsType
<1>5. r.count \in Nat
  BY <1>0 DEF Ring
<1> HIDE DEF C, D
<1>6. ASSUME NEW k \in 1 .. Len(D) PROVE D[k] = C[k + 1]
  <2>1. D[k] = r.slot[SlotOf(r, k)]
    BY <1>1, <1>2, <1>4
  <2>2. k + 1 \in 1 .. r.count /\ (k + 1) - 1 = k
    BY <1>1, <1>4, <1>5
  <2>3. C[k + 1] = r.slot[SlotOf(r, (k + 1) - 1)]
    BY <1>3, <2>2
  <2> QED BY <2>1, <2>2, <2>3
<1>7. D = Tail(C) /\ C # <<>>
  BY <1>1, <1>3, <1>4, <1>5, <1>6
<1> QED BY <1>7 DEF C, D, d

LEMMA PushedContents ==
    ASSUME NEW r \in Ring, NEW t \in Nat
    PROVE  LET C == Contents(r)
           IN  Contents(PushSample(r, t)) = Append(IF Len(C) = Capacity THEN Tail(C) ELSE C, t)
<1> DEFINE q == IF r.count = Capacity THEN DropOldest(r) ELSE r
           p == PushSample(r, t)
           Q == Contents(q)
           P == Contents(p)
<1>0. Capacity \in Nat /\ Capacity > 0
  BY CapacityAssumption
<1>1. q \in Ring /\ q.count \in 0 .. Capacity - 1
  <2>1. CASE r.count = Capacity
    <3>1. q = DropOldest(r) /\ q \in Ring
      BY <1>0, <2>1, RingType
    <3>2. q.count = Capacity - 1
      BY <2>1, <3>1 DEF DropOldest, Ring
    <3> QED BY <1>0, <3>1, <3>2
  <2>2. CASE r.count # Capacity
    BY <1>0, <2>2 DEF Ring
  <2> QED BY <2>1, <2>2
<1>2. p = [q EXCEPT !.slot = [q.slot EXCEPT ![SlotOf(q, q.count)] = t], !.count = q.count + 1]
  BY <1>1 DEF PushSample, Ring
<1>3. p \in Ring
  BY RingType
<1>4. Q = IF Len(Contents(r)) = Capacity THEN Tail(Contents(r)) ELSE Contents(r)
  BY <1>0, ContentsType, DroppedContents
<1> HIDE DEF p, q
<1>5. p.head = q.head /\ p.count = q.count + 1 /\ p.slot = [q.slot EXCEPT ![SlotOf(q, q.count)] = t]
  BY <1>1, <1>2 DEF Ring
<1>6. \A k : SlotOf(p, k) = SlotOf(q, k)
  BY <1>5 DEF SlotOf
<1>7. ASSUME NEW k \in 0 .. q.count - 1
      PROVE  SlotOf(q, k) # SlotOf(q, q.count) /\ SlotOf(q, k) \in 0 .. Capacity - 1
  <2>1. q.head \in 0 .. Capacity - 1
    BY <1>1 DEF Ring
  <2> QED BY <1>1, <2>1, SlotsDiffer DEF SlotOf
<1>8. SlotOf(q, q.count) \in 0 .. Capacity - 1
  <2>1. q.head + q.count \in Nat
    BY <1>0, <1>1 DEF Ring
  <2> QED BY <1>0, <2>1 DEF SlotOf
<1>9. Q \in Seq(Nat) /\ Len(Q) = q.count /\ \A k \in 1 .. q.count : Q[k] = q.slot[SlotOf(q, k - 1)]
  BY <1>1, ContentsType
<1>10. P \in Seq(Nat) /\ Len(P) = p.count /\ \A k \in 1 .. p.count : P[k] = p.slot[SlotOf(p, k - 1)]
  BY <1>3, ContentsType
<1>11. q.slot \in [0 .. Capacity - 1 -> Nat] /\ q.count \in Nat
  BY <1>0, <1>1 DEF Ring
<1> HIDE DEF P, Q
<1>12. ASSUME NEW k \in 1 .. q.count PROVE P[k] = Q[k]
  <2>1. k - 1 \in 0 .. q.count - 1 /\ k \in 1 .. p.count
    BY <1>5, <1>11
  <2>2. P[k] = p.slot[SlotOf(q, k - 1)] /\ Q[k] = q.slot[SlotOf(q, k - 1)]
    BY <1>6, <1>9, <1>10, <2>1
  <2>3. SlotOf(q, k - 1) # SlotOf(q, q.count) /\ SlotOf(q, k - 1) \in 0 .. Capacity - 1
    BY <1>7, <2>1
  <2> QED BY <1>5, <1>11, <2>2, <2>3
<1>13. P[q.count + 1] = t
  <2>1. q.count + 1 \in 1 .. p.count /\ (q.count + 1) - 1 = q.count
    BY <1>5, <1>11
  <2>2. P[q.count + 1] = p.slot[SlotOf(q, q.count)]
    BY <1>6, <1>10, <2>1
  <2> QED BY <1>5, <1>8, <1>11, <2>2
<1>14. P = Append(Q, t)
  BY <1>5, <1>9, <1>10, <1>11, <1>12, <1>13
<1> QED BY <1>4, <1>14 DEF P, Q, p

-----------------------------------------------------------------------------
(* Samples in the order of time                                            *)

\* The interrupt the task has taken, and the one it has not.
Waiting == s.imu.irq
Newest == drv["imu"].irq

\* Samples are held in the order of time, and every one of them is older than the
\* interrupts to come.
TimeInv ==
    /\ \A i, j \in 1 .. Len(Contents(ring)) : i < j => Contents(ring)[i] < Contents(ring)[j]
    /\ \A i \in 1 .. Len(Contents(ring)) :
          /\ Contents(ring)[i] <= clock
          /\ Waiting # 0 => Contents(ring)[i] < Waiting
          /\ Newest # 0 => Contents(ring)[i] < Newest
    /\ Waiting <= clock /\ Newest <= clock
    /\ Newest # 0 => Waiting < Newest

\* All a step can do to the samples and to the interrupts' times.
RingStep ==
    \/ ring' \in {ring, ClearRing(ring)}
    \/ ring.count > 0 /\ ring' = DropOldest(ring)

Passes ==
    /\ RingStep /\ clock' = clock
    /\ Waiting' \in {0, Waiting} /\ Newest' \in {0, Newest}
Hands == ring' = ring /\ clock' = clock /\ Newest # 0 /\ Waiting' = Newest /\ Newest' = 0
Ticks == ring' = ring /\ clock' = clock + 1 /\ Waiting' = Waiting /\ Newest' \in {Newest, clock'}
Pushes ==
    /\ Waiting # 0 /\ ring' = PushSample(ring, Waiting)
    /\ Waiting' = 0 /\ Newest' = Newest /\ clock' = clock

\* Every step is one of them.
LEMMA SampleStep ==
    ASSUME TypeOK, [Next]_vars
    PROVE  Passes \/ Hands \/ Ticks \/ Pushes
<1> s \in TaskState /\ drv \in [Devices -> Handle] /\ Waiting \in Nat /\ Newest \in Nat
  BY DEF TypeOK, Waiting, Newest, TaskState, Device, Handle, Devices
<1>1. CASE \/ NoSkip \/ BeginPass \/ BusNotDue \/ BusThere \/ ImuNotTried \/ BmpNotTried
           \/ KeepConfig \/ SaveNotDue \/ NoRecovery \/ EndPassQuietly
           \/ NothingServed("imu", "readImu", "readBmp") \/ NothingServed("bmp", "readBmp", "save")
           \/ HoldSw3 \/ StorageMode \/ RequestStop \/ UNCHANGED vars
  BY <1>1 DEF NoSkip, BeginPass, BusNotDue, BusThere, ImuNotTried, BmpNotTried, KeepConfig,
     SaveNotDue, NoRecovery, EndPassQuietly, NothingServed, HoldSw3, StorageMode,
     RequestStop, vars, hardware, samples, Passes, RingStep, Waiting, Newest
<1>2. ASSUME NEW d \in Devices, Interrupt(d) PROVE Ticks
  BY <1>2 DEF Interrupt, samples, Ticks, Waiting, Newest
<1>3. CASE Stop \/ Fatal
  BY <1>3, ReleaseType DEF Stop, Fatal, samples, Passes, RingStep, Waiting, Newest, Devices
<1>4. CASE EnterStorage
  <2>1. Waiting' = 0
    BY <1>4, StartValues DEF EnterStorage, Waiting
  <2>2. Newest' \in {0, Newest}
    BY <1>4, ReleaseType DEF EnterStorage, Newest, Devices
  <2> QED BY <1>4, <2>1, <2>2 DEF EnterStorage, Passes, RingStep
<1>5. CASE LeaveStorage
  BY <1>5, StartValues DEF LeaveStorage, hardware, Passes, RingStep, Waiting, Newest
<1>6. CASE Collects
  BY <1>6 DEF Collects, Take, samples, Passes, Hands, RingStep, Waiting, Newest, TaskState,
     Device, Devices, Handle
<1>7. CASE HandleSkip
  <2>1. Waiting' = 0
    BY <1>7 DEF HandleSkip, Waiting, TaskState, Device
  <2>2. Newest' \in {0, Newest}
    BY <1>7, ReleaseType DEF HandleSkip, Newest, Devices
  <2> QED BY <1>7, <2>1, <2>2 DEF HandleSkip, Passes, RingStep
<1>8. CASE InitBus
  BY <1>8 DEF InitBus, samples, Passes, RingStep, Waiting, Newest, TaskState
<1>9. CASE InitImu
  <2>1. Waiting' = 0
    BY <1>9, StartValues DEF InitImu, Waiting
  <2>2. Newest' \in {0, Newest}
    BY <1>9, StartType DEF InitImu, Newest, Devices
  <2> QED BY <1>9, <2>1, <2>2 DEF InitImu, samples, Passes, RingStep
<1>10. CASE InitImuFails
  <2>1. Waiting' = Waiting
    BY <1>10 DEF InitImuFails, Waiting, TaskState, Device
  <2>2. Newest' \in {0, Newest}
    BY <1>10, StartType DEF InitImuFails, Newest, Devices
  <2> QED BY <1>10, <2>1, <2>2 DEF InitImuFails, samples, Passes, RingStep
<1>11. CASE InitBmp \/ InitBmpFails
  <2>1. Waiting' = Waiting
    BY <1>11 DEF InitBmp, InitBmpFails, Waiting, TaskState
  <2>2. Newest' \in {0, Newest}
    BY <1>11, StartType DEF InitBmp, InitBmpFails, Newest, Devices
  <2> QED BY <1>11, <2>1, <2>2 DEF InitBmp, InitBmpFails, samples, Passes, RingStep
<1>12. CASE RefreshConfig
  BY <1>12 DEF RefreshConfig, RestartFusion, hardware, Passes, RingStep, Waiting, Newest
<1>13. CASE MeasureImu
  <2>1. ASSUME ImuSample PROVE Pushes
    BY <1>13, <2>1 DEF MeasureImu, Served, ImuSample, Serve, Pushes, Waiting, Newest,
       TaskState, Device
  <2>2. ASSUME s' = Serve("imu"), UNCHANGED <<drv, ring>> PROVE Passes
    BY <1>13, <2>2 DEF MeasureImu, Serve, Passes, RingStep, Waiting, Newest, TaskState,
       Device
  <2>3. ASSUME NEW how \in Errors, ImuError(how) PROVE Passes
    <3> DEFINE st == RecordError("imu", how)
    <3>1. st \in TaskState /\ st.imu.irq = 0
      <4>1. st \in TaskState
        BY ServeType DEF Devices
      <4>2. st.imu.irq = 0
        BY DEF RecordError, Serve, TaskState
      <4> QED BY <4>1, <4>2
    <3> HIDE DEF st
    <3>2. Waiting' = 0
      <4>1. InvalidateImu(st, TRUE).imu = Failed
        BY <3>1 DEF InvalidateImu
      <4>2. s' = st \/ s' = InvalidateImu(st, TRUE)
        BY <2>3 DEF ImuError, st
      <4> QED BY <3>1, <4>1, <4>2, StartValues DEF Waiting
    <3>3. Newest' \in {0, Newest}
      BY <2>3, ReleaseType DEF ImuError, Newest, Devices
    <3> QED BY <1>13, <2>3, <3>2, <3>3 DEF MeasureImu, ImuError, Passes, RingStep
  <2> QED BY <1>13, <2>1, <2>2, <2>3 DEF MeasureImu
<1>14. CASE MeasureBmp
  <2>1. ASSUME NEW valid, BmpSample(valid) PROVE Passes
    BY <1>14, <2>1 DEF MeasureBmp, BmpSample, Serve, Passes, RingStep, Waiting, Newest,
       TaskState
  <2>2. ASSUME s' = Serve("bmp"), UNCHANGED <<drv, samples>> PROVE Passes
    BY <1>14, <2>2 DEF MeasureBmp, samples, Serve, Passes, RingStep, Waiting, Newest,
       TaskState
  <2>3. ASSUME NEW how \in Errors, BmpError(how) PROVE Passes
    <3> DEFINE st == RecordError("bmp", how)
    <3>1. st \in TaskState /\ st.imu = s.imu
      <4>1. st \in TaskState
        BY ServeType DEF Devices
      <4>2. st.imu = s.imu
        BY DEF RecordError, Serve, TaskState
      <4> QED BY <4>1, <4>2
    <3> HIDE DEF st
    <3>2. Waiting' = Waiting
      <4>1. OfflineBmp(st).imu = st.imu
        BY <3>1 DEF OfflineBmp, InvalidateEstimate
      <4>2. s' = st \/ s' = OfflineBmp(st)
        BY <2>3 DEF BmpError, st
      <4> QED BY <3>1, <4>1, <4>2 DEF Waiting
    <3>3. Newest' \in {0, Newest}
      BY <2>3, ReleaseType DEF BmpError, Newest, Devices
    <3> QED BY <1>14, <2>3, <3>2, <3>3 DEF MeasureBmp, BmpError, Passes, RingStep
  <2> QED BY <1>14, <2>1, <2>2, <2>3 DEF MeasureBmp
<1>15. CASE Drain
  <2>1. Waiting' = Waiting
    BY <1>15 DEF Drain, Calibrate, RestartFusion, Fuse, Waiting
  <2> QED BY <1>15, <2>1 DEF Drain, PopsThrough, hardware, Passes, RingStep, Newest
<1>16. CASE Estimate
  BY <1>16 DEF Estimate, hardware, Passes, RingStep, Waiting, Newest
<1>17. CASE SaveWorks \/ SaveFails
  BY <1>17 DEF SaveWorks, SaveFails, hardware, samples, Passes, RingStep, Waiting, Newest,
     TaskState
<1>18. CASE CheckStale
  <2>1. PICK late \in SUBSET {d \in Devices : s[d].ready} :
          LET b == IF "bmp" \in late THEN OfflineBmp(s) ELSE s
              i == IF "imu" \in late THEN InvalidateImu(b, TRUE) ELSE b
          IN  /\ Release(late)
              /\ s' = [i EXCEPT !.dirty = @ \/ late # {}]
              /\ ring' = IF late = {} THEN ring ELSE ClearRing(ring)
    BY <1>18 DEF CheckStale
  <2> DEFINE b == IF "bmp" \in late THEN OfflineBmp(s) ELSE s
  <2>2. b \in TaskState /\ b.imu = s.imu
    BY OfflineBmpType DEF OfflineBmp, InvalidateEstimate, TaskState
  <2>3. s'.imu = IF "imu" \in late THEN Failed ELSE b.imu
    <3> DEFINE i == InvalidateImu(b, TRUE)
    <3>1. i \in TaskState
      BY <2>2, InvalidateImuType
    <3>2. i.imu = Failed
      BY <2>2 DEF InvalidateImu
    <3>3. s' = [(IF "imu" \in late THEN i ELSE b) EXCEPT !.dirty = @ \/ late # {}]
      BY <2>1
    <3> HIDE DEF b
    <3> QED BY <2>2, <3>1, <3>2, <3>3 DEF TaskState
  <2>4. Waiting' \in {0, Waiting}
    BY <2>2, <2>3, StartValues DEF Waiting
  <2>5. Newest' \in {0, Newest}
    BY <2>1, ReleaseType DEF Newest, Devices
  <2> QED BY <1>18, <2>1, <2>4, <2>5 DEF CheckStale, Passes, RingStep
<1>19. CASE RecoverBus
  <2> DEFINE st == InvalidateEstimate(InvalidateImu(s, TRUE))
  <2>1. st \in TaskState
    BY InvalidateImuType, InvalidateEstimateType
  <2>2. Waiting' = 0
    <3> HIDE DEF st
    <3> QED BY <1>19, <2>1, StartValues DEF RecoverBus, Waiting
  <2>3. Newest' \in {0, Newest}
    BY <1>19, ReleaseType DEF RecoverBus, Newest, Devices
  <2> QED BY <1>19, <2>2, <2>3 DEF RecoverBus, Passes, RingStep
<1>20. CASE EndStartup \/ EndPass
  BY <1>20 DEF EndStartup, EndPass, Publish, hardware, samples, Passes, RingStep, Waiting,
     Newest, TaskState
<1> QED
  BY <1>1, <1>2, <1>3, <1>4, <1>5, <1>6, <1>7, <1>8, <1>9, <1>10, <1>11, <1>12, <1>13, <1>14,
     <1>15, <1>16, <1>17, <1>18, <1>19, <1>20 DEF Next, Worker, Others

\* Sequences in the order of time.
Sorted(q) == \A i, j \in 1 .. Len(q) : i < j => q[i] < q[j]

LEMMA SortedTail ==
    ASSUME NEW q \in Seq(Nat), q # <<>>, Sorted(q)
    PROVE  /\ Tail(q) \in Seq(Nat) /\ Sorted(Tail(q))
           /\ \A i \in 1 .. Len(Tail(q)) : \E j \in 1 .. Len(q) : Tail(q)[i] = q[j]
<1>1. /\ Tail(q) \in Seq(Nat) /\ Len(Tail(q)) = Len(q) - 1 /\ Len(q) \in Nat
      /\ \A i \in 1 .. Len(Tail(q)) : Tail(q)[i] = q[i + 1]
  OBVIOUS
<1>2. \A i \in 1 .. Len(Tail(q)) : i + 1 \in 1 .. Len(q)
  BY <1>1
<1>3. Sorted(Tail(q))
  BY <1>1, <1>2 DEF Sorted
<1> QED BY <1>1, <1>2, <1>3

LEMMA SortedAppend ==
    ASSUME NEW q \in Seq(Nat), Sorted(q), NEW t \in Nat, \A i \in 1 .. Len(q) : q[i] < t
    PROVE  /\ Sorted(Append(q, t))
           /\ \A i \in 1 .. Len(Append(q, t)) :
                 Append(q, t)[i] = t \/ \E j \in 1 .. Len(q) : Append(q, t)[i] = q[j]
<1> DEFINE a == Append(q, t)
<1>1. /\ a \in Seq(Nat) /\ Len(a) = Len(q) + 1 /\ Len(q) \in Nat
      /\ \A i \in 1 .. Len(q) : a[i] = q[i]
      /\ a[Len(q) + 1] = t
  OBVIOUS
<1> HIDE DEF a
<1>2. \A i \in 1 .. Len(a) : i \in 1 .. Len(q) \/ i = Len(q) + 1
  BY <1>1
<1>3. ASSUME NEW i \in 1 .. Len(a), NEW j \in 1 .. Len(a), i < j PROVE a[i] < a[j]
  <2>1. i \in 1 .. Len(q)
    BY <1>1, <1>3
  <2>2. CASE j \in 1 .. Len(q)
    BY <1>1, <1>3, <2>1, <2>2 DEF Sorted
  <2>3. CASE j = Len(q) + 1
    BY <1>1, <2>1, <2>3
  <2> QED BY <1>2, <2>2, <2>3
<1> QED BY <1>1, <1>2, <1>3 DEF Sorted, a

\* The inductive invariant of FifoSpec.
SampleInv == TypeOK /\ TimeInv

\* A step that pushes nothing takes the oldest sample, all of them or none.
LEMMA LegalRing ==
    ASSUME ring \in Ring, RingStep
    PROVE  LET C == Contents(ring)
           IN  C' = C \/ C' = <<>> \/ (C # <<>> /\ C' = Tail(C))
<1>1. CASE ring' = ring
  BY <1>1
<1>2. CASE ring' = ClearRing(ring)
  BY <1>2, ClearedContents
<1>3. CASE ring.count > 0 /\ ring' = DropOldest(ring)
  BY <1>3, DroppedContents
<1> QED BY <1>1, <1>2, <1>3 DEF RingStep

LEMMA TimeStep == SampleInv /\ [Next]_vars => TimeInv'
<1> SUFFICES ASSUME SampleInv, [Next]_vars PROVE TimeInv'
  OBVIOUS
<1> DEFINE C == Contents(ring)
<1>1. /\ ring \in Ring /\ clock \in Nat /\ Waiting \in Nat /\ Newest \in Nat
      /\ C \in Seq(Nat) /\ Len(C) = ring.count
  BY ContentsType DEF SampleInv, TypeOK, TaskState, Device, Handle, Devices, Waiting, Newest
<1>2. /\ Sorted(C)
      /\ \A i \in 1 .. Len(C) : /\ C[i] <= clock /\ (Waiting # 0 => C[i] < Waiting)
                                /\ (Newest # 0 => C[i] < Newest)
      /\ Waiting <= clock /\ Newest <= clock /\ (Newest # 0 => Waiting < Newest)
  BY DEF SampleInv, TimeInv, Sorted
<1>3. \A i \in 1 .. Len(C) : C[i] \in Nat
  BY <1>1
<1>4. ASSUME Sorted(C'), \A i \in 1 .. Len(C') : /\ C'[i] <= clock' /\ (Waiting' # 0 => C'[i] < Waiting')
                                               /\ (Newest' # 0 => C'[i] < Newest'),
             Waiting' <= clock', Newest' <= clock', Newest' # 0 => Waiting' < Newest'
      PROVE  TimeInv'
  BY <1>4 DEF TimeInv, Sorted
<1>5. Passes \/ Hands \/ Ticks \/ Pushes
  BY SampleStep DEF SampleInv
<1>6. CASE Passes
  <2>1. C' = C \/ C' = <<>> \/ (C # <<>> /\ C' = Tail(C))
    BY <1>1, <1>6, LegalRing DEF Passes
  <2>2. Sorted(C') /\ \A i \in 1 .. Len(C') : \E j \in 1 .. Len(C) : C'[i] = C[j]
    <3>1. CASE C' = C
      BY <1>2, <3>1
    <3>2. CASE C' = <<>>
      BY <3>2 DEF Sorted
    <3>3. CASE C # <<>> /\ C' = Tail(C)
      BY <1>1, <1>2, <3>3, SortedTail
    <3> QED BY <2>1, <3>1, <3>2, <3>3
  <2> HIDE DEF C
  <2>3. /\ Waiting' <= clock' /\ Newest' <= clock'
        /\ Newest' # 0 => Waiting' < Newest'
    BY <1>1, <1>2, <1>6 DEF Passes
  <2>4. \A i \in 1 .. Len(C') : /\ C'[i] <= clock' /\ (Waiting' # 0 => C'[i] < Waiting')
                                /\ (Newest' # 0 => C'[i] < Newest')
    BY <1>2, <1>6, <2>2 DEF Passes
  <2> QED BY <1>4, <2>2, <2>3, <2>4
<1>7. CASE Hands
  <2>1. C' = C
    BY <1>7 DEF Hands
  <2> HIDE DEF C
  <2> QED BY <1>1, <1>2, <1>3, <1>4, <1>7, <2>1 DEF Hands
<1>8. CASE Ticks
  <2>1. C' = C
    BY <1>8 DEF Ticks
  <2> HIDE DEF C
  <2> QED BY <1>1, <1>2, <1>3, <1>4, <1>8, <2>1 DEF Ticks
<1>9. CASE Pushes
  <2> DEFINE kept == IF Len(C) = Capacity THEN Tail(C) ELSE C
  <2>1. C' = Append(kept, Waiting)
    BY <1>1, <1>9, PushedContents DEF Pushes
  <2>2. /\ kept \in Seq(Nat) /\ Sorted(kept)
        /\ \A i \in 1 .. Len(kept) : \E j \in 1 .. Len(C) : kept[i] = C[j]
    <3>1. CASE Len(C) = Capacity
      <4>1. C # <<>>
        BY <1>1, <3>1, CapacityAssumption
      <4> QED BY <1>1, <1>2, <3>1, <4>1, SortedTail
    <3>2. CASE Len(C) # Capacity
      BY <1>1, <1>2, <3>2
    <3> QED BY <3>1, <3>2
  <2> HIDE DEF kept, C
  <2>3. \A i \in 1 .. Len(kept) : kept[i] < Waiting
    BY <1>2, <1>9, <2>2 DEF Pushes
  <2>4. /\ Sorted(C')
        /\ \A i \in 1 .. Len(C') :
              C'[i] = Waiting \/ \E j \in 1 .. Len(kept) : C'[i] = kept[j]
    BY <1>1, <2>1, <2>2, <2>3, SortedAppend
  <2>5. \A i \in 1 .. Len(C') : /\ C'[i] <= clock
                                /\ (Newest # 0 => C'[i] < Newest)
    BY <1>2, <2>2, <2>4
  <2> QED BY <1>1, <1>2, <1>4, <1>9, <2>4, <2>5 DEF Pushes
<1> QED BY <1>5, <1>6, <1>7, <1>8, <1>9

LEMMA TimeInit == Init => SampleInv
<1> SUFFICES ASSUME Init PROVE SampleInv
  OBVIOUS
<1>1. TypeOK
  BY TypeInit
<1>2. ring \in Ring /\ ring.count = 0
  BY <1>1 DEF Init, EmptyRing, TypeOK
<1>3. Len(Contents(ring)) = 0
  BY <1>2, ContentsType
<1>4. Waiting = 0 /\ Newest = 0 /\ clock = 0
  BY StartValues DEF Init, Waiting, Newest, NoDevice, Devices
<1> QED BY <1>1, <1>3, <1>4 DEF SampleInv, TimeInv

\* imu_sample_buffer.c is, for every capacity, the bounded queue of samples in the
\* order of time: through overflow, clearing and wrap-around.
THEOREM SamplesInOrder == Spec => FifoSpec
<1>1. Init => Fifo!Init
  BY TimeInit, ContentsType DEF Init, Fifo!Init, EmptyRing, SampleInv, TypeOK
<1>2. SampleInv /\ [Next]_vars => [Fifo!Next]_(Contents(ring))
  <2> SUFFICES ASSUME SampleInv, [Next]_vars PROVE [Fifo!Next]_(Contents(ring))
    OBVIOUS
  <2> DEFINE C == Contents(ring)
  <2>1. ring \in Ring /\ Waiting \in Nat /\ C \in Seq(Nat) /\ Len(C) = ring.count
    BY ContentsType DEF SampleInv, TypeOK, TaskState, Device, Waiting
  <2>2. Passes \/ Hands \/ Ticks \/ Pushes
    BY SampleStep DEF SampleInv
  <2>3. CASE Passes \/ Hands \/ Ticks
    <3>1. C' = C \/ C' = <<>> \/ (C # <<>> /\ C' = Tail(C))
      BY <2>1, <2>3, LegalRing DEF Passes, Hands, Ticks
    <3> QED BY <3>1 DEF Fifo!Next, Fifo!Leave, Fifo!Discard
  <2>4. CASE Pushes
    <3>1. C' = Append(IF Len(C) = Capacity THEN Tail(C) ELSE C, Waiting)
      BY <2>1, <2>4, PushedContents DEF Pushes
    <3>2. Waiting \in 1 .. MaxTime
      BY <2>1, <2>4, LimitsAssumption DEF Pushes, SampleInv, TypeOK, TimeInv
    <3>3. \A i \in 1 .. Len(C) : C[i] < Waiting
      BY <2>4 DEF Pushes, SampleInv, TimeInv
    <3> HIDE DEF C
    <3>4. Fifo!Arrive(Waiting)
      BY <3>1, <3>3 DEF Fifo!Arrive, C
    <3> QED BY <3>2, <3>4 DEF Fifo!Next
  <2> QED BY <2>2, <2>3, <2>4
<1>3. SampleInv /\ [Next]_vars => SampleInv'
  BY TimeStep, TypeStep DEF SampleInv
<1> QED BY <1>1, <1>2, <1>3, TimeInit, PTL DEF Spec, FifoSpec, Fifo!Spec

=============================================================================
