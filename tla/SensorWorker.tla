----------------------------- MODULE SensorWorker -----------------------------
(***************************************************************************)
(* The sensor task (app/app_workers.c: app_sensor_worker_task) with what   *)
(* only it calls: the two drivers and their bus, the calibration           *)
(* controller, the sample buffer, and the control of the fusion and of the *)
(* estimator.  Beside it run the interrupts, the system worker's SW3, the  *)
(* host's write sessions and the power-off.                                *)
(*                                                                         *)
(* An action is one step of a pass over sensor_execute_work, up to the     *)
(* next look at something another actor writes.  Numbers become classes:   *)
(* a sample is its time and "still", "moving" or "bad"; a deadline that is *)
(* armed (wait) may or may not have passed when it is tested.  A step of    *)
(* another actor is taken where the task next looks at what it writes: one *)
(* that comes earlier in the pass has the same effect.  Left out: counters *)
(* for display, watchdog feeding, a failing CPU-frequency lock.            *)
(***************************************************************************)
EXTENDS ImuSampleBuffer, FiniteSets

CONSTANTS
    ErrorLimit, \* SENSOR_CONSECUTIVE_ERROR_LIMIT
    CalSamples, \* IMU_ACCEL_CALIBRATION_SAMPLE_COUNT
    Warmup,     \* ESTIMATOR_WARMUP_SAMPLE_COUNT
    MaxTime,    \* bound: interrupts
    MaxFaults   \* bound: device handles or ISRs a driver fails to release

ASSUME LimitsAssumption ==
    {ErrorLimit, CalSamples, MaxTime, MaxFaults} \subseteq Nat /\ Warmup \in Nat \ {0, 1}

Devices == {"bmp", "imu"}
SampleClass == {"still", "moving", "bad"}

VARIABLES
    pc,     \* where the task is in its pass
    bits,   \* the event group
    drv,    \* per driver: device handle, ISR registered, newest interrupt not taken
    bus,    \* sensor_bus_handle
    s,      \* sensor_task_state_t
    ring,   \* sensor_imu_sample_buffer
    cutoff, \* time of the barometer's sample in process
    file,   \* mc_data.json holds a valid calibration
    seen,   \* latest_vario, the published result
    clock,  \* interrupts so far
    faults

vars == <<pc, bits, drv, bus, s, ring, cutoff, file, seen, clock, faults>>

\* What the other tasks see, what interrupts write, what the drivers own.
outside == <<bits, file, seen>>
hardware == <<drv, bus, clock, faults>>
samples == <<ring, cutoff>>

Go(from, to) == pc = from /\ pc' = to

-----------------------------------------------------------------------------
(* The parts of sensor_task_state_t                                        *)

\* irq: the interrupt to be served (0: none); wait: the next retry has a deadline.
Absent == [ready |-> FALSE, irq |-> 0, errs |-> 0, wait |-> FALSE]
Failed == [Absent EXCEPT !.wait = TRUE]
Online == [Absent EXCEPT !.ready = TRUE]

\* warm counts baro samples; accel, init and t belong to the fusion filter.
EstReset == [warm |-> 0, accel |-> FALSE, init |-> FALSE, t |-> 0]
DisableFusion(e) == [EstReset EXCEPT !.warm = e.warm]

NoResult == [pressure |-> FALSE, estimate |-> FALSE, fused |-> FALSE,
             imuCal |-> FALSE, imuStale |-> FALSE, vert |-> FALSE]
NoMotion(r, stale) ==
    [r EXCEPT !.imuCal = FALSE, !.imuStale = stale, !.fused = FALSE, !.vert = FALSE]

\* Mutant of InvalidateEstimate: the rate stays valid.
InvalidateEstimateKeeps(st) == [st EXCEPT !.res.pressure = FALSE, !.est = EstReset]

InvalidateEstimate(st) ==
    [st EXCEPT !.res.pressure = FALSE, !.res.estimate = FALSE, !.est = EstReset]

\* Mutant of Lifecycle: bits are set but not cleared.
LifecycleSets(b, calibrating, degraded) ==
    b \cup (IF calibrating THEN {"CALIBRATING"} ELSE {})
      \cup (IF degraded THEN {"DEGRADED"} ELSE {})

\* set_imu_lifecycle_state
Lifecycle(b, calibrating, degraded) ==
    (b \ {"CALIBRATING", "DEGRADED"})
        \cup (IF calibrating THEN {"CALIBRATING"} ELSE {})
        \cup (IF degraded THEN {"DEGRADED"} ELSE {})

-----------------------------------------------------------------------------
(* domain/imu_calibration_controller.c                                     *)

ControllerInit(valid) ==
    [persisted |-> valid, skipped |-> FALSE, pending |-> FALSE, wait |-> FALSE, n |-> 0]

Required(c) == ~c.skipped /\ ~c.persisted

\* Mutant of RequestSkip: a collected calibration stays pending.
RequestSkipKeeps(c) == [c EXCEPT !.skipped = TRUE, !.n = 0]

RequestSkip(c) == [c EXCEPT !.skipped = TRUE, !.pending = FALSE, !.wait = FALSE, !.n = 0]

\* A level, quiet sample counts; any other starts the collection again.  The
\* mean of a whole collection may still be out of range (fits).
Collect(c, class, fits) ==
    IF c.pending THEN c
    ELSE IF class # "still" THEN [c EXCEPT !.n = 0]
    ELSE IF c.n + 1 < CalSamples THEN [c EXCEPT !.n = @ + 1]
    ELSE IF fits THEN [c EXCEPT !.n = CalSamples, !.pending = TRUE, !.wait = FALSE]
    ELSE [c EXCEPT !.n = 0]

SaveSucceeded(c) == [c EXCEPT !.persisted = TRUE, !.pending = FALSE, !.wait = FALSE]
SaveFailed(c) == [c EXCEPT !.wait = TRUE]
ResetCollection(c) == IF Required(c) /\ ~c.pending THEN [c EXCEPT !.n = 0] ELSE c

-----------------------------------------------------------------------------
(* The drivers and the bus                                                 *)

NoDevice == [dev |-> FALSE, isr |-> FALSE, irq |-> 0]
Leftovers == [dev : BOOLEAN, isr : BOOLEAN, irq : {0}]

\* bmp581_deinit, icm42688_hxy_deinit: what cannot be released stays.
Release(D) ==
    \E left \in [D -> Leftovers] :
        /\ \A d \in D : (left[d].dev => drv[d].dev) /\ (left[d].isr => drv[d].isr)
        /\ drv' = [d \in Devices |-> IF d \in D THEN left[d] ELSE drv[d]]
        /\ faults' = faults + Cardinality({d \in D : left[d] # NoDevice})
        /\ faults' <= MaxFaults

\* A failed start undoes itself as far as the releases succeed.
StartFails(d) ==
    \E left \in Leftovers :
        /\ drv' = [drv EXCEPT ![d] = left]
        /\ faults' = faults + (IF left = NoDevice THEN 0 ELSE 1)
        /\ faults' <= MaxFaults

StartWorks(d) ==
    /\ drv' = [drv EXCEPT ![d] = [dev |-> TRUE, isr |-> TRUE, irq |-> 0]]
    /\ UNCHANGED faults

\* i2c_del_master_bus refuses while a device is attached (external).
BusFree(d) == ~d["bmp"].dev /\ ~d["imu"].dev

\* sensor_bus_deinit and sensor_bus_recover, after the devices' own release
DeinitBus == bus' = (bus /\ ~BusFree(drv'))
RecreateBus(works) == (works => BusFree(drv')) /\ bus' = (works \/ ~BusFree(drv'))

\* data_ready_isr
Interrupt(d) ==
    /\ pc \in {"take1", "take2", "take3", "take4"}
    /\ drv[d].isr /\ clock < MaxTime
    /\ clock' = clock + 1
    /\ drv' = [drv EXCEPT ![d].irq = clock']
    /\ UNCHANGED <<pc, outside, bus, s, samples, faults>>

-----------------------------------------------------------------------------
(* The other tasks                                                         *)

\* The system worker looks at REQUIRED in one call and asks in a later one: the
\* request may come when the phase is over.
HoldSw3 ==
    /\ pc \in {"skip", "save", "stale"}
    /\ {"REQUIRED", "SAVED", "SKIPPED"} \cap bits # {}
    /\ bits' = bits \cup {"SKIP_REQUEST"}
    /\ UNCHANGED <<pc, file, seen, hardware, s, samples>>

StorageMode ==
    /\ pc = "top"
    /\ bits' = IF "STORAGE" \in bits THEN bits \ {"STORAGE"} ELSE bits \cup {"STORAGE"}
    /\ UNCHANGED <<pc, file, seen, hardware, s, samples>>

RequestStop ==
    /\ pc \in {"top", "fatal"}
    /\ bits' = bits \cup {"STOP"}
    /\ UNCHANGED <<pc, file, seen, hardware, s, samples>>

-----------------------------------------------------------------------------
(* The head of the loop                                                    *)

\* sensor_invalidate_imu
InvalidateImu(st, stale) ==
    [st EXCEPT !.imu = Failed, !.cfg = FALSE, !.res = NoMotion(@, stale), !.fusion = FALSE,
               !.ctl = ResetCollection(@), !.est = DisableFusion(@)]

Stop ==
    /\ pc \in {"top", "fatal"} /\ "STOP" \in bits
    /\ pc' = "gone"
    /\ Release(Devices)
    /\ bits' = bits \cup {"ACK"}
    /\ UNCHANGED <<file, seen, bus, clock, s, samples>>

Fatal ==
    /\ Go("top", "fatal")
    /\ "FATAL" \in bits /\ "STOP" \notin bits
    /\ Release(Devices)
    /\ UNCHANGED <<outside, bus, clock, s, samples>>

EnterStorage ==
    /\ pc = "top" /\ {"STOP", "FATAL"} \cap bits = {} /\ "STORAGE" \in bits
    /\ ~s.quiesced
    /\ Release(Devices)
    /\ DeinitBus
    /\ LET st == InvalidateEstimate(s) IN
        /\ s' = [st EXCEPT !.bmp = Absent, !.imu = Absent, !.timeout = FALSE, !.cfg = FALSE,
                           !.res = NoMotion(@, FALSE), !.quiesced = TRUE]
        /\ seen' \in {seen, s'.res}
    /\ ring' = ClearRing(ring)
    /\ bits' = Lifecycle(bits \ {"RECOVERING"}, FALSE, FALSE) \cup {"QUIESCED"}
    /\ UNCHANGED <<pc, file, clock, cutoff>>

LeaveStorage ==
    /\ Go("top", "take1") /\ {"STOP", "FATAL", "STORAGE"} \cap bits = {}
    /\ s.quiesced
    /\ bits' = bits \ {"QUIESCED"}
    /\ s' = [s EXCEPT !.bmp = Absent, !.imu = Absent, !.fusion = FALSE, !.est = EstReset,
                      !.quiesced = FALSE]
    /\ ring' = ClearRing(ring)
    /\ UNCHANGED <<file, seen, hardware, cutoff>>

BeginPass ==
    /\ Go("top", "take1") /\ {"STOP", "FATAL", "STORAGE"} \cap bits = {}
    /\ ~s.quiesced
    /\ UNCHANGED <<outside, hardware, s, samples>>

\* sensor_collect_data_ready_events: the IMU first, then the barometer; twice
\* in a pass.  An interrupt of a device that is not ready is dropped.
Take(d, from, to) ==
    /\ Go(from, to)
    /\ drv' = [drv EXCEPT ![d].irq = 0]
    /\ s' = IF drv[d].irq # 0 /\ s[d].ready THEN [s EXCEPT ![d].irq = drv[d].irq] ELSE s
    /\ UNCHANGED <<outside, bus, clock, faults, samples>>

Collects ==
    \/ Take("imu", "take1", "take2")
    \/ Take("bmp", "take2", "skip")
    \/ Take("imu", "take3", "take4")
    \/ Take("bmp", "take4", "config")

-----------------------------------------------------------------------------
(* sensor_execute_work: the skip, the devices, the configuration           *)

\* sensor_handle_accel_calibration_skip
SkipAsked == "SKIP_REQUEST" \in bits /\ Required(s.ctl)

HandleSkip ==
    /\ Go("skip", "bus")
    /\ SkipAsked
    /\ IF s.imu.ready THEN Release({"imu"}) ELSE UNCHANGED <<drv, faults>>
    /\ s' = [s EXCEPT !.ctl = RequestSkip(@), !.cfg = FALSE, !.fusion = FALSE, !.dirty = TRUE,
                      !.imu.ready = FALSE, !.imu.irq = 0,
                      !.est = DisableFusion(@), !.res = NoMotion(@, TRUE)]
    /\ ring' = ClearRing(ring)
    /\ bits' = Lifecycle(bits \ {"REQUIRED", "SKIP_REQUEST"}, FALSE, TRUE) \cup {"SKIPPED"}
    /\ UNCHANGED <<file, seen, bus, clock, cutoff>>

NoSkip ==
    /\ Go("skip", "bus")
    /\ ~SkipAsked
    /\ UNCHANGED <<outside, hardware, s, samples>>

\* sensor_try_initialize_devices: the bus follows the barometer's deadline.
\* Without a bus neither device is tried.
InitBus ==
    /\ pc = "bus" /\ ~bus
    /\ \/ bus' = TRUE /\ pc' = "imu" /\ UNCHANGED <<s, bits>>
       \/ \E timeout \in BOOLEAN :
            /\ pc' = "take3"
            /\ s' = [s EXCEPT !.bmp.wait = TRUE, !.dirty = TRUE, !.timeout = @ \/ timeout]
            /\ bits' = bits \cup {"RECOVERING"}
            /\ UNCHANGED bus
    /\ UNCHANGED <<file, seen, drv, clock, faults, samples>>

BusNotDue ==
    /\ Go("bus", "take3")
    /\ ~bus /\ s.bmp.wait
    /\ UNCHANGED <<outside, hardware, s, samples>>

BusThere ==
    /\ Go("bus", "imu") /\ bus
    /\ UNCHANGED <<outside, hardware, s, samples>>

\* sensor_try_initialize_imu.  icm42688_hxy_init refuses to start over what an
\* earlier icm42688_hxy_deinit could not release.
ImuTried == ~s.timeout /\ ~s.imu.ready /\ ~s.ctl.skipped

InitImu ==
    /\ Go("imu", "bmp")
    /\ ImuTried /\ drv["imu"] = NoDevice /\ StartWorks("imu")
    /\ s' = [s EXCEPT !.imu = Online, !.res.imuStale = FALSE, !.fusion = FALSE,
                      !.est = DisableFusion(@), !.cfg = FALSE, !.dirty = TRUE]
    /\ bits' = Lifecycle(bits, TRUE, FALSE)
    /\ UNCHANGED <<file, seen, bus, clock, samples>>

InitImuFails ==
    /\ Go("imu", "bmp")
    /\ ImuTried
    /\ IF drv["imu"] = NoDevice THEN StartFails("imu") ELSE UNCHANGED <<drv, faults>>
    /\ s' = [s EXCEPT !.imu.wait = TRUE, !.res = NoMotion(@, TRUE), !.dirty = TRUE]
    /\ bits' = Lifecycle(bits, FALSE, TRUE)
    /\ UNCHANGED <<file, seen, bus, clock, samples>>

ImuNotTried ==
    /\ Go("imu", "bmp")
    /\ ImuTried => s.imu.wait
    /\ UNCHANGED <<outside, hardware, s, samples>>

\* bmp581_init first releases what an earlier bmp581_deinit left.
InitBmp ==
    /\ Go("bmp", "take3")
    /\ ~s.bmp.ready /\ StartWorks("bmp")
    /\ s' = [s EXCEPT !.bmp = Online, !.dirty = TRUE]
    /\ ring' = ClearRing(ring)
    /\ bits' = bits \ {"RECOVERING"}
    /\ UNCHANGED <<file, seen, bus, clock, cutoff>>

InitBmpFails ==
    /\ Go("bmp", "take3")
    /\ ~s.bmp.ready /\ StartFails("bmp")
    /\ \E timeout \in BOOLEAN :
        s' = [s EXCEPT !.bmp = Failed, !.dirty = TRUE, !.timeout = @ \/ timeout]
    /\ bits' = bits \cup {"RECOVERING"}
    /\ UNCHANGED <<file, seen, bus, clock, samples>>

BmpNotTried ==
    /\ Go("bmp", "take3")
    /\ s.bmp.ready \/ s.bmp.wait
    /\ UNCHANGED <<outside, hardware, s, samples>>

\* sensor_restart_imu_fusion
RestartFusion(st) ==
    [st EXCEPT !.cfg = TRUE, !.fusion = FALSE, !.est = DisableFusion(@),
               !.res = NoMotion(@, st.res.imuStale)]

\* sensor_refresh_imu_config: always after a start, else when the console has
\* changed the number of samples.
RefreshConfig ==
    /\ Go("config", "readImu")
    /\ s.imu.ready
    /\ s' = RestartFusion(s)
    /\ ring' = ClearRing(ring)
    /\ bits' = Lifecycle(bits, TRUE, FALSE)
    /\ UNCHANGED <<file, seen, hardware, cutoff>>

KeepConfig ==
    /\ Go("config", "readImu")
    /\ s.imu.ready => s.cfg
    /\ UNCHANGED <<outside, hardware, s, samples>>

-----------------------------------------------------------------------------
(* sensor_execute_work: the measurement                                    *)

\* A served interrupt is forgotten before the device is read.
Served(d) == s[d].ready /\ s[d].irq # 0
Serve(d) == [s EXCEPT ![d].irq = 0]

NothingServed(d, from, to) ==
    /\ Go(from, to) /\ ~Served(d)
    /\ UNCHANGED <<outside, hardware, s, samples>>

\* How icm42688_hxy_read_sample and bmp581_read_sample may end: "not finished",
\* the sample is not there yet; "invalid", it is read, but out of range.
Errors == {"failed", "timeout"}
ImuReads == {"sample", "not finished"} \cup Errors
BmpReads == {"sample", "invalid", "not finished"} \cup Errors

RecordError(d, how) ==
    [Serve(d) EXCEPT ![d].errs = @ + 1, !.dirty = TRUE, !.timeout = @ \/ how = "timeout"]

ImuSample ==
    /\ s' = [Serve("imu") EXCEPT !.imu.errs = 0, !.res.imuStale = FALSE, !.dirty = TRUE]
    /\ ring' = PushSample(ring, s.imu.irq)
    /\ UNCHANGED <<drv, faults, bits>>

\* At the limit the device is given up.
ImuError(how) ==
    LET st == RecordError("imu", how) IN
    IF st.imu.errs < ErrorLimit
    THEN s' = st /\ UNCHANGED <<drv, faults, ring, bits>>
    ELSE /\ Release({"imu"})
         /\ s' = InvalidateImu(st, TRUE)
         /\ ring' = ClearRing(ring)
         /\ bits' = Lifecycle(bits, FALSE, TRUE)

MeasureImu ==
    /\ Go("readImu", "readBmp") /\ Served("imu")
    /\ \E how \in ImuReads :
        \/ how = "sample" /\ ImuSample
        \/ how = "not finished" /\ s' = Serve("imu") /\ UNCHANGED <<drv, faults, ring, bits>>
        \/ how \in Errors /\ ImuError(how)
    /\ UNCHANGED <<file, seen, bus, clock, cutoff>>

OfflineBmp(st) == [InvalidateEstimate(st) EXCEPT !.bmp = Failed]

\* The barometer's interrupt time closes the batch of IMU samples.
BmpSample(valid) ==
    /\ s' = [Serve("bmp") EXCEPT !.bmp.errs = 0, !.res.pressure = @ \/ valid, !.dirty = TRUE]
    /\ cutoff' = IF valid THEN s.bmp.irq ELSE cutoff
    /\ UNCHANGED <<drv, faults, ring, bits>>

BmpError(how) ==
    LET st == RecordError("bmp", how) IN
    /\ IF st.bmp.errs < ErrorLimit
       THEN s' = st /\ UNCHANGED <<drv, faults, ring, bits>>
       ELSE /\ Release({"bmp"})
            /\ s' = OfflineBmp(st)
            /\ ring' = ClearRing(ring)
            /\ bits' = bits \cup {"RECOVERING"}
    /\ UNCHANGED cutoff

MeasureBmp ==
    /\ pc = "readBmp" /\ Served("bmp")
    /\ \E how \in BmpReads :
        /\ pc' = IF how = "sample" THEN "drain" ELSE "save"
        /\ \/ how \in {"sample", "invalid"} /\ BmpSample(how = "sample")
           \/ how = "not finished" /\ s' = Serve("bmp") /\ UNCHANGED <<drv, faults, samples, bits>>
           \/ how \in Errors /\ BmpError(how)
    /\ UNCHANGED <<file, seen, bus, clock>>

\* vario_estimator_update_imu refuses a sample that is not later than the last
\* one the filter has used; ok: the arithmetic stays in range.
AcceptsImu(e, t, ok) == ok /\ (e.t = 0 \/ t > e.t)
UpdateImu(e, t) == [e EXCEPT !.accel = TRUE, !.t = t]

\* sensor_process_buffered_imu_sample with a calibration: auto is filter_mode.
\* A bad sample throws the attitude away and the samples behind it.
Fuse(st, t, class, auto) ==
    IF ~st.fusion
    THEN [st EXCEPT !.fusion = class = "still", !.est = DisableFusion(@),
                    !.res.imuCal = class = "still", !.res.vert = FALSE]
    ELSE LET used == AcceptsImu(st.est, t, class = "still")
         IN  [st EXCEPT !.res.imuCal = TRUE, !.res.vert = ~auto \/ used,
                        !.est = IF auto /\ used THEN UpdateImu(@, t) ELSE DisableFusion(@)]

\* The same without one: sensor_process_factory_accel_calibration.
Calibrate(st, class, fits) ==
    [st EXCEPT !.ctl = IF Required(@) THEN Collect(@, class, fits) ELSE @,
               !.res = NoMotion(@, st.res.imuStale)]

Drain ==
    /\ pc = "drain" /\ PopsThrough(ring, cutoff)
    /\ \E class \in SampleClass, either \in BOOLEAN :
        LET t == Oldest(ring) IN
        /\ s' = IF ~s.ctl.persisted THEN Calibrate(s, class, either)
                ELSE IF class = "bad" THEN RestartFusion(s)
                ELSE Fuse(s, t, class, either)
        /\ ring' = IF s.ctl.persisted /\ class = "bad" THEN ClearRing(ring)
                   ELSE DropOldest(ring)
        /\ bits' = Lifecycle(bits, ~s.ctl.skipped /\ ~s'.fusion, s.ctl.skipped)
    /\ UNCHANGED <<pc, file, seen, hardware, cutoff>>

\* vario_estimator_update.  restart: a gap in time, or another sea-level
\* pressure; wild: out of range; unfused, refused: the filter's prediction or
\* its correction fails.
EstimateOutcome == {"good", "restart", "wild", "unfused", "refused"}

UpdateBaro(e, wanted, how) ==
    LET f == IF how = "restart" THEN EstReset ELSE e
        w == IF f.warm < Warmup THEN f.warm + 1 ELSE Warmup
        broken == f.init /\ (how = "unfused" \/ f.t > cutoff)
    IN  IF how = "wild" THEN EstReset
        ELSE IF w < Warmup THEN [f EXCEPT !.warm = w]
        ELSE IF wanted /\ f.accel /\ ~broken
        THEN [f EXCEPT !.warm = w, !.init = TRUE, !.t = cutoff]
        ELSE [DisableFusion(f) EXCEPT !.warm = w]

Estimate ==
    /\ Go("drain", "save") /\ ~PopsThrough(ring, cutoff)
    /\ \E how \in EstimateOutcome, auto \in BOOLEAN :
        LET wanted == auto /\ s.imu.ready /\ s.res.imuCal /\ s.res.vert /\ ~s.res.imuStale
            e == UpdateBaro(s.est, wanted, how)
        IN  s' = [s EXCEPT !.est = e,
                           !.res.estimate = e.warm = Warmup,
                           !.res.fused = e.warm = Warmup /\ e.init /\ how # "refused"]
    /\ cutoff' = 0
    /\ UNCHANGED <<outside, hardware, ring>>

-----------------------------------------------------------------------------
(* sensor_execute_work: the calibration file, lateness, the bus            *)

\* sensor_try_save_accel_calibration
SaveWorks ==
    /\ Go("save", "stale") /\ s.ctl.pending
    /\ file' = TRUE
    /\ s' = [s EXCEPT !.ctl = SaveSucceeded(@), !.fusion = FALSE, !.cfg = FALSE, !.dirty = TRUE]
    /\ bits' = (bits \ {"REQUIRED", "SKIP_REQUEST"}) \cup {"SAVED"}
    /\ UNCHANGED <<seen, hardware, samples>>

SaveFails ==
    /\ Go("save", "stale") /\ s.ctl.pending
    /\ s' = [s EXCEPT !.ctl = SaveFailed(@), !.dirty = TRUE]
    /\ UNCHANGED <<outside, hardware, samples>>

SaveNotDue ==
    /\ Go("save", "stale")
    /\ s.ctl.pending => s.ctl.wait
    /\ UNCHANGED <<outside, hardware, s, samples>>

\* sensor_check_stale: any device that is ready may be late.
CheckStale ==
    /\ Go("stale", "recover")
    /\ \E late \in SUBSET {d \in Devices : s[d].ready} :
        LET b == IF "bmp" \in late THEN OfflineBmp(s) ELSE s
            i == IF "imu" \in late THEN InvalidateImu(b, TRUE) ELSE b
        IN  /\ Release(late)
            /\ s' = [i EXCEPT !.dirty = @ \/ late # {}]
            /\ ring' = IF late = {} THEN ring ELSE ClearRing(ring)
            /\ bits' = LET r == IF "bmp" \in late THEN bits \cup {"RECOVERING"} ELSE bits
                       IN  IF "imu" \in late THEN Lifecycle(r, FALSE, TRUE) ELSE r
    /\ UNCHANGED <<file, seen, bus, clock, cutoff>>

\* sensor_recover_shared_bus: both devices are released, the bus is made anew.
RecoverBus ==
    /\ Go("recover", "publish") /\ s.timeout
    /\ Release(Devices)
    /\ ring' = ClearRing(ring)
    /\ \E works \in BOOLEAN :
        /\ RecreateBus(works)
        /\ LET st == InvalidateEstimate(InvalidateImu(s, TRUE))
               retry == IF works THEN Absent ELSE Failed
           IN  s' = [st EXCEPT !.bmp = retry, !.imu = retry, !.timeout = FALSE, !.dirty = TRUE]
    /\ bits' = Lifecycle(bits \cup {"RECOVERING"}, FALSE, TRUE)
    /\ UNCHANGED <<file, seen, clock, cutoff>>

NoRecovery ==
    /\ Go("recover", "publish") /\ ~s.timeout
    /\ UNCHANGED <<outside, hardware, s, samples>>

-----------------------------------------------------------------------------
(* The end of a pass                                                       *)

\* sensor_publish_snapshots: either mutex may not be had in time.
Publish(vario, diagnostics) ==
    /\ seen' = IF vario THEN s.res ELSE seen
    /\ s' = [s EXCEPT !.dirty = ~vario \/ ~diagnostics, !.started = TRUE]

\* The first pass publishes without a deadline and reports the barometer.
EndStartup ==
    /\ Go("publish", "top") /\ ~s.started
    /\ \E vario, diagnostics \in BOOLEAN : Publish(vario, diagnostics)
    /\ bits' = bits \cup {"STARTUP"} \cup (IF s.bmp.ready THEN {} ELSE {"FATAL"})
    /\ UNCHANGED <<file, hardware, samples>>

EndPass ==
    /\ Go("publish", "top") /\ s.started
    /\ s.dirty
    /\ \E vario, diagnostics \in BOOLEAN : Publish(vario, diagnostics)
    /\ UNCHANGED <<bits, file, hardware, samples>>

\* Nothing to publish, or too early.
EndPassQuietly ==
    /\ Go("publish", "top") /\ s.started
    /\ UNCHANGED <<outside, hardware, s, samples>>

-----------------------------------------------------------------------------

\* app_sensor_worker_task begins with a whole pass.  REQUIRED was set by
\* app_main from the file it has read.
Init ==
    /\ pc = "skip"
    /\ file \in BOOLEAN
    /\ bits = IF file THEN {} ELSE {"REQUIRED"}
    /\ drv = [d \in Devices |-> NoDevice]
    /\ bus = FALSE
    /\ s = [bmp |-> Absent, imu |-> Absent, timeout |-> FALSE, cfg |-> FALSE, fusion |-> FALSE,
            ctl |-> ControllerInit(file), est |-> EstReset, res |-> NoResult,
            dirty |-> TRUE, started |-> FALSE, quiesced |-> FALSE]
    /\ ring = EmptyRing
    /\ cutoff = 0 /\ clock = 0 /\ faults = 0
    /\ seen = NoResult

Worker ==
    \/ Stop \/ Fatal \/ EnterStorage \/ LeaveStorage \/ BeginPass \/ Collects
    \/ HandleSkip \/ NoSkip \/ InitBus \/ BusNotDue \/ BusThere
    \/ InitImu \/ InitImuFails \/ ImuNotTried \/ InitBmp \/ InitBmpFails \/ BmpNotTried
    \/ RefreshConfig \/ KeepConfig
    \/ NothingServed("imu", "readImu", "readBmp") \/ MeasureImu
    \/ NothingServed("bmp", "readBmp", "save") \/ MeasureBmp
    \/ Drain \/ Estimate
    \/ SaveWorks \/ SaveFails \/ SaveNotDue \/ CheckStale \/ RecoverBus \/ NoRecovery
    \/ EndStartup \/ EndPass \/ EndPassQuietly

Others == HoldSw3 \/ StorageMode \/ RequestStop \/ \E d \in Devices : Interrupt(d)

Next == Worker \/ Others

Spec == Init /\ [][Next]_vars

-----------------------------------------------------------------------------
(* Properties                                                              *)

\* What the other tasks are told of the calibration (REQUIRED, SKIPPED, SAVED:
\* the SW3 hold, the lights) is what the controller and the file say, whatever
\* the order of a hold, a finished collection and a failed save.
PhaseTold ==
    /\ "REQUIRED" \in bits <=> Required(s.ctl)
    /\ "SKIPPED" \in bits <=> s.ctl.skipped
    /\ "SAVED" \in bits => s.ctl.persisted
    /\ s.ctl.persisted => file
    /\ s.ctl.skipped => ~s.ctl.pending /\ ~s.ctl.persisted

AtRest == pc = "top" /\ s.started /\ ~s.quiesced /\ {"STOP", "FATAL"} \cap bits = {}

\* Between two passes the barometer is reported as being recovered exactly when
\* it is not ready, and an IMU that is ready is not reported degraded.
LampsTrue ==
    AtRest => /\ "RECOVERING" \in bits <=> ~s.bmp.ready
              /\ s.imu.ready => "DEGRADED" \notin bits

\* The event bits that the lights and the buttons follow tell the truth.
BitsTrue == PhaseTold /\ LampsTrue

\* A published result that no later change waits behind promises a climb rate
\* only while the barometer works, and a fused one only while the IMU does.
SnapshotHonest ==
    AtRest /\ ~s.dirty => /\ seen.estimate \/ seen.pressure => s.bmp.ready
                          /\ seen.fused => s.imu.ready /\ s.ctl.persisted

\* What the sensor worker tells the others is true.
WhatIsTold == BitsTrue /\ SnapshotHonest

\* A skip is for the rest of the boot: a calibration that had been collected,
\* or whose save is being retried, is not saved later, and the IMU stays off.
SkipIsFinal ==
    [][s.ctl.skipped => s'.ctl.skipped /\ file' = file /\ ~s'.imu.ready]_vars

\* The samples reach the fusion as a bounded queue in the order of time would
\* give them out, through overflow, clearing and wrap-around of the ring.
Fifo == INSTANCE SampleFifo WITH fifo <- Contents(ring), Times <- 1 .. MaxTime
FifoSpec == Fifo!Spec
=============================================================================
