# Formal model of the CloudBaseVario firmware

This directory holds TLA+ modules for the firmware under `src/SRC` (an ESP32-S3
variometer: C, FreeRTOS, ESP-IDF) and for the MSC driver it patches under
`src/components/esp_tinyusb`, the TLC configurations that check them on small
instances, and TLAPS proofs about them. `PROJECT.json` lists, in machine-readable
form, the runs, the code lines each definition stands for, the hazards, the
seeded defects each property catches, and the theorems.

Contents: [the system](#1-the-system) · [FirmwareUpdate](#2-firmwareupdate) ·
[MscStorage](#3-mscstorage) · [WatchdogRecovery](#4-watchdogrecovery) ·
[BleNusTx](#5-blenustx) · [Shutdown](#6-shutdown) ·
[SensorWorker](#7-sensorworker) · [Switches](#8-switches) · [Motion](#9-motion) ·
[ConfigMedium](#10-configmedium) · [Parameters](#11-parameters) ·
[GpsPath](#12-gpspath) · [what is checked](#13-what-is-checked) ·
[what is proved](#14-what-is-proved) · [observations](#15-observations) ·
[limits](#16-what-is-not-modelled) · [plan](#17-plan) · [running it](#18-running-it)

## 1. The system

One device, one SoC, two cores. `app_main` (`app/startup.c`) decides how the
device starts, processes a waiting firmware update, starts the workers and opens
the USB medium to the host. The workers are FreeRTOS tasks (`app/app_workers.c`,
`app/gps_worker.c`, `app/ble_tx_worker.c`); they share snapshots through
`app/app_resources.c` and order each other with the bits of one event group. The
8 MB config FAT has two users that may never meet: the application, through
`/config`, and a USB host, through an MSC medium. The product specification is
`src/DOC/SW_spec.md` (Japanese; cited below by line).

### Components, state, operations

| component | source | state it keeps | operations |
|---|---|---|---|
| Firmware update | `platform/firmware_update.c`, `domain/firmware_pending_record.c`, `domain/firmware_update_policy.c`, `platform/firmware_auth.c` | files `UPDATE.BIN/PND/BAD`, `UPDATE_RESULT.TXT`, app partitions, authentication record, otadata, `update_diagnostics` | `process_boot`, `process_recovery`, `begin_confirmation`, `confirmation_task`, `wait_for_confirmation`, `mark_workers_started` |
| Startup | `app/startup.c` | progress of `app_startup_run`, the MSC gate | power-on gesture, recovery gesture, update, tasks, gate |
| USB storage ownership | `platform/usb_device_service.c`, `esp_tinyusb/tinyusb_msc.c`, `domain/usb_storage_policy.c` | owner of the FAT (`UNAVAILABLE`, `APP_OWNED`, `SWITCHING`, `HOST_OWNED`), requested mount, `host_io_enabled`, `storage_io_mutex`, `mux_lock`, `msc_policy_mutex` | start and stop, attach and detach, eject, enable, `begin_app_io` / `end_app_io` |
| Storage write session | the same files, `app/app_tasks.c` | the deferred WRITE in flight, `storage_mode_active`, pending count, idle timer | write event BEGIN / COMPLETE, `begin_storage_mode` / `end_storage_mode` |
| Power and shutdown | `app/app_workers.c`, `app/app_resources.c`, `platform/safe_stop_wake.c`, `platform/app_power.c` | event bits (stop, acknowledge, quiesced), system state, the 15 s deadline | `request_power_off`, worker stops, shutdown sound, release of the power hold, light sleep |
| Watchdog recovery | `platform/watchdog_service.c`, `domain/watchdog_recovery_policy.c` | two RTC copies of the recovery record, runtime record, registered actors | `begin_boot`, `mark_stage`, `update_active`, `mark_user_confirmed`, register, feed |
| BLE transmission | `domain/ble_nus_tx.c`, `app/ble_tx_worker.c`, `platform/ble_vario.c` | one slot per source, the sentence being sent and its fragment, tokens, link generation, `resync_pending` | offer, next / accept / reject fragment, suspend, link reset |
| Sensor worker | `app/app_workers.c` (`app_sensor_worker_task`), `platform/bmp581.c`, `icm42688_hxy.c`, `sensor_bus.c`, `domain/imu_calibration_controller.c`, `imu_sample_buffer.c` | `sensor_task_state_t`, the bus handle, device handles and ISRs, the ring of samples, the calibration controller, the published result | one pass of `sensor_execute_work`, enter and leave storage mode, skip, save, bus recovery |
| Switches | `domain/system_policy.c`, `app/startup.c`, `run_safe_stop_loop`, `platform/safe_stop_wake.c`, `app_power.c` | debounce and hold counters, the light-sleep lock, the wake interrupt | one `update` per sample; power on, off, on again; SW3 |
| Flight state and automatic power-off | `domain/flight_state.c`, `domain/auto_power_off.c` | state, landing candidate and its altitude range, GPS evidence, start of the count | one `update` per round, resets |
| Persistent files | `platform/config_storage.c`, `imu_calibration_storage.c`, `config_json.c`, `switch_preferences.c` | target, temporary and backup file; NVS | load with recovery, save |
| Parameters | `domain/app_config.c`, `app/app_resources.c` | the sets, the selected one, the revision, the radio's power | PARAM SET, RESET, SAVE; SW3; copies |
| GPS | `app/gps_worker.c`, `platform/gps_l96.c`, `domain/gps_nmea.c` | baud rate, configuration of the receiver, the pair, the snapshot | search, configure, read, stale, retry |
| Estimation, formats, drivers, host tools | `domain/imu_fusion.c`, `vario_*.c`, `lk8ex1.c`, board and audio drivers, `tools/` | real-valued filters, registers | — |

### Who calls whom, and where they meet

* `app_startup_run` → `firmware_update_process_boot` (before any worker) →
  `app_tasks_start` → `firmware_update_begin_confirmation` (creates `ota_confirm`)
  → `firmware_update_wait_for_confirmation` (15 s) → `usb_device_request_msc`.
  The update and `ota_confirm` work on the config FAT; opening the gate hands
  that FAT to the host.
* TinyUSB task → `tud_mount_cb` / `tud_umount_cb` / SCSI callbacks → `tinyusb_msc.c`
  → events back into `usb_device_service.c` (`msc_storage_event`,
  `msc_storage_write_event`, `tinyusb_device_event`). Console task →
  `usb_device_update_vbus` → start, stop, enable. Main → enable, once. All three
  move the same medium.
* WRITE(10) is deferred: the SCSI callback reserves the only buffer, the
  `tinyusb_msc_io` task quiesces the workers through the BEGIN callback, writes,
  and queues the completion back to the TinyUSB task.
* File users of `/config` (configuration, calibration, GPS log) bracket their
  work with `usb_device_storage_begin_app_io` / `end_app_io`.
* The sensor task publishes its result and its event bits; the system worker
  reads them for lamps, buttons, flight state and power-off. SW3 skips the
  calibration through a bit that the sensor task answers.
* The console edits a copy of the parameters and publishes it; SW3 selects
  another set; every other task follows `config_revision`.
* The GPS worker publishes pairs; the BLE worker and the system worker read them.
* System worker → stop bits → workers acknowledge; console worker saves the
  preferences once audio is quiet; `usb_device_stop` last; then the power hold
  goes.
* A watchdog reset may cut any of it; the next `begin_boot` reads the RTC record.

### What is hard here

Power cuts between file and partition writes; three tasks moving one medium under
three mutexes and a spin lock, with callbacks in between; a host that may eject,
reset, detach or write at any moment; a task that is deleted wherever it stands;
calls that fail half way; devices whose release fails; a receiver that restarts
and answers late; contacts that bounce; event bits cleared by one task and awaited by another
without a time limit; RTC records that may be torn; a BLE stream cut in the
middle of a sentence. `PROJECT.json` lists each such place at its line
("hazards"), with the properties that watch it.

### What makes each component correct

* **Update**: whatever moment power goes, a complete, certified image boots; a
  trial either replaces the image or leaves it; what the host reads is true; no
  package is lost; a trial is always decided; the host never gets the FAT while
  the update works on it.
* **Storage**: the FAT has one user; an accepted write is drained before a
  handover and its host answered; the owner shown is the true one; a failing
  call or a stop leaves no mutex taken; no deadlock among the three movers.
* **Session and shutdown**: a worker shown as quiet is quiet; a session's request
  ends with the session; the sound comes when all others have stopped; the power
  goes by the deadline; the switch settings are saved; light sleep only with
  everything at rest.
* **Watchdog**: at most one automatic restart until the user or five stable
  minutes intervene; a torn or damaged record never grants another.
* **BLE**: the receiver never sees two sentences run together; GPS pairs are
  whole and sent once; both sources are served.
* **Sensor worker**: lamps, buttons and results tell the truth about the devices
  and the calibration; a skip is final; samples reach the fusion in order.
* **Switches**: off and on take a release and a full hold; one press does one
  thing; the light-sleep lock is held exactly while a press is judged.
* **Motion**: candidate and count are never carried over a doubt.
* **Files**: after any cut the last complete file is found; a save is all or
  nothing, and its answer true; a calibration is used only if it was saved.
* **Parameters**: what is in memory can be saved and read back; a command changes
  what it names; who follows the revision has the selected set.
* **GPS**: a worker that reads has a configured receiver; pairs are of one epoch
  and advance; the receiver is found again.

## 2. FirmwareUpdate

`FirmwareUpdate.tla` models `firmware_update.c` with the parts of `startup.c`
that order it, the bootloader's slot selection (external: as `esp_ota_*` is used)
and the host that writes the input files.

| variable | code |
|---|---|
| `slot`, `authRec`, `ota`, `newest` | app partitions, the record in their last 4 KiB, otadata states and sequence |
| `file`, `status` | `UPDATE.BIN`, `UPDATE.PND`, `UPDATE.BAD` of `/config`, `UPDATE.BIN` of the PSRAM disk (`RBIN`); `UPDATE_RESULT.TXT` |
| `pc`, `img`, `src` | where `app_main` is in startup and `process_update`; `image_info`; `active_source` |
| `state`, `err`, `confirmReq`, `workers` | `update_diagnostics` |
| `conf` | where the `ota_confirm` task is |
| `exposed` | the host has the medium |
| `faults`, `hostWrites` | bounds |

Actions follow the code's order: `ProcessUpdate` (early return during a trial),
`Reconcile`, `CleanStatus`, `CleanRemove`, `RetirePending`, `ReportPending`
(`reconcile_pending_file`), `TakeInput`, `InspectInput`, `OpenInput`,
`EraseTarget`, `WriteTarget`, `EraseAuthRecord`, `WriteAuthRecord`,
`MoveConflict`, `StagePending`, `AnnounceStaged`, `SetBoot`, `Restart`,
`UndoPending` (`apply_update`), `RejectInput`, `Report`; then
`BeginConfirmation`, `StartWorkers`, `OpenGate`, `ExposeRecovery`; the task
`ConfirmDelay` … `ConfirmRemove`; the environment `PowerCut`, `Boot`,
`HostWrite`, `HostRelease`.

One action is one file-system or partition call. Each call that can fail has a
failing branch while `faults > 0`. `PowerCut` is possible everywhere; a move that
was in progress (`move_file_at` unlinks, then renames) may have lost its target,
and a text being written may be gone. The confirmation delay and the 15 s wait
are nondeterministic orders, so every interleaving of the waiting main task with
`ota_confirm` is there.

`AtomicUpdate.tla` is what the update promises: a current image, at most one
trial, and Stage / Confirm / RollBack. `FirmwareUpdate` implements it with
`current <- slot[Fallback]` (what otadata selects once an undecided trial is
dropped) and `trial <- TrialImage` (the image in the slot that is new or pending).

| property | says |
|---|---|
| `UpdateSound` | the next three together |
| — `BootChoiceSound` | what boots, and what boots after a rollback, is a complete image whose record certifies that image |
| — `ConfirmedMeansDecided` | CONFIRMED is never shown while a trial is open |
| — `NoInputBehindTrial` | until a call fails, no second input waits behind a trial (an `UPDATE.BIN` whose `stat` fails looks absent and stays) |
| `TrialHasEvidence` | while no call failed, a trial has `UPDATE.PND` and STAGED of that very image |
| `HostOwnsQuietMedium` | the host gets the FAT only after the trial and `ota_confirm` are over |
| `PackageKept` | an uninterrupted or cut update loses no package |
| `AtomicUpdateSpec` | the implementation of `AtomicUpdate` |
| `TrialDecided` | every trial is decided (with the exceptions the code has: MSC recovery, a failed `ota_confirm`) |

Fairness (`FairSpec`): weak fairness of the main task's steps, of `ota_confirm`'s
steps and of `Boot`. The tasks do not block on anything the model leaves out, so
the scheduler runs them; a device that is off is switched on some day. Nothing is
assumed of the host, of the user or of the power, which may be cut for ever.
`TrialDecided` survives that because a cut trial is dropped by the next boot.

## 3. MscStorage

`MscStorage.tla` models the ownership of the config FAT: the patched driver
(`tinyusb_msc.c`), the policy above it (`usb_device_service.c`) and the tasks
that run them.

| variable | code |
|---|---|
| `mountPoint`, `requested`, `transition`, `hostIo`, `bound` | `storage->mount_point`, `requested_mount_point`, `mount_transition_pending`, `host_io_enabled`, the FatFs drive |
| `reserved`, `ready`, `wpc`, `posted`, `callbackActive` | `deffered_writes`, `write_worker_ready`, the `tinyusb_msc_io` task, the queued completion, `completion_callback_active` |
| `active`, `pending`, `forceExit` | the write session in `usb_device_service.c` |
| `owner`, `transLocked`, `mutex` | `storage_owner`, `storage_transition_locked`, holders of the three mutexes |
| `exposure`, `gate`, `stopping`, `installed`, `attached` | the policy flags |
| `configured`, `cmd` | the host: device configured; a WRITE waits for its status |
| `job`, `call`, `dest`, `ret`, `app` | where the TinyUSB task, console, main and the file users are |

A mover's walk through `msc_storage_request_mount` and
`msc_storage_apply_requested_mount` is `Apply`, `Check`, `Start`, `Lock`, `Work*`,
`MountFs`, `Event`, `FailEvent`, `Cleanup`, `Final`: one action per section under `msc_lock`, per
blocking mutex, per call of FatFs/VFS and per callback, so everything else may
happen in between. Host actions are `HostWrite`, `HostRead`, `Eject`, `Reset`,
`Attach`, `Detach`; the life cycle `RequestMsc`, `Poll*`, `Enable`, `Stop*`,
`Uninstall`, `Stopped`; the file users `AppBegin`, `AppTake`, `AppRecheck`,
`AppEnd`. `Uninstall` deletes the TinyUSB task wherever it is; the mutexes it
held then belong to nobody (`"dead"`), as in FreeRTOS. Giving a mutex another
task holds fails a kernel assertion: `panicked` ends the behaviour.

| property | says |
|---|---|
| `MediumGuarded` | one side at a time has the medium: `FatExclusive`, while a file user is inside, the FAT is mounted for it and no host sector is being written; `GateKept`, between two events of the TinyUSB task a configured host reads the medium only after the gate was opened (`tud_mount_cb` hands it over earlier, the attach event takes it back); `NoForeignGive`, no task gives back another's `storage_io_mutex`; all three until a call fails |
| `OwnershipTrue` | `AppIoIsMounted`, `OwnerIsTrue`, `OneTransition`: what the policy shows, the mount point and the mutex agree, also when calls fail |
| `WriteKept` | `DrainBeforeHandover`, the medium changes hands with no accepted write left; `HostIsAnswered`, a WRITE the host waits for is in exactly one hand, across resets, detaches and stops |
| `WriteDrains`, `DetachReturns` | accepted writes and detaches end, unless a mutex is lost or the driver stops |

`GateKept` and `DrainBeforeHandover` are stated of a device whose calls succeed:
after a failed mount the clean-up (`tinyusb_msc.c:844-846`) reopens host I/O with
the medium still at the host, which is the code's deliberate fallback. So these
two and the two other parts of `MediumGuarded` are stated of the time before any
call has failed (`NoFailureYet`); the others hold after a failure, too.

Two things the model shows that no property forbids. A READ admitted before a
handover may read after it (`ReadMedium`; `tinyusb_msc.c:327`): the host may get
a stale sector, nothing is damaged, though SW_spec.md:450 wants one user at a
time. And the second of two unmounts may fail without MOUNT_FAILED, its mover
then keeps `storage_io_mutex` and file users stay out until it moves again
(`tinyusb_msc.c:788`).

Fairness (`FairSpec`): weak fairness of each task's own steps; strong fairness of
`WriteMedium`, `CompleteWrite` and `Attached \/ Detached`, the three places where
a task waits for something others use again and again. FreeRTOS hands a mutex to
the waiting task of highest priority and raises the holder's priority, and the
TinyUSB task takes its events from one queue in order, so none of them is passed
over for ever. Host, cable, VBUS poll and file users have no fairness.

## 4. WatchdogRecovery

`WatchdogRecovery.tla` models the record that outlives a reset in RTC memory and
what is decided from it: `domain/watchdog_recovery_policy.c`, the store and its
users in `platform/watchdog_service.c`, and the places of `startup.c` and
`app_workers.c` that confirm the user's presence.

| variable | code |
|---|---|
| `copy`, `writing` | `rtc_store.recovery[2]`; the copy a store is in the middle of (a reset then tears it) |
| `current`, `action`, `age` | `current_recovery_state`, the boot action, ticks since `active_since_ms` |
| `pc`, `reset` | where startup and the system worker are; the reason of the last reset |
| `resets`, `autos`, `survived` | history: watchdog resets and automatic restarts since the last confirmation; whether a record outlived a loss of power |

`BeginBoot` is `watchdog_service_begin_boot` with `watchdog_recovery_decide`; its
store is finished by `StoreDone`. `RecoveryGesture`, `Confirmed`,
`RestartConfirmed` and `UpdateActive` (after `Stable` ticks) clear the attempts;
`SkipGesture`, `AwaitGesture`, `ServiceStop`, `Started`, `SafeStop`, `MarkFatal`
move the program on. `Reset` (watchdog or other) is possible at every step: any
task may hang anywhere, so the heartbeats that lead to it need no model.
`PowerLoss` keeps or damages each copy on its own.

| property | says |
|---|---|
| `AutoRestarts` | `OneAutoRestart`: between two confirmations the device restarts by itself at most once; `FirstRestartGranted`: the first watchdog reset after a confirmation finds no attempt on record, if no record has outlived a loss of power |
| `JournalKept` | no reset but a loss of power costs the journal its last readable record |

`Half` stands for 2^31, `CountMax` for `UINT32_MAX`, `Stable` for five minutes.
`Comparable` leaves out one case: a record that outlives a loss of power and is
numbered exactly 2^31 ahead of the first record after it. It takes 2^31 stores.

## 5. BleNusTx

`BleNusTx.tla` composes the transmitter (`domain/ble_nus_tx.c`), the worker that
drives it (`app/ble_tx_worker.c`), the link and its generation
(`platform/ble_vario.c`) and a receiver that puts lines together.

| variable | code |
|---|---|
| `tx` | `ble_nus_tx_state_t`: `active` with `index` and `offset`, `lk8ex1` and `gps` waiting, `last` source, `done` pair, `tokens`, `timed` (`next_token_refill_us` set), `resync` |
| `pc`, `busySeen`, `usable`, `fresh` | where the worker is; `storage_mode_active` as it was read; `previous_link_usable`; the generation is the one seen last |
| `alive`, `connected`, `subscribed`, `stopping` | NimBLE's own record of the connection; `connection_handle`, `notification_subscribed`, `stop_requested` |
| `storage`, `stop`, `elapsed`, `newest` | event bits, the refill time, the newest GPS pair |
| `line`, `before`, `pairDone` | the receiver: unfinished sentence, last complete sentence, last complete pair |

A pass of the worker is `WakeUp` (stop and storage bits), `Sample` (the link, then
all that is done to the stream, the offers and the budget), then per fragment
`SendFragment` (next fragment, token, the check of the generation) and its
outcome: `Notified`, `NoMemory`, `NotConnected`, `Failed`; then `EndOfLoop`. The
host task, the peer, the system worker and the USB session act between any two
of these: `Connect`, `LinkLost`, `Disconnect`, `Subscribe`, `Unsubscribe`,
`RequestStop`, `BeginShutdown`, `StorageMode`, `GpsPair`, `Interval`. A sentence
has one to `MaxFragments` fragments; which is the last is not known beforehand.

| property | says |
|---|---|
| `NoSplice` | a fragment sent to a subscriber continues its line, begins on a clean one, or is the marker (SW_spec.md:327, 331) |
| `PairKept` | `PairTogether`: a GGA follows the RMC of its own pair with nothing in between (SW_spec.md:300); `PairOnce`: a pair the peer has whole is not sent again, unless the stream was suspended |
| `StreamGoesOn` | `BothServed`: what waits of either source is taken, as long as the link stays (SW_spec.md:301); `ResyncEnds`: a line cut off is closed, unless the link or its use ends |

Assumptions about the air, each a definition: `EndStream`, a receiver starts a
new line when it subscribes anew; `NotWithinCall`, no new connection or
subscription begins while the worker is inside one call of NimBLE (the code
checks the generation before that call, not in it; a new stream takes exchanges
over several connection intervals, a call microseconds). Fairness: the worker is
woken at least once a second by its own deadline, time passes, the stack reports
a connection it has dropped, and a link that lives does not refuse buffers for
ever (strong fairness of `Notified`).

## 6. Shutdown

`Shutdown.tla` models how the tasks come to rest: `request_power_off` of the
system worker, the five workers it stops, the write session that quiets and wakes
the sensor and audio workers, `app_main` that may still be starting up, and the
event group that connects them.

| variable | code |
|---|---|
| `bits` | `app_event_group`: `"stop"`, `"storage"`, the quiesced, sound and ACK bits; the bit named after a worker is its ACK |
| `woken` | tasks whose `xEventGroupWaitBits` has been satisfied and that have not run since |
| `pc` | where each task is |
| `started`, `fatal` | `active_ack_mask`; `APP_EVENT_FATAL_STATE` |
| `asleep` | `storage_quiesced` of the sensor and the audio worker |
| `prefs`, `dirty`, `nvs`, `saveFailed` | the switch settings, `switch_preferences_dirty`, NVS, the result of the save |
| `deferred` | `storage_power_off_pending`, `low_battery_power_off_pending` |
| `time` | what is left of `SHUTDOWN_TIMEOUT_MS`: more than the sound takes, less, nothing |
| `quiet`, `sounded`, `stopped`, `powerHold`, `sleep` | the locals of `request_power_off`, the power-hold pin, the permission of light sleep |
| `ble`, `usb` | the NimBLE host, the TinyUSB driver |
| `active`, `pending`, `forceExit`, `armed` | the write session of `usb_device_service.c` and its idle timer |
| `writes` | bound |

The event group is modelled as FreeRTOS has it, because the program depends on
it: `SetBits` ends every wait it satisfies at once, and a task so woken goes on
even if another task has cleared the bit before it runs. A task that was not
waiting yet sees the bits as they are when it looks.

The system worker goes `SystemRound` (sample the bits, the switches, publish),
`ClearOld`, `RequestStop`, `QuietCall` / `QuietReturns` / `SliceEnds`,
`RequestSound`, `SoundCall` / `SoundReturns`, `AbortSound`, `ReadAcks`,
`ReadSleepBlocked`, `StopUsb`, `Release`, `PermitSleep`; `Tick` brings the
deadline nearer while it waits. The workers: `SeesSession`, `FallAsleep`,
`WakeUp`; `AudioQuiet` … `AudioSound`; `ConsoleStops`, `ConsoleWakes`,
`ConsoleSave`; `BleStop`; `JustStops`; `Acknowledge`. The write session:
`WriteBegins`, `SessionClears`, `SessionRequests`, `WriteCompletes`,
`ForcedExit`, `TimerFires`, `FinishIfIdle`, `SessionEnds`. Startup:
`MainStartsBle`, `MainExposes`. How a sector gets from the host into the write
worker is `MscStorage`'s matter; here a write begins, may take any time, and is
completed by the TinyUSB task.

Merged into one step: a worker's own work between two looks at the bits, and
what only that worker reads; the writer's bounded wait for the quiesced workers,
which goes on in either case.

| property | says |
|---|---|
| `SessionFlagsTrue` | `QuietBitsTrue`: a quiesced bit is up only while its worker measures nothing and plays no tone, however sessions begin and end meanwhile; `RequestHasOwner`: the storage request never outlives its session, somebody is bound to clear it |
| `SoundComesLast` | the shutdown sound is played only when all other workers have acknowledged |
| `PreferencesKept` | with the console's ACK, or with the power released in time, NVS holds the settings in use, or the save has failed |
| `SleepIsSafe` | light sleep only with every worker deleted, USB down, no write under way and the Bluetooth host not stuck |
| `ShutdownEnds` | a shutdown begun releases the power |
| `SessionsEnd` | `DeferredOffHappens`: a power-off asked for during a session is carried out; `SleepersResume`: a worker quieted by a session resumes or is stopped |

Fairness (`FairSpec`): weak fairness of each task's own steps, of `Tick` (time
passes), of the write worker and the TinyUSB task once they have begun something,
and of the timer. None for the host (`WriteBegins`, `ForcedExit`) nor for
`app_main`, which waits for a calibration that may never come.

What else the model shows: a power-off in the first rounds finds Bluetooth not
yet started; `app_main` then starts it after the BLE worker's acknowledgement
(`startup.c:891`), and SAFE_STOP runs with it. And the end callback of a session
may come after the begin of the next (`usb_device_service.c:152`): that session
then writes with the workers awake. `QuietBitsTrue` and `RequestHasOwner` say what
still holds then.

## 7. SensorWorker

`SensorWorker.tla` models the sensor task with everything only it calls: the
drivers of the barometer and the IMU, their bus, the calibration controller, the
ring of samples (`ImuSampleBuffer.tla`) and the control of fusion and estimator.

| variable | code |
|---|---|
| `pc` | where the task is in its pass over `sensor_execute_work` |
| `bits` | the event group: stop, storage, quiesced, `REQUIRED`, `SKIPPED`, `SAVED`, `CALIBRATING`, `DEGRADED`, `RECOVERING`, the skip request |
| `drv`, `bus` | per driver its device handle, its ISR and the newest interrupt; `sensor_bus_handle` |
| `s` | `sensor_task_state_t`: both devices (ready, errors, retry deadline), controller (`ctl`), fusion and estimator (`est`), result (`res`), flags |
| `ring`, `cutoff` | `sensor_imu_sample_buffer`; time of the barometer's sample in process |
| `file`, `seen` | mc_data.json is valid; the published `latest_vario` |
| `clock`, `faults` | bounds: interrupts, releases that fail |

A pass is `BeginPass`, `Collects` (both devices, twice), `HandleSkip`, `InitBus`,
`InitImu`, `InitBmp`, `RefreshConfig`, `MeasureImu`, `MeasureBmp`, `Drain`,
`Estimate`, the save, `CheckStale`, `RecoverBus`, `Publish`, `EndPass`; each step
has its outcomes as disjuncts (works, fails, times out, not due). Beside it act
`HoldSw3`, `StorageMode`, `RequestStop` and `Interrupt`. Values are classes: a
sample is its time and still, moving or bad; a retry deadline may or may not have
passed when it is tested.

`SampleFifo.tla` is what the ring promises: a bounded queue in the order of time
that gives up its oldest sample. The ring implements it with
`fifo <- Contents(ring)`, driven by the whole worker, not by free pushes and pops.

| property | says |
|---|---|
| `WhatIsTold` | `BitsTrue`: REQUIRED, SKIPPED, SAVED, RECOVERING and DEGRADED are what the controller, the file and the devices say; `SnapshotHonest`: a published result promises a climb rate only with a working barometer, a fused one only with a working, calibrated IMU |
| `SkipIsFinal` | after a skip nothing collected earlier is saved, whatever save was being retried, and the IMU stays off |
| `FifoSpec` | the refinement above |

## 8. Switches

`Switches.tla` follows SW1 and SW3 through a whole power cycle: start
(`startup_power_on_confirmed`), run (`system_policy_step`), fatal fallback,
SAFE_STOP by interrupt and by polling, restart. `Debounce.tla` is
`system_policy_debounce_step`. One step is one sample of the level.

| variable | code |
|---|---|
| `pc`, `level` | where the task that reads SW1 is; the pin |
| `sw1`, `released`, `hold`, `short`, `off` | debounce state and `sw1_*` of `system_policy_state_t`, or the locals of the loop that judges |
| `sw3`, `hold3`, `short3`, `skip3` | the same for SW3 |
| `deferred` | `storage_power_off_pending` |
| `power`, `awake`, `safeSleep` | `app_power`: mode, `light_sleep_lock_held`, `safe_sleep_enabled` |
| `judging`, `trigger`, `notified` | `interaction_active` of the polling fallback; the level interrupt and its notification |
| `act`, `did1`, `did3`, `past`, `lockFailed` | history |

What the code decides is compared with `past`, which follows the levels that were
read, not with the code's own counters. `KeyMeant`: SW1 turns the device off, or
on from SAFE_STOP, only after a release for the debounce time and a full hold
since this state began. `OneActPerPress`: one press does one thing, also when
the calibration begins or ends while SW3 is down, or the host puts the power-off
off. `LightSleepKept`: the lock is held exactly while a press is judged.
`HoldRestarts`: a press that lasts turns the device on, with weak fairness of the
task that judges and none for the finger.

## 9. Motion

`Motion.tla` composes `flight_state.c` and `auto_power_off.c` as the system
worker drives them. A round is the unit of time; an instant of the code
(`..._since_us`) is kept as its age in rounds.

| variable | code |
|---|---|
| `state`, `since` | the flight state and `state_since_us` |
| `candidate`, `low`, `high` | `stationary_candidate_since_us`, `altitude_minimum_m`, `altitude_maximum_m` |
| `flew`, `gpsSince`, `updates` | `flight_condition_active`, `gps_high_speed_since_us`, `gps_high_speed_updates` |
| `minutes`, `started`, `blocked`, `triggered`, `asks` | `auto_power_off_minutes` and the power-off's state and answer |
| `window`, `rest` | history: the altitudes of the last rounds, rounds at rest |

`Round` is one update of both with any estimate, GPS reading and external power;
`Reconfigured` and `Unreadable` are the rounds that reset them.
`StationaryMeant`: STATIONARY is said only after a whole confirmation time of
fresh estimates in the range without a fast GPS reading, so nothing counted
before a doubt, a flight or a new configuration counts. `OffExactly`: the
power-off is asked for in exactly the round that completes its time at rest, and
once.

## 10. ConfigMedium

`ReplacedFile.tla` models the save and the load that setting.json
(`config_storage.c`) and mc_data.json (`imu_calibration_storage.c`) share: write,
verify, stat, unlink the backup, move aside, replace, move back, tidy; load,
recover. One action is one call of the file system, which works or fails; the power may be
cut between any two. `ParameterSets.tla` says which documents are accepted and
what is written (`app_config.c`, `config_json.c`). `ConfigMedium.tla` puts both
files on the medium with startup, PARAM SAVE, the sensor task's retried save, the
skip, and the host that takes the medium and writes anything.

| variable | code |
|---|---|
| `file`, `backup`, `temp` | setting.json/.bak/.tmp, mc_data.json/.bak/.tmp |
| `call`, `answer`, `got` | the call in progress; the last result of a save; of a load |
| `phase`, `owner` | startup's progress; who has the medium |
| `used`, `required`, `pending` | `sensor_state.imu_accel_calibration`, the REQUIRED bit, the collected result |
| `edited` | history |

`DurableFile.tla` is what such a file promises: one document is held, a save
replaces it as a whole or leaves it, and its answer says which. `KeptWhole` is
that refinement for both files, with `held` being the file or, where it is missing,
its backup. `UsedIsSaved`: the calibration the fusion uses is the one the
next boot finds, until the host edits it.

## 11. Parameters

`Parameters.tla` models the parameters in memory: the console that copies, edits
and publishes (`Set`, `ResetOne`, `ResetAll`, `Publish`, `GiveUp`), SW3
(`SelectNext`), a task that follows the revision (`Follow`, the BLE task), and the
radio (`MainCopies`, `MainSets`, `MainEnds`, `Connect`, `ReadConfigured`,
`ApplyRead`, `BeginApply`, `EndApply`, `Disconnect`). `config_mutex` makes a call
one step; between calls a task works on its copy.

| variable | code |
|---|---|
| `running`, `active`, `news` | `latest_profiles`, `active_profile_index`, "`config_revision` is not the one last seen" |
| `command`, `heard` | the console's copy with its set's number; the BLE task's copy |
| `ble`, `copied`, `configured` | how far main is; its copy; `configured_tx_power` |
| `radio`, `link`, `connecting`, `applying` | the power of advertising and of the connection; what the connect handler has read; calls of `ble_vario_apply_tx_power` |
| `missed` | history: a power the code loses, or one the controller refused |

| property | says |
|---|---|
| `ReadsBack` | whatever is set and reset, what is in memory is what a save writes and a boot reads back |
| `OnlyAsked` | a command changes what it names, in the set it was read from, though SW3 selects another meanwhile |
| `SetIsTold` | who sees no new revision works with the selected set as it is |
| `PowerReaches` | at rest advertising and connection have the power in memory, except in the windows of `Misses` and `Overtakes` and until the controller refuses one |

The windows of `PowerReaches` are exactly where the code loses a power: the model
violates the property when any one of them is not excepted. See section 15. A
refusal of the controller (`EndApply`, `MainSets`) leaves advertising or the
connection as it was, and nobody asks again before the next change
(`ble_tx_worker.c:243`), so the property is about the time before one.

## 12. GpsPath

`GpsPath.tla` models the GPS worker, the driver of the receiver and the pairing of
sentences, with the receiver and the wire around them.

| variable | code |
|---|---|
| `phase`, `probe`, `rate`, `noticed` | what `gps_l96_connect` or the worker waits for; index of the baud rate tried; the UART; `restart_seen` |
| `active`, `wanted`, `known` | `active_interval_ms`, the copied interval and its revision |
| `pairer`, `shot`, `latest` | `gps_nmea_pairer_t`; the worker's snapshot; what the others read |
| `rx`, `cmds`, `lines`, `sent` | the receiver and the wire (external) |
| `config`, `stop` | the shared configuration; the stop request |
| `restarted`, `overdue`, `faults` | history: of the receiver and of a command in this connection; bound |

The worker: `Connect` (with `CopyConfig`), `InstallFails`, `Probe`, `TakeAnswer`, `TimeOut`, `Settled`, `NoticeChange`,
`ReadSentence`, `Stale`, `Retry`, `Stops`. The receiver keeps its order, answers
every command once, and may restart on PMTK353 before it acknowledges it
(`AcknowledgeLate`). Lost, refused and late answers, restarts, silence and busy
mutexes each take one of `Faults`.

`Configured`: a worker that reads has a receiver that took all three settings,
unless it has restarted by itself since (SW_spec.md:299) or the connection began
while an interval command of an earlier one was still under way (`overdue`, see
section 15). `PairsAdvance`: what the
others read is the RMC and the GGA of one epoch, later than any before.
`GpsRecovers`: once nothing goes wrong any more an L96 is read, whatever baud rate
it was left at. Fairness: the worker's own steps, and the receiver answers a
command it hears; sentences have none, `Stale` covers their absence.

## 13. What is checked

| run | bounds | distinct states | properties |
|---|---|---|---|
| `update_safety` | 3 genuine images, 1 unsigned, 1 foreign; 2 failing calls; 2 host writes | 1,011,158 | `UpdateSound`, `TrialHasEvidence`, `HostOwnsQuietMedium`, `PackageKept`, `AtomicUpdateSpec`, `TrialDecided` |
| `msc_safety` | 1 file user, 1 failing call | 2,580,242 | `MediumGuarded`, `WriteKept`, `OwnershipTrue` |
| `msc_liveness` | no file user, no failing call | 259,973 | `WriteDrains`, `DetachReturns` |
| `watchdog_recovery` | numbers 0–7, counts to 3, 2 ticks | 30,654 | `AutoRestarts`, `JournalKept` |
| `ble_tx` | 2 tokens, 2 fragments, 2 pairs | 112,148 | `NoSplice`, `PairKept`, `StreamGoesOn` |
| `shutdown` | 2 settings; workers and writes, 3 together | 132,253 | `SessionFlagsTrue`, `SoundComesLast`, `PreferencesKept`, `SleepIsSafe`, `ShutdownEnds`, `SessionsEnd` |
| `sensors` | 2 errors, 2 calibration samples, 2 warm-up samples, ring of 2, 4 interrupts, 1 failed release | 3,699,511 | `WhatIsTold`, `SkipIsFinal`, `FifoSpec` |
| `switches` | debounce 2, hold 4, skip 3 samples | 957,426 | `KeyMeant`, `OneActPerPress`, `LightSleepKept`, `HoldRestarts` |
| `motion` | altitudes 0–3, range 2; GPS 2, confirmation 3, power-off 4 rounds | 38,892 | `StationaryMeant`, `OffExactly` |
| `medium` | both files, 2 calibrations, 4 settings texts | 1,391,248 | `UsedIsSaved`, `KeptWhole` |
| `parameters` | 1 shared and 2 ordered own parameters, sets 1–3 | 1,175,070 | `ReadsBack`, `SetIsTold`, `PowerReaches`, `OnlyAsked` |
| `gps` | 3 baud rates, 2 intervals, 2 epochs, 2 faults, 2 changes, 1 sentence under way | 1,557,010 | `Configured`, `PairsAdvance`, `GpsRecovers` |

Why the bounds are enough.

* *Images*: one that runs, one on trial and a third that arrives meanwhile cover
  every relation the code tests; there are only two OTA partitions. *Host
  writes*: two inputs are needed for a second package to meet a pending or a
  rejected one. *Failing calls*: two, so that the failure of the recovery from a
  failure is included; MscStorage uses one because each failing transition
  already ends in its recovery path. The safety theorems hold for any number.
* *File users* meet the movers only at `storage_io_mutex` and do not meet each
  other elsewhere; the theorems hold for any set of them.
* *Sequence numbers*: eight of them wrap, which is all the comparison can notice;
  counts saturate at 3, one above the 2 that a damaged record stands for.
* *Tokens, fragments, pairs*: two tokens let a pass end in the middle of a
  sentence or between RMC and GGA and leave one over; with two fragments a
  sentence can be cut; a second pair is what the first may be mixed up with.
* *Workers and writes* (`MaxLoad`): each write may open a session of its own and
  each worker multiplies the states, so the run takes slices: two workers that
  wait for one another (audio and sensor, audio and console) with one write, all
  five with none. Two sessions that overlap need two writes; the safety theorems
  cover them, the liveness of that case is not checked.
* *Sensors*: two of each is where a count can stop short of its limit, reach it
  and start again; four interrupts overflow a ring of two while a fifth sample is
  not needed to tell order from time; one failed release leaves either device's
  handle or ISR behind.
* *Switches*: the debounce, the hold and the skip each take more than one sample,
  in the code's order of length; counters stop at their limits, so nothing else
  is bounded.
* *Motion*: the candidate, the confirmation and the power-off each last several
  rounds and are not equal; four altitudes hold a pair out of range and pairs
  within it. The theorems hold for all of them.
* *Medium*: two documents tell old from new; the settings texts hold one of each
  class the parser treats differently. Failures and power cuts are not bounded.
* *Parameters*: two own parameters suffice for "in range each, out of order
  together"; three sets for the selected one, the one read from and another.
* *Gps*: three rates with the work rate in the middle, so that both neighbours are
  tried before and after it; two faults, so that one can follow the recovery from
  the other; two epochs can be mixed up.

Power cuts, resets, attaches, ejects, stops, starts and presses are not bounded at
all. `CHECK_DEADLOCK FALSE`: the system may really stop, in the MscStorage runs
when a stop deletes the TinyUSB task with a mutex or an assertion resets the chip;
in `shutdown`, where the device stays in SAFE_STOP; in `sensors` and `gps`, where
the task has stopped.

Every property has a seeded defect of the mapped code (a dropped guard, a missing
reset, a swapped order) under which TLC finds it violated; the mutated forms
stand beside the definitions they change, marked "Mutant of".

## 14. What is proved

Every safety property of every run, and every refinement, is a theorem: for all
sets of packages, images, documents and file users, all budgets of failures,
all ranges of sequence numbers, all numbers of tokens, fragments, pairs and
samples, all debounce and hold times, all altitudes, capacities and baud rates.
TLAPS checks every leaf. The assumptions on the constants, and why the code
justifies them:

| assumption | says | because |
|---|---|---|
| `ConstantsAssumption` | the package classes are disjoint, the factory image is genuine | a signature is valid or not, the metadata fit or not (`firmware_auth.c`) |
| `AppsAssumption`, `NoneAssumption`, `MediumAssumption` | file users, values and documents are not named like the tasks or the placeholders of the model | names |
| `WatchdogAssumption`, `BleAssumption`, `WorkersAssumption`, `MaxLoadAssumption`, `GpsAssumption` | bounds are natural numbers, positive where a zero makes no sense; started workers are workers; the work and the factory baud rate are among those tried | `supported_bauds` lists both (`gps_l96.c`) |
| `RestoredAssumption`, `OutdatedAssumption`, `BleInitAssumption` | what NVS restores are settings; a flag is one | `switch_preferences.c` rejects others |
| `DebounceStepsAssumption`, `HoldStepsAssumption`, `SkipStepsAssumption` | at least one sample each | the times of `system_policy.h` are whole multiples of its sample period |
| `MotionAssumption` | altitudes are integers, the range a natural number, the three times positive | constants of `flight_state.c` and `auto_power_off.c` |
| `CapacityAssumption`, `LimitsAssumption` | the ring has a slot; limits are natural numbers, the warm-up takes two samples or more | `IMU_SAMPLE_BUFFER_CAPACITY` is 32, `ESTIMATOR_WARMUP_SAMPLE_COUNT` 100 |
| `ParameterAssumption`, `LoadedAssumption`, `PowerAssumption` | shared and own parameters differ and orders hold among own ones; the defaults are valid; what startup loads is valid; the transmit power is shared | `config_json.c` and the validation of `app_config.c` refuse the rest; startup drops a refused set and falls back on the defaults |

The initial predicate of each module is the state the code starts in; no theorem
has another hypothesis than the specification.

**FirmwareUpdateProofs.** `TypeCorrect` (`TypeOK`), `Invariant` (`Inv`), and from
it `UpdateAlwaysSound` with its parts `BootAlwaysSound`, `ConfirmedIsDecided`,
`NoSecondInput`, `MediumIsQuiet`, and `UpdateIsAtomic`: every behaviour, with
crashes and failures, is one of `AtomicUpdate`. The argument: none of the
properties is inductive. A staged image is sound because of *when* the commit
comes, so `Inv` adds what has been done at each point:

* `InstallOrder`: the target slot holds the image, then its record certifies it,
  then no `UPDATE.BIN` is left, then STAGED is written, and only then `SetBoot`;
* `TrialIsNewest`: the trial is the newest otadata entry, so the *other* slot is
  what a rollback selects, and the device runs what otadata selects;
* `NoTrialInTransaction`: the transaction only runs with nothing on trial, so the
  slot it erases is never one that may boot;
* `ConfirmationOrder`: while a trial is open, `confirmation_required` is set and
  keeps the gate shut; `ota_confirm` marks the image valid before it writes
  CONFIRMED;
* `FactoryKept`: no action writes the factory slot.

A failing `stat` makes a file look absent (`LooksAbsent`), so the clauses about
`UPDATE.BIN` hold until a call fails; `FailureLasts` carries that through a step.

Each action has one lemma (`InvSetBoot`, `InvBoot`, …) with one step per conjunct
it can disturb. Lemmas about otadata (`CommitEffect`, `ConfirmEffect`,
`RollBackEffect`, `BootEffect`) say how `Active` and `Fallback` move; the
refinement then has four kinds of step: commit (Stage), mark valid (Confirm),
dropped or failed trial (RollBack), everything else (a stutter).

`EvidenceAlwaysThere` (`TrialHasEvidence`) and `PackageAlwaysKept` (`PackageKept`)
need one more invariant, of the time before a call fails: `Placed` says where the
files are at every step. `EvidenceThere` is the property for every slot on trial,
not only the running one, because a reset makes the other one run; `PendingPlaced`
says at which step `UPDATE.PND` is absent, any file or the evidence of the image
being installed; `InputPlaced` does it for the user's file. None of the three is
kept without the others. `PackageLeaves` then shows, step by step, that a package
leaves only for one of the reasons the property names (`Excused`).

**MscStorageProofs.** `StorageTypes` (`TypeOK`), `HostIsAlwaysAnswered`,
`OwnershipAlwaysTrue` with its parts `AppIoAlwaysMounted`, `OwnerAlwaysTrue` and
`AlwaysOneTransition`, `WriteAlwaysKept` (`WriteKept`), `MediumAlwaysGuarded`
(`MediumGuarded`). Three inductive invariants:

* `WriteInv` = `TypeOK` ∧ `OneCarrier` ∧ `DriverGone`. `OneCarrier` says an
  accepted write is in exactly one hand (waiting, in the worker, queued back, in
  completion). Without "exactly one" the number of reservations could not be
  bounded by the one buffer and the type of `reserved` is not inductive.
  `DriverGone` says no TinyUSB task exists once the driver is uninstalled, so
  nothing is queued to it.
* `Ownership` = `IoHeld` ∧ `OwnerIsTrue` ∧ `AppIoIsMounted`. `IoHeld` ties the
  program counters to `storage_io_mutex`: a mover between START and its event,
  and a file user past its take, hold it, and the owner is neither side while a
  mover works. Mutual exclusion of movers and file users follows from there being
  one holder.
* `GuardInv`: `InPlace` (who may be where, and who holds the policy lock) and, as
  long as no call has failed, `Untroubled`, `Drained` and `Closed`. A hand-over
  is drained although nobody looks again just before it: `Untroubled` says no
  move ends in an error but one whose caller keeps `storage_io_mutex` for ever;
  `Drained` says that a caller on its way to mount the FAT found no reserved
  write, and that no SCSI command can bring one any more, since the TinyUSB task
  is `Parked` or host I/O is off (or the mutex it waits for is lost and it never
  arrives). `Closed` is about the time before the gate opens: no write is accepted,
  and the medium stands on the host's side only while the TinyUSB task is at the
  attach event or no host is configured; that event turns back.

Frame lemmas (`CarrierFrame`, `DriverFrame`, `OwnerFrame`, `MoveFrame`,
`CallFrame`) dispose of the many actions that touch nothing an invariant reads.

**RecoveryProofs, the watchdog.** `RecoveryTypes` (`TypeOK`), `AutoRestartsRight` with
its parts `AlwaysOneAutoRestart` and `FirstRestartAlwaysGranted`,
`JournalAlwaysKept`. "At most one restart" is a fact
about what the *next* boot will read, so the invariant `Inv` follows the journal:

* `Ranked`: two readable records are never `Half` apart, so one is the newer;
* `Successor`: the record being written is the number after the one left alone
  (or the first after a loss of power), so once complete it is the newer;
* `CurrentIsSelected`: what RAM holds is what the next boot reads, when it matters;
* `RestartOnRecord`: after an automatic restart every record that could be read
  tells of it, also while the next one is being written;
* `CleanRecord`: without a watchdog reset since the last confirmation no record
  tells of one;
* `PowerIsBack`, `Tied`: what a loss of power may leave behind.

`TargetFacts` and `StoreFacts` are the lemmas about the store: it never touches
the record that would be read.

**RecoveryProofs, GpsPath.** `PairsAlwaysAdvance` (`PairsAdvance`) and
`ReceiverAlwaysConfigured` (`Configured`).

* `PairInv`: a sentence under way is one the receiver sent, and later than what
  the pairer holds and what was published of its kind; sentences of a kind come in
  order; what is held is later than the pair published; what the others read is
  that pair or an older one. Losing lines, and dropping what is held, keeps all of
  it (`NoSentence`), so that only the steps that send or read a sentence need an
  argument of their own.
* `ObeyInv` = `SearchTold` ∧ `PeriodTold`. Of PMTK353 and PMTK314 there is one
  form each, so whoever was told that it was taken has a receiver that took it.
  PMTK220 carries a value the answer does not repeat: `PeriodTold` keeps track that
  there is no such command or answer under way before the step that sends it,
  exactly one between the two, with the value meant, and none after it.

**BleNusTxProofs.** `BleTypes` (`TypeOK`), `NeverSpliced`, `PairsAreKept`
with its parts `PairsStayTogether` and `PairsGoOutOnce`. The receiver's line must
agree with the transmitter at *every* moment of a stream, not only when a fragment
is on its way:

* `LineInv`: with a listening peer and the generation sampled, the line is what
  `active`, `index` and `offset` say, or the marker is pending; before the
  generation is sampled the line of a new subscriber is empty;
* `LinkInv`: a fragment on its way to a subscriber belongs to the sampled link;
* `StopInv`: a peer that subscribes during the shutdown is sent nothing;
* `PairInv`: in the middle of a pair the last complete sentence is its RMC, and
  `done` is the pair the peer has;
* `TxInv`: no marker with an active sentence, no offset without one, the waiting
  pair is not the active one.

One lemma per operation of the transmitter says which fields it returns
(`ResetFacts`, `SuspendFacts`, `RejectFacts`, `AcceptFacts`, …); `Dropped` and
`GivenUp` are the two ways a fragment can be refused.

**ShutdownProofs.** `Types` (`TypeOK`), `SessionFlags` with its parts
`QuietBits` and `RequestOwned`, `SoundLast`,
`PreferencesSurvive`, `SleepSafe`. Each of these relates what one task has seen to
what others have done since, so the invariant says what stays true once seen:

* `AckInv`: an acknowledged worker is gone, and nobody stops before the request,
  which comes after the last change of a setting;
* `OrderInv`: once the wait for the workers has succeeded (`quiet`) their bits
  stay up, also when it was ended by a `SetBits` and has not returned yet; past
  the wait either `quiet` holds or the deadline has passed;
* `SleepInv`: what `stopped` has gathered so far at each place of
  `request_power_off`; a failed Bluetooth stop has raised its bit before its ACK;
* `PrefsInv`: NVS is what the boot found until the console worker is gone, and
  `dirty` tells whether the settings in use differ from it;
* `SessionInv`: a write under way holds the session, and the session the driver.

The frame lemmas (`WorkersFrame`, `SystemFrame`, `SessionFrame`, `MainFrame`,
`TickFrame`) say once which bits and places a group of tasks may touch; most
steps of the other proofs cite only these.

**SystemPolicyProofs, Motion.** `Invariance` (`Inv`), `StationaryIsMeant`,
`OffComesExactly`. STATIONARY follows from a candidate's age, the power-off from
the age of its count; neither age says by itself what happened meanwhile. The
invariant does:

* `Observed`: a candidate that did not begin in flight has watched every round
  since it began, none was doubtful, and their altitudes lie between `low` and
  `high`, at most `Range` apart;
* `Landed`: STATIONARY has such a candidate of full age;
* `Counted`: while the device rests, the count is as old as the rest and not
  older than the state; while it is held back, `blocked` remembers the stationary
  state it belongs to, so that a later count starts from 0 and not from `since`.

`DetectorStep` and `TimerStep` are the two halves of a round.

**SystemPolicyProofs, Switches.** `SwitchesInvariant` (`KeyInv`),
`PressesAreMeant` (`KeyMeant`), `EveryPressDoesOneThing` (`OneActPerPress`),
`LightSleepAlwaysKept` (`LightSleepKept`). The code counts samples in its own
counters; the property is about the levels that were read. `Tracks` ties them: the
level being timed was read without interruption for `steady` samples, and a level
that counts was once there for the debounce time. From that `KeyCounts` follows:
the hold counter never exceeds the time the level was held, and no loop counts a
hold as a request without a release behind it. `JudgeFacts` shows it for one sample
whatever loop reads it, so the steps of the four loops only cite it. `PressInv`
adds what is still pending while a press lasts; `LightInv` that light sleep is
permitted in SAFE_STOP only.

**SensorWorkerProofs.** `WhatIsAlwaysTold` (`WhatIsTold`), `SkipIsAlwaysFinal`
(`SkipIsFinal`), `SamplesInOrder` (`FifoSpec`). The task tells others at one place
what it learned at another, several passes may come between:

* `ToldInv`: `BmpTold` (a barometer that waits for its next start has been
  reported, and past the start of a pass it is either ready or reported),
  `ImuTold`, `Idle` (in storage mode nothing is claimed), `ResultBacked` (the
  result in preparation promises no more than the devices back, and a batch runs
  only with a barometer), `SeenBacked` (what is published is true, or a newer
  result waits to be published, or storage mode has just ended and the pass has
  not reached the barometer: `Fresh`). `SkippedStays` and `OnlySavedOnce` give the
  action property.
* `SampleInv`: the types and `TimeInv`, which says that the samples of the ring
  are in the order of time and older than the interrupt the task has taken, and
  that one older than the one it has not. `ContentsType` and the lemmas beside it
  say what each operation of `imu_sample_buffer.c` does to the ring read as a
  sequence, wrap-around included (`WrapAround`); `SampleStep` reduces the steps of
  the worker to four kinds.

**ConfigurationProofs, the medium.** `MediumInvariant` (`Inv`),
`CalibrationIsSaved` (`UsedIsSaved`), `FilesAreDurable` (`KeptWhole`). `SaveMade`
says what a save has verified and where the old document is at each of its calls,
so that a cut of the power between any two leaves a file or its backup.
`StepEffect` sums up a step of a save: it is a step of `DurableFile` for the file
it works on and a stutter for the other, and an "ok" means stored. The steps of
startup, console, sensor task and host are then checked against it one by one
(`…Good`).

**ConfigurationProofs, the parameters.** `ParametersInvariant` (`ParamInv`),
`EverySetReadsBack` (`ReadsBack`), `FollowersAreTold` (`SetIsTold`),
`CommandsChangeWhatTheyName` (`OnlyAsked`), `AirInvariant` and
`PowerReachesTheRadio` (`PowerReaches`). What is in memory is read back because
every command publishes a valid copy: `CommandMade` says of the console's copy
that it is valid and differs from the set it was read from only in the parameters
the command names, also after SW3 has selected another one. That the radio gets
the power can be seen only when everyone has ended; `AirInv` says who still has it
in hand before: main, the task that follows, the one that applies it, or the
handler of a connection.

**Only model-checked.** Liveness and anything with `ENABLED` (`TrialDecided`,
`WriteDrains`, `DetachReturns`, `StreamGoesOn`, `ShutdownEnds`, `SessionsEnd`,
`HoldRestarts`, `GpsRecovers`), which are out of the prover's reach.

## 15. Observations

What the models showed of the code beside what holds. None of these is a property
of a run; each was seen in a trace or met while modelling.

Where a document says otherwise:

| document | code |
|---|---|
| SW_spec.md:823: an update that cannot be written leaves the input as `UPDATE.BAD` | a failure after `UPDATE.PND` exists retires the package twice; the second `move_file_at` unlinks it (`firmware_update.c:868`, `:1007`) |
| SW_spec.md:825: no MSC medium while the clean-up of a confirmed update is unfinished | `confirmation_required` is false there, so the gate opens (`startup.c:875`) |
| SW_spec.md:372: the TinyUSB task is stopped after writes, session and handover are done | an attach in progress is deleted with the task, its mutexes and its write (`usb_device_service.c:1478`) |
| SW_spec.md:803: the first watchdog reset restarts the device by itself if the record is sound | a record that outlived a brownout with a higher number and an old count is chosen instead of the new one (`watchdog_recovery_policy.c:105`) |
| SW_spec.md:161: the console task saves the settings, then acknowledges, even if the save fails | a write session that begins or ends during the shutdown clears the AUDIO_QUIESCED the console worker waits for without limit (`app_workers.c:3495`): no save, no ACK, power off only at the deadline |
| SW_spec.md:286: a PARAM SET of the transmit power acts at once on advertising and connection | it is lost if set while main works with its copy (`startup.c:887`), before the BLE task's first copy, across a press of SW3, or under the connect handler (`ble_vario.c:444`), until the next change |
| SW_spec.md:67: the release that arms SAFE_STOP is confirmed for 30 ms | `safe_stop_confirm_level` starts with the candidate preset, so two further samples suffice |
| SW_spec.md:225, 799: the IMU is retried | `icm42688_hxy_init` refuses to start over what `icm42688_hxy_deinit` could not release: after one failed release the IMU does not return |

Smaller ones:

* A READ admitted before a handover may read after it (`tinyusb_msc.c:327`); the
  second of two unmounts may fail without MOUNT_FAILED (`tinyusb_msc.c:788`).
* An IMU interrupt between the two looks of a pass gets an older time than the
  sample before it, and the next drain disables the fusion. After a session
  that ends with a skipped calibration DEGRADED is not set again. Entering storage
  mode ignores a failed publication, so an old estimate may stay visible.
* A bounce after the wake interrupt has disabled itself leaves only the poll of
  once a second.
* PARAM RESET ALL resets the shared parameters, too. PARAM SAVE after a file some
  of whose sets were refused drops those sets. If the last unlink of a backup
  fails and the host then deletes setting.json, the old one comes back at boot.
* A receiver that restarts by itself and keeps its baud rate is read on with its
  settings lost. A configuration that cannot be copied on reconnection leaves the
  interval at its default although the revision counts as known
  (`gps_worker.c:124`).
* An acknowledgement of the receiver names its command and not the value
  (`wait_for_ack`). Answers that come after their deadline in four successive
  connections, while the configured interval changes, let the answer to the old
  PMTK220 be taken for the new one, and the worker reads a receiver with another
  interval than it believes (the model with `Faults = 4` and without `overdue` in
  `Configured`). The 5 s between two attempts (`GPS_RETRY_INTERVAL_MS`) against
  answer times of half a second to three make that a matter of principle.

## 16. What is not modelled

* Within the modules: signature, digest and metadata checks are the fixed
  class of a package; display counters and diagnostics text; CDC; SYNCHRONIZE
  CACHE and formatting; the PSRAM medium of MSC recovery, which
  runs the same driver with one user; in `MscStorage` the quiescing of the workers
  is only a delay and `usb_device_stop` comes from the VBUS poll, in `Shutdown`
  the driver is only its write session; the diagnostic fields of the watchdog
  record and the registered actors; battery notifications, advertising and
  connection parameters; a failing snapshot mutex or CPU-frequency lock, LEDs and
  telemetry in the shutdown; SW2, which has no memory; a clock that runs
  backwards, which `esp_timer` does not; checksums and positions in GPS lines.
* Estimation and sound (`imu_fusion.c`, `vario_estimator.c`, `imu_motion.c`,
  `vario_audio.c`): floating-point filters; a finite model would not be the code.
  When they are fed, reset and disabled is in `SensorWorker`.
* Memory: an allocation that fails while `setting.json` is parsed drops that set
  (`config_json.c:160`), as a malformed one does; `ParameterSets` has only the
  malformed one. A power cut between the unlink and the rename of a replacement of
  `UPDATE.PND` that a failing `stat` made look absent.
* NMEA fields, LK8EX1, metadata, JSON syntax: pure parsing and formatting,
  covered by the host tests under `src/tests`.
* Board, identity and audio drivers: register sequences and pure I/O.
* The vendored TinyUSB wrapper other than MSC, and the host tools.

## 17. Plan

| | module | status |
|---|---|---|
| 1 | `FirmwareUpdate`, `AtomicUpdate` | checked, safety and refinement proved |
| 2 | `MscStorage` | checked, safety proved |
| 3 | `WatchdogRecovery` | checked and proved |
| 4 | `Shutdown` | checked, safety proved |
| 5 | `BleNusTx` | checked, safety proved |
| 6 | `ReplacedFile`, `DurableFile`, `ConfigMedium`, `ParameterSets` | checked, safety and refinement proved |
| 7 | `Switches`, `Motion` | checked, safety proved |
| 8 | `SensorWorker`, `ImuSampleBuffer`, `SampleFifo` | checked, safety and refinement proved |
| 9 | `Parameters`, `GpsPath` | checked, safety proved |

Every safety property of the runs is proved. Still worth doing: stating what holds
of the config FAT *after* a failing call (`EvidenceAlwaysThere`, `PackageAlwaysKept`,
`MediumAlwaysGuarded` and half of `WriteAlwaysKept` speak of the time before the
first one, as the properties do), and a smaller `Shutdown` in which the liveness of
two overlapping write sessions can be checked.

## 18. Running it

`tlc -config MCFirmwareUpdate.cfg MCFirmwareUpdate` and the like for each row of
"runs" in `PROJECT.json`; `tlapm FirmwareUpdateProofs.tla` and the same for
`MscStorageProofs`, `RecoveryProofs`, `BleNusTxProofs`, `ShutdownProofs`,
`SensorWorkerProofs`, `SystemPolicyProofs` and `ConfigurationProofs` for the
proofs. The runs take from seconds to about three minutes with two workers, the
proofs from one to about three minutes each with four.
