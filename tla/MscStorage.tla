------------------------------ MODULE MscStorage ------------------------------
(***************************************************************************)
(* Who may touch the config FAT: the application, through /config, or the  *)
(* USB host, through the MSC medium.  The module covers the patched MSC    *)
(* driver (components/esp_tinyusb/tinyusb_msc.c) and the ownership policy  *)
(* above it (platform/usb_device_service.c) with the tasks that run them:  *)
(*                                                                         *)
(*   tusb     the TinyUSB task: host commands, attach and detach, the      *)
(*            completion of a deferred write                               *)
(*   worker   tinyusb_msc_io, which writes the medium                      *)
(*   console  usb_device_update_vbus: start, stop, enable                  *)
(*   main     app_main, which opens the MSC gate once                      *)
(*   Apps     tasks that read or write files of /config                    *)
(*                                                                         *)
(* One action is one critical section, one blocking call or one callback;  *)
(* everything else may happen in between.  Deleting the TinyUSB task       *)
(* (tinyusb_driver_uninstall) leaves the mutexes it holds taken for ever.  *)
(* Left out: the display counters, CDC, the quiescing of the workers (its  *)
(* effect on the session is only a delay), the second FatFs drive a        *)
(* repeated mount takes, and the PSRAM medium, which runs the same driver. *)
(***************************************************************************)
EXTENDS Integers

CONSTANTS
    Apps,       \* tasks that do file I/O on /config
    MaxFaults   \* bound: failing calls of FatFs, VFS and the TinyUSB stack

ASSUME AppsAssumption ==
    /\ {"tusb", "worker", "console", "main", "free", "dead"} \cap Apps = {}
    /\ MaxFaults \in Nat

VARIABLES
    mountPoint,      \* storage->mount_point
    requested,       \* storage->requested_mount_point
    transition,      \* storage->mount_transition_pending
    hostIo,          \* storage->host_io_enabled
    bound,           \* a FatFs drive is bound to the medium
    reserved,        \* storage->deffered_writes
    ready,           \* storage->write_worker_ready
    wpc,             \* where the write worker is
    posted,          \* msc_storage_complete_write is queued for tusb
    callbackActive,  \* storage->completion_callback_active
    active,          \* usb_diagnostics.storage_mode_active
    pending,         \* usb_diagnostics.pending_write_count
    forceExit,       \* storage_mode_force_exit
    owner,           \* usb_diagnostics.storage_owner
    transLocked,     \* storage_transition_locked
    mutex,           \* holder of storage_io_mutex, mux_lock, msc_policy_mutex
    exposure,        \* msc_exposure_enabled
    gate,            \* msc_exposure_requested
    stopping,        \* usb_stopping
    installed,       \* usb_diagnostics.driver_ready
    attached,        \* usb_diagnostics.device_attached
    wasExposed,      \* usb_device_stop's exposure_was_enabled
    sawHost,         \* usb_device_stop read owner = HOST_OWNED
    configured,      \* the host has configured the device
    cmd,             \* the host waits for the WRITE(10) storage->write_token names
    job,             \* what tusb, console and main are doing
    call,            \* where they are in msc_storage_request_mount
    dest,            \* the mount point that call moves to
    ret,             \* what that call returns
    app,             \* where the application tasks are
    faults,          \* failures still allowed
    panicked         \* an assertion has failed

medium  == <<mountPoint, requested, transition, hostIo, bound>>
writing == <<reserved, ready, wpc, posted, callbackActive>>
session == <<active, pending, forceExit>>
locks   == <<owner, transLocked, mutex>>
policy  == <<exposure, gate, stopping, installed, attached, wasExposed, sawHost>>
host    == <<configured, cmd>>
tasks   == <<job, call, dest, ret, app>>
env     == <<faults, panicked>>
vars == <<medium, writing, session, locks, policy, host, tasks, env>>

Movers  == {"tusb", "console", "main"}
Callers == {"console", "main"}        \* tasks that call usb_device_* functions
Mutexes == {"io", "mux", "policy"}
Holders == Movers \cup Apps \cup {"worker", "free", "dead"}

TusbJobs == {"idle", "dead", "publish", "completing", "notify", "applying", "eject",
             "read", "attach", "attached", "detach", "detached", "restoreA",
             "restoreD", "forceExit"}
CallerJobs == {"idle", "done", "enable", "enabling", "stop", "stopIo", "stopBusy",
               "stopBack", "stopMount", "stopApp", "uninstall", "stopped"}
Calls == {"none", "apply", "check", "start", "lock", "work", "fs", "badFs", "event",
          "failEvent", "cleanup", "final", "return"}

-----------------------------------------------------------------------------
(* Helpers                                                                 *)

Fails   == faults > 0 /\ faults' = faults - 1
NoFault == UNCHANGED faults

Free(m) == mutex[m] = "free"
Held(m, t) == [mutex EXCEPT ![m] = t]

\* storage_mode_request_forced_exit, with storage_mode_finish_if_idle
RequestForcedExit ==
    /\ active' = (active /\ pending # 0)
    /\ forceExit' = ~(active /\ pending = 0)
    /\ UNCHANGED pending

\* The end of msc_storage_event: give back the mutex MOUNT_START took.  Giving
\* a mutex that another task holds fails an assertion of the kernel.
GiveTransition(t) ==
    /\ transLocked' = FALSE
    /\ IF ~transLocked THEN UNCHANGED <<mutex, panicked>>
       ELSE IF mutex["io"] = t THEN mutex' = Held("io", "free") /\ UNCHANGED panicked
       ELSE panicked' = TRUE /\ UNCHANGED mutex

\* msc_storage_event for MOUNT_FAILED, FORMAT_REQUIRED and FORMAT_FAILED
MountFailed(t) == owner' = "UNAVAILABLE" /\ GiveTransition(t)

\* msc_storage_request_mount(storage, mp), called by task t in the course of j
RequestMount(t, mp, j) ==
    /\ requested' = mp /\ transition' = TRUE /\ hostIo' = FALSE
    /\ dest' = [dest EXCEPT ![t] = mp]
    /\ job' = [job EXCEPT ![t] = j]
    /\ IF reserved # 0
       THEN call' = [call EXCEPT ![t] = "return"] /\ ret' = [ret EXCEPT ![t] = "unfinished"]
       ELSE call' = [call EXCEPT ![t] = "apply"] /\ UNCHANGED ret
    /\ UNCHANGED <<mountPoint, bound, app>>

Goes(t, c) == call' = [call EXCEPT ![t] = c]
Becomes(t, j) == job' = [job EXCEPT ![t] = j]
Returned(t, j) ==
    /\ job[t] = j /\ call[t] = "return"
    /\ Goes(t, "none")
    /\ dest' = [dest EXCEPT ![t] = "APP"] /\ ret' = [ret EXCEPT ![t] = "ok"]
    /\ UNCHANGED app

-----------------------------------------------------------------------------
(* msc_storage_apply_requested_mount, msc_storage_mount, msc_storage_unmount *)

\* The snapshot taken under msc_lock.
Apply(t) ==
    /\ call[t] = "apply"
    /\ IF ~transition
       THEN Goes(t, "return") /\ ret' = [ret EXCEPT ![t] = "ok"] /\ UNCHANGED dest
       ELSE IF reserved # 0
       THEN Goes(t, "return") /\ ret' = [ret EXCEPT ![t] = "unfinished"] /\ UNCHANGED dest
       ELSE Goes(t, "check") /\ dest' = [dest EXCEPT ![t] = requested] /\ UNCHANGED ret
    /\ UNCHANGED <<job, app, medium, writing, session, locks, policy, host, env>>

\* Already there: no event, no work.
Check(t) ==
    /\ call[t] = "check"
    /\ IF mountPoint = dest[t]
       THEN Goes(t, "final") /\ ret' = [ret EXCEPT ![t] = "ok"]
       ELSE Goes(t, "start") /\ UNCHANGED ret
    /\ UNCHANGED <<job, dest, app, medium, writing, session, locks, policy, host, env>>

\* MOUNT_START ends the write session, then waits for storage_io_mutex.
Start(t) ==
    /\ call[t] = "start"
    /\ RequestForcedExit
    /\ Goes(t, "lock")
    /\ UNCHANGED <<job, dest, ret, app, medium, writing, locks, policy, host, env>>

Lock(t) ==
    /\ call[t] = "lock" /\ Free("io")
    /\ mutex' = Held("io", t)
    /\ transLocked' = TRUE /\ owner' = "SWITCHING"
    /\ Goes(t, "work")
    /\ UNCHANGED <<job, dest, ret, app, medium, writing, session, policy, host, env>>

\* Mounting: no free drive or a failing medium returns without an event; a
\* failing VFS registration reports MOUNT_FAILED; after the registration the
\* mount point is APP whatever becomes of the file system.
WorkMount(t) ==
    /\ call[t] = "work" /\ dest[t] = "APP" /\ Free("mux")
    /\ \/ /\ Fails /\ Goes(t, "final") /\ ret' = [ret EXCEPT ![t] = "error"]
          /\ bound' \in {bound, FALSE}
          /\ UNCHANGED <<mountPoint, mutex>>
       \/ /\ Fails /\ Goes(t, "failEvent") /\ bound' = TRUE
          /\ UNCHANGED <<mountPoint, mutex, ret>>
       \/ /\ NoFault /\ Goes(t, "fs") /\ bound' = TRUE
          /\ mountPoint' = "APP" /\ mutex' = Held("mux", t)
          /\ UNCHANGED ret
    /\ UNCHANGED <<requested, transition, hostIo, job, dest, app, writing, session,
                   owner, transLocked, policy, host, panicked>>

\* f_mount, with mux_lock held.  No file system: FORMAT_REQUIRED and ESP_OK;
\* another error: FORMAT_FAILED.
MountFs(t) ==
    /\ call[t] = "fs"
    /\ mutex' = Held("mux", "free")
    /\ \/ NoFault /\ Goes(t, "event") /\ UNCHANGED ret
       \/ /\ Fails /\ Goes(t, "badFs")
          /\ \E r \in {"ok", "error"} : ret' = [ret EXCEPT ![t] = r]
    /\ UNCHANGED <<job, dest, app, medium, writing, session, owner, transLocked, policy,
                   host, panicked>>

\* Unmounting: without a bound drive, or with a failing VFS, no event either.
WorkUnmount(t) ==
    /\ call[t] = "work" /\ dest[t] = "USB" /\ Free("mux")
    /\ bound' = FALSE
    /\ \/ /\ ~bound /\ NoFault /\ Goes(t, "final") /\ ret' = [ret EXCEPT ![t] = "error"]
          /\ UNCHANGED mountPoint
       \/ /\ bound /\ Fails /\ Goes(t, "final") /\ ret' = [ret EXCEPT ![t] = "error"]
          /\ UNCHANGED mountPoint
       \/ /\ bound /\ NoFault /\ Goes(t, "event") /\ mountPoint' = "USB"
          /\ UNCHANGED ret
    /\ UNCHANGED <<requested, transition, hostIo, job, dest, app, writing, session, locks,
                   policy, host, panicked>>

\* Mutant of Event: the owner follows the request, not the medium.
EventByRequest(t) ==
    /\ call[t] = "event"
    /\ owner' = IF requested = "APP" THEN "APP" ELSE "HOST"
    /\ GiveTransition(t)
    /\ Goes(t, "final") /\ ret' = [ret EXCEPT ![t] = "ok"]
    /\ UNCHANGED <<job, dest, app, medium, writing, session, policy, host, faults>>

\* MOUNT_COMPLETE
Event(t) ==
    /\ call[t] = "event"
    /\ owner' = IF mountPoint = "APP" THEN "APP" ELSE "HOST"
    /\ GiveTransition(t)
    /\ Goes(t, "final") /\ ret' = [ret EXCEPT ![t] = "ok"]
    /\ UNCHANGED <<job, dest, app, medium, writing, session, policy, host, faults>>

\* MOUNT_FAILED, FORMAT_REQUIRED or FORMAT_FAILED gives the mutex back ...
FailEvent(t) ==
    /\ call[t] \in {"failEvent", "badFs"}
    /\ MountFailed(t)
    /\ Goes(t, "cleanup")
    /\ ret' = IF call[t] = "failEvent" THEN [ret EXCEPT ![t] = "error"] ELSE ret
    /\ UNCHANGED <<job, dest, app, medium, writing, session, policy, host, faults>>

\* ... and only then the drive is released.
Cleanup(t) ==
    /\ call[t] = "cleanup"
    /\ bound' = FALSE
    /\ Goes(t, "final")
    /\ UNCHANGED <<mountPoint, requested, transition, hostIo, job, dest, ret, app, writing,
                   session, locks, policy, host, env>>

Final(t) ==
    /\ call[t] = "final"
    /\ Goes(t, "return")
    /\ IF ret[t] = "ok"
       THEN IF requested = dest[t] /\ reserved = 0
            THEN transition' = FALSE /\ hostIo' = (dest[t] = "USB")
            ELSE UNCHANGED <<transition, hostIo>>
       ELSE transition' = FALSE /\ hostIo' = (mountPoint = "USB")
    /\ UNCHANGED <<mountPoint, requested, bound, job, dest, ret, app, writing, session,
                   locks, policy, host, env>>

Call(t) ==
    \/ Apply(t) \/ Check(t) \/ Start(t) \/ Lock(t) \/ WorkMount(t) \/ WorkUnmount(t)
    \/ MountFs(t) \/ Event(t) \/ FailEvent(t) \/ Cleanup(t) \/ Final(t)

-----------------------------------------------------------------------------
(* The TinyUSB task                                                        *)

TusbIdle == job["tusb"] = "idle"
UsbReadable == hostIo /\ mountPoint = "USB"

HostWriteUnchecked ==
    /\ TusbIdle /\ configured /\ ~cmd
    /\ mountPoint = "USB" /\ reserved = 0
    /\ reserved' = reserved + 1
    /\ Becomes("tusb", "publish")
    /\ UNCHANGED <<call, dest, ret, app, ready, wpc, posted, callbackActive, medium,
                   session, locks, policy, host, env>>

\* WRITE(10), first half: msc_storage_write_sector_deferred reserves the buffer.
\* A refused command changes nothing.
HostWrite ==
    /\ TusbIdle /\ configured /\ ~cmd
    /\ UsbReadable /\ reserved = 0
    /\ reserved' = reserved + 1
    /\ Becomes("tusb", "publish")
    /\ UNCHANGED <<call, dest, ret, app, ready, wpc, posted, callbackActive, medium,
                   session, locks, policy, host, env>>

\* Second half: the filled buffer is published and the worker notified.
Publish ==
    /\ job["tusb"] = "publish"
    /\ ready' = TRUE /\ cmd' = TRUE
    /\ Becomes("tusb", "idle")
    /\ UNCHANGED <<call, dest, ret, app, reserved, wpc, posted, callbackActive, medium,
                   session, locks, policy, configured, env>>

\* READ(10): the gate is tested first, the medium read under mux_lock.
HostRead ==
    /\ TusbIdle /\ configured /\ ~cmd
    /\ UsbReadable
    /\ Becomes("tusb", "read")
    /\ UNCHANGED <<call, dest, ret, app, medium, writing, session, locks, policy, host, env>>

ReadMedium ==
    /\ job["tusb"] = "read"
    /\ \/ Free("mux") /\ mutex' = Held("mux", "tusb") /\ UNCHANGED job
       \/ mutex["mux"] = "tusb" /\ mutex' = Held("mux", "free") /\ Becomes("tusb", "idle")
    /\ UNCHANGED <<call, dest, ret, app, medium, writing, session, owner, transLocked,
                   policy, host, env>>

\* START STOP UNIT with load_eject: tud_msc_start_stop_cb
Eject ==
    /\ TusbIdle /\ configured /\ ~cmd
    /\ RequestMount("tusb", "APP", "eject")
    /\ UNCHANGED <<writing, session, locks, policy, host, env>>

EjectDone ==
    /\ Returned("tusb", "eject")
    /\ Becomes("tusb", "idle")
    /\ UNCHANGED <<medium, writing, session, locks, policy, host, env>>

\* Bus reset or BOT reset: mscd_reset, mscd_control_xfer_cb.  Only the bus
\* reset loses the configuration.
Reset ==
    /\ TusbIdle /\ configured
    /\ cmd' = FALSE
    /\ configured' \in {TRUE, FALSE}
    /\ UNCHANGED <<tasks, medium, writing, session, locks, policy, env>>

\* tud_mount_cb: msc_storage_mount_to_usb, then the ATTACHED event
Attach ==
    /\ TusbIdle /\ ~configured
    /\ configured' = TRUE
    /\ RequestMount("tusb", "USB", "attach")
    /\ UNCHANGED <<writing, session, locks, policy, cmd, env>>

\* tud_umount_cb: msc_storage_mount_to_app, then the DETACHED event
Detach ==
    /\ TusbIdle /\ (configured \/ attached)
    /\ configured' = FALSE /\ cmd' = FALSE
    /\ RequestMount("tusb", "APP", "detach")
    /\ UNCHANGED <<writing, session, locks, policy, env>>

\* The end of msc_storage_mount_to_usb / _to_app: an error is reported as
\* MOUNT_FAILED, also when the request has already reported it.
MountToDone ==
    /\ \E j \in {"attach", "detach"} :
          Returned("tusb", j) /\ Becomes("tusb", IF j = "attach" THEN "attached" ELSE "detached")
    /\ IF ret["tusb"] = "error" THEN MountFailed("tusb")
       ELSE UNCHANGED <<locks, panicked>>
    /\ UNCHANGED <<medium, writing, session, policy, host, faults>>

\* tinyusb_device_event takes msc_policy_mutex and hands the medium back to the
\* application while MSC is not exposed (usb_storage_policy_restore_on_attach).
Attached ==
    /\ job["tusb"] = "attached" /\ Free("policy")
    /\ attached' = TRUE
    /\ IF exposure
       THEN Becomes("tusb", "idle")
            /\ UNCHANGED <<call, dest, ret, app, medium, mutex>>
       ELSE RequestMount("tusb", "APP", "restoreA") /\ mutex' = Held("policy", "tusb")
    /\ UNCHANGED <<writing, session, owner, transLocked, exposure, gate, stopping,
                   installed, wasExposed, sawHost, host, env>>

Detached ==
    /\ job["tusb"] = "detached" /\ Free("policy")
    /\ attached' = FALSE
    /\ IF owner \in {"APP", "UNAVAILABLE"}
       THEN Becomes("tusb", "forceExit")
            /\ UNCHANGED <<call, dest, ret, app, medium, mutex>>
       ELSE RequestMount("tusb", "APP", "restoreD") /\ mutex' = Held("policy", "tusb")
    /\ UNCHANGED <<writing, session, owner, transLocked, exposure, gate, stopping,
                   installed, wasExposed, sawHost, host, env>>

\* set_storage_unavailable unless the application owns the medium again, or
\* will when the accepted write has drained after a detach.
Restored ==
    /\ \E j \in {"restoreA", "restoreD"} :
          /\ Returned("tusb", j)
          /\ Becomes("tusb", IF j = "restoreA" THEN "idle" ELSE "forceExit")
          /\ owner' = IF \/ ret["tusb"] = "unfinished" /\ j = "restoreD"
                         \/ ret["tusb"] = "ok" /\ owner = "APP"
                      THEN owner ELSE "UNAVAILABLE"
    /\ mutex' = Held("policy", "free")
    /\ UNCHANGED <<medium, writing, session, transLocked, policy, host, env>>

DetachForcesExit ==
    /\ job["tusb"] = "forceExit"
    /\ RequestForcedExit
    /\ Becomes("tusb", "idle")
    /\ UNCHANGED <<call, dest, ret, app, medium, writing, locks, policy, host, env>>

\* Mutant of CompleteWrite: a completion the reset has overtaken is discarded.
CompleteWriteDropped ==
    /\ TusbIdle /\ posted
    /\ posted' = FALSE /\ callbackActive' = cmd
    /\ cmd' = FALSE
    /\ Becomes("tusb", IF cmd THEN "completing" ELSE "idle")
    /\ UNCHANGED <<call, dest, ret, app, reserved, ready, wpc, medium, session, locks,
                   policy, configured, env>>

\* msc_storage_complete_write: tell the host, unless a reset has come between
CompleteWrite ==
    /\ TusbIdle /\ posted
    /\ posted' = FALSE /\ callbackActive' = TRUE
    /\ cmd' = FALSE
    /\ Becomes("tusb", "completing")
    /\ UNCHANGED <<call, dest, ret, app, reserved, ready, wpc, medium, session, locks,
                   policy, configured, env>>

ReleaseWrite ==
    /\ job["tusb"] = "completing"
    /\ reserved' = reserved - 1
    /\ Becomes("tusb", "notify")
    /\ UNCHANGED <<call, dest, ret, app, ready, wpc, posted, callbackActive, medium, session,
                   locks, policy, host, env>>

\* msc_write_event COMPLETE, then msc_storage_apply_requested_mount
NotifyComplete ==
    /\ job["tusb"] = "notify"
    /\ pending' = 0
    /\ IF forceExit THEN active' = FALSE /\ forceExit' = ~active
       ELSE UNCHANGED <<active, forceExit>>
    /\ Becomes("tusb", "applying") /\ Goes("tusb", "apply")
    /\ UNCHANGED <<dest, ret, app, medium, writing, locks, policy, host, env>>

CallbackDone ==
    /\ Returned("tusb", "applying")
    /\ callbackActive' = FALSE
    /\ Becomes("tusb", "idle")
    /\ UNCHANGED <<medium, reserved, ready, wpc, posted, session, locks, policy, host, env>>

Tusb ==
    \/ HostWrite \/ Publish \/ HostRead \/ ReadMedium \/ Eject \/ EjectDone \/ Reset
    \/ Attach \/ Detach \/ MountToDone \/ Attached \/ Detached \/ Restored
    \/ DetachForcesExit \/ CompleteWrite \/ ReleaseWrite \/ NotifyComplete \/ CallbackDone

-----------------------------------------------------------------------------
(* The write worker and the idle timer                                     *)

TakeWrite ==
    /\ wpc = "idle" /\ ready
    /\ ready' = FALSE /\ wpc' = "begin"
    /\ UNCHANGED <<reserved, posted, callbackActive, medium, session, locks, policy, host,
                   tasks, env>>

\* msc_write_event BEGIN
BeginWrite ==
    /\ wpc = "begin"
    /\ wpc' = "quiesced"
    /\ active' = TRUE /\ forceExit' = FALSE /\ pending' = reserved
    /\ UNCHANGED <<reserved, ready, posted, callbackActive, medium, locks, policy, host,
                   tasks, env>>

\* msc_storage_write_sector
WriteMedium ==
    /\ wpc = "quiesced" /\ Free("mux")
    /\ wpc' = "write" /\ mutex' = Held("mux", "worker")
    /\ UNCHANGED <<reserved, ready, posted, callbackActive, medium, session, owner,
                   transLocked, policy, host, tasks, env>>

\* The result is deferred to the TinyUSB task; with no task it is lost.
Written ==
    /\ wpc = "write"
    /\ wpc' = "idle" /\ mutex' = Held("mux", "free")
    /\ posted' = (job["tusb"] # "dead")
    /\ UNCHANGED <<reserved, ready, callbackActive, medium, session, owner, transLocked,
                   policy, host, tasks, env>>

Worker == TakeWrite \/ BeginWrite \/ WriteMedium \/ Written

\* storage_mode_idle_timer_cb, a second after the last completion.  The timer
\* runs whenever a session is open and no write is pending.
IdleTimer ==
    /\ active /\ pending = 0
    /\ active' = FALSE /\ forceExit' = FALSE
    /\ UNCHANGED <<pending, medium, writing, locks, policy, host, tasks, env>>

-----------------------------------------------------------------------------
(* usb_device_update_vbus, usb_device_request_msc, usb_device_enable_msc and *)
(* usb_device_stop, on the console task and on app_main                      *)

LeavePolicy == mutex' = Held("policy", "free")
SameCall == UNCHANGED <<call, dest, ret, app>>

\* usb_device_request_msc, called once at the end of the startup
RequestMsc ==
    /\ job["main"] = "idle" /\ ~gate
    /\ gate' = TRUE
    /\ Becomes("main", IF installed THEN "enable" ELSE "done")
    /\ UNCHANGED <<medium, writing, session, locks, exposure, stopping, installed, attached,
                   wasExposed, sawHost, host, env>> /\ SameCall

\* usb_device_update_vbus without VBUS: stop what is installed
PollStops ==
    /\ job["console"] = "idle" /\ installed
    /\ Becomes("console", "stop")
    /\ UNCHANGED <<medium, writing, session, locks, policy, host, env>> /\ SameCall

\* With VBUS and no driver: tinyusb_driver_install creates the TinyUSB task
\* over an unconfigured device.  With a failure of the CDC class the driver is
\* there all the same; a failure of the installation changes nothing.
PollStarts ==
    /\ job["console"] = "idle" /\ ~stopping /\ ~installed
    /\ \/ /\ NoFault /\ installed' = TRUE
          /\ job' = [job EXCEPT !["tusb"] = "idle",
                                !["console"] = IF gate /\ ~exposure THEN "enable" ELSE "idle"]
       \/ /\ Fails /\ installed' = TRUE /\ Becomes("tusb", "idle")
    /\ UNCHANGED <<medium, writing, session, locks, exposure, gate, stopping, attached,
                   wasExposed, sawHost, host, panicked>> /\ SameCall

PollEnables ==
    /\ job["console"] = "idle" /\ ~stopping /\ installed /\ gate /\ ~exposure
    /\ Becomes("console", "enable")
    /\ UNCHANGED <<medium, writing, session, locks, policy, host, env>> /\ SameCall

After(t) == IF t = "main" THEN "done" ELSE "idle"

\* usb_device_enable_msc
Enable(t) ==
    /\ job[t] = "enable" /\ Free("policy")
    /\ exposure' = (exposure \/ (installed /\ owner \in {"APP", "HOST"}))
    /\ IF installed /\ owner = "APP" /\ attached
       THEN RequestMount(t, "USB", "enabling") /\ mutex' = Held("policy", t)
       ELSE Becomes(t, After(t)) /\ SameCall /\ UNCHANGED <<medium, mutex>>
    /\ UNCHANGED <<writing, session, owner, transLocked, gate, stopping, installed, attached,
                   wasExposed, sawHost, host, env>>

EnableDone(t) ==
    /\ Returned(t, "enabling")
    /\ exposure' = (exposure /\ ret[t] = "ok" /\ owner = "HOST")
    /\ Becomes(t, After(t)) /\ LeavePolicy
    /\ UNCHANGED <<medium, writing, session, owner, transLocked, gate, stopping, installed,
                   attached, wasExposed, sawHost, host, env>>

\* Mutant of Stop: the refusal returns without giving msc_policy_mutex.
StopKeepsPolicy ==
    /\ job["console"] = "stop" /\ Free("policy")
    /\ mutex' = Held("policy", "console")
    /\ IF installed /\ ~active /\ pending = 0 /\ owner # "SWITCHING"
       THEN /\ stopping' = TRUE /\ exposure' = FALSE
            /\ wasExposed' = exposure /\ sawHost' = (owner = "HOST")
            /\ Becomes("console", "stopIo")
       ELSE /\ stopping' = (stopping /\ installed)
            /\ Becomes("console", "idle")
            /\ UNCHANGED <<exposure, wasExposed, sawHost>>
    /\ UNCHANGED <<medium, writing, session, owner, transLocked, gate, installed, attached,
                   host, env>> /\ SameCall

\* usb_device_stop, the section under state_lock
Stop ==
    /\ job["console"] = "stop" /\ Free("policy")
    /\ IF installed /\ ~active /\ pending = 0 /\ owner # "SWITCHING"
       THEN /\ stopping' = TRUE /\ exposure' = FALSE
            /\ wasExposed' = exposure /\ sawHost' = (owner = "HOST")
            /\ Becomes("console", "stopIo") /\ mutex' = Held("policy", "console")
       ELSE /\ stopping' = (stopping /\ installed)
            /\ Becomes("console", "idle")
            /\ UNCHANGED <<exposure, wasExposed, sawHost, mutex>>
    /\ UNCHANGED <<medium, writing, session, owner, transLocked, gate, installed, attached,
                   host, env>> /\ SameCall

\* tinyusb_msc_stop_host_io counts a running completion callback as a write.
StopIo ==
    /\ job["console"] = "stopIo"
    /\ IF reserved # 0 \/ callbackActive
       THEN /\ Becomes("console", "stopBusy") /\ UNCHANGED mutex
       ELSE IF sawHost THEN Becomes("console", "stopMount") /\ UNCHANGED mutex
       ELSE Becomes("console", "uninstall") /\ LeavePolicy
    /\ hostIo' = FALSE /\ sawHost' = FALSE
    /\ UNCHANGED <<mountPoint, requested, transition, bound, writing, session, owner,
                   transLocked, exposure, gate, stopping, installed, attached, wasExposed,
                   host, env>> /\ SameCall

\* Writes are pending: the medium is requested for the host again.
StopBusy ==
    /\ job["console"] = "stopBusy" /\ call["console"] = "none"
    /\ RequestMount("console", "USB", "stopBack")
    /\ UNCHANGED <<writing, session, locks, policy, host, env>>

StopMount ==
    /\ job["console"] = "stopMount" /\ call["console"] = "none"
    /\ RequestMount("console", "APP", "stopApp")
    /\ UNCHANGED <<writing, session, locks, policy, host, env>>

\* The stop goes on only when the application has the medium back.
StopMoved ==
    /\ \/ /\ Returned("console", "stopApp") /\ ret["console"] = "ok"
          /\ Becomes("console", "uninstall") /\ UNCHANGED <<stopping, exposure>>
       \/ /\ \/ Returned("console", "stopApp") /\ ret["console"] # "ok"
             \/ Returned("console", "stopBack")
          /\ Becomes("console", "idle") /\ stopping' = FALSE /\ exposure' = wasExposed
    /\ LeavePolicy /\ wasExposed' = FALSE
    /\ UNCHANGED <<medium, writing, session, owner, transLocked, gate, installed, attached,
                   sawHost, host, env>>

\* tinyusb_driver_uninstall deletes the TinyUSB task wherever it is, without
\* msc_policy_mutex; the mutexes the task holds are never given back, and the
\* queued completion goes with the stack.  A second attempt after a failure
\* finds no task and fails.
Uninstall ==
    /\ job["console"] = "uninstall"
    /\ \/ /\ job["tusb"] # "dead" /\ NoFault
          /\ job' = [job EXCEPT !["tusb"] = "dead", !["console"] = "stopped"]
       \/ /\ job["tusb"] # "dead" /\ Fails
          /\ job' = [job EXCEPT !["tusb"] = "dead", !["console"] = "idle"]
       \/ /\ job["tusb"] = "dead" /\ NoFault
          /\ Becomes("console", "idle")
    /\ Goes("tusb", "none")
    /\ dest' = [dest EXCEPT !["tusb"] = "APP"] /\ ret' = [ret EXCEPT !["tusb"] = "ok"]
    /\ mutex' = [m \in Mutexes |-> IF mutex[m] = "tusb" THEN "dead" ELSE mutex[m]]
    /\ posted' = FALSE /\ configured' = FALSE /\ cmd' = FALSE
    /\ UNCHANGED <<app, medium, reserved, ready, wpc, callbackActive, session, owner,
                   transLocked, policy, panicked>>

Stopped ==
    /\ job["console"] = "stopped"
    /\ installed' = FALSE /\ attached' = FALSE /\ stopping' = FALSE /\ wasExposed' = FALSE
    /\ Becomes("console", "idle")
    /\ UNCHANGED <<medium, writing, session, locks, exposure, gate, sawHost, host, env>>
    /\ SameCall

Lifecycle ==
    \/ RequestMsc \/ PollStops \/ PollStarts \/ PollEnables
    \/ \E t \in Callers : Enable(t) \/ EnableDone(t)
    \/ Stop \/ StopIo \/ StopBusy \/ StopMount \/ StopMoved \/ Uninstall \/ Stopped

-----------------------------------------------------------------------------
(* The application's file operations                                        *)

AppGoes(a, c) == app' = [app EXCEPT ![a] = c]

\* usb_device_storage_begin_app_io: the owner is read, the mutex awaited, the
\* owner read again.
AppBegin(a) ==
    /\ app[a] = "idle" /\ owner = "APP"
    /\ AppGoes(a, "take")
    /\ UNCHANGED <<medium, writing, session, locks, policy, host, job, call, dest, ret, env>>

AppTake(a) ==
    /\ app[a] = "take"
    /\ \/ Free("io") /\ mutex' = Held("io", a) /\ AppGoes(a, "recheck")
       \/ ~Free("io") /\ UNCHANGED mutex /\ AppGoes(a, "idle")
    /\ UNCHANGED <<medium, writing, session, owner, transLocked, policy, host, job, call, dest,
                   ret, env>>

\* Mutant of AppRecheck: the owner is not read again.
AppRecheckSkipped(a) ==
    /\ app[a] = "recheck"
    /\ AppGoes(a, "io")
    /\ UNCHANGED <<medium, writing, session, locks, policy, host, job, call, dest, ret, env>>

AppRecheck(a) ==
    /\ app[a] = "recheck"
    /\ IF owner = "APP"
       THEN AppGoes(a, "io") /\ UNCHANGED mutex
       ELSE AppGoes(a, "idle") /\ mutex' = Held("io", "free")
    /\ UNCHANGED <<medium, writing, session, owner, transLocked, policy, host, job, call, dest,
                   ret, env>>

AppEnd(a) ==
    /\ app[a] = "io"
    /\ AppGoes(a, "idle") /\ mutex' = Held("io", "free")
    /\ UNCHANGED <<medium, writing, session, owner, transLocked, policy, host, job, call, dest,
                   ret, env>>

AppIo(a) == AppBegin(a) \/ AppTake(a) \/ AppRecheck(a) \/ AppEnd(a)

-----------------------------------------------------------------------------
(* The specification                                                        *)

\* After usb_device_storage_init and usb_device_start
Init ==
    /\ mountPoint = "APP" /\ requested = "APP" /\ transition = FALSE
    /\ hostIo = FALSE /\ bound = TRUE
    /\ reserved = 0 /\ ready = FALSE /\ wpc = "idle" /\ posted = FALSE
    /\ callbackActive = FALSE
    /\ active = FALSE /\ pending = 0 /\ forceExit = FALSE
    /\ owner = "APP" /\ transLocked = FALSE /\ mutex = [m \in Mutexes |-> "free"]
    /\ exposure = FALSE /\ gate = FALSE /\ stopping = FALSE
    /\ installed \in BOOLEAN
    /\ attached = FALSE /\ wasExposed = FALSE /\ sawHost = FALSE
    /\ configured = FALSE /\ cmd = FALSE
    /\ job = [t \in Movers |-> IF t = "tusb" /\ ~installed THEN "dead" ELSE "idle"]
    /\ call = [t \in Movers |-> "none"] /\ dest = [t \in Movers |-> "APP"]
    /\ ret = [t \in Movers |-> "ok"] /\ app = [a \in Apps |-> "idle"]
    /\ faults = MaxFaults /\ panicked = FALSE

\* A failed assertion ends the behaviour: the chip resets.
Next ==
    /\ ~panicked
    /\ \/ \E t \in Movers : Call(t)
       \/ Tusb \/ Worker \/ IdleTimer \/ Lifecycle
       \/ \E a \in Apps : AppIo(a)

Spec == Init /\ [][Next]_vars

\* What the tasks do once they are scheduled; the host, the cable, the poll of
\* VBUS and the application start nothing unless they choose to.
TusbStep ==
    \/ Call("tusb") \/ Publish \/ ReadMedium \/ EjectDone \/ MountToDone \/ Restored
    \/ DetachForcesExit \/ ReleaseWrite \/ NotifyComplete \/ CallbackDone
ConsoleStep ==
    \/ Call("console") \/ EnableDone("console") \/ StopIo \/ StopBusy \/ StopMount
    \/ StopMoved \/ Uninstall \/ Stopped
MainStep == Call("main") \/ EnableDone("main")

\* Mutexes are handed to the waiting task of highest priority, and the TinyUSB
\* task serves its event queue in order: strong fairness for those that wait.
Alive(A) == ~panicked /\ A
Fairness ==
    /\ WF_vars(Alive(TusbStep)) /\ WF_vars(Alive(ConsoleStep)) /\ WF_vars(Alive(MainStep))
    /\ WF_vars(Alive(Worker)) /\ SF_vars(Alive(WriteMedium))
    /\ SF_vars(Alive(CompleteWrite)) /\ SF_vars(Alive(Attached \/ Detached))

FairSpec == Spec /\ Fairness

-----------------------------------------------------------------------------
(* Properties                                                              *)

MediumTypes ==
    /\ mountPoint \in {"APP", "USB"} /\ requested \in {"APP", "USB"}
    /\ transition \in BOOLEAN /\ hostIo \in BOOLEAN /\ bound \in BOOLEAN
WritingTypes ==
    /\ reserved \in 0..1 /\ ready \in BOOLEAN
    /\ wpc \in {"idle", "begin", "quiesced", "write"}
    /\ posted \in BOOLEAN /\ callbackActive \in BOOLEAN
SessionTypes == active \in BOOLEAN /\ pending \in 0..1 /\ forceExit \in BOOLEAN
LockTypes ==
    /\ owner \in {"APP", "SWITCHING", "HOST", "UNAVAILABLE"}
    /\ transLocked \in BOOLEAN
    /\ mutex \in [Mutexes -> Holders]
PolicyTypes ==
    /\ exposure \in BOOLEAN /\ gate \in BOOLEAN /\ stopping \in BOOLEAN
    /\ installed \in BOOLEAN /\ attached \in BOOLEAN
    /\ wasExposed \in BOOLEAN /\ sawHost \in BOOLEAN
HostTypes == configured \in BOOLEAN /\ cmd \in BOOLEAN
TaskTypes ==
    /\ job \in [Movers -> TusbJobs \cup CallerJobs]
    /\ call \in [Movers -> Calls] /\ dest \in [Movers -> {"APP", "USB"}]
    /\ ret \in [Movers -> {"ok", "error", "unfinished"}]
    /\ app \in [Apps -> {"idle", "take", "recheck", "io"}]
EnvTypes == faults \in 0..MaxFaults /\ panicked \in BOOLEAN

\* Every variable keeps its type; reserved and pending never exceed the one
\* write buffer there is.
TypeOK ==
    /\ MediumTypes /\ WritingTypes /\ SessionTypes /\ LockTypes
    /\ PolicyTypes /\ HostTypes /\ TaskTypes /\ EnvTypes

\* The next four are about a device whose calls have all succeeded: after a
\* failed mount the driver falls back on leaving the medium with the host.
NoFailureYet == faults = MaxFaults

\* The FAT is never used from both sides: while a task of the application is
\* inside usb_device_storage_begin_app_io / end_app_io the medium is mounted
\* for it and the write worker does not write a host sector.
FatExclusive ==
    NoFailureYet => \A a \in Apps : app[a] = "io" => mountPoint = "APP" /\ bound /\ wpc # "write"

\* An accepted WRITE(10) is drained before the medium changes hands, whatever
\* eject, attach, detach, enable and stop do at the same time.
DrainBeforeHandover == NoFailureYet /\ reserved # 0 => mountPoint = "USB"

\* Outside an event of the TinyUSB task the configured host gets to the medium
\* only after the firmware has opened the MSC gate: what tud_mount_cb did before,
\* tinyusb_device_event undoes.
GateKept == NoFailureYet /\ TusbIdle /\ configured /\ UsbReadable => gate

\* No task gives back the storage_io_mutex of another task, which the kernel
\* asserts: each failed request is reported by its owner, and only once.
NoForeignGive == NoFailureYet => ~panicked

\* Until a call fails, one side at a time has the medium, by the gate and by the
\* mutex.
MediumGuarded == FatExclusive /\ GateKept /\ NoForeignGive

\* The mount point may only change under storage_io_mutex, so the application
\* file operations are over before the FAT goes away, also when calls fail.
AppIoIsMounted ==
    \A a \in Apps : app[a] = "io" => mountPoint = "APP" /\ mutex["io"] = a

\* The owner usb_device_storage_begin_app_io and usb_device_stop go by is where
\* the medium really is, at every moment of every transition.
OwnerIsTrue ==
    /\ owner = "APP"  => mountPoint = "APP"
    /\ owner = "HOST" => mountPoint = "USB"

\* Mounting and unmounting exclude each other although three tasks start them.
Moving == {"work", "fs", "badFs", "event", "failEvent"}
OneTransition ==
    \A t, u \in Movers : call[t] \in Moving /\ call[u] \in Moving => t = u

\* The owner, the mount point and storage_io_mutex agree while the medium moves.
OwnershipTrue == AppIoIsMounted /\ OwnerIsTrue /\ OneTransition

\* A host that waits for the end of a WRITE(10) will be answered: its sector is
\* on its way to the medium or its completion is, also across bus resets,
\* detaches and stops.
Carried == ready \/ wpc # "idle" \/ posted \/ job["tusb"] \in {"publish", "completing"}
HostIsAnswered == cmd => Carried /\ reserved = 1

\* An accepted write is neither cut off by a handover nor forgotten.
WriteKept == DrainBeforeHandover /\ HostIsAnswered

\* What loses a mutex: deleting the task that holds it, or a failed transition
\* that returns without an event.
MutexLost ==
    \/ \E m \in Mutexes : mutex[m] = "dead"
    \/ mutex["io"] \in Movers /\ call[mutex["io"]] = "none"

\* An accepted write drains unless the driver is stopped or a mutex is lost.
WriteDrains == reserved # 0 /\ Carried ~> reserved = 0 \/ job["tusb"] = "dead" \/ MutexLost

\* A detach is handled to its end by the TinyUSB task, under the same proviso.
DetachReturns == job["tusb"] = "detached" ~> job["tusb"] \in {"idle", "dead"} \/ MutexLost

=============================================================================
