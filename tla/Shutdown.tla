------------------------------- MODULE Shutdown -------------------------------
(***************************************************************************)
(* How the tasks come to rest: the power-off of the system worker          *)
(* (app/app_workers.c: request_power_off), the worker tasks it stops, and  *)
(* the write session of the USB host that quiets and wakes two of them     *)
(* (app/app_tasks.c, platform/usb_device_service.c).  They share one       *)
(* FreeRTOS event group: setting bits ends the waits it satisfies at once, *)
(* even if the bits are cleared again before the waiting task runs.        *)
(*                                                                         *)
(* An action is one write of the event group, one critical section or one  *)
(* call to another component, with the look at the bits it follows from;   *)
(* any other task may come between.  Left out: a failing snapshot mutex    *)
(* (readers hold it for a copy), a failing CPU-frequency lock (it only     *)
(* forbids light sleep), LEDs, watchdog feeding, and a worker's own work.  *)
(***************************************************************************)
EXTENDS Naturals, FiniteSets

CONSTANTS
    Prefs,     \* settings of the switches
    Restored,  \* the settings in use after the boot (persisted_preferences)
    Outdated,  \* the boot found none in NVS, or replaced one: force_preferences_save
    Normal,    \* the workers that run after a start that succeeded, ...
    Failed,    \* ... and after one that failed
    BleInit,   \* how ble_vario_init may end
    MaxLoad    \* bound: workers and WRITE(10) commands together

ASSUME RestoredAssumption == Restored \in Prefs
ASSUME OutdatedAssumption == Outdated \in BOOLEAN

VARIABLES
    bits,      \* the event group; the bit named after a worker is its ACK
    woken,     \* tasks whose wait a SetBits has ended
    pc,        \* where each task is
    started,   \* active_ack_mask, without the system worker
    fatal,     \* APP_EVENT_FATAL_STATE
    asleep,    \* storage_quiesced of the sensor and the audio worker
    prefs,     \* the settings in latest_system ...
    dirty,     \* ... and their switch_preferences_dirty
    nvs,       \* what the next boot loads
    saveFailed,\* the console's save has failed
    deferred,  \* storage_power_off_pending or low_battery_power_off_pending
    time,      \* until the deadline: more than the sound takes, less, none
    quiet,     \* workers_quiesced
    sounded,   \* shutdown_sound_done
    stopped,   \* all_workers_stopped
    powerHold, \* PIN_PWR_HOLD
    sleep,     \* automatic light sleep is permitted
    ble,       \* the NimBLE host
    usb,       \* the TinyUSB driver runs
    active, pending, forceExit, \* storage_mode_active, _pending_, _force_exit
    armed,     \* storage_mode_idle_timer
    writes     \* WRITE(10) commands so far

events   == <<bits, woken>>
fixed    == <<started, fatal>>
settings == <<prefs, dirty, nvs, saveFailed>>
system   == <<deferred, time, quiet, sounded, stopped, powerHold, sleep>>
session  == <<active, pending, forceExit, armed, writes>>
vars == <<events, pc, fixed, asleep, settings, system, ble, usb, session>>

Workers == {"audio", "sensor", "console", "ble", "gps"}
Sleepers == {"audio", "sensor"}            \* what a write session quiets
Tasks == Workers \cup {"system", "io", "tusb", "timer", "main"}
Flags == {"stop", "storage", "audioQ", "sensorQ", "soundReq", "soundDone", "soundAbort",
          "sleepBlocked", "system"}
Quiesced == [t \in Sleepers |-> IF t = "audio" THEN "audioQ" ELSE "sensorQ"]

ASSUME WorkersAssumption == Normal \subseteq SUBSET Workers /\ Failed \subseteq SUBSET Workers
ASSUME BleInitAssumption == BleInit \subseteq {"on", "off"}
ASSUME MaxLoadAssumption == MaxLoad \in Nat

-----------------------------------------------------------------------------
(* The event group (FreeRTOS, external)                                    *)

\* What a waiting task waits for, all bits together.
Mask(t) ==
    CASE t = "console" -> {"audioQ"}
      [] pc[t] \in {"callQuiet", "waitQuiet"} -> (started \ {"audio"}) \cup {"audioQ"}
      [] OTHER -> {"soundDone", "audio"}

Waiting == {t \in {"console", "system"} : pc[t] \in {"blocked", "waitQuiet", "waitSound"}}

SetBits(S) ==
    /\ bits' = bits \cup S
    /\ woken' = woken \cup {t \in Waiting : Mask(t) \subseteq bits'}

ClearBits(S) == bits' = bits \ S /\ UNCHANGED woken

Goes(t, from, to) == pc[t] = from /\ pc' = [pc EXCEPT ![t] = to]
Returns(t) == t \in woken /\ woken' = woken \ {t} /\ UNCHANGED bits

-----------------------------------------------------------------------------
(* The workers                                                             *)

SameSystem == UNCHANGED <<fixed, settings, system>>
SameWorld == UNCHANGED <<fixed, settings, system, ble, usb, session>>

\* The top of a worker's loop, once the stop request is up.
Stops(w, to) == "stop" \in bits /\ Goes(w, "run", to)

\* acknowledge_and_delete
Acknowledge(w, from) ==
    /\ Goes(w, from, "gone")
    /\ SetBits({w})
    /\ UNCHANGED asleep /\ SameWorld

\* The sensor and the GPS worker switch their devices off and acknowledge.
JustStops(w) == "stop" \in bits /\ Acknowledge(w, "run")

\* The sensor or the audio worker sees a session begin or end.  In the fatal
\* state they do not look; the round may have passed its look at the stop.
SeesSession(w) ==
    /\ ~fatal
    /\ ("storage" \in bits) # asleep[w]
    /\ Goes(w, "run", IF asleep[w] THEN "leaving" ELSE "entering")
    /\ UNCHANGED <<events, asleep>> /\ SameWorld

\* Quieted by a write session: the devices are off before the bit goes up.
FallAsleep(w) ==
    /\ Goes(w, "entering", "run")
    /\ SetBits({Quiesced[w]})
    /\ asleep' = [asleep EXCEPT ![w] = TRUE]
    /\ SameWorld

\* Mutant of WakeUp: the bit stays up.
WakeUpKeepingBit(w) ==
    /\ Goes(w, "leaving", "run")
    /\ asleep' = [asleep EXCEPT ![w] = FALSE]
    /\ UNCHANGED events /\ SameWorld

\* Woken: the bit goes down before the worker resumes.
WakeUp(w) ==
    /\ Goes(w, "leaving", "run")
    /\ ClearBits({Quiesced[w]})
    /\ asleep' = [asleep EXCEPT ![w] = FALSE]
    /\ SameWorld

Sleeper(w) == SeesSession(w) \/ FallAsleep(w) \/ WakeUp(w)

Sensor == Sleeper("sensor") \/ JustStops("sensor")

\* The audio worker is silent, says so, and waits for the shutdown sound.
AudioQuiet ==
    /\ Stops("audio", "await")
    /\ SetBits({"audioQ"})
    /\ UNCHANGED asleep /\ SameWorld

AudioAwait ==
    /\ "soundAbort" \notin bits /\ "soundReq" \in bits
    /\ Goes("audio", "await", "sound")
    /\ UNCHANGED <<events, asleep>> /\ SameWorld

\* Aborted, before the sound or in it, the worker acknowledges without DONE.
AudioAborted ==
    /\ "soundAbort" \in bits
    /\ \E from \in {"await", "sound"} : Acknowledge("audio", from)

\* play_system_sound ends; its last look may come before the abort.
AudioSound ==
    /\ Goes("audio", "sound", "ack")
    /\ SetBits({"soundDone"})
    /\ UNCHANGED asleep /\ SameWorld

Audio ==
    \/ Sleeper("audio")
    \/ AudioQuiet \/ AudioAwait \/ AudioAborted \/ AudioSound
    \/ Acknowledge("audio", "ack")

\* The console worker waits, without limit, until the audio worker is quiet.
ConsoleStops ==
    /\ Stops("console", IF Mask("console") \subseteq bits THEN "save" ELSE "blocked")
    /\ UNCHANGED <<events, asleep>> /\ SameWorld

ConsoleWakes ==
    /\ Goes("console", "blocked", "save")
    /\ Returns("console")
    /\ UNCHANGED asleep /\ SameWorld

\* switch_preferences_save: the record is committed as a whole, or the call fails.
SavePrefs ==
    \/ nvs' = prefs /\ UNCHANGED saveFailed
    \/ saveFailed' = TRUE /\ UNCHANGED nvs

\* After a failure, too, the worker acknowledges.
ConsoleSave ==
    /\ Goes("console", "save", "gone")
    /\ SetBits({"console"})
    /\ IF dirty THEN SavePrefs ELSE UNCHANGED <<nvs, saveFailed>>
    /\ UNCHANGED <<asleep, prefs, dirty, fixed, system, ble, usb, session>>

Console == ConsoleStops \/ ConsoleWakes \/ ConsoleSave

\* ble_vario_stop has nothing to do before ble_vario_init; a failure blocks
\* light sleep.
BleStop ==
    /\ Stops("ble", "ack")
    /\ \/ ble' = "off" /\ UNCHANGED events
       \/ ble # "off" /\ ble' = "stuck" /\ SetBits({"sleepBlocked"})
    /\ UNCHANGED <<asleep, fixed, settings, system, usb, session>>

BleTx == BleStop \/ Acknowledge("ble", "ack")
Gps == JustStops("gps")

-----------------------------------------------------------------------------
(* The write session                                                       *)

SameRest == SameSystem /\ UNCHANGED <<asleep, ble, usb>>

\* WRITE(10) reaches the write worker: msc_write_event BEGIN.  The TinyUSB task
\* takes the next one only after it has completed the one before.
WriteBegins ==
    /\ usb /\ pc["main"] = "exposed"
    /\ Goes("io", "idle", IF active THEN "write" ELSE "clear")
    /\ active' = TRUE /\ forceExit' = FALSE /\ pending' = 1
    /\ armed' = FALSE
    /\ writes + Cardinality(started) < MaxLoad /\ writes' = writes + 1
    /\ UNCHANGED events /\ SameRest

\* app_tasks_begin_storage_mode: stale bits go, then the request is made.
SessionClears ==
    /\ Goes("io", "clear", "request")
    /\ ClearBits({"sensorQ", "audioQ"})
    /\ SameRest /\ UNCHANGED session

\* The writer waits for both workers, STORAGE_MODE_QUIESCE_TIMEOUT_MS at most,
\* and writes in either case.
SessionRequests ==
    /\ Goes("io", "request", "write")
    /\ SetBits({"storage"})
    /\ SameRest /\ UNCHANGED session

IoGoesOn == SessionClears \/ SessionRequests
Io == WriteBegins \/ IoGoesOn

\* storage_mode_finish_if_idle, first half: the critical section.
FinishIfIdle(t, from) ==
    /\ IF active /\ pending = 0 THEN /\ active' = FALSE /\ forceExit' = FALSE
                                     /\ Goes(t, from, "ending")
       ELSE Goes(t, from, "idle") /\ UNCHANGED <<active, forceExit>>
    /\ UNCHANGED <<events, pending, armed, writes>> /\ SameRest

\* Second half: app_tasks_end_storage_mode.
SessionEnds(t) ==
    /\ Goes(t, "ending", "idle")
    /\ ClearBits({"storage", "sensorQ", "audioQ"})
    /\ SameRest /\ UNCHANGED session

\* Mutant of WriteCompletes: a forced exit that met a write is forgotten.
WriteCompletesForgetful ==
    /\ pc["io"] = "write" /\ pc["tusb"] = "idle"
    /\ pc' = [pc EXCEPT !["io"] = "idle"]
    /\ pending' = 0
    /\ armed' = (armed \/ ~forceExit)
    /\ UNCHANGED <<events, active, forceExit, writes>> /\ SameRest

\* The sector is written; the TinyUSB task calls msc_write_event COMPLETE.
WriteCompletes ==
    /\ pc["io"] = "write" /\ pc["tusb"] = "idle"
    /\ pc' = [pc EXCEPT !["io"] = "idle", !["tusb"] = IF forceExit THEN "finish" ELSE @]
    /\ pending' = 0
    /\ armed' = (armed \/ ~forceExit)
    /\ UNCHANGED <<events, active, forceExit, writes>> /\ SameRest

\* storage_mode_request_forced_exit: eject, detach, a move of the medium.
\* Without a session it has no effect, for BEGIN clears the flag.
ForcedExit ==
    /\ usb /\ active /\ ~forceExit
    /\ Goes("tusb", "idle", "finish")
    /\ forceExit' = TRUE
    /\ UNCHANGED <<events, active, pending, armed, writes>> /\ SameRest

TusbGoesOn == WriteCompletes \/ FinishIfIdle("tusb", "finish") \/ SessionEnds("tusb")
Tusb == ForcedExit \/ TusbGoesOn

\* storage_mode_idle_timer_cb, a second after the last completed write
TimerFires ==
    /\ armed /\ armed' = FALSE
    /\ Goes("timer", "idle", IF active /\ pending = 0 THEN "due" ELSE "idle")
    /\ UNCHANGED <<events, active, pending, forceExit, writes>> /\ SameRest

Timer == TimerFires \/ FinishIfIdle("timer", "due") \/ SessionEnds("timer")

\* app_main after app_tasks_start: Bluetooth, which no stop request prevents.
\* After a fatal start it has returned.
MainStartsBle ==
    /\ ~fatal
    /\ Goes("main", "ble", "msc")
    /\ ble' \in BleInit
    /\ UNCHANGED <<events, asleep, fixed, settings, system, usb, session>>

\* Then the medium; a stop ends the wait for the first calibration, and
\* nothing is exposed.
MainExposes ==
    /\ \/ Goes("main", "msc", "exposed")
       \/ "stop" \in bits /\ Goes("main", "msc", "done")
    /\ UNCHANGED <<events, asleep>> /\ SameWorld

Main == MainStartsBle \/ MainExposes

-----------------------------------------------------------------------------
(* The system worker                                                       *)

Others == UNCHANGED <<fixed, asleep, ble, usb, session>>
SameFlow == UNCHANGED <<deferred, time>>

\* Mutant of SetPrefs: the flag is not worked out anew.
SetPrefsSameFlag(p) == prefs' = p /\ UNCHANGED <<dirty, nvs, saveFailed>>

\* The switches change a setting; update_switch_preferences_dirty works the
\* flag out anew.
SetPrefs(p) ==
    /\ prefs' = p
    /\ dirty' = IF p = prefs THEN dirty ELSE Outdated \/ p # Restored
    /\ UNCHANGED <<nvs, saveFailed>>

\* A round: the bits are read, the switches, then the snapshot is published.
\* A request to power off (a switch, the timer, the battery) is remembered
\* during a session and carried out otherwise.
SystemRound ==
    /\ \E p \in Prefs : SetPrefs(p)
    /\ \E off \in BOOLEAN :
        IF "storage" \in bits
        THEN deferred' = (deferred \/ off) /\ Goes("system", "loop", "loop")
        ELSE /\ deferred' = FALSE
             /\ Goes("system", "loop", IF deferred \/ off THEN "begin" ELSE "loop")
    /\ UNCHANGED <<events, time, quiet, sounded, stopped, powerHold, sleep>>
    /\ Others

\* request_power_off: the final snapshot is out before anybody may stop.
ClearOld ==
    /\ Goes("system", "begin", "stop")
    /\ ClearBits({"audioQ", "soundReq", "soundDone", "soundAbort"})
    /\ UNCHANGED <<settings, system>> /\ Others

RequestStop ==
    /\ Goes("system", "stop", "callQuiet")
    /\ SetBits({"stop"})
    /\ UNCHANGED <<settings, system>> /\ Others

\* Mutant of QuietCall: the wait has no deadline.
QuietCallForever ==
    /\ IF Mask("system") \subseteq bits
       THEN Goes("system", "callQuiet", "sound") /\ quiet' = TRUE
       ELSE Goes("system", "callQuiet", "waitQuiet") /\ UNCHANGED quiet
    /\ UNCHANGED <<events, settings, sounded, stopped, powerHold, sleep>>
    /\ SameFlow /\ Others

\* wait_for_shutdown_bits: fails once the deadline has come, else blocks for a
\* slice of SHUTDOWN_WAIT_SLICE_MS and asks again.
QuietCall ==
    /\ IF time = "none" THEN Goes("system", "callQuiet", "sound") /\ quiet' = FALSE
       ELSE IF Mask("system") \subseteq bits
       THEN Goes("system", "callQuiet", "sound") /\ quiet' = TRUE
       ELSE Goes("system", "callQuiet", "waitQuiet") /\ UNCHANGED quiet
    /\ UNCHANGED <<events, settings, sounded, stopped, powerHold, sleep>>
    /\ SameFlow /\ Others

QuietReturns ==
    /\ Goes("system", "waitQuiet", "sound")
    /\ quiet' = TRUE
    /\ Returns("system")
    /\ UNCHANGED <<settings, sounded, stopped, powerHold, sleep>> /\ SameFlow /\ Others

SliceEnds ==
    /\ "system" \notin woken
    /\ \/ Goes("system", "waitQuiet", "callQuiet")
       \/ Goes("system", "waitSound", "callSound")
    /\ UNCHANGED <<events, settings, system>> /\ Others

\* Mutant of RequestSound: the sound is asked for after a failed wait, too.
RequestSoundAnyway ==
    /\ IF time # "none"
       THEN Goes("system", "sound", "callSound") /\ SetBits({"soundReq"})
       ELSE Goes("system", "sound", "abort") /\ SetBits({"soundReq"})
    /\ UNCHANGED <<settings, system>> /\ Others

\* system_policy_can_start_shutdown_sound
RequestSound ==
    /\ IF time = "ample" /\ quiet
       THEN Goes("system", "sound", "callSound") /\ SetBits({"soundReq"})
       ELSE Goes("system", "sound", "abort") /\ UNCHANGED events
    /\ UNCHANGED <<settings, system>> /\ Others

SoundCall ==
    /\ IF time = "none" THEN Goes("system", "callSound", "abort") /\ sounded' = FALSE
       ELSE IF Mask("system") \subseteq bits
       THEN Goes("system", "callSound", "abort") /\ sounded' = TRUE
       ELSE Goes("system", "callSound", "waitSound") /\ UNCHANGED sounded
    /\ UNCHANGED <<events, settings, quiet, stopped, powerHold, sleep>>
    /\ SameFlow /\ Others

SoundReturns ==
    /\ Goes("system", "waitSound", "abort")
    /\ sounded' = TRUE
    /\ Returns("system")
    /\ UNCHANGED <<settings, quiet, stopped, powerHold, sleep>> /\ SameFlow /\ Others

AbortSound ==
    /\ Goes("system", "abort", "acks")
    /\ IF sounded THEN UNCHANGED events ELSE SetBits({"soundAbort"})
    /\ UNCHANGED <<settings, system>> /\ Others

ReadAcks ==
    /\ Goes("system", "acks", "blockedBit")
    /\ stopped' = (started \subseteq bits)
    /\ UNCHANGED <<events, settings, quiet, sounded, powerHold, sleep>>
    /\ SameFlow /\ Others

ReadSleepBlocked ==
    /\ Goes("system", "blockedBit", "usb")
    /\ stopped' = (stopped /\ "sleepBlocked" \notin bits)
    /\ UNCHANGED <<events, settings, quiet, sounded, powerHold, sleep>>
    /\ SameFlow /\ Others

UsbIdle == ~active /\ pending = 0 /\ pc["io"] = "idle"

\* Mutant of StopUsb: its result is not looked at.
StopUsbUnchecked ==
    /\ pc["system"] = "usb"
    /\ IF stopped /\ usb /\ UsbIdle
       THEN usb' = FALSE /\ pc' = [pc EXCEPT !["system"] = "release", !["tusb"] = "dead"]
       ELSE Goes("system", "usb", "release") /\ UNCHANGED usb
    /\ UNCHANGED <<stopped, events, fixed, asleep, settings, deferred, time, quiet,
                   sounded, powerHold, sleep, ble, session>>

\* usb_device_stop refuses while a session is open or a write is pending; it
\* may fail; else it deletes the TinyUSB task wherever that is.
StopUsb ==
    /\ pc["system"] = "usb"
    /\ \/ /\ stopped /\ usb /\ UsbIdle
          /\ usb' = FALSE
          /\ pc' = [pc EXCEPT !["system"] = "release", !["tusb"] = "dead"]
          /\ UNCHANGED stopped
       \/ /\ stopped /\ usb
          /\ stopped' = FALSE
          /\ Goes("system", "usb", "release") /\ UNCHANGED usb
       \/ /\ ~stopped \/ ~usb
          /\ Goes("system", "usb", "release") /\ UNCHANGED <<stopped, usb>>
    /\ UNCHANGED <<events, fixed, asleep, settings, deferred, time, quiet,
                   sounded, powerHold, sleep, ble, session>>

\* SYSTEM_ACK, and PIN_PWR_HOLD goes low
Release ==
    /\ Goes("system", "release", "power")
    /\ SetBits({"system"})
    /\ powerHold' = FALSE
    /\ UNCHANGED <<settings, quiet, sounded, stopped, sleep>> /\ SameFlow /\ Others

\* app_power_prepare_safe_stop, which may fail; then the SAFE_STOP loop
PermitSleep ==
    /\ Goes("system", "power", "safeStop")
    /\ sleep' \in {FALSE, stopped}
    /\ UNCHANGED <<events, settings, quiet, sounded, stopped, powerHold>>
    /\ SameFlow /\ Others

System ==
    \/ SystemRound \/ ClearOld \/ RequestStop \/ QuietCall \/ QuietReturns \/ SliceEnds
    \/ RequestSound \/ SoundCall \/ SoundReturns \/ AbortSound \/ ReadAcks
    \/ ReadSleepBlocked \/ StopUsb \/ Release \/ PermitSleep

\* The time to the deadline passes while the system worker waits.
Tick ==
    /\ pc["system"] \in {"callQuiet", "waitQuiet", "callSound", "waitSound"}
    /\ time # "none"
    /\ time' = IF time = "ample" THEN "short" ELSE "none"
    /\ UNCHANGED <<events, pc, settings, deferred, quiet, sounded, stopped, powerHold,
                   sleep>>
    /\ Others

-----------------------------------------------------------------------------
Places(t) ==
    CASE t = "system"  -> {"loop", "begin", "stop", "callQuiet", "waitQuiet", "sound",
                           "callSound", "waitSound", "abort", "acks", "blockedBit", "usb",
                           "release", "power", "safeStop"}
      [] t = "audio"   -> {"run", "entering", "leaving", "await", "sound", "ack", "gone"}
      [] t = "sensor"  -> {"run", "deaf", "entering", "leaving", "gone"}
      [] t = "console" -> {"run", "blocked", "save", "gone"}
      [] t = "ble"     -> {"run", "ack", "gone"}
      [] t = "gps"     -> {"run", "gone"}
      [] t = "io"      -> {"idle", "clear", "request", "write"}
      [] t = "tusb"    -> {"idle", "finish", "ending", "dead"}
      [] t = "timer"   -> {"idle", "due", "ending"}
      [] OTHER         -> {"ble", "msc", "exposed", "done"}

\* The sensor worker hears nothing when it could not register its watchdog or
\* found the fatal state at its start.
\* switch_preferences_load: the record, or the defaults where there is none in
\* the present format.
LoadPrefs ==
    /\ prefs = Restored
    /\ nvs = IF Outdated THEN "outdated" ELSE Restored

\* Whatever was not loaded as it stands, or named a parameter set that is not
\* there, must be saved.
InitialDirty == dirty = Outdated

Init ==
    /\ bits = {} /\ woken = {}
    /\ fatal \in BOOLEAN
    /\ started \in IF fatal THEN Failed ELSE Normal
    /\ \E s \in IF fatal THEN {"run", "deaf"} ELSE {"run"} :
         pc = [t \in Tasks |-> CASE t = "sensor" -> s
                                 [] t \in Workers -> "run"
                                 [] t = "system" -> "loop"
                                 [] t = "main" -> "ble"
                                 [] OTHER -> "idle"]
    /\ asleep = [t \in Sleepers |-> FALSE]
    /\ LoadPrefs /\ InitialDirty /\ saveFailed = FALSE
    /\ deferred = FALSE
    /\ time = "ample" /\ quiet = FALSE /\ sounded = FALSE /\ stopped = FALSE
    /\ powerHold = TRUE /\ sleep = FALSE
    /\ ble = "off" /\ usb \in BOOLEAN
    /\ active = FALSE /\ pending = 0 /\ forceExit = FALSE
    /\ armed = FALSE /\ writes = 0

Next ==
    \/ System \/ Tick \/ Main
    \/ Audio
    \/ "sensor" \in started /\ Sensor
    \/ "console" \in started /\ Console
    \/ "ble" \in started /\ BleTx
    \/ "gps" \in started /\ Gps
    \/ Io \/ Tusb \/ Timer

Spec == Init /\ [][Next]_vars

\* Every task runs; the host need not write, and startup may take any time.
FairSpec ==
    /\ Spec
    /\ WF_vars(System) /\ WF_vars(Tick)
    /\ WF_vars(Audio)
    /\ WF_vars("sensor" \in started /\ Sensor)
    /\ WF_vars("console" \in started /\ Console)
    /\ WF_vars("ble" \in started /\ BleTx)
    /\ WF_vars("gps" \in started /\ Gps)
    /\ WF_vars(IoGoesOn) /\ WF_vars(TusbGoesOn) /\ WF_vars(Timer)

-----------------------------------------------------------------------------
(* Properties                                                              *)

\* Every variable has its type, every task is at a place of its own.
TypeOK ==
    /\ bits \subseteq Workers \cup Flags /\ woken \subseteq {"console", "system"}
    /\ DOMAIN pc = Tasks /\ \A t \in Tasks : pc[t] \in Places(t)
    /\ started \in Normal \cup Failed /\ fatal \in BOOLEAN
    /\ asleep \in [Sleepers -> BOOLEAN]
    /\ prefs \in Prefs /\ nvs \in Prefs \cup {"outdated"}
    /\ {dirty, saveFailed} \subseteq BOOLEAN
    /\ {deferred, quiet, sounded, stopped, powerHold, sleep} \subseteq BOOLEAN
    /\ time \in {"ample", "short", "none"}
    /\ ble \in {"on", "off", "stuck"} /\ usb \in BOOLEAN
    /\ {active, forceExit, armed} \subseteq BOOLEAN /\ pending \in {0, 1}
    /\ writes \in 0 .. MaxLoad

\* A quiesced bit tells the truth: while it is up its worker measures nothing
\* and plays no vario tone, whatever sessions begin and end meanwhile.
QuietBitsTrue ==
    \A w \in Sleepers :
        Quiesced[w] \in bits => asleep[w] \/ pc[w] \notin {"run", "entering"}

\* The request that keeps the sensors off and holds a power-off back never
\* outlives its session: somebody is still bound to clear it.
RequestHasOwner ==
    "storage" \in bits =>
        active \/ ~usb \/ pc["tusb"] = "ending" \/ pc["timer"] = "ending"

\* The bits of a write session are true while they are up and do not stay up.
SessionFlagsTrue == QuietBitsTrue /\ RequestHasOwner

\* The shutdown sound is played only when every other worker has stopped.
SoundComesLast == pc["audio"] = "sound" => started \ {"audio"} \subseteq bits

\* The settings in use at the power-off survive it: they are in NVS, or the
\* save has failed, when the console worker acknowledges and whenever the power
\* is released before the deadline.
PreferencesKept ==
    ("console" \in bits \/ (~powerHold /\ time # "none" /\ "console" \in started)) =>
        nvs = prefs \/ saveFailed

\* Light sleep is permitted only when every worker has stopped for good, USB is
\* down, no write is under way and the Bluetooth host did not fail to stop.
SleepIsSafe ==
    sleep =>
        /\ \A w \in started : pc[w] = "gone"
        /\ ~usb /\ ~active /\ pc["io"] = "idle"
        /\ ble # "stuck"

\* A power-off, once begun, releases the power: no worker, write or sound can
\* hold it up beyond the deadline.
ShutdownEnds == pc["system"] = "begin" ~> ~powerHold

\* A power-off asked for during a write session is carried out: the session
\* comes to its end, however it is ended, and the system worker sees it.
DeferredOffHappens == deferred ~> "stop" \in bits

\* A worker that a write session has quieted resumes, unless it is stopped.
SleepersResume ==
    \A w \in Sleepers : asleep[w] ~> (~asleep[w] \/ "stop" \in bits)

\* A session comes to its end, for the power-off and for the workers it stopped.
SessionsEnd == DeferredOffHappens /\ SleepersResume

=============================================================================
