---------------------------- MODULE ShutdownProofs ----------------------------
(***************************************************************************)
(* For every set of workers and of settings, and any number of WRITE(10)   *)
(* commands: the bits the tasks trust are true, the sound comes last, the  *)
(* settings are kept and light sleep is permitted only when all rests.     *)
(***************************************************************************)
EXTENDS Shutdown, FiniteSetTheorems, TLAPS

\* Where the system worker is once it has waited for the workers, and after.
Late == {"sound", "callSound", "waitSound", "abort", "acks", "blockedBit", "usb",
         "release", "power", "safeStop"}

\* A write under way belongs to a session, and both to a running driver.
SessionInv ==
    /\ pc["io"] # "idle" => active /\ pending = 1
    /\ ~usb => ~active

\* An acknowledgement is given once, by a worker that is gone, and nobody stops
\* before the request.
AckInv ==
    /\ \A w \in Workers : w \in bits => pc[w] = "gone"
    /\ "stop" \in bits => pc["system"] \notin {"loop", "begin", "stop"}
    /\ pc["console"] # "run" => "stop" \in bits

\* What the system worker has seen of the workers stays so.
OrderInv ==
    /\ "system" \in woken => pc["system"] \in {"waitQuiet", "waitSound"}
    /\ "system" \in woken /\ pc["system"] = "waitQuiet" => started \ {"audio"} \subseteq bits
    /\ quiet => pc["system"] \in Late /\ started \ {"audio"} \subseteq bits
    /\ pc["system"] \in Late => quiet \/ time = "none"
    /\ "soundReq" \in bits => quiet
    /\ pc["audio"] = "sound" => quiet

\* What light sleep rests on.
SleepInv ==
    /\ ~powerHold => pc["system"] \in {"power", "safeStop"}
    /\ stopped => started \subseteq bits
    /\ ble = "stuck" => "sleepBlocked" \in bits
    /\ stopped /\ pc["system"] \in {"usb", "release", "power", "safeStop"} => ble # "stuck"
    /\ stopped /\ pc["system"] \in {"release", "power", "safeStop"} => ~usb
    /\ sleep => stopped /\ pc["system"] = "safeStop"

\* NVS is as the boot found it until the console worker saves, and the flag says
\* whether the settings in use differ.
PrefsInv ==
    IF pc["console"] # "gone"
    THEN /\ nvs = IF Outdated THEN "outdated" ELSE Restored
         /\ dirty \/ nvs = prefs
    ELSE nvs = prefs \/ saveFailed

Inv == /\ TypeOK /\ SessionInv /\ AckInv /\ OrderInv /\ SleepInv /\ PrefsInv
       /\ QuietBitsTrue /\ RequestHasOwner

-----------------------------------------------------------------------------
(* What a group of actions leaves alone                                    *)

USE DEF Goes, Returns, SetBits, ClearBits, SameSystem, SameWorld, SameRest, Others, SameFlow,
        events, fixed, settings, system, session

\* Only tasks of the shutdown are started.
LEMMA StartedTasks ==
  ASSUME TypeOK
  PROVE  started \subseteq Workers
  BY WorkersAssumption DEF TypeOK

\* The bits a worker lowers are the quiesced bits; it raises its own.
LEMMA WorkersFrame ==
  ASSUME DOMAIN pc = Tasks, Audio \/ Sensor \/ Console \/ BleTx \/ Gps
  PROVE  /\ UNCHANGED <<fixed, prefs, dirty, system, usb, session>>
         /\ \A t \in Tasks \ Workers : pc'[t] = pc[t]
         /\ bits \ {"audioQ", "sensorQ"} \subseteq bits'
         /\ bits' \subseteq bits \cup Workers \cup {"audioQ", "sensorQ", "soundDone", "sleepBlocked"}
         /\ "system" \in woken' =>
               "system" \in woken \/ ("system" \in Waiting /\ Mask("system") \subseteq bits')
<1> USE DEF Workers, Tasks, Sleepers
<1>1. CASE Sleeper("audio") \/ Sleeper("sensor")
  BY <1>1 DEF Sleeper, SeesSession, FallAsleep, WakeUp, Quiesced
<1>2. CASE AudioQuiet \/ AudioAwait \/ AudioAborted \/ AudioSound
  BY <1>2 DEF AudioQuiet, AudioAwait, AudioAborted, AudioSound, Acknowledge, Stops
<1>3. CASE Acknowledge("audio", "ack") \/ JustStops("sensor") \/ Gps \/ Acknowledge("ble", "ack")
  BY <1>3 DEF Acknowledge, JustStops, Gps
<1>4. CASE Console \/ BleStop
  BY <1>4 DEF Console, ConsoleStops, ConsoleWakes, ConsoleSave, SavePrefs, BleStop, Stops
<1> QED BY <1>1, <1>2, <1>3, <1>4 DEF Audio, Sensor, BleTx

\* The system worker writes its own bits and, deleting it, the place of the
\* TinyUSB task.
LEMMA SystemFrame ==
  ASSUME DOMAIN pc = Tasks, System
  PROVE  /\ UNCHANGED <<fixed, asleep, nvs, saveFailed, time, ble, session>>
         /\ \A t \in Tasks \ {"system", "tusb"} : pc'[t] = pc[t]
         /\ bits \ {"audioQ", "soundReq", "soundDone", "soundAbort"} \subseteq bits'
         /\ bits' \subseteq bits \cup {"stop", "soundReq", "soundAbort", "system"}
<1> USE DEF Workers, Tasks
<1>1. CASE SystemRound
  BY <1>1 DEF SystemRound, SetPrefs
<1>2. CASE ClearOld \/ RequestStop \/ SliceEnds \/ RequestSound \/ AbortSound
  BY <1>2 DEF ClearOld, RequestStop, SliceEnds, RequestSound, AbortSound
<1>3. CASE QuietCall \/ QuietReturns \/ SoundCall \/ SoundReturns
  BY <1>3 DEF QuietCall, QuietReturns, SoundCall, SoundReturns
<1>4. CASE ReadAcks \/ ReadSleepBlocked \/ Release \/ PermitSleep
  BY <1>4 DEF ReadAcks, ReadSleepBlocked, Release, PermitSleep
<1>5. CASE StopUsb
  BY <1>5 DEF StopUsb
<1> QED BY <1>1, <1>2, <1>3, <1>4, <1>5 DEF System

\* The write session touches its request and the quiesced bits.
LEMMA SessionFrame ==
  ASSUME DOMAIN pc = Tasks, Io \/ Tusb \/ Timer
  PROVE  /\ UNCHANGED <<fixed, asleep, settings, system, ble, usb>>
         /\ \A t \in Workers \cup {"system", "main"} : pc'[t] = pc[t]
         /\ bits \ {"storage", "audioQ", "sensorQ"} \subseteq bits'
         /\ bits' \subseteq bits \cup {"storage"}
         /\ "system" \in woken' =>
               "system" \in woken \/ ("system" \in Waiting /\ Mask("system") \subseteq bits')
<1> USE DEF Workers, Tasks
<1>1. CASE Io
  BY <1>1 DEF Io, IoGoesOn, WriteBegins, SessionClears, SessionRequests
<1>2. CASE ForcedExit \/ WriteCompletes \/ TimerFires
  BY <1>2 DEF ForcedExit, WriteCompletes, TimerFires
<1>3. CASE FinishIfIdle("tusb", "finish") \/ FinishIfIdle("timer", "due")
  BY <1>3 DEF FinishIfIdle
<1>4. CASE SessionEnds("tusb") \/ SessionEnds("timer")
  BY <1>4 DEF SessionEnds
<1> QED BY <1>1, <1>2, <1>3, <1>4 DEF Tusb, TusbGoesOn, Timer

\* Startup raises no bit.
LEMMA MainFrame ==
  ASSUME DOMAIN pc = Tasks, Main
  PROVE  /\ UNCHANGED <<events, fixed, asleep, settings, system, usb, session>>
         /\ \A t \in Tasks \ {"main"} : pc'[t] = pc[t]
  BY DEF Main, MainStartsBle, MainExposes, Tasks, Workers

\* Only the clock moves, and only while the system worker waits.
LEMMA TickFrame ==
  ASSUME Tick
  PROVE  /\ UNCHANGED <<events, pc, fixed, asleep, settings, ble, usb, session>>
         /\ UNCHANGED <<deferred, quiet, sounded, stopped, powerHold, sleep>>
         /\ pc["system"] \in {"callQuiet", "waitQuiet", "callSound", "waitSound"}
  BY DEF Tick

\* A step by who takes it; which tasks were started matters to Bluetooth alone.
LEMMA Cases ==
  ASSUME [Next]_vars
  PROVE  \/ System \/ Tick \/ Main
         \/ Audio \/ Sensor \/ Console \/ ("ble" \in started /\ BleTx) \/ Gps
         \/ Io \/ Tusb \/ Timer
         \/ UNCHANGED vars
  BY DEF Next

-----------------------------------------------------------------------------
(* The parts of the invariant, one after the other                         *)

\* usb_device_stop looks at the session before it deletes the driver.
LEMMA SessionKept ==
  ASSUME Inv, [Next]_vars
  PROVE  SessionInv'
<1> USE DEF Inv, SessionInv, Tasks, Workers
<1>0. DOMAIN pc = Tasks
  BY DEF TypeOK
<1>1. CASE WriteBegins
  BY <1>0, <1>1 DEF WriteBegins
<1>2. CASE IoGoesOn
  BY <1>0, <1>2, SessionFrame DEF Io, IoGoesOn, SessionClears, SessionRequests
<1>3. CASE Tusb
  BY <1>0, <1>3, SessionFrame
     DEF Tusb, TusbGoesOn, ForcedExit, WriteCompletes, FinishIfIdle, SessionEnds
<1>4. CASE Timer
  BY <1>0, <1>4, SessionFrame DEF Timer, TimerFires, FinishIfIdle, SessionEnds
<1>5. CASE StopUsb
  BY <1>0, <1>5 DEF StopUsb, UsbIdle
<1>6. CASE System /\ ~StopUsb
  <2>1. UNCHANGED usb
    BY <1>6 DEF System, SystemRound, ClearOld, RequestStop, QuietCall, QuietReturns, SliceEnds,
                RequestSound, SoundCall, SoundReturns, AbortSound, ReadAcks,
                ReadSleepBlocked, Release, PermitSleep
  <2> QED BY <1>0, <1>6, <2>1, SystemFrame
<1>7. CASE Tick \/ Main
  BY <1>0, <1>7, TickFrame, MainFrame
<1>8. CASE Audio \/ Sensor \/ Console \/ BleTx \/ Gps
  BY <1>0, <1>8, WorkersFrame
<1>9. CASE UNCHANGED vars
  BY <1>9 DEF vars
<1> QED BY <1>1, <1>2, <1>3, <1>4, <1>5, <1>6, <1>7, <1>8, <1>9, Cases DEF Io

\* acknowledge_and_delete is a worker's last step, the request their first cause.
LEMMA AckKept ==
  ASSUME Inv, [Next]_vars
  PROVE  AckInv'
<1> USE DEF Inv, AckInv, Tasks, Workers
<1>0. DOMAIN pc = Tasks
  BY DEF TypeOK
<1>1. CASE System
  <2>1. \A w \in Workers : pc'[w] = pc[w] /\ (w \in bits' => w \in bits)
    BY <1>0, <1>1, SystemFrame
  <2>2. "stop" \in bits' => pc'["system"] \notin {"loop", "begin", "stop"}
    BY <1>0, <1>1 DEF System, SystemRound, ClearOld, RequestStop, QuietCall, QuietReturns,
         SliceEnds, RequestSound, SoundCall, SoundReturns, AbortSound, ReadAcks,
         ReadSleepBlocked, StopUsb, Release, PermitSleep
  <2>3. "stop" \in bits => "stop" \in bits'
    BY <1>0, <1>1, SystemFrame
  <2> QED BY <2>1, <2>2, <2>3
<1>2. CASE Audio \/ Sensor \/ Console \/ BleTx \/ Gps
  <2>1. \A w \in Workers : w \in bits' => pc'[w] = "gone"
    <3> USE DEF Sleepers
    <3>1. CASE Sleeper("audio") \/ Sleeper("sensor")
      BY <1>0, <3>1 DEF Sleeper, SeesSession, FallAsleep, WakeUp, Quiesced
    <3>2. CASE AudioQuiet \/ AudioAwait \/ AudioAborted \/ AudioSound
      BY <1>0, <3>2 DEF AudioQuiet, AudioAwait, AudioAborted, AudioSound, Acknowledge, Stops
    <3>3. CASE Acknowledge("audio", "ack") \/ JustStops("sensor") \/ Gps \/ Acknowledge("ble", "ack")
      BY <1>0, <3>3 DEF Acknowledge, JustStops, Gps
    <3>4. CASE Console \/ BleStop
      BY <1>0, <3>4 DEF Console, ConsoleStops, ConsoleWakes, ConsoleSave, SavePrefs, BleStop, Stops
    <3> QED BY <1>2, <3>1, <3>2, <3>3, <3>4 DEF Audio, Sensor, BleTx
  <2>2. pc'["console"] # "run" => "stop" \in bits'
    <3>1. CASE Console
      BY <1>0, <3>1 DEF Console, ConsoleStops, ConsoleWakes, ConsoleSave, SavePrefs, Stops
    <3>2. CASE ~Console
      <4>1. pc'["console"] = pc["console"]
        BY <1>0, <1>2, <3>2 DEF Audio, Sensor, BleTx, Gps, Sleeper, SeesSession, FallAsleep,
             WakeUp, AudioQuiet, AudioAwait, AudioAborted, AudioSound, Acknowledge, JustStops,
             BleStop, Stops
      <4> QED BY <1>0, <1>2, <4>1, WorkersFrame
    <3> QED BY <3>1, <3>2
  <2>3. "stop" \in bits' => pc'["system"] \notin {"loop", "begin", "stop"}
    BY <1>0, <1>2, WorkersFrame
  <2> QED BY <2>1, <2>2, <2>3
<1>3. CASE Io \/ Tusb \/ Timer
  BY <1>0, <1>3, SessionFrame
<1>4. CASE Main \/ Tick
  BY <1>0, <1>4, MainFrame, TickFrame
<1>5. CASE UNCHANGED vars
  BY <1>5 DEF vars
<1> QED BY <1>1, <1>2, <1>3, <1>4, <1>5, Cases

\* The wait for the workers, once it has succeeded, is not undone.
LEMMA OrderKept ==
  ASSUME Inv, [Next]_vars
  PROVE  OrderInv'
<1> USE DEF Inv, OrderInv, Tasks, Workers, Late
<1>0. DOMAIN pc = Tasks /\ started \subseteq Workers
  BY StartedTasks DEF TypeOK
<1>1. CASE SystemRound
  BY <1>0, <1>1 DEF SystemRound
<1>2. CASE ClearOld
  BY <1>0, <1>2 DEF ClearOld
<1>3. CASE SliceEnds
  BY <1>0, <1>3 DEF SliceEnds
<1>4. CASE RequestStop
  BY <1>0, <1>4 DEF RequestStop, Waiting
<1>5. CASE QuietCall
  BY <1>0, <1>5 DEF QuietCall, Mask
<1>6. CASE QuietReturns
  BY <1>0, <1>6 DEF QuietReturns
<1>7. CASE RequestSound
  BY <1>0, <1>7 DEF RequestSound, Waiting
<1>8. CASE AbortSound
  BY <1>0, <1>8 DEF AbortSound, Waiting
<1>9. CASE SoundCall
  BY <1>0, <1>9 DEF SoundCall
<1>10. CASE SoundReturns
  BY <1>0, <1>10 DEF SoundReturns
<1>11. CASE ReadAcks
  BY <1>0, <1>11 DEF ReadAcks
<1>12. CASE ReadSleepBlocked
  BY <1>0, <1>12 DEF ReadSleepBlocked
<1>13. CASE StopUsb
  BY <1>0, <1>13 DEF StopUsb
<1>14. CASE PermitSleep
  BY <1>0, <1>14 DEF PermitSleep
<1>15. CASE Release
  BY <1>0, <1>15 DEF Release, Waiting
<1>16. CASE Tick
  BY <1>0, <1>16, TickFrame DEF Tick
<1>17. CASE Audio \/ Sensor \/ Console \/ BleTx \/ Gps
  <2>1. pc'["system"] = pc["system"] /\ UNCHANGED <<started, quiet, time>>
    BY <1>0, <1>17, WorkersFrame
  <2>2. \A w \in Workers : w \in bits => w \in bits'
    BY <1>0, <1>17, WorkersFrame
  <2>3. "soundReq" \in bits' => "soundReq" \in bits
    BY <1>0, <1>17, WorkersFrame
  <2>4. pc'["audio"] = "sound" => quiet
    <3>1. CASE AudioAwait
      BY <1>0, <3>1 DEF AudioAwait
    <3>2. CASE ~AudioAwait
      <4>1. pc'["audio"] = "sound" => pc["audio"] = "sound"
        BY <1>0, <1>17, <3>2 DEF Audio, Sensor, BleTx, Gps, Console, Sleeper, SeesSession,
             FallAsleep, WakeUp, AudioQuiet, AudioAborted, AudioSound, Acknowledge,
             JustStops, ConsoleStops, ConsoleWakes, ConsoleSave, SavePrefs, BleStop, Stops
      <4> QED BY <4>1
    <3> QED BY <3>1, <3>2
  <2>5. "system" \in woken' =>
           "system" \in woken \/ ("system" \in Waiting /\ Mask("system") \subseteq bits')
    BY <1>0, <1>17, WorkersFrame
  <2>6. "system" \in woken' => pc["system"] \in {"waitQuiet", "waitSound"}
    BY <2>5 DEF Waiting, TypeOK, Places
  <2>7. "system" \in woken' /\ pc["system"] = "waitQuiet" => started \ {"audio"} \subseteq bits'
    BY <1>0, <2>2, <2>5 DEF Mask
  <2> QED BY <1>0, <2>1, <2>2, <2>3, <2>4, <2>6, <2>7
<1>18. CASE Io \/ Tusb \/ Timer
  <2>1. pc'["system"] = pc["system"] /\ pc'["audio"] = pc["audio"]
        /\ UNCHANGED <<started, quiet, time>>
    BY <1>0, <1>18, SessionFrame
  <2>2. \A w \in Workers : w \in bits => w \in bits'
    BY <1>0, <1>18, SessionFrame
  <2>3. "soundReq" \in bits' => "soundReq" \in bits
    BY <1>0, <1>18, SessionFrame
  <2>4. "system" \in woken' =>
           "system" \in woken \/ ("system" \in Waiting /\ Mask("system") \subseteq bits')
    BY <1>0, <1>18, SessionFrame
  <2>5. "system" \in woken' => pc["system"] \in {"waitQuiet", "waitSound"}
    BY <2>4 DEF Waiting, TypeOK, Places
  <2>6. "system" \in woken' /\ pc["system"] = "waitQuiet" => started \ {"audio"} \subseteq bits'
    BY <1>0, <2>2, <2>4 DEF Mask
  <2> QED BY <1>0, <2>1, <2>2, <2>3, <2>5, <2>6
<1>19. CASE Main
  <2>1. /\ UNCHANGED <<bits, woken, started, quiet, time>>
        /\ pc'["system"] = pc["system"] /\ pc'["audio"] = pc["audio"]
    BY <1>0, <1>19, MainFrame
  <2> QED BY <2>1
<1>20. CASE UNCHANGED vars
  BY <1>20 DEF vars
<1> QED BY <1>1, <1>2, <1>3, <1>4, <1>5, <1>6, <1>7, <1>8, <1>9, <1>10, <1>11, <1>12, <1>13,
           <1>14, <1>15, <1>16, <1>17, <1>18, <1>19, <1>20, Cases
        DEF System

\* Who changes none of these, and lowers no acknowledgement, keeps SleepInv.
LEMMA SleepStable ==
  ASSUME SleepInv,
         UNCHANGED <<started, stopped, powerHold, sleep, usb, ble>>,
         pc'["system"] = pc["system"],
         started \cap bits \subseteq bits',
         "sleepBlocked" \in bits => "sleepBlocked" \in bits'
  PROVE  SleepInv'
  BY DEF SleepInv

\* all_workers_stopped gathers what ACKs, ble_vario_stop and usb_device_stop say.
LEMMA SleepKept ==
  ASSUME Inv, [Next]_vars
  PROVE  SleepInv'
<1> USE DEF Inv, Tasks, Workers
<1>0. DOMAIN pc = Tasks /\ started \subseteq Workers
  BY StartedTasks DEF TypeOK
<1>1. CASE SystemRound
  BY <1>0, <1>1 DEF SystemRound, SleepInv
<1>2. CASE ClearOld
  BY <1>0, <1>2 DEF ClearOld, SleepInv
<1>3. CASE RequestStop
  BY <1>0, <1>3 DEF RequestStop, SleepInv
<1>4. CASE SliceEnds
  BY <1>0, <1>4 DEF SliceEnds, SleepInv
<1>5. CASE RequestSound
  BY <1>0, <1>5 DEF RequestSound, SleepInv
<1>6. CASE AbortSound
  BY <1>0, <1>6 DEF AbortSound, SleepInv
<1>7. CASE QuietCall
  BY <1>0, <1>7 DEF QuietCall, SleepInv
<1>8. CASE QuietReturns
  BY <1>0, <1>8 DEF QuietReturns, SleepInv
<1>9. CASE SoundCall
  BY <1>0, <1>9 DEF SoundCall, SleepInv
<1>10. CASE SoundReturns
  BY <1>0, <1>10 DEF SoundReturns, SleepInv
<1>11. CASE ReadAcks
  BY <1>0, <1>11 DEF ReadAcks, SleepInv
<1>12. CASE ReadSleepBlocked
  BY <1>0, <1>12 DEF ReadSleepBlocked, SleepInv
<1>13. CASE StopUsb
  BY <1>0, <1>13 DEF StopUsb, SleepInv
<1>14. CASE Release
  BY <1>0, <1>14 DEF Release, SleepInv
<1>15. CASE PermitSleep
  <2>1. sleep' => stopped
    BY <1>0, <1>15 DEF PermitSleep
  <2> QED BY <1>0, <1>15, <2>1 DEF PermitSleep, SleepInv
<1>16. CASE "ble" \in started /\ BleStop
  BY <1>0, <1>16 DEF BleStop, AckInv, Stops, SleepInv
<1>17. CASE Audio \/ Sensor \/ Console \/ Acknowledge("ble", "ack") \/ Gps
  <2>1. UNCHANGED ble
    BY <1>17 DEF Audio, Sensor, Gps, Console, Sleeper, SeesSession,
         FallAsleep, WakeUp, AudioQuiet, AudioAwait, AudioAborted, AudioSound, Acknowledge,
         JustStops, ConsoleStops, ConsoleWakes, ConsoleSave, SavePrefs
  <2>2. UNCHANGED <<started, stopped, powerHold, sleep, usb>> /\ pc'["system"] = pc["system"]
    BY <1>0, <1>17, WorkersFrame DEF BleTx
  <2>3. started \cap bits \subseteq bits' /\ ("sleepBlocked" \in bits => "sleepBlocked" \in bits')
    BY <1>0, <1>17, WorkersFrame DEF BleTx
  <2> QED BY <2>1, <2>2, <2>3, SleepStable
<1>18. CASE Io \/ Tusb \/ Timer
  <2>1. UNCHANGED <<started, stopped, powerHold, sleep, usb, ble>> /\ pc'["system"] = pc["system"]
    BY <1>0, <1>18, SessionFrame
  <2>2. started \cap bits \subseteq bits' /\ ("sleepBlocked" \in bits => "sleepBlocked" \in bits')
    BY <1>0, <1>18, SessionFrame
  <2> QED BY <2>1, <2>2, SleepStable
<1>19. CASE Main
  <2>1. ble' = ble \/ ble' \in {"on", "off"}
    BY <1>19, BleInitAssumption DEF Main, MainStartsBle, MainExposes
  <2>2. UNCHANGED <<bits, started, stopped, powerHold, sleep, usb>> /\ pc'["system"] = pc["system"]
    BY <1>0, <1>19, MainFrame
  <2> QED BY <2>1, <2>2 DEF SleepInv
<1>20. CASE Tick
  BY <1>20, TickFrame, SleepStable
<1>21. CASE UNCHANGED vars
  BY <1>21, SleepStable DEF vars
<1> QED BY <1>1, <1>2, <1>3, <1>4, <1>5, <1>6, <1>7, <1>8, <1>9, <1>10, <1>11, <1>12, <1>13,
           <1>14, <1>15, <1>16, <1>17, <1>18, <1>19, <1>20, <1>21, Cases
        DEF System, BleTx

\* Only the console worker saves, and the system worker, which alone changes a
\* setting, does so no more by then.
LEMMA PrefsStable ==
  ASSUME PrefsInv, UNCHANGED <<settings>>, pc'["console"] = pc["console"]
  PROVE  PrefsInv'
  BY DEF PrefsInv

LEMMA PrefsKept ==
  ASSUME Inv, [Next]_vars
  PROVE  PrefsInv'
<1> USE DEF Inv, Tasks, Workers
<1>0. DOMAIN pc = Tasks
  BY DEF TypeOK
<1>1. CASE SystemRound
  <2>1. PICK p \in Prefs : SetPrefs(p)
    BY <1>1 DEF SystemRound
  <2>2. pc'["console"] = "run" /\ pc["console"] = "run"
    BY <1>0, <1>1 DEF SystemRound, AckInv
  <2>3. nvs' = nvs /\ prefs' = p
    BY <2>1 DEF SetPrefs
  <2>4. dirty' \/ nvs' = prefs'
    <3>1. CASE p = prefs
      BY <2>1, <2>2, <2>3, <3>1 DEF SetPrefs, PrefsInv
    <3>2. CASE p # prefs
      BY <2>1, <2>2, <2>3, <3>2, OutdatedAssumption DEF SetPrefs, PrefsInv
    <3> QED BY <3>1, <3>2
  <2> QED BY <2>2, <2>3, <2>4 DEF PrefsInv
<1>2. CASE System /\ ~SystemRound
  <2>1. UNCHANGED settings
    BY <1>2 DEF System, ClearOld, RequestStop, QuietCall, QuietReturns, SliceEnds,
                RequestSound, SoundCall, SoundReturns, AbortSound, ReadAcks,
                ReadSleepBlocked, StopUsb, Release, PermitSleep
  <2>2. pc'["console"] = pc["console"]
    BY <1>0, <1>2, SystemFrame
  <2> QED BY <2>1, <2>2, PrefsStable
<1>3. CASE ConsoleSave
  BY <1>0, <1>3 DEF ConsoleSave, SavePrefs, PrefsInv
<1>4. CASE ConsoleStops \/ ConsoleWakes
  BY <1>0, <1>4 DEF ConsoleStops, ConsoleWakes, Stops, PrefsInv
<1>5. CASE Audio \/ Sensor \/ BleTx \/ Gps
  <2>1. UNCHANGED settings /\ pc'["console"] = pc["console"]
    BY <1>0, <1>5 DEF Audio, Sensor, BleTx, Gps, Sleeper, SeesSession, FallAsleep,
         WakeUp, AudioQuiet, AudioAwait, AudioAborted, AudioSound, Acknowledge, JustStops,
         BleStop, Stops
  <2> QED BY <2>1, PrefsStable
<1>6. CASE Io \/ Tusb \/ Timer
  BY <1>0, <1>6, SessionFrame, PrefsStable
<1>7. CASE Main
  BY <1>0, <1>7, MainFrame, PrefsStable
<1>8. CASE Tick
  BY <1>8, TickFrame, PrefsStable
<1>9. CASE UNCHANGED vars
  BY <1>9, PrefsStable DEF vars
<1> QED BY <1>1, <1>2, <1>3, <1>4, <1>5, <1>6, <1>7, <1>8, <1>9, Cases DEF Console

\* A quiesced bit goes up when its worker is silent, and down before it resumes.
LEMMA QuietKept ==
  ASSUME Inv, [Next]_vars
  PROVE  QuietBitsTrue'
<1> USE DEF Inv, QuietBitsTrue, Tasks, Workers, Sleepers, Quiesced
<1>0. DOMAIN pc = Tasks /\ DOMAIN asleep = Sleepers
  BY DEF TypeOK
<1>1. CASE \E w \in Sleepers : SeesSession(w)
  BY <1>0, <1>1 DEF SeesSession
<1>2. CASE \E w \in Sleepers : FallAsleep(w)
  BY <1>0, <1>2 DEF FallAsleep
<1>3. CASE \E w \in Sleepers : WakeUp(w)
  BY <1>0, <1>3 DEF WakeUp
<1>4. CASE AudioQuiet \/ AudioAwait \/ AudioAborted \/ AudioSound
  BY <1>0, <1>4 DEF AudioQuiet, AudioAwait, AudioAborted, AudioSound, Acknowledge, Stops
<1>5. CASE Acknowledge("audio", "ack") \/ JustStops("sensor") \/ Gps \/ Acknowledge("ble", "ack")
  BY <1>0, <1>5 DEF Acknowledge, JustStops, Gps
<1>6. CASE Console \/ BleStop
  BY <1>0, <1>6 DEF Console, ConsoleStops, ConsoleWakes, ConsoleSave, SavePrefs, BleStop, Stops
<1>7. CASE System
  BY <1>0, <1>7, SystemFrame
<1>8. CASE Io \/ Tusb \/ Timer
  BY <1>0, <1>8, SessionFrame
<1>9. CASE Main \/ Tick
  BY <1>0, <1>9, MainFrame, TickFrame
<1>10. CASE UNCHANGED vars
  BY <1>10 DEF vars
<1> QED BY <1>1, <1>2, <1>3, <1>4, <1>5, <1>6, <1>7, <1>8, <1>9, <1>10, Cases
        DEF Audio, Sensor, BleTx, Sleeper

\* A session ends in the task that lowers its request.
LEMMA RequestKept ==
  ASSUME Inv, [Next]_vars
  PROVE  RequestHasOwner'
<1> USE DEF Inv, RequestHasOwner, Tasks, Workers
<1>0. DOMAIN pc = Tasks
  BY DEF TypeOK
<1>1. CASE WriteBegins
  BY <1>0, <1>1 DEF WriteBegins
<1>2. CASE IoGoesOn
  BY <1>0, <1>2 DEF IoGoesOn, SessionClears, SessionRequests, SessionInv
<1>3. CASE ForcedExit \/ WriteCompletes \/ TimerFires
  BY <1>0, <1>3 DEF ForcedExit, WriteCompletes, TimerFires
<1>4. CASE FinishIfIdle("tusb", "finish") \/ FinishIfIdle("timer", "due")
  BY <1>0, <1>4 DEF FinishIfIdle
<1>5. CASE SessionEnds("tusb") \/ SessionEnds("timer")
  BY <1>0, <1>5 DEF SessionEnds
<1>6. CASE StopUsb
  BY <1>0, <1>6 DEF StopUsb
<1>7. CASE System /\ ~StopUsb
  <2>1. UNCHANGED usb /\ pc'["tusb"] = pc["tusb"]
    BY <1>0, <1>7 DEF System, SystemRound, ClearOld, RequestStop, QuietCall, QuietReturns,
         SliceEnds, RequestSound, SoundCall, SoundReturns, AbortSound, ReadAcks,
         ReadSleepBlocked, Release, PermitSleep
  <2>2. UNCHANGED active /\ pc'["timer"] = pc["timer"]
        /\ ("storage" \in bits' => "storage" \in bits)
    BY <1>0, <1>7, SystemFrame
  <2> QED BY <2>1, <2>2
<1>8. CASE Audio \/ Sensor \/ Console \/ BleTx \/ Gps
  BY <1>0, <1>8, WorkersFrame
<1>9. CASE Main \/ Tick
  BY <1>0, <1>9, MainFrame, TickFrame
<1>10. CASE UNCHANGED vars
  BY <1>10 DEF vars
<1> QED BY <1>1, <1>2, <1>3, <1>4, <1>5, <1>6, <1>7, <1>8, <1>9, <1>10, Cases
        DEF Io, Tusb, TusbGoesOn, Timer

-----------------------------------------------------------------------------
(* Types                                                                   *)

EventsOK == bits \subseteq Workers \cup Flags /\ woken \subseteq {"console", "system"}
PlacesOK == DOMAIN pc = Tasks /\ \A t \in Tasks : pc[t] \in Places(t)
DataOK ==
    /\ started \in Normal \cup Failed /\ fatal \in BOOLEAN
    /\ asleep \in [Sleepers -> BOOLEAN]
    /\ prefs \in Prefs /\ nvs \in Prefs \cup {"outdated"}
    /\ {dirty, saveFailed} \subseteq BOOLEAN
    /\ {deferred, quiet, sounded, stopped, powerHold, sleep} \subseteq BOOLEAN
    /\ time \in {"ample", "short", "none"}
    /\ ble \in {"on", "off", "stuck"} /\ usb \in BOOLEAN
    /\ {active, forceExit, armed} \subseteq BOOLEAN /\ pending \in {0, 1}
    /\ writes \in 0 .. MaxLoad

\* xEventGroupSetBits ends the waits of the console and the system worker only.
LEMMA SetBitsOK ==
  ASSUME EventsOK, NEW S \in SUBSET (Workers \cup Flags), SetBits(S)
  PROVE  EventsOK'
  BY DEF EventsOK, Waiting

\* The event group holds the bits it has.
LEMMA EventsKept ==
  ASSUME EventsOK, [Next]_vars
  PROVE  EventsOK'
<1> USE DEF EventsOK, Workers, Flags
<1>1. CASE System
  BY <1>1, SetBitsOK DEF System, SystemRound, ClearOld, RequestStop, QuietCall, QuietReturns,
         SliceEnds, RequestSound, SoundCall, SoundReturns, AbortSound, ReadAcks,
         ReadSleepBlocked, StopUsb, Release, PermitSleep
<1>2. CASE Audio \/ Sensor \/ Console \/ BleTx \/ Gps
  BY <1>2, SetBitsOK DEF Audio, Sensor, BleTx, Gps, Console, Sleeper, SeesSession,
         FallAsleep, WakeUp, AudioQuiet, AudioAwait, AudioAborted, AudioSound, Acknowledge,
         JustStops, ConsoleStops, ConsoleWakes, ConsoleSave, SavePrefs, BleStop, Stops, Quiesced, Sleepers
<1>3. CASE Io \/ Tusb \/ Timer
  BY <1>3, SetBitsOK DEF Io, IoGoesOn, WriteBegins, SessionClears, SessionRequests, Tusb,
         TusbGoesOn, ForcedExit, WriteCompletes, FinishIfIdle, SessionEnds, Timer, TimerFires
<1>4. CASE Main \/ Tick
  BY <1>4 DEF Main, MainStartsBle, MainExposes, Tick
<1>5. CASE UNCHANGED vars
  BY <1>5 DEF vars
<1> QED BY <1>1, <1>2, <1>3, <1>4, <1>5, Cases

\* Every task moves between places of its own.
LEMMA PlacesKept ==
  ASSUME PlacesOK, [Next]_vars
  PROVE  PlacesOK'
<1> USE DEF PlacesOK, Places, Workers, Tasks
<1>1. CASE SystemRound \/ ClearOld \/ RequestStop \/ SliceEnds \/ RequestSound \/ AbortSound
  BY <1>1 DEF SystemRound, ClearOld, RequestStop, SliceEnds, RequestSound, AbortSound
<1>2. CASE QuietCall \/ QuietReturns \/ SoundCall \/ SoundReturns
  BY <1>2 DEF QuietCall, QuietReturns, SoundCall, SoundReturns
<1>3. CASE ReadAcks \/ ReadSleepBlocked
  BY <1>3 DEF ReadAcks, ReadSleepBlocked
<1>4. CASE Release
  BY <1>4 DEF Release
<1>5. CASE PermitSleep
  BY <1>5 DEF PermitSleep
<1>6. CASE StopUsb
  <2>1. CASE pc' = [pc EXCEPT !["system"] = "release", !["tusb"] = "dead"]
    BY <2>1
  <2>2. CASE Goes("system", "usb", "release")
    BY <2>2
  <2> QED BY <1>6, <2>1, <2>2 DEF StopUsb
<1>7. CASE Sleeper("audio") \/ Sleeper("sensor")
  BY <1>7 DEF Sleeper, SeesSession, FallAsleep, WakeUp
<1>8. CASE AudioQuiet \/ AudioAwait \/ AudioAborted \/ AudioSound
  BY <1>8 DEF AudioQuiet, AudioAwait, AudioAborted, AudioSound, Acknowledge, Stops
<1>9. CASE Acknowledge("audio", "ack") \/ JustStops("sensor") \/ Gps \/ Acknowledge("ble", "ack")
  BY <1>9 DEF Acknowledge, JustStops, Gps
<1>10. CASE Console \/ BleStop
  BY <1>10 DEF Console, ConsoleStops, ConsoleWakes, ConsoleSave, SavePrefs, BleStop, Stops
<1>11. CASE Io
  BY <1>11 DEF Io, IoGoesOn, WriteBegins, SessionClears, SessionRequests
<1>12. CASE Tusb
  BY <1>12 DEF Tusb, TusbGoesOn, ForcedExit, WriteCompletes, FinishIfIdle, SessionEnds
<1>13. CASE Timer
  BY <1>13 DEF Timer, TimerFires, FinishIfIdle, SessionEnds
<1>14. CASE Main \/ Tick
  BY <1>14 DEF Main, MainStartsBle, MainExposes, Tick
<1>15. CASE UNCHANGED vars
  BY <1>15 DEF vars
<1> QED BY <1>1, <1>2, <1>3, <1>4, <1>5, <1>6, <1>7, <1>8, <1>9, <1>10, <1>11, <1>12, <1>13,
           <1>14, <1>15, Cases
        DEF System, Audio, Sensor, BleTx

\* The other variables stay in their types.
LEMMA DataKept ==
  ASSUME TypeOK, [Next]_vars
  PROVE  DataOK'
<1> USE DEF DataOK
<1>0. DataOK /\ DOMAIN pc = Tasks
  BY DEF TypeOK
<1>1. CASE SystemRound
  BY <1>0, <1>1, OutdatedAssumption DEF SystemRound, SetPrefs
<1>2. CASE ClearOld \/ RequestStop \/ SliceEnds \/ RequestSound \/ AbortSound
  BY <1>0, <1>2 DEF ClearOld, RequestStop, SliceEnds, RequestSound, AbortSound
<1>3. CASE QuietCall \/ QuietReturns \/ SoundCall \/ SoundReturns
  BY <1>0, <1>3 DEF QuietCall, QuietReturns, SoundCall, SoundReturns
<1>4. CASE ReadAcks \/ ReadSleepBlocked \/ StopUsb \/ Release \/ PermitSleep
  BY <1>0, <1>4 DEF ReadAcks, ReadSleepBlocked, StopUsb, Release, PermitSleep
<1>5. CASE Audio \/ Sensor
  BY <1>0, <1>5 DEF Audio, Sensor, Sleeper, SeesSession, FallAsleep, WakeUp, AudioQuiet,
         AudioAwait, AudioAborted, AudioSound, Acknowledge, JustStops
<1>6. CASE Console \/ BleTx \/ Gps
  BY <1>0, <1>6 DEF Console, ConsoleStops, ConsoleWakes, ConsoleSave, SavePrefs, BleTx, BleStop, Gps,
         Acknowledge, JustStops
<1>7. CASE WriteBegins
  <2>1. Cardinality(started) \in Nat
    <3>1. Workers = {"audio"} \cup {"sensor"} \cup {"console"} \cup {"ble"} \cup {"gps"}
      BY DEF Workers
    <3>2. IsFiniteSet(Workers)
      BY <3>1, FS_Singleton, FS_Union
    <3> QED BY <3>2, StartedTasks, FS_Subset, FS_CardinalityType
  <2>2. writes' \in 0 .. MaxLoad
    BY <1>0, <1>7, <2>1, MaxLoadAssumption DEF WriteBegins
  <2> QED BY <1>0, <1>7, <2>2 DEF WriteBegins
<1>8. CASE IoGoesOn \/ Tusb \/ Timer
  BY <1>0, <1>8 DEF IoGoesOn, SessionClears, SessionRequests, Tusb, TusbGoesOn,
         ForcedExit, WriteCompletes, FinishIfIdle, SessionEnds, Timer, TimerFires
<1>9. CASE Main
  BY <1>0, <1>9, BleInitAssumption DEF Main, MainStartsBle, MainExposes
<1>10. CASE Tick
  BY <1>0, <1>10 DEF Tick
<1>11. CASE UNCHANGED vars
  BY <1>0, <1>11 DEF vars
<1> QED BY <1>1, <1>2, <1>3, <1>4, <1>5, <1>6, <1>7, <1>8, <1>9, <1>10, <1>11, Cases
        DEF System, Io

\* Together: the type invariant.
LEMMA TypeKept ==
  ASSUME TypeOK, [Next]_vars
  PROVE  TypeOK'
<1>1. EventsOK /\ PlacesOK
  BY DEF TypeOK, EventsOK, PlacesOK
<1> QED BY <1>1, EventsKept, PlacesKept, DataKept DEF TypeOK, EventsOK, PlacesOK, DataOK

-----------------------------------------------------------------------------
(* The theorems                                                            *)

\* The boot establishes the invariant.
LEMMA InitInv ==
  ASSUME Init
  PROVE  Inv
<1> USE DEF Init, LoadPrefs, InitialDirty, Workers, Tasks
<1>1. TypeOK
  <2>1. EventsOK
    BY DEF EventsOK
  <2>2. PlacesOK
    BY DEF PlacesOK, Places
  <2>3. DataOK
    <3>1. started \in Normal \cup Failed
      OBVIOUS
    <3>2. nvs \in Prefs \cup {"outdated"}
      BY RestoredAssumption
    <3>3. asleep \in [Sleepers -> BOOLEAN]
      OBVIOUS
    <3>4. prefs \in Prefs /\ dirty \in BOOLEAN
      BY RestoredAssumption, OutdatedAssumption
    <3>5. writes \in 0 .. MaxLoad
      BY MaxLoadAssumption
    <3> QED BY <3>1, <3>2, <3>3, <3>4, <3>5 DEF DataOK
  <2> QED BY <2>1, <2>2, <2>3 DEF TypeOK, EventsOK, PlacesOK, DataOK
<1>2. SessionInv /\ AckInv /\ OrderInv /\ SleepInv
  BY DEF SessionInv, AckInv, OrderInv, SleepInv, Late
<1>3. PrefsInv
  BY OutdatedAssumption DEF PrefsInv
<1>4. QuietBitsTrue /\ RequestHasOwner
  BY DEF QuietBitsTrue, RequestHasOwner, Quiesced, Sleepers
<1> QED BY <1>1, <1>2, <1>3, <1>4 DEF Inv

\* What all the theorems follow from.
LEMMA Invariant == Spec => []Inv
<1>1. Inv /\ [Next]_vars => Inv'
  BY TypeKept, SessionKept, AckKept, OrderKept, SleepKept, PrefsKept, QuietKept, RequestKept
     DEF Inv
<1> QED BY <1>1, InitInv, PTL DEF Spec

\* Every variable has its type, and every task is at a place of its own
\* (request_power_off, the worker tasks, the write session).
THEOREM Types == Spec => []TypeOK
<1>1. Inv => TypeOK
  BY DEF Inv
<1> QED BY <1>1, Invariant, PTL

\* While a quiesced bit is up, its worker measures nothing and plays no vario
\* tone, however sessions and the shutdown interleave.
THEOREM QuietBits == Spec => []QuietBitsTrue
<1>1. Inv => QuietBitsTrue
  BY DEF Inv
<1> QED BY <1>1, Invariant, PTL

\* The storage-mode request never outlives the session that made it: of the
\* TinyUSB task and the timer, one is still bound to clear it.
THEOREM RequestOwned == Spec => []RequestHasOwner
<1>1. Inv => RequestHasOwner
  BY DEF Inv
<1> QED BY <1>1, Invariant, PTL

\* play_system_sound runs for the shutdown sound only when every other worker
\* has acknowledged.
THEOREM SoundLast == Spec => []SoundComesLast
<1>1. Inv => SoundComesLast
  BY DEF Inv, OrderInv, SoundComesLast
<1> QED BY <1>1, Invariant, PTL

\* Whenever the console worker has acknowledged or the power is released in
\* time, the settings in use are in NVS or their save has failed.
THEOREM PreferencesSurvive == Spec => []PreferencesKept
<1>1. Inv => PreferencesKept
  <2> SUFFICES ASSUME Inv,
                      "console" \in bits
                        \/ (~powerHold /\ time # "none" /\ "console" \in started)
               PROVE  nvs = prefs \/ saveFailed
    BY DEF PreferencesKept
  <2>1. "console" \in bits
    BY DEF Inv, SleepInv, OrderInv, Late
  <2>2. pc["console"] = "gone"
    BY <2>1 DEF Inv, AckInv, Workers
  <2> QED BY <2>2 DEF Inv, PrefsInv
<1> QED BY <1>1, Invariant, PTL

\* app_power_prepare_safe_stop permits light sleep only over a system at rest.
THEOREM SleepSafe == Spec => []SleepIsSafe
<1>1. Inv => SleepIsSafe
  <2> SUFFICES ASSUME Inv, sleep
               PROVE  /\ \A w \in started : pc[w] = "gone"
                      /\ ~usb /\ ~active /\ pc["io"] = "idle"
                      /\ ble # "stuck"
    BY DEF SleepIsSafe
  <2>1. stopped /\ pc["system"] = "safeStop"
    BY DEF Inv, SleepInv
  <2>2. \A w \in started : pc[w] = "gone"
    BY <2>1, StartedTasks DEF Inv, SleepInv, AckInv
  <2>3. ~usb /\ ble # "stuck"
    BY <2>1 DEF Inv, SleepInv
  <2>4. ~active /\ pc["io"] = "idle"
    BY <2>3 DEF Inv, SessionInv
  <2> QED BY <2>2, <2>3, <2>4
<1> QED BY <1>1, Invariant, PTL

\* Both together: the bits of a write session are true, and come down with it
\* (app_tasks_begin_storage_mode, storage_mode_finish_if_idle).
THEOREM SessionFlags == Spec => []SessionFlagsTrue
<1>1. QuietBitsTrue /\ RequestHasOwner => SessionFlagsTrue
  BY DEF SessionFlagsTrue
<1> QED BY <1>1, QuietBits, RequestOwned, PTL

=============================================================================
