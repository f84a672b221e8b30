-------------------------------- MODULE Switches --------------------------------
(***************************************************************************)
(* The switches through a whole power cycle.  SW1 turns the device on at   *)
(* the start (app/startup.c: startup_power_on_confirmed), changes the      *)
(* volume or turns it off while the system worker runs                     *)
(* (domain/system_policy.c: system_policy_step) or in the fatal fallback,  *)
(* and turns it on again from SAFE_STOP (app/app_workers.c:                *)
(* run_safe_stop_loop and what it calls, platform/safe_stop_wake.c),       *)
(* where the light-sleep lock is held only while a press is judged         *)
(* (platform/app_power.c).  SW3 selects the profile or skips the           *)
(* calibration.  SW2 is a rising edge without memory and left out, so are  *)
(* LEDs, the watchdog and the 32-bit limit of the hold times.              *)
(*                                                                         *)
(* Time is the sample period: every judging step reads the level once.     *)
(* `did', `past' and `began' are history: what the properties compare the  *)
(* code's decisions with is the levels read, not the code's own state.     *)
(***************************************************************************)
EXTENDS Debounce, Sequences

VARIABLES
    pc,        \* where the task that reads SW1 is
    level,     \* the level at the pin of SW1
    sw1, sw3,  \* their debounced state; stable is also previous_swN_pressed
    released,  \* sw1_was_released, was_released
    hold,      \* hold time of SW1
    short,     \* sw1_short_press_pending
    off,       \* sw1_power_off_issued
    hold3, short3, skip3,    \* sw3_hold_ms, _short_press_pending, _skip_request_issued
    deferred,  \* storage_power_off_pending
    power,     \* app_power: "none", "dfs" or "fixed" frequency
    awake,     \* light_sleep_lock_held
    safeSleep, \* safe_sleep_enabled
    judging,   \* interaction_active of the polling fallback
    trigger,   \* the level interrupt of SW1: "none", "low" or "high"
    notified,  \* its notification to the waiting task
    act,       \* what the last step did on account of SW1
    did1, did3,\* history: what the present press of SW1, SW3 has done so far
    past,      \* history of SW1's level, see Reads
    lockFailed \* history: a call about the light-sleep lock has failed

keys   == <<sw1, released, hold, short, off>>
other  == <<sw3, hold3, short3, skip3, did3>>
lights == <<power, awake, safeSleep, lockFailed>>
wake   == <<trigger, notified>>
vars == <<pc, level, keys, other, deferred, lights, judging, wake, act, did1, past>>

-----------------------------------------------------------------------------
(* What was read                                                           *)

\* run: how often the level has been read in a row; freed: SW1 was seen
\* released for the debounce time since this wait began; held: for how many
\* reads it has been seen pressed, not counting bounces.
Unread == [level |-> FALSE, run |-> 0, freed |-> FALSE, held |-> 0]
Longest == DebounceSteps + 1

Reads(p, pressed) ==
    LET n == IF pressed # p.level THEN 1 ELSE IF p.run < Longest THEN p.run + 1 ELSE p.run
    IN  [level |-> pressed, run |-> n,
         freed |-> p.freed \/ (~pressed /\ n >= DebounceSteps),
         held  |-> IF ~pressed /\ n = Longest THEN 0
                   ELSE IF p.held > 0 \/ (pressed /\ n >= DebounceSteps)
                   THEN IF p.held < HoldSteps THEN p.held + 1 ELSE p.held
                   ELSE 0]

\* A press ends where its release is seen; what that does still belongs to it.
Adds(did, before, what) ==
    LET old == IF before.stable THEN did ELSE <<>>
    IN  IF what = "none" \/ (what = "off" /\ old = <<"off">>) THEN old ELSE Append(old, what)

-----------------------------------------------------------------------------
(* The system worker                                                       *)

\* system_policy_step, SW1: what the press does at this step.
Sw1Act(b, pressed, h) ==
    IF ~b.valid THEN "none"
    ELSE IF ~b.stable
    THEN IF pressed /\ released /\ short /\ ~off THEN "volume" ELSE "none"
    ELSE IF released /\ h >= HoldSteps THEN "off" ELSE "none"

\* The press used to start the board is not a power-off request.
Sw1Hold(b, pressed) ==
    LET before == IF pressed THEN hold ELSE 0
    IN  IF b.valid /\ ~b.stable THEN 0
        ELSE IF ~(b.valid /\ released) THEN hold
        ELSE IF before < HoldSteps THEN before + 1 ELSE before

\* Mutant of Sw1Step: a press that became a power-off stays a short press.
Sw1StepKeepsShort ==
    LET b == Debounced(sw1, level)
        h == Sw1Hold(b, sw1.stable)
        a == Sw1Act(b, sw1.stable, h)
    IN  /\ sw1' = b /\ hold' = h /\ act' = a
        /\ released' = (released \/ (b.valid /\ ~b.stable))
        /\ short' = (b.stable /\ (short \/ (b.valid /\ released /\ ~sw1.stable)))
        /\ off' = FALSE
        /\ did1' = Adds(did1, sw1, a)

Sw1Step ==
    LET b == Debounced(sw1, level)
        h == Sw1Hold(b, sw1.stable)
        a == Sw1Act(b, sw1.stable, h)
        begins == b.valid /\ b.stable /\ released /\ ~sw1.stable
    IN  /\ sw1' = b /\ hold' = h /\ act' = a
        /\ released' = (released \/ (b.valid /\ ~b.stable))
        /\ short' = IF (b.valid /\ ~b.stable) \/ a = "off" THEN FALSE ELSE short \/ begins
        /\ off' = IF b.valid /\ ~b.stable THEN FALSE ELSE a = "off" \/ (off /\ ~begins)
        /\ did1' = Adds(did1, sw1, a)

\* system_policy_step, SW3: without a calibration under way the press selects
\* the next profile; else its release does, unless it became the skip.
Sw3Step(pressed, required) ==
    LET b == Debounced(sw3, pressed)
        down == b.valid /\ b.stable
        begins == down /\ ~sw3.stable
        ends == b.valid /\ ~b.stable /\ sw3.stable
        pending == IF begins THEN required ELSE short3
        counts == down /\ required /\ pending /\ (begins \/ ~skip3)
        h == IF begins THEN 1 ELSE hold3 + 1
        skips == counts /\ h >= SkipSteps
    IN  /\ sw3' = b
        /\ hold3' = IF ends THEN 0 ELSE IF counts THEN h ELSE IF begins THEN 0 ELSE hold3
        /\ short3' = (~ends /\ pending /\ ~skips)
        /\ skip3' = IF ends THEN FALSE ELSE skips \/ (skip3 /\ ~begins)
        /\ did3' = Adds(did3, sw3, IF skips THEN "skip"
                                   ELSE IF (begins /\ ~required) \/ (ends /\ short3 /\ ~skip3)
                                   THEN "profile" ELSE "none")

\* One round of app_system_worker_task: the battery, the automatic power-off
\* (`asked') or a deferred request may turn the device off as well, but never
\* during a write session of the host.
Round ==
    /\ pc = "run"
    /\ Sw1Step
    /\ past' = Reads(past, level)
    /\ \E pressed, required \in BOOLEAN : Sw3Step(pressed, required)
    /\ \E storage, asked \in BOOLEAN :
        LET wanted == deferred \/ asked \/ act' = "off"
        IN  /\ deferred' = (storage /\ wanted)
            /\ pc' = IF ~storage /\ wanted THEN "stopping" ELSE "run"
    /\ UNCHANGED <<level, lights, judging, wake>>

-----------------------------------------------------------------------------
(* The light-sleep lock                                                    *)

SameLights == UNCHANGED lights

\* app_power_init: after any failure the clock stays fixed and no lock exists.
PowerInit(mode) == power' = mode /\ awake' = (mode = "dfs")

\* app_power_prepare_safe_stop, called only if USB and the workers have stopped.
PrepareSafeStop ==
    \/ safeSleep' = FALSE /\ UNCHANGED <<power, awake, lockFailed>>
    \/ /\ \/ power = "none" /\ power' = "dfs"
          \/ power = "dfs" /\ power' = power
       /\ \/ safeSleep' = TRUE /\ awake' = FALSE /\ UNCHANGED lockFailed
          \/ safeSleep' = FALSE /\ awake' = TRUE /\ lockFailed' = TRUE
    \/ power = "none" /\ PowerInit("fixed") /\ safeSleep' = FALSE /\ UNCHANGED lockFailed

\* Mutant of Interaction: the lock is taken, and never released again.
InteractionHolds(on) ==
    /\ \/ /\ safeSleep => awake \/ ~on
          /\ UNCHANGED <<awake, lockFailed>>
       \/ safeSleep /\ ~awake /\ on /\ awake' = TRUE /\ UNCHANGED lockFailed
    /\ UNCHANGED <<power, safeSleep>>

\* app_power_safe_stop_interaction_begin and _end: taken or released once, and
\* left as it is when the call fails.
Interaction(on) ==
    /\ \/ /\ safeSleep => awake = on
          /\ UNCHANGED <<awake, lockFailed>>
       \/ safeSleep /\ awake # on /\ awake' = on /\ UNCHANGED lockFailed
       \/ safeSleep /\ awake # on /\ lockFailed' = TRUE /\ UNCHANGED awake
    /\ UNCHANGED <<power, safeSleep>>

-----------------------------------------------------------------------------
(* SAFE_STOP                                                               *)

SameWorker == UNCHANGED <<other, deferred, released, short, off, did1>>
Judges(b, h, what) == sw1' = b /\ hold' = h /\ act' = what /\ past' = Reads(past, level)
Anew(b) == sw1' = b /\ hold' = 0 /\ act' = "none"

\* safe_stop_wake_init fails: the level is polled.
Polls ==
    /\ pc' = "poll" /\ Anew(Fresh(level, level)) /\ released' = FALSE
    /\ trigger' = "none" /\ judging' = FALSE
    /\ past' = [past EXCEPT !.run = 0, !.held = 0]
    /\ UNCHANGED <<level, other, deferred, short, off, did1, lights, notified>>

\* The end of request_power_off, of a start that is refused, or of the fatal
\* fallback: run_safe_stop_loop begins.
EnterSafeStop ==
    /\ pc = "stopping" /\ pc' = "wakeInit"
    /\ PrepareSafeStop
    /\ Anew(sw1) /\ past' = Unread
    /\ SameWorker /\ UNCHANGED <<level, judging, wake>>

\* The interrupt handler of SW1 is installed, or cannot be.
WakeInit ==
    /\ pc = "wakeInit"
    /\ \/ Polls
       \/ pc' = "check" /\ UNCHANGED <<level, keys, other, deferred, lights, judging, wake, act, did1, past>>

\* safe_stop_confirm_level(false)
ConfirmRelease ==
    /\ pc' = "confirm" /\ Anew(Fresh(FALSE, TRUE))
    /\ Interaction(TRUE)
    /\ trigger' = "none"
    /\ past' = [past EXCEPT !.run = 0, !.held = 0]
    /\ SameWorker /\ UNCHANGED <<level, judging, notified>>

Arms(t, to) ==
    /\ pc' = to /\ trigger' = t
    /\ UNCHANGED <<level, keys, other, deferred, lights, judging, notified, act, did1, past>>

\* The top of run_safe_stop_loop: a pressed SW1 must be let go first.
Check ==
    /\ pc = "check"
    /\ \/ ~level /\ ConfirmRelease
       \/ level /\ (Arms("low", "letGo") \/ Polls)

\* The interrupt fires at the level it is armed for and turns itself off.
Sw1WakeIsr ==
    /\ trigger = (IF level THEN "high" ELSE "low")
    /\ trigger' = "none" /\ notified' = TRUE
    /\ UNCHANGED <<pc, level, keys, other, deferred, lights, judging, act, did1, past>>

\* Woken by the interrupt, or by the watchdog's second, and not there yet.
WaitsOn(place, wanted) ==
    /\ pc = place /\ level # wanted
    /\ notified' = FALSE
    /\ UNCHANGED <<pc, level, keys, other, deferred, lights, judging, trigger, act, did1, past>>

LetGo == pc = "letGo" /\ ~level /\ ConfirmRelease

\* safe_stop_confirm_level and the way on from it.
Confirm ==
    /\ pc = "confirm"
    /\ LET b == Debounced(sw1, level)
       IN  /\ Judges(b, 0, "none")
           /\ \/ ~b.valid /\ pc' = pc /\ SameLights
              \/ /\ b.valid /\ Interaction(FALSE)
                 /\ pc' = IF b.stable THEN "check" ELSE "arm"
    /\ SameWorker /\ UNCHANGED <<level, judging, wake>>

Arm == pc = "arm" /\ (Arms("high", "await") \/ Polls)

\* The press that may turn the device on begins.
Press ==
    /\ pc = "await" /\ level
    /\ pc' = "qualify" /\ Anew(Fresh(TRUE, FALSE))
    /\ Interaction(TRUE)
    /\ trigger' = "none"
    /\ past' = [past EXCEPT !.run = 0, !.held = 0]
    /\ SameWorker /\ UNCHANGED <<level, judging, notified>>

\* esp_restart: what is in RAM is lost.
Restart ==
    /\ pc' = "boot" /\ power' = "none" /\ awake' = FALSE /\ safeSleep' = FALSE
    /\ trigger' = "none" /\ notified' = FALSE /\ lockFailed' = FALSE /\ judging' = FALSE

\* Mutant of Qualify: the hold time does not outlive the sample.
QualifyForgets ==
    /\ pc = "qualify"
    /\ LET b == Debounced(sw1, level)
           h == IF b.valid THEN 1 ELSE 0
       IN  /\ Judges(b, h, IF b.valid /\ h >= HoldSteps THEN "on" ELSE "none")
           /\ \/ b.valid /\ ~b.stable /\ pc' = "check" /\ Interaction(FALSE) /\ UNCHANGED <<judging, wake>>
              \/ act' = "none" /\ (b.valid => b.stable) /\ pc' = pc /\ SameLights /\ UNCHANGED <<judging, wake>>
              \/ act' = "on" /\ Restart
    /\ SameWorker /\ UNCHANGED level

\* safe_stop_qualify_power_on
Qualify ==
    /\ pc = "qualify"
    /\ LET b == Debounced(sw1, level)
           h == IF b.valid /\ b.stable THEN hold + 1 ELSE hold
           on == b.valid /\ b.stable /\ h >= HoldSteps
           gone == b.valid /\ ~b.stable
       IN  /\ Judges(b, h, IF on THEN "on" ELSE "none")
           /\ \/ gone /\ pc' = "check" /\ Interaction(FALSE) /\ UNCHANGED <<judging, wake>>
              \/ ~gone /\ ~on /\ pc' = pc /\ SameLights /\ UNCHANGED <<judging, wake>>
              \/ on /\ Restart
    /\ SameWorker /\ UNCHANGED level

\* run_safe_stop_polling_fallback
Poll ==
    /\ pc = "poll"
    /\ LET b == Debounced(sw1, level)
           active == b.valid /\ b.stable /\ released
           h == IF b.valid /\ ~b.stable THEN 0 ELSE IF active THEN hold + 1 ELSE hold
           on == active /\ h >= HoldSteps
       IN  /\ Judges(b, h, IF on THEN "on" ELSE "none")
           /\ released' = (released \/ (b.valid /\ ~b.stable))
           /\ \/ on /\ Restart
              \/ ~on /\ active # judging /\ Interaction(active)
                 /\ judging' = active /\ UNCHANGED <<pc, wake>>
              \/ ~on /\ active = judging /\ SameLights /\ UNCHANGED <<pc, judging, wake>>
    /\ UNCHANGED <<level, other, deferred, short, off, did1>>

-----------------------------------------------------------------------------
(* The start                                                               *)

\* Where the start leads once the press has been judged, or was not needed:
\* to the system worker, the fatal fallback, or, with an empty battery, back.
Starts ==
    \/ pc' = "run" /\ (PowerInit("dfs") \/ PowerInit("fixed"))
    \/ pc' \in {"fatal", "stopping"} /\ UNCHANGED <<power, awake>>
    \/ pc' = "fatal" /\ (PowerInit("dfs") \/ PowerInit("fixed"))

\* system_policy_init, or the beginning of the fatal fallback
Begins(h) ==
    /\ sw1' = Fresh(level, level) /\ hold' = h /\ act' = "none" /\ past' = Unread
    /\ released' = FALSE /\ short' = FALSE /\ off' = FALSE /\ did1' = <<>>
    /\ deferred' = FALSE
    /\ \E pressed \in BOOLEAN : sw3' = Fresh(pressed, pressed)
    /\ hold3' = 0 /\ short3' = FALSE /\ skip3' = FALSE /\ did3' = <<>>

\* app_startup_run: a reset that is not to wait for SW1, or the wait begins.
Boot ==
    /\ pc = "boot"
    /\ \/ Starts
       \/ pc' = "powerOn" /\ UNCHANGED <<power, awake>>
    /\ Begins(0)
    /\ UNCHANGED <<level, safeSleep, lockFailed, judging, wake>>

\* startup_power_on_confirmed
PowerOn ==
    /\ pc = "powerOn"
    /\ LET b == Debounced(sw1, level)
           h == IF b.valid THEN hold + 1 ELSE hold
       IN  \/ /\ b.valid /\ ~b.stable /\ pc' = "stopping" /\ Judges(b, hold, "none")
              /\ SameWorker /\ UNCHANGED <<power, awake>>
           \/ /\ b.valid => b.stable /\ h < HoldSteps
              /\ Judges(b, h, "none") /\ SameWorker /\ UNCHANGED <<pc, power, awake>>
           \/ b.valid /\ b.stable /\ h >= HoldSteps /\ Starts /\ Begins(0)
    /\ UNCHANGED <<level, safeSleep, lockFailed, judging, wake>>

\* app_workers_run_fatal_fallback
Fatal ==
    /\ pc = "fatal"
    /\ LET b == Debounced(sw1, level)
           gone == b.valid /\ ~b.stable
           counts == b.valid /\ b.stable /\ released
           h == IF gone THEN 0 ELSE IF counts THEN hold + 1 ELSE hold
           over == (released \/ gone) /\ h >= HoldSteps
       IN  /\ Judges(b, h, IF over THEN "off" ELSE "none")
           /\ released' = (released \/ gone)
           /\ pc' = IF over THEN "stopping" ELSE pc
    /\ UNCHANGED <<level, other, deferred, short, off, did1, lights, judging, wake>>

-----------------------------------------------------------------------------
(* The whole                                                               *)

\* The user presses or lets go, or the contact bounces.
Sw1Moves ==
    /\ level' = ~level
    /\ UNCHANGED <<pc, keys, other, deferred, lights, judging, wake, act, did1, past>>

Init ==
    /\ pc = "boot" /\ level \in BOOLEAN
    /\ sw1 = Fresh(FALSE, FALSE) /\ sw3 = Fresh(FALSE, FALSE)
    /\ released = FALSE /\ hold = 0 /\ short = FALSE /\ off = FALSE
    /\ hold3 = 0 /\ short3 = FALSE /\ skip3 = FALSE /\ deferred = FALSE
    /\ power = "none" /\ awake = FALSE /\ safeSleep = FALSE /\ judging = FALSE
    /\ trigger = "none" /\ notified = FALSE
    /\ act = "none" /\ did1 = <<>> /\ did3 = <<>> /\ past = Unread /\ lockFailed = FALSE

Task ==
    \/ Boot \/ PowerOn \/ Round \/ Fatal \/ EnterSafeStop
    \/ WakeInit \/ Check \/ LetGo \/ Confirm \/ Arm \/ Press \/ Qualify \/ Poll
    \/ WaitsOn("letGo", FALSE) \/ WaitsOn("await", TRUE)

Next == Task \/ Sw1WakeIsr \/ Sw1Moves

\* The task is never blocked for good: its waits end after a second at most.
Spec == Init /\ [][Next]_vars /\ WF_vars(Task)

-----------------------------------------------------------------------------
(* Properties                                                              *)

\* SW1 turns the device off, and on again from SAFE_STOP, only when it has been
\* released for the debounce time since this state began and then been pressed
\* for the full hold time, whatever bounces and whichever way it is watched:
\* one long press never does both.
KeyMeant == act \in {"off", "on"} => past.freed /\ past.held >= HoldSteps

\* One press does one thing: SW1 changes the volume or asks for the power-off,
\* SW3 selects a profile or skips the calibration, even when the calibration
\* begins or ends during the press and the power-off is put off by the host.
OneActPerPress == Len(did1) <= 1 /\ Len(did3) <= 1

\* As long as no call about it fails, the light-sleep lock is held exactly while
\* a press is judged, so neither is a press missed nor the battery drained.
LightSleepKept ==
    safeSleep /\ ~lockFailed =>
        awake = (pc \in {"confirm", "qualify"} \/ (pc = "poll" /\ judging))

\* A press that lasts turns the device on again.
HoldRestarts == pc = "await" /\ level ~> pc = "boot" \/ ~level
=============================================================================
