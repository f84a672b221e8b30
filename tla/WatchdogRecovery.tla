--------------------------- MODULE WatchdogRecovery ---------------------------
(***************************************************************************)
(* What a watchdog reset leads to: the journal of two records in RTC       *)
(* memory (platform/watchdog_service.c), the decision taken from it at the *)
(* next boot (domain/watchdog_recovery_policy.c) and the places where      *)
(* startup and the system worker clear it.                                 *)
(*                                                                         *)
(* A store is two steps, so that a reset may tear the record being         *)
(* written.  RTC memory keeps its contents over every reset but a power-on *)
(* or a brownout, after which each record may be kept or be damaged.       *)
(* Sequence numbers wrap at 2 * Half and are compared as signed            *)
(* differences.  Left out: the diagnostic fields (stage, suspected actor), *)
(* which decide nothing, and the heartbeats they come from; any task may   *)
(* hang, so a watchdog reset is possible at every step.                    *)
(***************************************************************************)
EXTENDS Integers

CONSTANTS
    Half,     \* half the range of sequence numbers (2^31)
    CountMax, \* where watchdog_reset_count saturates (UINT32_MAX)
    Stable    \* WATCHDOG_RECOVERY_STABLE_PERIOD_MS, in ticks

ASSUME WatchdogAssumption ==
    /\ Half \in Nat /\ Half > 1
    /\ CountMax \in Nat /\ CountMax > 1
    /\ Stable \in Nat /\ Stable > 0

VARIABLES
    copy,      \* rtc_store.recovery
    current,   \* current_recovery_state
    writing,   \* the copy being written, or Idle
    pc,        \* where startup and the system worker are
    reset,     \* the reason of the last reset
    action,    \* what begin_boot has decided
    age,       \* ticks since active_since_ms, or NotActive
    resets,    \* history: watchdog resets since the attempts were last cleared
    autos,     \* history: automatic restarts since then
    survived   \* history: a record has outlived a power-on or brownout reset

rtc     == <<copy, writing>>
history == <<resets, autos, survived>>
vars == <<rtc, current, pc, reset, action, age, history>>

Copies == {0, 1}
Idle == 2
NotActive == -1
SeqMax == 2 * Half - 1
Records == [seq : 0..SeqMax, count : 0..CountMax]
Damaged == [seq |-> -1, count |-> -1]

\* POWER_ON and BROWNOUT; TASK_WDT and INTERRUPT_WDT; all the others
ResetKinds == {"power", "watchdog", "other"}
Actions == {"REQUIRE_SW1", "OTA_CONFIRMATION", "AUTO_RECOVER"}

-----------------------------------------------------------------------------
(* The journal                                                             *)

Valid(r) == r # Damaged

NextSeq(s) == IF s = SeqMax THEN 0 ELSE s + 1

\* sequence_after: (int32_t)(left - right) > 0
After(left, right) ==
    \/ left > right /\ left - right < Half
    \/ left < right /\ right - left > Half

\* watchdog_recovery_select_state
SelectFrom(c) ==
    IF Valid(c[0]) /\ (~Valid(c[1]) \/ ~After(c[1].seq, c[0].seq))
    THEN c[0] ELSE c[1]
Selected == SelectFrom(copy)

\* Mutant of StoreTarget: the newest record is overwritten.
StoreTargetNewest ==
    IF ~Valid(copy[0]) THEN 0
    ELSE IF ~Valid(copy[1]) THEN 1
    ELSE IF After(copy[0].seq, copy[1].seq) THEN 0 ELSE 1

\* Mutant of StoreTarget: the number of a damaged record is trusted.
StoreTargetTrusting == IF After(copy[0].seq, copy[1].seq) THEN 1 ELSE 0

\* store_recovery_state: an invalid record first, else the older one
StoreTarget ==
    IF ~Valid(copy[0]) THEN 0
    ELSE IF ~Valid(copy[1]) THEN 1
    ELSE IF After(copy[0].seq, copy[1].seq) THEN 1 ELSE 0

Store(record) ==
    /\ current' = record
    /\ writing' = StoreTarget
    /\ copy' = [copy EXCEPT ![StoreTarget] = Damaged]

\* The history starts anew once the attempts are cleared.
Cleared == resets' = 0 /\ autos' = 0 /\ UNCHANGED survived

StoreDone ==
    /\ writing # Idle
    /\ copy' = [copy EXCEPT ![writing] = current]
    /\ writing' = Idle
    /\ IF pc = "booting" THEN UNCHANGED history ELSE Cleared
    /\ UNCHANGED <<current, pc, reset, action, age>>

\* clear_recovery_attempts
ClearAttempts ==
    \/ current.count = 0 /\ UNCHANGED <<rtc, current>> /\ Cleared
    \/ /\ current.count # 0
       /\ Store([seq |-> NextSeq(current.seq), count |-> 0])
       /\ UNCHANGED history

-----------------------------------------------------------------------------
(* Resets and the decision at boot                                         *)

\* Any reset but a loss of power keeps RTC memory; a task that hangs or
\* panics, or esp_restart, may come at any step.
Reset ==
    /\ pc # "off"
    /\ reset' \in {"watchdog", "other"}
    /\ pc' = "off" /\ writing' = Idle /\ age' = NotActive
    /\ IF reset' = "watchdog" /\ resets < CountMax THEN resets' = resets + 1 ELSE UNCHANGED resets
    /\ UNCHANGED <<copy, current, action, autos, survived>>

\* The first record after a loss of power has number 1.  One that is exactly
\* Half ahead of it, after as many stores, is neither before nor after it: with
\* 2^31 stores not a case worth the behaviours it adds.
Comparable(seq) == seq # Half + 1

\* A power-on or a brownout ends the five minutes' window.
PowerLoss ==
    /\ reset' = "power"
    /\ pc' = "off" /\ writing' = Idle /\ age' = NotActive
    /\ copy' \in [Copies -> {copy[0], copy[1], Damaged}]
    /\ \A i \in Copies :
          copy'[i] # Damaged => copy'[i] = copy[i] /\ Comparable(copy[i].seq)
    /\ survived' = (\E i \in Copies : copy'[i] # Damaged)
    /\ resets' = 0 /\ autos' = 0
    /\ UNCHANGED <<current, action>>

\* The record watchdog_recovery_decide starts from
Prior ==
    IF reset = "power" \/ ~Valid(Selected) THEN [seq |-> 0, count |-> 0] ELSE Selected

\* A damaged record must not grant an automatic restart.
AttemptCount ==
    IF reset # "watchdog" THEN Prior.count
    ELSE IF ~Valid(Selected) THEN 2
    ELSE IF Prior.count < CountMax THEN Prior.count + 1 ELSE CountMax

\* watchdog_service_begin_boot with watchdog_recovery_decide.  Whether the
\* running image is on trial is the update's business.
BeginBoot ==
    /\ pc = "off"
    /\ \E pendingVerify \in BOOLEAN :
          action' = IF pendingVerify THEN "OTA_CONFIRMATION"
                    ELSE IF reset = "watchdog" /\ AttemptCount = 1 THEN "AUTO_RECOVER"
                    ELSE "REQUIRE_SW1"
    /\ Store([seq |-> NextSeq(Prior.seq), count |-> AttemptCount])
    /\ pc' = "booting" /\ age' = NotActive
    /\ UNCHANGED <<reset, history>>

-----------------------------------------------------------------------------
(* Startup and the system worker                                           *)

Quiet == writing = Idle      \* a store is not interrupted by its own task

\* SW2+SW3 at boot: the user is there.
RecoveryGesture ==
    /\ Quiet /\ pc = "booting" /\ pc' = "recovery"
    /\ ClearAttempts
    /\ UNCHANGED <<reset, action, age>>

\* The power-on gesture is skipped, or awaited.
SkipGesture ==
    /\ Quiet /\ pc = "booting" /\ action # "REQUIRE_SW1" /\ pc' = "starting"
    /\ autos' = IF action = "AUTO_RECOVER" THEN autos + 1 ELSE autos
    /\ UNCHANGED <<rtc, current, reset, action, age, resets, survived>>
AwaitGesture ==
    /\ Quiet /\ pc = "booting" /\ action = "REQUIRE_SW1" /\ pc' = "wait"
    /\ UNCHANGED <<rtc, current, reset, action, age, history>>

\* SW1 is held long enough: mark_user_confirmed.
Confirmed ==
    /\ Quiet /\ pc = "wait" /\ pc' = "starting"
    /\ ClearAttempts
    /\ UNCHANGED <<reset, action, age>>

\* No board identity: the startup task only feeds its watchdog.
ServiceStop ==
    /\ Quiet /\ pc = "booting" /\ pc' = "service"
    /\ UNCHANGED <<rtc, current, reset, action, age, history>>

\* Released too early, low battery, a power-off request: SAFE_STOP.
SafeStop ==
    /\ Quiet /\ pc \in {"wait", "starting", "running", "fatal"} /\ pc' = "stopped"
    /\ age' = NotActive
    /\ UNCHANGED <<rtc, current, reset, action, history>>

\* In SAFE_STOP a long press of SW1 confirms; esp_restart follows (Reset).
RestartConfirmed ==
    /\ Quiet /\ pc = "stopped" /\ pc' = "restarting"
    /\ ClearAttempts
    /\ UNCHANGED <<reset, action, age>>

Started ==
    /\ Quiet /\ pc = "starting" /\ pc' = "running"
    /\ UNCHANGED <<rtc, current, reset, action, age, history>>

\* watchdog_service_update_active, once per loop of the system worker
UpdateActive ==
    /\ Quiet /\ pc = "running"
    /\ age' = IF age = NotActive THEN 0 ELSE age
    /\ IF age' >= Stable THEN ClearAttempts
                         ELSE UNCHANGED <<rtc, current, history>>
    /\ UNCHANGED <<pc, reset, action>>

\* A task or a peripheral has failed: mark_stage(FATAL) stops the five minutes.
MarkFatal ==
    /\ Quiet /\ pc \in {"booting", "starting", "running"} /\ pc' = "fatal"
    /\ age' = NotActive
    /\ UNCHANGED <<rtc, current, reset, action, history>>

Tick ==
    /\ age \in 0..(Stable - 1) /\ age' = age + 1
    /\ UNCHANGED <<rtc, current, pc, reset, action, history>>

-----------------------------------------------------------------------------
\* Power comes for the first time; RTC memory holds nothing of ours.
Init ==
    /\ copy = [i \in Copies |-> Damaged] /\ writing = Idle
    /\ current = [seq |-> 0, count |-> 0]
    /\ pc = "off" /\ reset = "power" /\ action = "REQUIRE_SW1"
    /\ age = NotActive
    /\ resets = 0 /\ autos = 0 /\ survived = FALSE

Startup == RecoveryGesture \/ ServiceStop \/ SkipGesture \/ AwaitGesture \/ Confirmed
              \/ Started
Running == UpdateActive \/ MarkFatal \/ SafeStop \/ RestartConfirmed
Next == BeginBoot \/ StoreDone \/ Startup \/ Running \/ Tick \/ Reset \/ PowerLoss

Spec == Init /\ [][Next]_vars

-----------------------------------------------------------------------------
(* Properties                                                              *)

TypeOK ==
    /\ copy \in [Copies -> Records \cup {Damaged}] /\ current \in Records
    /\ writing \in Copies \cup {Idle}
    /\ pc \in {"off", "booting", "wait", "starting", "running", "recovery", "stopped",
               "restarting", "fatal", "service"}
    /\ reset \in ResetKinds /\ action \in Actions
    /\ age \in 0..Stable \cup {NotActive}
    /\ resets \in 0..CountMax /\ autos \in Nat /\ survived \in BOOLEAN

\* Between two confirmations (a press, five stable minutes, a loss of power)
\* the device restarts by itself at most once, whatever resets come, also in
\* the middle of a store.
OneAutoRestart == autos <= 1

\* After a confirmation the first watchdog reset finds no attempt on record, so
\* the device may restart by itself.
FirstRestartGranted ==
    pc = "off" /\ reset = "watchdog" /\ resets = 1 /\ Valid(Selected) /\ ~survived
        => Selected.count = 0

\* The device restarts by itself exactly once: the first time, and never again.
AutoRestarts == OneAutoRestart /\ FirstRestartGranted

\* A torn store never costs the journal its last readable record: only a loss
\* of power does.
JournalKept == [][Valid(Selected) /\ ~PowerLoss => Valid(Selected')]_vars

\* The inductive invariant behind the properties, in parts.

\* Two readable records are never Half apart, so that one of them is the newer
\* (or they are equal).
Apart(s, t) == s - t # Half /\ t - s # Half
Ranked == Valid(copy[0]) /\ Valid(copy[1]) => Apart(copy[0].seq, copy[1].seq)

\* A loss of power starts the history anew; what is readable then has outlived it.
PowerIsBack ==
    pc = "off" /\ reset = "power" =>
        /\ autos = 0
        /\ \A i \in Copies : Valid(copy[i]) => survived /\ Comparable(copy[i].seq)

\* Two records of the same number: the first after a loss of power and one that
\* outlived it.  No restart has been granted then.
Tied ==
    Valid(copy[0]) /\ Valid(copy[1]) /\ copy[0].seq = copy[1].seq =>
        /\ survived /\ autos = 0
        /\ pc = "off" \/ current.count = 0

\* The record being written follows the readable one it leaves alone, or is the
\* first after a loss of power.
Kept == copy[1 - writing]
Successor ==
    writing # Idle =>
        /\ pc # "off" /\ copy[writing] = Damaged
        /\ Valid(Kept) => \/ current.seq = NextSeq(Kept.seq)
                          \/ /\ pc = "booting" /\ survived /\ current.count = 0
                             /\ current.seq = 1 /\ Comparable(Kept.seq)
        /\ pc # "booting" => current.count = 0

\* The device goes by the record the next boot will read; with no attempt to
\* remember it may go by a fresh one after a loss of power.
CurrentIsSelected ==
    pc # "off" /\ writing = Idle /\ (current.count # 0 \/ ~survived) => Selected = current

\* Once the device has restarted by itself there is a record that tells so, and
\* every record that can be read next does; an automatic restart is decided on a record that tells of none.
RestartOnRecord ==
    /\ autos > 0 =>
           /\ Valid(Selected) /\ Selected.count # 0
           /\ writing # Idle /\ pc = "booting" => current.count # 0
    /\ pc = "booting" /\ action = "AUTO_RECOVER" =>
           /\ autos = 0 /\ current.count = 1

\* With no watchdog reset since the last confirmation no record tells of one.
CleanRecord ==
    ~survived /\ resets = 0 =>
        /\ Valid(Selected) => Selected.count = 0
        /\ pc = "booting" => current.count = 0
        /\ reset = "watchdog" => pc # "off"

Inv ==
    /\ TypeOK /\ Ranked /\ PowerIsBack /\ Tied /\ Successor /\ CurrentIsSelected
    /\ RestartOnRecord /\ OneAutoRestart /\ CleanRecord /\ FirstRestartGranted

=============================================================================
