--------------------------- MODULE FirmwareUpdate ---------------------------
(***************************************************************************)
(* The life of an application update in the variometer: the input files a  *)
(* USB host leaves on the config FAT ("/config") or, in MSC recovery, on   *)
(* the PSRAM disk ("/update"); the transaction process_update runs before  *)
(* the application starts; the trial boot of the staged image and its      *)
(* confirmation by the ota_confirm task; the bootloader's choice of slot;  *)
(* and the startup gate that keeps the MSC medium away from the host.      *)
(*                                                                         *)
(* Power may go at any step.  A file-system call is one step that succeeds *)
(* or, while the fault budget lasts, fails; a move (unlink the target,     *)
(* then rename) and an atomic text write may also be cut between the two.  *)
(* Abstractions: a package is one value whose class (genuine, unsigned,    *)
(* other project) is fixed; the image of a genuine package is the package  *)
(* itself; f_rename and an otadata sector write are atomic; times are      *)
(* nondeterministic orders; a status file is its state and, where a        *)
(* property needs it, the image it names.                                  *)
(***************************************************************************)
EXTENDS Integers, FiniteSets

CONSTANTS
    Genuine,       \* packages with the owner's signature and our project name
    Unsigned,      \* packages that fail firmware_auth_verify_package
    Foreign,       \* correctly signed packages of another project
    FactoryImage,  \* the image in the factory partition
    NoImage,       \* "no image named"
    Garbage,       \* an erased or partly written slot
    MaxFaults,     \* bound: failing I/O, heap or task-creation calls
    MaxHostWrites  \* bound: changes the USB host makes to the files

ASSUME ConstantsAssumption ==
    /\ MaxFaults \in Nat /\ MaxHostWrites \in Nat
    /\ FactoryImage \in Genuine
    /\ Genuine \cap (Unsigned \cup Foreign) = {}
    /\ Unsigned \cap Foreign = {}
    /\ {NoImage, Garbage} \cap (Genuine \cup Unsigned \cup Foreign) = {}
    /\ NoImage # Garbage

VARIABLES
    slot,        \* app partition -> image, or Garbage
    authRec,     \* OTA partition -> image its last 4 KiB certify, or NoImage
    ota,         \* OTA partition -> esp_ota_img_states_t of its otadata entry
    newest,      \* OTA partition with the higher otadata sequence number
    file,        \* update files on the FAT volumes
    status,      \* UPDATE_RESULT.TXT
    pc,          \* where app_main (startup and process_update) is
    running,     \* the partition the bootloader started
    src,         \* active_source: "flash" or "psram"
    img,         \* process_update's image_info
    state, err,  \* update_diagnostics.state, last_error # ESP_OK
    confirmReq,  \* update_diagnostics.confirmation_required
    workers,     \* update_diagnostics.required_workers_started
    conf,        \* where the ota_confirm task is
    exposed,     \* the MSC medium belongs to the host
    faults,      \* failures still allowed
    hostWrites   \* host writes still allowed

parts == <<slot, authRec, ota, newest>>
disk  == <<file, status>>
diag  == <<state, err, confirmReq, workers>>
main  == <<pc, running, src, img, exposed>>
vars  == <<parts, disk, diag, main, conf, faults, hostWrites>>

Packages == Genuine \cup Unsigned \cup Foreign
OtaSlots == {"ota_0", "ota_1"}
Slots    == OtaSlots \cup {"factory"}

None       == [kind |-> "none"]
Damaged    == [kind |-> "damaged"]   \* record-sized UPDATE.PND with a bad CRC
Package(p) == [kind |-> "package", pkg |-> p]
Record(i, s) == [kind |-> "record", image |-> i, slot |-> s]

Files   == {None, Damaged} \cup {Package(p) : p \in Packages}
              \cup {Record(i, s) : i \in Genuine, s \in OtaSlots}
\* UPDATE.BIN, UPDATE.PND and UPDATE.BAD on /config; UPDATE.BIN on /update
Names   == {"BIN", "PND", "BAD", "RBIN"}

States  == {"IDLE", "DEFERRED", "VALIDATING", "WRITING", "STAGED",
            "PENDING_CONFIRMATION", "CONFIRMED", "REJECTED", "ROLLED_BACK",
            "STORAGE_BUSY"}
Statuses == [st : States \cup {"none"}, image : Genuine \cup {NoImage, Garbage}]
Status(s, i) == [st |-> s, image |-> i]
NoStatus     == Status("none", NoImage)

MainPCs == {"off", "process", "reconcile", "cleanStatus", "cleanRemove",
            "retire", "reportPending", "input", "inspect", "open", "erase", "write",
            "authErase", "authWrite", "conflict", "stage", "announce",
            "setBoot", "restart", "undo", "reject", "report", "processed",
            "tasks", "gate", "running", "halted", "recovery", "recHost"}
InstallPCs == {"open", "erase", "write", "authErase", "authWrite", "conflict",
               "stage", "announce", "setBoot"}
ConfPCs == {"none", "delay", "read", "retire", "report", "mark", "status", "remove",
            "done"}

-----------------------------------------------------------------------------
(* otadata and the bootloader                                              *)

OtaStates == {"undefined", "new", "pending", "valid", "aborted"}
OtherSlot(s) == IF s = "ota_0" THEN "ota_1" ELSE "ota_0"

\* The newest otadata entry whose state is in good, the older one otherwise,
\* the factory partition if there is none.
Select(good, o, n) == IF o[n] \in good THEN n
                      ELSE IF o[OtherSlot(n)] \in good THEN OtherSlot(n)
                      ELSE "factory"

\* The partition that boots (an entry is skipped when invalid or aborted), and
\* the one that boots once a trial is dropped.
Active(o, n) == Select({"new", "pending", "valid"}, o, n)
Fallback     == Select({"valid"}, ota, newest)

\* esp_ota_get_next_update_partition(NULL)
Target == OtherSlot(running)

PendingVerify == running \in OtaSlots /\ ota[running] = "pending"

\* The partition with an image on trial, if any.
OnTrial == {s \in OtaSlots : ota[s] \in {"new", "pending"}}

\* esp_ota_mark_app_invalid_rollback_and_reboot: the factory partition always
\* holds an application, so the rollback is always possible.
RollBackAndReboot ==
    /\ ota' = [ota EXCEPT ![running] = "aborted"]
    /\ pc' = "off" /\ conf' = "none" /\ exposed' = FALSE
    /\ file' = [file EXCEPT !["RBIN"] = None]
    /\ UNCHANGED <<slot, authRec, newest, status, running, src, img, diag>>

-----------------------------------------------------------------------------
(* File-system calls                                                       *)

NoFault == UNCHANGED faults
Fails   == faults > 0 /\ faults' = faults - 1

\* file_exists_at: a file whose stat fails is taken for an absent one.
LooksAbsent(f) ==
    \/ file[f] = None /\ NoFault
    \/ file[f] # None /\ Fails

\* move_file_at: unlink(to), then rename(from, to).  The rename fails after
\* the target is gone, also when the source is missing; with the unlink failing
\* as well, nothing has changed.
MoveDone(from, to) ==
    /\ file[from] # None /\ NoFault
    /\ file' = [file EXCEPT ![to] = file[from], ![from] = None]
MoveFails(from, to) ==
    \/ Fails /\ file' \in {file, [file EXCEPT ![to] = None]}
    \/ file[from] = None /\ NoFault /\ file' = [file EXCEPT ![to] = None]

\* move_input_file(UPDATE.BIN, UPDATE.BAD).  On /update only the loss of
\* UPDATE.BIN is kept: nothing reads that UPDATE.BAD before the PSRAM is gone.
MoveInputToBad ==
    \/ src = "flash" /\ (MoveDone("BIN", "BAD") \/ MoveFails("BIN", "BAD"))
    \/ /\ src = "psram"
       /\ \/ NoFault /\ file' = [file EXCEPT !["RBIN"] = None]
          \/ Fails /\ file' = file

\* write_status through write_text_atomic_at.  A failure leaves the old text
\* (the temporary file could not be written) or none (the rename failed).
WriteDone(s, i) == NoFault /\ status' = Status(s, i)
WriteFails      == Fails /\ status' \in {status, NoStatus}

\* remove_state_if_present(UPDATE.PND)
RemoveDone  == NoFault /\ file' = [file EXCEPT !["PND"] = None]
RemoveFails == Fails /\ UNCHANGED file

SetState(s, e) == state' = s /\ err' = e

InputName == IF src = "flash" THEN "BIN" ELSE "RBIN"

-----------------------------------------------------------------------------
(* Power, reset and the bootloader                                         *)

\* The move and the status write that are in progress, if any.
MoveInProgress ==
    CASE pc \in {"retire", "undo"} \/ conf = "retire"            -> {"BAD"}
      [] pc = "conflict" /\ file["BIN"] # None                   -> {"BAD"}
      [] pc = "reject" /\ src = "flash"                          -> {"BAD"}
      [] pc = "stage" /\ src = "flash"                           -> {"PND"}
      [] OTHER                                                   -> {}
WritingStatus ==
    \/ pc \in {"cleanStatus", "reportPending", "report", "open", "announce"}
    \/ conf \in {"status", "report"}

\* Power is cut, or the firmware panics or hangs until the watchdog resets it.
\* An unfinished move or status write may have unlinked its target already.
PowerCut ==
    /\ pc # "off"
    /\ pc' = "off" /\ conf' = "none" /\ exposed' = FALSE
    /\ \E gone \in SUBSET MoveInProgress :
          file' = [f \in Names |-> IF f \in gone \cup {"RBIN"} THEN None
                                   ELSE file[f]]
    /\ \/ status' = status
       \/ WritingStatus /\ status' = NoStatus
    /\ UNCHANGED <<parts, running, src, img, diag, faults, hostWrites>>

\* The bootloader drops a trial that did not survive its first boot, selects
\* a partition and puts a new image on trial.  A partition that does not hold
\* a complete image is passed over for the factory image.  app_startup_run
\* then enters MSC recovery (SW2+SW3) or the normal startup.
Boot ==
    LET dropped  == [s \in OtaSlots |-> IF ota[s] = "pending" THEN "aborted"
                                        ELSE ota[s]]
        selected == Active(dropped, newest)
    IN
    /\ pc = "off"
    /\ ota' = [s \in OtaSlots |-> IF s = selected /\ dropped[s] = "new"
                                  THEN "pending" ELSE dropped[s]]
    /\ running' = IF slot[selected] = Garbage THEN "factory" ELSE selected
    /\ \/ src' = "flash" /\ pc' = "process"
       \/ src' = "psram" /\ pc' = "recovery"
    /\ state' = "IDLE" /\ err' = FALSE /\ confirmReq' = FALSE
    /\ workers' = FALSE /\ img' = NoImage
    /\ UNCHANGED <<slot, authRec, newest, disk, conf, exposed, faults, hostWrites>>

-----------------------------------------------------------------------------
(* process_update                                                          *)

\* A running image on trial is left for ota_confirm to decide; everything
\* else needs the FAT to be owned by the application.
ProcessUpdate ==
    /\ pc = "process"
    /\ img' = NoImage
    /\ \/ /\ PendingVerify
          /\ state' = "PENDING_CONFIRMATION" /\ confirmReq' = TRUE
          /\ pc' = "processed"
          /\ NoFault /\ UNCHANGED err
       \/ /\ ~PendingVerify
          /\ \/ pc' = "reconcile" /\ NoFault /\ UNCHANGED <<state, err>>
             \/ pc' = "processed" /\ Fails /\ SetState("STORAGE_BUSY", TRUE)
          /\ UNCHANGED confirmReq
    /\ UNCHANGED <<parts, disk, running, src, exposed, workers, conf, hostWrites>>

\* firmware_pending_record_matches / comparison of the ELF digests
RecordMatches(f, s) == f.kind = "record" /\ f.slot = s /\ f.image = slot[s]
\* Mutant of PendingIsRunning: a package is taken for the running image
\* without comparing the digests.
PendingIsRunningNoCompare ==
    LET f == file["PND"] IN
    \/ f.kind = "record" /\ f.slot = running /\ f.image = slot[running]
    \/ f.kind = "package" /\ f.pkg \in Genuine
PendingIsRunning ==
    LET f == file["PND"] IN
    \/ RecordMatches(f, running)
    \/ f.kind = "package" /\ f.pkg \in Genuine /\ f.pkg = slot[running]
IsRecord(f) == f.kind \in {"record", "damaged"}

\* reconcile_pending_file: what the leftover UPDATE.PND means.
Reconcile ==
    LET f == file["PND"] IN
    /\ pc = "reconcile"
    /\ \/ /\ LooksAbsent("PND")
          /\ pc' = "input" /\ UNCHANGED <<state, err>>
       \/ /\ f # None /\ Fails              \* read_pending_record cannot stat it
          /\ pc' = "processed" /\ UNCHANGED <<state, err>>
       \/ /\ PendingIsRunning /\ NoFault
          /\ pc' = "cleanStatus" /\ UNCHANGED <<state, err>>
       \/ /\ f = Damaged /\ NoFault
          /\ pc' = "retire" /\ SetState("REJECTED", TRUE)
       \/ /\ f.kind = "record" /\ ~PendingIsRunning /\ NoFault
          /\ pc' = "retire"
          /\ SetState("ROLLED_BACK",
                      ~(RecordMatches(f, f.slot) /\ ota[f.slot] = "aborted"))
       \/ /\ f.kind = "package" /\ ~PendingIsRunning /\ NoFault
          /\ pc' = "retire" /\ SetState("ROLLED_BACK", f.pkg \notin Genuine)
       \/ /\ f # None /\ Fails                  \* UPDATE.PND cannot be read
          /\ pc' = "retire"
          /\ SetState(IF IsRecord(f) THEN "REJECTED" ELSE "ROLLED_BACK", TRUE)
    /\ UNCHANGED <<parts, disk, running, src, img, exposed, confirmReq, workers,
                   conf, hostWrites>>

\* The leftover is the image that runs: finish the confirmation's cleanup.
CleanStatus ==
    /\ pc = "cleanStatus"
    /\ \/ /\ WriteDone("CONFIRMED", slot[running])
          /\ pc' = "cleanRemove" /\ UNCHANGED <<state, err>>
       \/ /\ WriteFails
          /\ pc' = "processed" /\ SetState("PENDING_CONFIRMATION", TRUE)
    /\ UNCHANGED <<parts, file, running, src, img, exposed, confirmReq, workers,
                   conf, hostWrites>>
CleanRemove ==
    /\ pc = "cleanRemove"
    /\ \/ /\ RemoveDone
          /\ pc' = "input" /\ SetState("CONFIRMED", FALSE)
       \/ /\ RemoveFails
          /\ pc' = "processed" /\ SetState("PENDING_CONFIRMATION", TRUE)
    /\ UNCHANGED <<parts, status, running, src, img, exposed, confirmReq, workers,
                   conf, hostWrites>>

\* It is not: UPDATE.PND becomes UPDATE.BAD (the result is ignored) and the
\* verdict Reconcile reached is written.
RetirePending ==
    /\ pc = "retire"
    /\ MoveDone("PND", "BAD") \/ MoveFails("PND", "BAD")
    /\ pc' = "reportPending"
    /\ UNCHANGED <<parts, status, running, src, img, exposed, diag, conf, hostWrites>>
ReportPending ==
    /\ pc = "reportPending"
    /\ WriteDone(state, NoImage) \/ WriteFails
    /\ pc' = "input"
    /\ UNCHANGED <<parts, file, running, src, img, exposed, diag, conf, hostWrites>>

\* No UPDATE.BIN: nothing to do.  On battery below the threshold the input is
\* kept for a later boot (MSC recovery always has external power).
TakeInput ==
    /\ pc = "input"
    /\ \/ /\ LooksAbsent(InputName)
          /\ pc' = "processed" /\ UNCHANGED <<state, err>>
       \/ /\ file[InputName] # None /\ src = "flash" /\ NoFault
          /\ pc' = "report" /\ SetState("DEFERRED", FALSE)
       \/ /\ file[InputName] # None /\ NoFault
          /\ pc' = "inspect" /\ SetState("VALIDATING", FALSE)
    /\ UNCHANGED <<parts, disk, running, src, img, exposed, confirmReq, workers,
                   conf, hostWrites>>

\* inspect_image_at and its three rejections: a package that fails
\* authentication stays where it is, a foreign one is moved away, and losing
\* VBUS while the PSRAM copy is verified keeps it too.
InspectInput ==
    LET f == file[InputName]
        p == IF f.kind = "package" THEN f.pkg ELSE NoImage
    IN
    /\ pc = "inspect"
    /\ \/ /\ p \in Genuine /\ NoFault
          /\ pc' = "open" /\ img' = p /\ UNCHANGED <<state, err>>
       \/ /\ p \in Foreign /\ NoFault
          /\ pc' = "reject" /\ UNCHANGED <<img, state, err>>
       \/ /\ \/ p \in Unsigned /\ NoFault
             \/ src = "psram" /\ NoFault
             \/ Fails
          /\ pc' = "report" /\ SetState("REJECTED", TRUE) /\ UNCHANGED img
    /\ UNCHANGED <<parts, disk, running, src, exposed, confirmReq, workers,
                   conf, hostWrites>>

-----------------------------------------------------------------------------
(* apply_update                                                            *)

\* Input file, buffer and digest operation, then the status WRITING: a failure
\* leaves the inactive partition untouched.
OpenInput ==
    /\ pc = "open"
    /\ \/ WriteDone("WRITING", img) /\ pc' = "erase"
          /\ SetState("WRITING", FALSE)
       \/ WriteFails /\ pc' = "reject"
          /\ SetState("WRITING", FALSE)
       \/ Fails /\ UNCHANGED <<status, state, err>> /\ pc' = "reject"
    /\ UNCHANGED <<parts, file, running, src, img, exposed, confirmReq, workers,
                   conf, hostWrites>>

\* esp_ota_begin
EraseTarget ==
    /\ pc = "erase"
    /\ \/ /\ NoFault /\ pc' = "write" /\ slot' = [slot EXCEPT ![Target] = Garbage]
       \/ /\ Fails /\ pc' = "reject"
          /\ slot' \in {slot, [slot EXCEPT ![Target] = Garbage]}
    /\ UNCHANGED <<authRec, ota, newest, disk, running, src, img, exposed, diag,
                   conf, hostWrites>>

VbusLost == src = "psram" /\ NoFault  \* a reading of GPIO42 that may be low

\* The 8 KiB chunks, the digest comparison and esp_ota_end.
WriteTarget ==
    /\ pc = "write"
    /\ \/ NoFault /\ pc' = "authErase" /\ slot' = [slot EXCEPT ![Target] = img]
       \/ (VbusLost \/ Fails) /\ pc' = "reject" /\ UNCHANGED slot
    /\ UNCHANGED <<authRec, ota, newest, disk, running, src, img, exposed, diag,
                   conf, hostWrites>>

\* The last 4 KiB of the partition get the header that certifies the image.
EraseAuthRecord ==
    /\ pc = "authErase"
    /\ \/ NoFault /\ pc' = "authWrite" /\ authRec' = [authRec EXCEPT ![Target] = NoImage]
       \/ (VbusLost \/ Fails) /\ pc' = "reject" /\ UNCHANGED authRec
    /\ UNCHANGED <<slot, ota, newest, disk, running, src, img, exposed, diag,
                   conf, hostWrites>>
\* Mutant of WriteAuthRecord: a failing write is ignored.
WriteAuthRecordIgnored ==
    /\ pc = "authWrite"
    /\ pc' = IF src = "psram" THEN "conflict" ELSE "stage"
    /\ \/ NoFault /\ authRec' = [authRec EXCEPT ![Target] = img]
       \/ Fails /\ UNCHANGED authRec
    /\ UNCHANGED <<slot, ota, newest, disk, running, src, img, exposed, diag,
                   conf, hostWrites>>
WriteAuthRecord ==
    /\ pc = "authWrite"
    /\ \/ /\ NoFault /\ authRec' = [authRec EXCEPT ![Target] = img]
          /\ pc' = IF src = "psram" THEN "conflict" ELSE "stage"
       \/ Fails /\ pc' = "reject" /\ UNCHANGED authRec
    /\ UNCHANGED <<slot, ota, newest, disk, running, src, img, exposed, diag,
                   conf, hostWrites>>

\* Recovery: an UPDATE.BIN on the config FAT must not be applied at the boot
\* that follows, so it is moved away first.
MoveConflict ==
    /\ pc = "conflict"
    /\ \/ LooksAbsent("BIN") /\ pc' = "stage" /\ UNCHANGED file
       \/ file["BIN"] # None /\ MoveDone("BIN", "BAD") /\ pc' = "stage"
       \/ file["BIN"] # None /\ MoveFails("BIN", "BAD") /\ pc' = "reject"
    /\ UNCHANGED <<parts, status, running, src, img, exposed, diag, conf, hostWrites>>

\* Mutant of StagePending: the record names the running partition.
StagePendingRunning ==
    /\ pc = "stage"
    /\ \/ src = "flash" /\ MoveDone("BIN", "PND") /\ pc' = "announce"
       \/ src = "flash" /\ MoveFails("BIN", "PND") /\ pc' = "reject"
       \/ /\ src = "psram" /\ file["PND"] = None /\ NoFault
          /\ file' = [file EXCEPT !["PND"] = Record(img, OtherSlot(Target))]
          /\ pc' = "announce"
    /\ UNCHANGED <<parts, status, running, src, img, exposed, diag, conf, hostWrites>>
\* UPDATE.PND, the evidence the next boot reconciles: the package itself, or
\* from recovery a small record (write_pending_record overwrites none it sees).
StagePending ==
    /\ pc = "stage"
    /\ \/ src = "flash" /\ MoveDone("BIN", "PND") /\ pc' = "announce"
       \/ src = "flash" /\ MoveFails("BIN", "PND") /\ pc' = "reject"
       \/ /\ src = "psram" /\ LooksAbsent("PND")
          /\ file' = [file EXCEPT !["PND"] = Record(img, Target)]
          /\ pc' = "announce"
       \/ /\ src = "psram"
          /\ (file["PND"] # None /\ NoFault) \/ Fails
          /\ pc' = "reject" /\ UNCHANGED file
    /\ UNCHANGED <<parts, status, running, src, img, exposed, diag, conf, hostWrites>>

AnnounceStaged ==
    /\ pc = "announce"
    /\ \/ WriteDone("STAGED", img) /\ pc' = "setBoot"
       \/ WriteFails /\ pc' = "undo"
    /\ UNCHANGED <<parts, file, running, src, img, exposed, diag, conf, hostWrites>>

\* Mutant of SetBoot: the new partition boots without a trial.
SetBootValid ==
    /\ pc = "setBoot" /\ NoFault /\ pc' = "restart" /\ SetState("STAGED", FALSE)
    /\ ota' = [ota EXCEPT ![Target] = "valid"] /\ newest' = Target
    /\ UNCHANGED <<slot, authRec, disk, running, src, img, exposed, confirmReq,
                   workers, conf, hostWrites>>
\* The commit point: esp_ota_set_boot_partition.
SetBoot ==
    /\ pc = "setBoot"
    /\ \/ /\ NoFault /\ pc' = "restart" /\ SetState("STAGED", FALSE)
          /\ ota' = [ota EXCEPT ![Target] = "new"] /\ newest' = Target
       \/ (VbusLost \/ Fails) /\ pc' = "undo" /\ UNCHANGED <<ota, newest, state, err>>
    /\ UNCHANGED <<slot, authRec, disk, running, src, img, exposed, confirmReq,
                   workers, conf, hostWrites>>

\* esp_restart
Restart ==
    /\ pc = "restart" /\ pc' = "off"
    /\ file' = [file EXCEPT !["RBIN"] = None]
    /\ UNCHANGED <<parts, status, running, src, img, exposed, diag, conf, faults,
                   hostWrites>>

\* A failure after UPDATE.PND exists and before the commit point.
UndoPending ==
    /\ pc = "undo"
    /\ MoveDone("PND", "BAD") \/ MoveFails("PND", "BAD")
    /\ pc' = "reject"
    /\ UNCHANGED <<parts, status, running, src, img, exposed, diag, conf, hostWrites>>

\* reject_input and reject_project_mismatch; then write_status of any verdict.
RejectInput ==
    /\ pc = "reject"
    /\ MoveInputToBad
    /\ SetState("REJECTED", TRUE)
    /\ pc' = "report"
    /\ UNCHANGED <<parts, status, running, src, img, exposed, confirmReq, workers,
                   conf, hostWrites>>
Report ==
    /\ pc = "report"
    /\ WriteDone(state, NoImage) \/ WriteFails
    /\ pc' = "processed"
    /\ UNCHANGED <<parts, file, running, src, img, exposed, diag, conf, hostWrites>>

-----------------------------------------------------------------------------
(* The rest of app_startup_run and run_recovery_mode                       *)

\* Mutant of BeginConfirmation: ota_confirm is never created.
BeginConfirmationNever ==
    /\ pc = "processed" /\ src = "flash" /\ pc' = "tasks"
    /\ UNCHANGED <<parts, disk, running, src, img, exposed, diag, conf, faults,
                   hostWrites>>
\* firmware_update_begin_confirmation
BeginConfirmation ==
    /\ pc = "processed" /\ src = "flash"
    /\ \/ /\ NoFault /\ pc' = "tasks"
          /\ conf' = IF confirmReq THEN "delay" ELSE "none"
          /\ UNCHANGED <<parts, disk, running, src, img, exposed, diag>>
       \/ confirmReq /\ Fails /\ RollBackAndReboot
    /\ UNCHANGED hostWrites

\* app_tasks_start.  A worker that cannot be created, or no BMP581 once all
\* workers exist, ends the main task: no gate is opened.
StartWorkers ==
    /\ pc = "tasks"
    /\ \/ NoFault /\ workers' = TRUE /\ pc' = "gate"
       \/ Fails /\ workers' \in {workers, TRUE} /\ pc' = "halted"
    /\ UNCHANGED <<parts, disk, running, src, img, exposed, state, err, confirmReq,
                   conf, hostWrites>>

\* Mutant of OpenGate: the medium is published while ota_confirm still works.
OpenGateEarly ==
    /\ pc = "gate" /\ pc' = "running" /\ exposed' = TRUE
    /\ UNCHANGED <<parts, disk, running, src, img, diag, conf, faults, hostWrites>>

\* firmware_update_wait_for_confirmation, which gives up after 15 s, grants
\* the medium only when nothing is left to confirm.
ConfirmationOver == ~confirmReq

\* The wait for the IMU calibration that follows may also keep the medium back.
OpenGate ==
    /\ pc = "gate"
    /\ pc' = "running"
    /\ exposed' \in {e \in BOOLEAN : e => ConfirmationOver}
    /\ UNCHANGED <<parts, disk, running, src, img, diag, conf, faults, hostWrites>>

\* The recovery loop: expose the PSRAM disk, wait for the safe eject, process.
ExposeRecovery ==
    /\ pc = "recovery" \/ (pc = "processed" /\ src = "psram")
    /\ pc' = "recHost" /\ exposed' = TRUE
    /\ UNCHANGED <<parts, disk, running, src, img, diag, conf, faults, hostWrites>>
HostRelease ==
    /\ pc = "recHost"
    /\ exposed' = FALSE
    /\ pc' \in {"process", "recovery"}
    /\ UNCHANGED <<parts, disk, running, src, img, diag, conf, faults, hostWrites>>

\* What the USB host does with a medium it owns.
HostWrite ==
    /\ exposed /\ hostWrites > 0 /\ hostWrites' = hostWrites - 1
    /\ \/ /\ pc = "recHost" /\ UNCHANGED status
          /\ \E p \in Packages : file' = [file EXCEPT !["RBIN"] = Package(p)]
       \/ /\ pc = "running" /\ UNCHANGED status
          /\ \/ \E p \in Packages, f \in {"BIN", "PND"} :
                   file' = [file EXCEPT ![f] = Package(p)]
             \/ \E f \in {"BIN", "PND", "BAD"} : file' = [file EXCEPT ![f] = None]
             \/ file' = [file EXCEPT !["PND"] = Damaged]
       \/ pc = "running" /\ status' = NoStatus /\ UNCHANGED file
    /\ UNCHANGED <<parts, main, diag, conf, faults>>

-----------------------------------------------------------------------------
(* The ota_confirm task                                                    *)

\* Ten seconds after it was created.
ConfirmDelay ==
    /\ conf = "delay"
    /\ \/ ~workers /\ NoFault /\ RollBackAndReboot
       \/ /\ workers
          /\ \/ conf' = "read" /\ NoFault /\ UNCHANGED <<state, err>>
             \/ conf' = "done" /\ Fails /\ SetState("PENDING_CONFIRMATION", TRUE)
          /\ UNCHANGED <<parts, disk, main, confirmReq, workers>>
    /\ UNCHANGED hostWrites

\* A pending record must describe the running partition; a package is not
\* looked at again, nor is a record whose stat fails.
ConfirmRead ==
    LET f == file["PND"] IN
    /\ conf = "read"
    /\ \/ /\ IsRecord(f) => RecordMatches(f, running)
          /\ NoFault /\ conf' = "mark"
       \/ LooksAbsent("PND") /\ conf' = "mark"
       \/ /\ IsRecord(f)
          /\ (~RecordMatches(f, running) /\ NoFault) \/ Fails
          /\ conf' = "retire"
    /\ UNCHANGED <<parts, disk, main, diag, hostWrites>>
ConfirmRetire ==
    /\ conf = "retire"
    /\ MoveDone("PND", "BAD") \/ MoveFails("PND", "BAD")
    /\ conf' = "report"
    /\ UNCHANGED <<parts, status, main, diag, hostWrites>>
ConfirmReport ==
    /\ conf = "report"
    /\ WriteDone("REJECTED", NoImage) \/ WriteFails
    /\ conf' = "done" /\ SetState("PENDING_CONFIRMATION", TRUE)
    /\ UNCHANGED <<parts, file, main, confirmReq, workers, hostWrites>>

\* esp_ota_mark_app_valid_cancel_rollback
ConfirmMark ==
    /\ conf = "mark"
    /\ \/ /\ NoFault /\ conf' = "status"
          /\ ota' = [ota EXCEPT ![running] = "valid"]
          /\ UNCHANGED <<slot, authRec, newest, disk, main, diag>>
       \/ Fails /\ RollBackAndReboot
    /\ UNCHANGED hostWrites
ConfirmStatus ==
    /\ conf = "status"
    /\ \/ /\ WriteDone("CONFIRMED", slot[running])
          /\ conf' = "remove" /\ UNCHANGED <<state, err>>
       \/ /\ WriteFails
          /\ conf' = "done" /\ SetState("PENDING_CONFIRMATION", TRUE)
    /\ UNCHANGED <<parts, file, main, confirmReq, workers, hostWrites>>
ConfirmRemove ==
    /\ conf = "remove" /\ conf' = "done"
    /\ \/ RemoveDone /\ SetState("CONFIRMED", FALSE) /\ confirmReq' = FALSE
       \/ /\ RemoveFails /\ SetState("PENDING_CONFIRMATION", TRUE)
          /\ UNCHANGED confirmReq
    /\ UNCHANGED <<parts, status, main, workers, hostWrites>>

-----------------------------------------------------------------------------
\* A device as shipped: only the factory image, an empty config FAT.
Init ==
    /\ slot = [s \in Slots |-> IF s = "factory" THEN FactoryImage ELSE Garbage]
    /\ authRec = [s \in OtaSlots |-> NoImage]
    /\ ota = [s \in OtaSlots |-> "undefined"] /\ newest = "ota_0"
    /\ file = [f \in Names |-> None] /\ status = NoStatus
    /\ pc = "off" /\ running = "factory" /\ src = "flash" /\ img = NoImage
    /\ state = "IDLE" /\ err = FALSE /\ confirmReq = FALSE /\ workers = FALSE
    /\ conf = "none" /\ exposed = FALSE
    /\ faults = MaxFaults /\ hostWrites = MaxHostWrites

Transaction ==
    \/ ProcessUpdate \/ Reconcile \/ CleanStatus \/ CleanRemove
    \/ RetirePending \/ ReportPending \/ TakeInput \/ InspectInput
    \/ OpenInput \/ EraseTarget \/ WriteTarget \/ EraseAuthRecord
    \/ WriteAuthRecord \/ MoveConflict \/ StagePending \/ AnnounceStaged
    \/ SetBoot \/ Restart \/ UndoPending \/ RejectInput \/ Report
Startup == Transaction \/ BeginConfirmation \/ StartWorkers \/ OpenGate
              \/ ExposeRecovery
Confirmation == ConfirmDelay \/ ConfirmRead \/ ConfirmRetire \/ ConfirmReport
                   \/ ConfirmMark \/ ConfirmStatus \/ ConfirmRemove
Environment == PowerCut \/ HostWrite \/ HostRelease

Next == Boot \/ Startup \/ Confirmation \/ Environment

Spec == Init /\ [][Next]_vars

\* The tasks keep running while the device is on; a device that is off is
\* eventually switched on.  Nothing is assumed of the host or of the power.
Fairness == WF_vars(Startup) /\ WF_vars(Confirmation) /\ WF_vars(Boot)
FairSpec == Spec /\ Fairness

-----------------------------------------------------------------------------
(* Properties                                                              *)

TypeOK ==
    /\ slot \in [Slots -> Genuine \cup {Garbage}]
    /\ authRec \in [OtaSlots -> Genuine \cup {NoImage}]
    /\ ota \in [OtaSlots -> OtaStates] /\ newest \in OtaSlots
    /\ file \in [Names -> Files]
    /\ status \in Statuses
    /\ pc \in MainPCs /\ conf \in ConfPCs
    /\ running \in Slots /\ src \in {"flash", "psram"}
    /\ img \in Genuine \cup {NoImage}
    /\ pc \in InstallPCs => img \in Genuine
    /\ state \in States /\ err \in BOOLEAN
    /\ confirmReq \in BOOLEAN /\ workers \in BOOLEAN /\ exposed \in BOOLEAN
    /\ faults \in 0..MaxFaults /\ hostWrites \in 0..MaxHostWrites

\* Whatever moment the power is cut at, the partition otadata selects, and the
\* one it would select once a trial is dropped, hold a complete image whose
\* authentication record certifies that very image: apply_update writes image
\* and record before it commits and never touches a slot that may boot.
BootChoiceSound ==
    \A s \in {Active(ota, newest), Fallback} :
        /\ slot[s] \in Genuine
        /\ s \in OtaSlots => authRec[s] = slot[s]

\* A host that reads CONFIRMED in UPDATE_RESULT.TXT is never told so of a
\* device with an undecided trial: staging replaces the text of the previous
\* update before the commit, ota_confirm writes it after the commit.
ConfirmedMeansDecided == status.st = "CONFIRMED" => OnTrial = {}

NoFailureYet == faults = MaxFaults

\* While nothing failed, a trial always has its evidence on the FAT: the
\* package or the record of exactly this image as UPDATE.PND, and the STAGED
\* text.  Reconcile relies on it to tell a confirmation from a rollback.
TrialHasEvidence ==
    NoFailureYet =>
        \A s \in OnTrial :
            /\ file["PND"] \in {Package(slot[s]), Record(slot[s], s)}
            /\ status = Status("STAGED", slot[s])

\* While nothing failed, no second input waits behind a trial, so the boot that
\* follows a rollback does not silently start another update (StagePending,
\* MoveConflict, and no host access during the trial).  An UPDATE.BIN whose stat
\* fails before the record is written stays where it is.
NoInputBehindTrial == NoFailureYet /\ OnTrial # {} => file["BIN"] = None

\* What an update promises at every moment: a boot choice that is sound, a
\* CONFIRMED that is true and, until a call fails, a trial that no other update
\* follows.
UpdateSound == BootChoiceSound /\ ConfirmedMeansDecided /\ NoInputBehindTrial

\* The config FAT is the host's only when no trial is undecided and the
\* ota_confirm task, which works on the same FAT, has ended.
HostOwnsQuietMedium ==
    exposed /\ pc = "running" => OnTrial = {} /\ conf \in {"none", "done"}

\* While no call has failed, a package leaves the config FAT only when the
\* host removes it, when it is the running, valid image, or when it was
\* UPDATE.BAD and another input takes or is about to take that name.  In
\* particular no power cut loses it.
HasPackage(p) == \E f \in {"BIN", "PND", "BAD"} : file[f] = Package(p)
PackageKept ==
    [][ NoFailureYet' =>
          \A p \in Packages :
              HasPackage(p) /\ ~HasPackage(p)' =>
                  \/ exposed
                  \/ p = slot[running] /\ OnTrial = {}
                  \/ /\ file["BAD"] = Package(p)
                     /\ \E f \in {"BIN", "PND"} : file[f] # None ]_vars

\* Every trial is decided, by ota_confirm or by the next reset, unless the user
\* stays in MSC recovery or a failing call ended ota_confirm without a verdict
\* (then the image stays on trial for the session).
TrialDecided ==
    \A s \in OtaSlots :
        s \in OnTrial ~> \/ s \notin OnTrial
                         \/ src = "psram"
                         \/ conf = "done" /\ err

\* The inductive invariant behind the properties above, in parts.

\* The trial is the newest otadata entry; a device that is up runs what
\* otadata selects, and a staged image that waits for a reset is not it.
TrialIsNewest ==
    /\ OnTrial \subseteq {newest}
    /\ pc \notin {"off", "restart"} =>
           running = Active(ota, newest) /\ ota[newest] # "new"

\* process_update only touches files and partitions when nothing is on trial.
TransactionPCs == InstallPCs \cup
    {"reconcile", "cleanStatus", "cleanRemove", "retire", "reportPending",
     "input", "inspect", "undo", "reject", "report"}
NoTrialInTransaction == pc \in TransactionPCs => OnTrial = {}

\* How far the inactive partition and the files are before the commit.
InstallOrder ==
    /\ pc \in InstallPCs \ {"open", "erase", "write"} => slot[Target] = img
    /\ pc \in {"conflict", "stage", "announce", "setBoot"} => authRec[Target] = img
    /\ NoFailureYet /\ pc = "stage" /\ src = "psram" => file["BIN"] = None
    /\ NoFailureYet /\ pc \in {"announce", "setBoot"} => file["BIN"] = None
    /\ pc = "setBoot" => status.st = "STAGED"

\* confirmation_required, the ota_confirm task and the medium.
Verifying == {"delay", "read", "retire", "report", "mark"}
ConfirmationOrder ==
    /\ conf # "none" => pc \in {"tasks", "gate", "running", "halted"}
    /\ conf \notin {"none", "done"} => confirmReq
    /\ conf \in Verifying => OnTrial # {}
    /\ conf \in {"status", "remove"} => OnTrial = {}
    /\ pc \notin {"off", "restart"} /\ confirmReq /\ conf = "none" => OnTrial # {}
    /\ pc \in {"processed", "tasks", "gate", "running", "halted"} /\ ~confirmReq =>
           OnTrial = {}
    /\ exposed => pc \in {"running", "recHost"}
    /\ exposed /\ pc = "running" => ~confirmReq

FactoryKept == slot["factory"] = FactoryImage

Inv ==
    /\ TypeOK
    /\ FactoryKept
    /\ BootChoiceSound
    /\ TrialIsNewest
    /\ NoTrialInTransaction
    /\ InstallOrder
    /\ ConfirmationOrder
    /\ NoInputBehindTrial
    /\ ConfirmedMeansDecided

\* The abstract update: see AtomicUpdate.
TrialImage == IF OnTrial = {} THEN NoImage ELSE slot[CHOOSE s \in OnTrial : TRUE]
Abstract == INSTANCE AtomicUpdate WITH current <- slot[Fallback],
                                       trial   <- TrialImage
AtomicUpdateSpec == Abstract!Spec

=============================================================================
