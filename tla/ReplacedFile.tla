----------------------------- MODULE ReplacedFile -----------------------------
(***************************************************************************)
(* The files on the config FAT that are replaced through a temporary file  *)
(* and a backup: setting.json (platform/config_storage.c) and mc_data.json *)
(* (platform/imu_calibration_storage.c), which take the same steps.  A     *)
(* call of the file system is a step: it works, it fails, or the power is  *)
(* cut before the next one.  A rename is taken as a whole: FatFs writes    *)
(* both entries of a small root directory in one sector.                   *)
(*                                                                         *)
(* One save or load runs at a time: usb_device_service holds               *)
(* storage_io_mutex around it.  A document is one the program reads back   *)
(* as valid; Bad stands for whatever it refuses.  What is promised of each *)
(* file is DurableFile.                                                    *)
(***************************************************************************)
CONSTANTS Files, Docs, None, Bad

VARIABLES
    file,    \* setting.json, mc_data.json
    backup,  \* setting.bak, mc_data.bak
    temp,    \* setting.tmp, mc_data.tmp
    call,    \* the call in progress: file, next step, document, target_exists
    answer,  \* of the last save of each: "none", "ok" or "fail"
    got      \* by the last load of each, until its next save: a document, or None

disk == <<file, backup, temp>>
replies == <<answer, got>>
fileVars == <<disk, call, replies>>

Idle == [name |-> None, at |-> "idle", doc |-> None, exists |-> FALSE]
Off == [Idle EXCEPT !.at = "off"]

At(step) == call.at = step
GoOn(step) == call' = [call EXCEPT !.at = step]
Target == file[call.name]
Backup == backup[call.name]
Temp == temp[call.name]
IsTarget(v) == file' = [file EXCEPT ![call.name] = v]
IsBackup(v) == backup' = [backup EXCEPT ![call.name] = v]
IsTemp(v) == temp' = [temp EXCEPT ![call.name] = v]

Reply(a) == call' = Idle /\ answer' = [answer EXCEPT ![call.name] = a] /\ UNCHANGED got

\* unlink(temporary_path), which may itself fail; nothing reads what is left.
DropTemp == IsTemp(None) \/ UNCHANGED temp

\* A call fails before the target was touched.
Refuse(step) == At(step) /\ DropTemp /\ Reply("fail") /\ UNCHANGED <<file, backup>>

-----------------------------------------------------------------------------
(* config_storage_save, imu_calibration_storage_save                       *)

BeginSave(f, d) ==
    /\ At("idle")
    /\ call' = [name |-> f, at |-> "write", doc |-> d, exists |-> FALSE]
    /\ answer' = [answer EXCEPT ![f] = "none"] /\ got' = [got EXCEPT ![f] = None]
    /\ UNCHANGED disk

\* fopen, write, fflush, fsync, fclose.  The medium may have kept something
\* else than was written.
Write ==
    /\ At("write") /\ UNCHANGED <<file, backup>>
    /\ \/ \E d \in {call.doc, Bad} : IsTemp(d) /\ GoOn("verify") /\ UNCHANGED replies
       \/ (IsTemp(Bad) \/ DropTemp) /\ Reply("fail")

\* The temporary file is read back and is the document that was written.
Verified == Temp = call.doc

\* Mutant of Verify: what was written is not read back.
VerifyTrusts == At("verify") /\ GoOn("stat") /\ UNCHANGED <<disk, replies>>

Verify ==
    \/ At("verify") /\ Verified /\ GoOn("stat") /\ UNCHANGED <<disk, replies>>
    \/ Refuse("verify")

Stat ==
    \/ /\ At("stat")
       /\ call' = [call EXCEPT !.at = IF Target = None THEN "replace" ELSE "unlink",
                               !.exists = Target # None]
       /\ UNCHANGED <<disk, replies>>
    \/ Refuse("stat")

UnlinkBackup ==
    \/ At("unlink") /\ IsBackup(None) /\ GoOn("aside") /\ UNCHANGED <<file, temp, replies>>
    \/ Refuse("unlink")

\* rename(target_path, backup_path)
MoveAside ==
    \/ /\ At("aside") /\ IsBackup(Target) /\ IsTarget(None)
       /\ GoOn("replace") /\ UNCHANGED <<temp, replies>>
    \/ Refuse("aside")

\* rename(temporary_path, target_path)
Replace ==
    \/ /\ At("replace") /\ IsTarget(Temp) /\ IsTemp(None)
       /\ GoOn("tidy") /\ UNCHANGED <<backup, replies>>
    \/ At("replace") /\ call.exists /\ GoOn("back") /\ UNCHANGED <<disk, replies>>
    \/ ~call.exists /\ Refuse("replace")

\* rename(backup_path, target_path), whose failure is ignored.
MoveBack ==
    \/ At("back") /\ IsTarget(Backup) /\ IsBackup(None) /\ DropTemp /\ Reply("fail")
    \/ Refuse("back")

\* The save has succeeded; the backup goes, if it can.
Tidy ==
    /\ At("tidy")
    /\ (call.exists /\ IsBackup(None)) \/ UNCHANGED backup
    /\ Reply("ok") /\ UNCHANGED <<file, temp>>

SaveStep ==
    \/ Write \/ Verify \/ Stat \/ UnlinkBackup \/ MoveAside \/ Replace \/ MoveBack \/ Tidy

-----------------------------------------------------------------------------
(* config_storage_load, imu_calibration_storage_load                       *)

BeginLoad(f) ==
    /\ At("idle")
    /\ call' = [Idle EXCEPT !.name = f, !.at = "load"] /\ UNCHANGED <<disk, replies>>

Loaded(d) == call' = Idle /\ got' = [got EXCEPT ![call.name] = d] /\ UNCHANGED answer

\* Any file may prove unreadable; it is refused like an invalid one.  A stat
\* that fails ends the load as well: only a target it finds missing is recovered.
LoadTarget ==
    \/ /\ At("load") /\ Target \in Docs /\ Loaded(Target)
       /\ IsBackup(None) \/ UNCHANGED backup
       /\ UNCHANGED <<file, temp>>
    \/ At("load") /\ Loaded(None) /\ UNCHANGED disk
    \/ At("load") /\ Target = None /\ GoOn("recover") /\ UNCHANGED <<disk, replies>>

\* Mutant of Recover: what a cut left in the temporary file comes first.
RecoverTemp ==
    \/ /\ At("recover") /\ Temp \in Docs /\ Loaded(Temp)
       /\ IsTarget(Temp) /\ IsTemp(None) /\ UNCHANGED backup
    \/ At("recover") /\ Temp \notin Docs /\ Loaded(None) /\ UNCHANGED disk

\* The target is missing: a reset came between the two renames, or it never was.
Recover ==
    \/ /\ At("recover") /\ Backup \in Docs /\ Loaded(Backup)
       /\ IsTarget(Backup) /\ IsBackup(None) /\ UNCHANGED temp
    \/ At("recover") /\ Loaded(None) /\ UNCHANGED disk

LoadStep == LoadTarget \/ Recover

-----------------------------------------------------------------------------
(* What each file holds: the target or, while that is moved aside, the     *)
(* backup.                                                                 *)

Held(f) == IF file[f] # None THEN file[f] ELSE backup[f]

Saves(f) == call.name = f /\ ~(At("load") \/ At("recover"))

Durable(f) == INSTANCE DurableFile
    WITH held <- Held(f),
         asked <- IF Saves(f) THEN call.doc ELSE None,
         stored <- Saves(f) /\ At("tidy"),
         answer <- answer[f], got <- got[f]
=============================================================================
