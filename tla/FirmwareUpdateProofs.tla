------------------------ MODULE FirmwareUpdateProofs ------------------------
(***************************************************************************)
(* Safety of FirmwareUpdate for every set of packages, every number of     *)
(* failing calls and every number of host writes: the types, the inductive *)
(* invariant Inv, the properties that follow from it, the refinement of    *)
(* AtomicUpdate; and, as long as no call fails, where the files of the     *)
(* update are at every step.                                               *)
(***************************************************************************)
EXTENDS FirmwareUpdate, TLAPS

-----------------------------------------------------------------------------
(* Type correctness                                                        *)

\* The values the actions put into files and into the status file.
LEMMA FileValues ==
    /\ None \in Files /\ Damaged \in Files
    /\ \A p \in Packages : Package(p) \in Files
    /\ \A i \in Genuine, s \in OtaSlots : Record(i, s) \in Files
BY DEF Files

LEMMA StatusValues ==
    /\ NoStatus \in Statuses
    /\ \A s \in States, i \in Genuine \cup {NoImage, Garbage} : Status(s, i) \in Statuses
BY DEF Statuses, Status, NoStatus

\* The file-system calls keep the files, the status and the fault budget in
\* their types.
LEMMA FaultType ==
    ASSUME TypeOK, NoFault \/ Fails PROVE faults' \in 0..MaxFaults
BY ConstantsAssumption DEF TypeOK, NoFault, Fails

LEMMA MoveType ==
    ASSUME TypeOK, NEW from \in Names, NEW to \in Names,
           MoveDone(from, to) \/ MoveFails(from, to)
    PROVE  file' \in [Names -> Files] /\ faults' \in 0..MaxFaults
BY FileValues, FaultType DEF TypeOK, MoveDone, MoveFails

LEMMA RemoveType ==
    ASSUME TypeOK, RemoveDone \/ RemoveFails
    PROVE  file' \in [Names -> Files] /\ faults' \in 0..MaxFaults
BY FileValues, FaultType DEF TypeOK, RemoveDone, RemoveFails

LEMMA MoveInputType ==
    ASSUME TypeOK, MoveInputToBad
    PROVE  file' \in [Names -> Files] /\ faults' \in 0..MaxFaults
BY MoveType, FileValues, FaultType DEF TypeOK, MoveInputToBad, Names

LEMMA StatusType ==
    ASSUME TypeOK, NEW s \in States, NEW i \in Genuine \cup {NoImage, Garbage},
           WriteDone(s, i) \/ WriteFails
    PROVE  status' \in Statuses /\ faults' \in 0..MaxFaults
BY StatusValues, FaultType DEF TypeOK, WriteDone, WriteFails

\* The partitions the selection functions return.
LEMMA ActiveType ==
    ASSUME NEW o \in [OtaSlots -> OtaStates], NEW n \in OtaSlots
    PROVE  Active(o, n) \in Slots
BY DEF Active, Select, OtherSlot, Slots, OtaSlots

LEMMA TargetType == Target \in OtaSlots /\ Target \in Slots
BY DEF Target, OtherSlot, OtaSlots, Slots

LEMMA TypeInit == Init => TypeOK
<1> SUFFICES ASSUME Init PROVE TypeOK
  OBVIOUS
<1> USE DEF Init
<1>1. slot \in [Slots -> Genuine \cup {Garbage}]
  BY ConstantsAssumption
<1>2. /\ authRec \in [OtaSlots -> Genuine \cup {NoImage}]
      /\ ota \in [OtaSlots -> OtaStates] /\ newest \in OtaSlots
  BY DEF OtaSlots, OtaStates
<1>3. file \in [Names -> Files] /\ status \in Statuses
  BY FileValues, StatusValues
<1>4. /\ pc \in MainPCs /\ conf \in ConfPCs
      /\ running \in Slots /\ src \in {"flash", "psram"}
      /\ img \in Genuine \cup {NoImage} /\ state \in States
      /\ pc \notin InstallPCs
  BY DEF MainPCs, ConfPCs, Slots, States, InstallPCs
<1>5. err \in BOOLEAN /\ confirmReq \in BOOLEAN /\ workers \in BOOLEAN /\ exposed \in BOOLEAN
  OBVIOUS
<1>6. faults \in 0..MaxFaults /\ hostWrites \in 0..MaxHostWrites
  BY ConstantsAssumption
<1> QED BY <1>1, <1>2, <1>3, <1>4, <1>5, <1>6 DEF TypeOK

(* Each action keeps the types: what it leaves alone, then what it assigns. *)

LEMMA TypeProcessUpdate == TypeOK /\ ProcessUpdate => TypeOK'
<1> SUFFICES ASSUME TypeOK, ProcessUpdate PROVE TypeOK'
  OBVIOUS
<1>1. UNCHANGED <<slot, authRec, ota, newest, file, status, running,
                src, workers, conf, exposed, hostWrites>>
  BY DEF ProcessUpdate, parts, disk, SetState
<1>2. pc' \in MainPCs
  BY DEF TypeOK, ProcessUpdate, parts, disk, MainPCs
<1>3. img' \in Genuine \cup {NoImage} /\ (pc' \in InstallPCs => img' \in Genuine)
  BY DEF TypeOK, ProcessUpdate, parts, disk, InstallPCs
<1>4. state' \in States
  BY DEF TypeOK, ProcessUpdate, SetState, parts, disk, States
<1>5. err' \in BOOLEAN
  BY DEF TypeOK, ProcessUpdate, SetState, parts, disk
<1>6. confirmReq' \in BOOLEAN
  BY DEF TypeOK, ProcessUpdate, parts, disk
<1>7. faults' \in 0..MaxFaults
  BY FaultType DEF ProcessUpdate
<1> QED BY <1>1, <1>2, <1>3, <1>4, <1>5, <1>6, <1>7 DEF TypeOK

LEMMA TypeReconcile == TypeOK /\ Reconcile => TypeOK'
<1> SUFFICES ASSUME TypeOK, Reconcile PROVE TypeOK'
  OBVIOUS
<1>1. UNCHANGED <<slot, authRec, ota, newest, file, status, running,
                src, confirmReq, workers, conf, exposed, hostWrites>>
  BY DEF Reconcile, parts, disk, SetState
<1>2. pc' \in MainPCs
  BY DEF TypeOK, Reconcile, parts, disk, MainPCs
<1>3. img' \in Genuine \cup {NoImage} /\ (pc' \in InstallPCs => img' \in Genuine)
  BY DEF TypeOK, Reconcile, parts, disk, InstallPCs
<1>4. state' \in States
  BY DEF TypeOK, Reconcile, SetState, parts, disk, States
<1>5. err' \in BOOLEAN
  BY DEF TypeOK, Reconcile, SetState, parts, disk
<1>6. faults' \in 0..MaxFaults
  BY FaultType DEF Reconcile, LooksAbsent
<1> QED BY <1>1, <1>2, <1>3, <1>4, <1>5, <1>6 DEF TypeOK

LEMMA TypeCleanStatus == TypeOK /\ CleanStatus => TypeOK'
<1> SUFFICES ASSUME TypeOK, CleanStatus PROVE TypeOK'
  OBVIOUS
<1>1. UNCHANGED <<slot, authRec, ota, newest, file, running, src,
                confirmReq, workers, conf, exposed, hostWrites>>
  BY DEF CleanStatus, parts, SetState
<1>2. status' \in Statuses
  BY StatusType, StatusValues DEF TypeOK, CleanStatus, States, parts
<1>3. pc' \in MainPCs
  BY DEF TypeOK, CleanStatus, parts, MainPCs
<1>4. img' \in Genuine \cup {NoImage} /\ (pc' \in InstallPCs => img' \in Genuine)
  BY DEF TypeOK, CleanStatus, parts, InstallPCs
<1>5. state' \in States
  BY DEF TypeOK, CleanStatus, SetState, parts, States
<1>6. err' \in BOOLEAN
  BY DEF TypeOK, CleanStatus, SetState, parts
<1>7. faults' \in 0..MaxFaults
  BY FaultType, StatusType DEF CleanStatus, TypeOK, States
<1> QED BY <1>1, <1>2, <1>3, <1>4, <1>5, <1>6, <1>7 DEF TypeOK

LEMMA TypeCleanRemove == TypeOK /\ CleanRemove => TypeOK'
<1> SUFFICES ASSUME TypeOK, CleanRemove PROVE TypeOK'
  OBVIOUS
<1>1. UNCHANGED <<slot, authRec, ota, newest, status, running, src,
                confirmReq, workers, conf, exposed, hostWrites>>
  BY DEF CleanRemove, parts, SetState
<1>2. file' \in [Names -> Files]
  BY RemoveType, FileValues DEF TypeOK, CleanRemove, Names, parts
<1>3. pc' \in MainPCs
  BY DEF TypeOK, CleanRemove, parts, MainPCs
<1>4. img' \in Genuine \cup {NoImage} /\ (pc' \in InstallPCs => img' \in Genuine)
  BY DEF TypeOK, CleanRemove, parts, InstallPCs
<1>5. state' \in States
  BY DEF TypeOK, CleanRemove, SetState, parts, States
<1>6. err' \in BOOLEAN
  BY DEF TypeOK, CleanRemove, SetState, parts
<1>7. faults' \in 0..MaxFaults
  BY FaultType, RemoveType DEF CleanRemove, Names
<1> QED BY <1>1, <1>2, <1>3, <1>4, <1>5, <1>6, <1>7 DEF TypeOK

LEMMA TypeRetirePending == TypeOK /\ RetirePending => TypeOK'
<1> SUFFICES ASSUME TypeOK, RetirePending PROVE TypeOK'
  OBVIOUS
<1>1. UNCHANGED <<slot, authRec, ota, newest, status, running, src, state,
                err, confirmReq, workers, conf, exposed, hostWrites>>
  BY DEF RetirePending, parts, diag
<1>2. file' \in [Names -> Files]
  BY MoveType, FileValues DEF TypeOK, RetirePending, Names, parts, diag
<1>3. pc' \in MainPCs
  BY DEF TypeOK, RetirePending, parts, diag, MainPCs
<1>4. img' \in Genuine \cup {NoImage} /\ (pc' \in InstallPCs => img' \in Genuine)
  BY DEF TypeOK, RetirePending, parts, diag, InstallPCs
<1>5. faults' \in 0..MaxFaults
  BY FaultType, MoveType DEF RetirePending, Names
<1> QED BY <1>1, <1>2, <1>3, <1>4, <1>5 DEF TypeOK

LEMMA TypeReportPending == TypeOK /\ ReportPending => TypeOK'
<1> SUFFICES ASSUME TypeOK, ReportPending PROVE TypeOK'
  OBVIOUS
<1>1. UNCHANGED <<slot, authRec, ota, newest, file, running, src, state,
                err, confirmReq, workers, conf, exposed, hostWrites>>
  BY DEF ReportPending, parts, diag
<1>2. status' \in Statuses
  BY StatusType, StatusValues DEF TypeOK, ReportPending, States, parts, diag
<1>3. pc' \in MainPCs
  BY DEF TypeOK, ReportPending, parts, diag, MainPCs
<1>4. img' \in Genuine \cup {NoImage} /\ (pc' \in InstallPCs => img' \in Genuine)
  BY DEF TypeOK, ReportPending, parts, diag, InstallPCs
<1>5. faults' \in 0..MaxFaults
  BY FaultType, StatusType DEF ReportPending, TypeOK, States
<1> QED BY <1>1, <1>2, <1>3, <1>4, <1>5 DEF TypeOK

LEMMA TypeTakeInput == TypeOK /\ TakeInput => TypeOK'
<1> SUFFICES ASSUME TypeOK, TakeInput PROVE TypeOK'
  OBVIOUS
<1>1. UNCHANGED <<slot, authRec, ota, newest, file, status, running, src,
                confirmReq, workers, conf, exposed, hostWrites>>
  BY DEF TakeInput, parts, disk, SetState
<1>2. pc' \in MainPCs
  BY DEF TypeOK, TakeInput, parts, disk, MainPCs
<1>3. img' \in Genuine \cup {NoImage} /\ (pc' \in InstallPCs => img' \in Genuine)
  BY DEF TypeOK, TakeInput, parts, disk, InstallPCs
<1>4. state' \in States
  BY DEF TypeOK, TakeInput, SetState, parts, disk, States
<1>5. err' \in BOOLEAN
  BY DEF TypeOK, TakeInput, SetState, parts, disk
<1>6. faults' \in 0..MaxFaults
  BY FaultType DEF TakeInput, LooksAbsent
<1> QED BY <1>1, <1>2, <1>3, <1>4, <1>5, <1>6 DEF TypeOK

LEMMA TypeInspectInput == TypeOK /\ InspectInput => TypeOK'
<1> SUFFICES ASSUME TypeOK, InspectInput PROVE TypeOK'
  OBVIOUS
<1>1. UNCHANGED <<slot, authRec, ota, newest, file, status, running,
                src, confirmReq, workers, conf, exposed, hostWrites>>
  BY DEF InspectInput, parts, disk, SetState
<1>2. pc' \in MainPCs
  BY DEF TypeOK, InspectInput, parts, disk, MainPCs
<1>3. img' \in Genuine \cup {NoImage} /\ (pc' \in InstallPCs => img' \in Genuine)
  BY DEF TypeOK, InspectInput, parts, disk, InstallPCs
<1>4. state' \in States
  BY DEF TypeOK, InspectInput, SetState, parts, disk, States
<1>5. err' \in BOOLEAN
  BY DEF TypeOK, InspectInput, SetState, parts, disk
<1>6. faults' \in 0..MaxFaults
  BY FaultType DEF InspectInput
<1> QED BY <1>1, <1>2, <1>3, <1>4, <1>5, <1>6 DEF TypeOK

LEMMA TypeOpenInput == TypeOK /\ OpenInput => TypeOK'
<1> SUFFICES ASSUME TypeOK, OpenInput PROVE TypeOK'
  OBVIOUS
<1>1. UNCHANGED <<slot, authRec, ota, newest, file, running, src,
                confirmReq, workers, conf, exposed, hostWrites>>
  BY DEF OpenInput, parts, SetState
<1>2. status' \in Statuses
  BY StatusType, StatusValues DEF TypeOK, OpenInput, States, parts
<1>3. pc' \in MainPCs
  BY DEF TypeOK, OpenInput, parts, MainPCs
<1>4. img' \in Genuine \cup {NoImage} /\ (pc' \in InstallPCs => img' \in Genuine)
  BY DEF TypeOK, OpenInput, parts, InstallPCs
<1>5. state' \in States
  BY DEF TypeOK, OpenInput, SetState, parts, States
<1>6. err' \in BOOLEAN
  BY DEF TypeOK, OpenInput, SetState, parts
<1>7. faults' \in 0..MaxFaults
  BY FaultType, StatusType DEF OpenInput, TypeOK, States
<1> QED BY <1>1, <1>2, <1>3, <1>4, <1>5, <1>6, <1>7 DEF TypeOK

LEMMA TypeEraseTarget == TypeOK /\ EraseTarget => TypeOK'
<1> SUFFICES ASSUME TypeOK, EraseTarget PROVE TypeOK'
  OBVIOUS
<1>1. UNCHANGED <<authRec, ota, newest, file, status, running, src, state,
                err, confirmReq, workers, conf, exposed, hostWrites>>
  BY DEF EraseTarget, disk, diag
<1>2. slot' \in [Slots -> Genuine \cup {Garbage}]
  BY TargetType DEF TypeOK, EraseTarget, OtaStates, InstallPCs, MainPCs, VbusLost, disk, diag
<1>3. pc' \in MainPCs
  BY DEF TypeOK, EraseTarget, disk, diag, MainPCs
<1>4. img' \in Genuine \cup {NoImage} /\ (pc' \in InstallPCs => img' \in Genuine)
  BY DEF TypeOK, EraseTarget, disk, diag, InstallPCs
<1>5. faults' \in 0..MaxFaults
  BY FaultType DEF EraseTarget, VbusLost
<1> QED BY <1>1, <1>2, <1>3, <1>4, <1>5 DEF TypeOK

LEMMA TypeWriteTarget == TypeOK /\ WriteTarget => TypeOK'
<1> SUFFICES ASSUME TypeOK, WriteTarget PROVE TypeOK'
  OBVIOUS
<1>1. UNCHANGED <<authRec, ota, newest, file, status, running, src, state,
                err, confirmReq, workers, conf, exposed, hostWrites>>
  BY DEF WriteTarget, disk, diag
<1>2. slot' \in [Slots -> Genuine \cup {Garbage}]
  BY TargetType DEF TypeOK, WriteTarget, OtaStates, InstallPCs, MainPCs, VbusLost, disk, diag
<1>3. pc' \in MainPCs
  BY DEF TypeOK, WriteTarget, disk, diag, MainPCs
<1>4. img' \in Genuine \cup {NoImage} /\ (pc' \in InstallPCs => img' \in Genuine)
  BY DEF TypeOK, WriteTarget, disk, diag, InstallPCs
<1>5. faults' \in 0..MaxFaults
  BY FaultType DEF WriteTarget, VbusLost
<1> QED BY <1>1, <1>2, <1>3, <1>4, <1>5 DEF TypeOK

LEMMA TypeEraseAuthRecord == TypeOK /\ EraseAuthRecord => TypeOK'
<1> SUFFICES ASSUME TypeOK, EraseAuthRecord PROVE TypeOK'
  OBVIOUS
<1>1. UNCHANGED <<slot, ota, newest, file, status, running, src, state,
                err, confirmReq, workers, conf, exposed, hostWrites>>
  BY DEF EraseAuthRecord, disk, diag
<1>2. authRec' \in [OtaSlots -> Genuine \cup {NoImage}]
  BY TargetType DEF TypeOK, EraseAuthRecord, OtaStates, InstallPCs, MainPCs, VbusLost, disk,
    diag
<1>3. pc' \in MainPCs
  BY DEF TypeOK, EraseAuthRecord, disk, diag, MainPCs
<1>4. img' \in Genuine \cup {NoImage} /\ (pc' \in InstallPCs => img' \in Genuine)
  BY DEF TypeOK, EraseAuthRecord, disk, diag, InstallPCs
<1>5. faults' \in 0..MaxFaults
  BY FaultType DEF EraseAuthRecord, VbusLost
<1> QED BY <1>1, <1>2, <1>3, <1>4, <1>5 DEF TypeOK

LEMMA TypeWriteAuthRecord == TypeOK /\ WriteAuthRecord => TypeOK'
<1> SUFFICES ASSUME TypeOK, WriteAuthRecord PROVE TypeOK'
  OBVIOUS
<1>1. UNCHANGED <<slot, ota, newest, file, status, running, src, state,
                err, confirmReq, workers, conf, exposed, hostWrites>>
  BY DEF WriteAuthRecord, disk, diag
<1>2. authRec' \in [OtaSlots -> Genuine \cup {NoImage}]
  BY TargetType DEF TypeOK, WriteAuthRecord, OtaStates, InstallPCs, MainPCs, disk, diag
<1>3. pc' \in MainPCs
  BY DEF TypeOK, WriteAuthRecord, disk, diag, MainPCs
<1>4. img' \in Genuine \cup {NoImage} /\ (pc' \in InstallPCs => img' \in Genuine)
  BY DEF TypeOK, WriteAuthRecord, disk, diag, InstallPCs
<1>5. faults' \in 0..MaxFaults
  BY FaultType DEF WriteAuthRecord
<1> QED BY <1>1, <1>2, <1>3, <1>4, <1>5 DEF TypeOK

LEMMA TypeMoveConflict == TypeOK /\ MoveConflict => TypeOK'
<1> SUFFICES ASSUME TypeOK, MoveConflict PROVE TypeOK'
  OBVIOUS
<1>1. UNCHANGED <<slot, authRec, ota, newest, status, running, src, state,
                err, confirmReq, workers, conf, exposed, hostWrites>>
  BY DEF MoveConflict, parts, diag
<1>2. file' \in [Names -> Files]
  BY MoveType, FileValues DEF TypeOK, MoveConflict, Names, parts, diag
<1>3. pc' \in MainPCs
  BY DEF TypeOK, MoveConflict, parts, diag, MainPCs
<1>4. img' \in Genuine \cup {NoImage} /\ (pc' \in InstallPCs => img' \in Genuine)
  BY DEF TypeOK, MoveConflict, parts, diag, InstallPCs
<1>5. faults' \in 0..MaxFaults
  BY FaultType, MoveType DEF MoveConflict, LooksAbsent, Names
<1> QED BY <1>1, <1>2, <1>3, <1>4, <1>5 DEF TypeOK

LEMMA TypeStagePending == TypeOK /\ StagePending => TypeOK'
<1> SUFFICES ASSUME TypeOK, StagePending PROVE TypeOK'
  OBVIOUS
<1>1. UNCHANGED <<slot, authRec, ota, newest, status, running, src, state,
                err, confirmReq, workers, conf, exposed, hostWrites>>
  BY DEF StagePending, parts, diag
<1>2. file' \in [Names -> Files]
  BY MoveType, FileValues, TargetType DEF TypeOK, StagePending, Names, parts, diag, InstallPCs
<1>3. pc' \in MainPCs
  BY DEF TypeOK, StagePending, parts, diag, MainPCs
<1>4. img' \in Genuine \cup {NoImage} /\ (pc' \in InstallPCs => img' \in Genuine)
  BY DEF TypeOK, StagePending, parts, diag, InstallPCs
<1>5. faults' \in 0..MaxFaults
  BY FaultType, MoveType DEF StagePending, LooksAbsent, Names
<1> QED BY <1>1, <1>2, <1>3, <1>4, <1>5 DEF TypeOK

LEMMA TypeAnnounceStaged == TypeOK /\ AnnounceStaged => TypeOK'
<1> SUFFICES ASSUME TypeOK, AnnounceStaged PROVE TypeOK'
  OBVIOUS
<1>1. UNCHANGED <<slot, authRec, ota, newest, file, running, src, state,
                err, confirmReq, workers, conf, exposed, hostWrites>>
  BY DEF AnnounceStaged, parts, diag
<1>2. status' \in Statuses
  BY StatusType, StatusValues DEF TypeOK, AnnounceStaged, States, parts, diag
<1>3. pc' \in MainPCs
  BY DEF TypeOK, AnnounceStaged, parts, diag, MainPCs
<1>4. img' \in Genuine \cup {NoImage} /\ (pc' \in InstallPCs => img' \in Genuine)
  BY DEF TypeOK, AnnounceStaged, parts, diag, InstallPCs
<1>5. faults' \in 0..MaxFaults
  BY FaultType, StatusType DEF AnnounceStaged, TypeOK, States
<1> QED BY <1>1, <1>2, <1>3, <1>4, <1>5 DEF TypeOK

LEMMA TypeSetBoot == TypeOK /\ SetBoot => TypeOK'
<1> SUFFICES ASSUME TypeOK, SetBoot PROVE TypeOK'
  OBVIOUS
<1>1. UNCHANGED <<slot, authRec, file, status, running, src,
                confirmReq, workers, conf, exposed, hostWrites>>
  BY DEF SetBoot, disk, SetState
<1>2. ota' \in [OtaSlots -> OtaStates]
  BY TargetType DEF TypeOK, SetBoot, OtaStates, InstallPCs, MainPCs, VbusLost, disk
<1>3. newest' \in OtaSlots
  BY TargetType DEF TypeOK, SetBoot, OtaStates, InstallPCs, MainPCs, VbusLost, disk
<1>4. pc' \in MainPCs
  BY DEF TypeOK, SetBoot, disk, MainPCs
<1>5. img' \in Genuine \cup {NoImage} /\ (pc' \in InstallPCs => img' \in Genuine)
  BY DEF TypeOK, SetBoot, disk, InstallPCs
<1>6. state' \in States
  BY DEF TypeOK, SetBoot, SetState, disk, States
<1>7. err' \in BOOLEAN
  BY DEF TypeOK, SetBoot, SetState, disk
<1>8. faults' \in 0..MaxFaults
  BY FaultType DEF SetBoot, VbusLost
<1> QED BY <1>1, <1>2, <1>3, <1>4, <1>5, <1>6, <1>7, <1>8 DEF TypeOK

LEMMA TypeRestart == TypeOK /\ Restart => TypeOK'
<1> SUFFICES ASSUME TypeOK, Restart PROVE TypeOK'
  OBVIOUS
<1>1. UNCHANGED <<slot, authRec, ota, newest, status, running, src, state,
                err, confirmReq, workers, conf, exposed, faults, hostWrites>>
  BY DEF Restart, parts, diag
<1>2. file' \in [Names -> Files]
  BY FileValues DEF TypeOK, Restart, Names, parts, diag
<1>3. pc' \in MainPCs
  BY DEF TypeOK, Restart, parts, diag, MainPCs
<1>4. img' \in Genuine \cup {NoImage} /\ (pc' \in InstallPCs => img' \in Genuine)
  BY DEF TypeOK, Restart, parts, diag, InstallPCs
<1> QED BY <1>1, <1>2, <1>3, <1>4 DEF TypeOK

LEMMA TypeUndoPending == TypeOK /\ UndoPending => TypeOK'
<1> SUFFICES ASSUME TypeOK, UndoPending PROVE TypeOK'
  OBVIOUS
<1>1. UNCHANGED <<slot, authRec, ota, newest, status, running, src, state,
                err, confirmReq, workers, conf, exposed, hostWrites>>
  BY DEF UndoPending, parts, diag
<1>2. file' \in [Names -> Files]
  BY MoveType, FileValues DEF TypeOK, UndoPending, Names, parts, diag
<1>3. pc' \in MainPCs
  BY DEF TypeOK, UndoPending, parts, diag, MainPCs
<1>4. img' \in Genuine \cup {NoImage} /\ (pc' \in InstallPCs => img' \in Genuine)
  BY DEF TypeOK, UndoPending, parts, diag, InstallPCs
<1>5. faults' \in 0..MaxFaults
  BY FaultType, MoveType DEF UndoPending, Names
<1> QED BY <1>1, <1>2, <1>3, <1>4, <1>5 DEF TypeOK

LEMMA TypeRejectInput == TypeOK /\ RejectInput => TypeOK'
<1> SUFFICES ASSUME TypeOK, RejectInput PROVE TypeOK'
  OBVIOUS
<1>1. UNCHANGED <<slot, authRec, ota, newest, status, running, src,
                confirmReq, workers, conf, exposed, hostWrites>>
  BY DEF RejectInput, parts, SetState
<1>2. file' \in [Names -> Files]
  BY MoveInputType, FileValues DEF TypeOK, RejectInput, Names, parts
<1>3. pc' \in MainPCs
  BY DEF TypeOK, RejectInput, parts, MainPCs
<1>4. img' \in Genuine \cup {NoImage} /\ (pc' \in InstallPCs => img' \in Genuine)
  BY DEF TypeOK, RejectInput, parts, InstallPCs
<1>5. state' \in States
  BY DEF TypeOK, RejectInput, SetState, parts, States
<1>6. err' \in BOOLEAN
  BY DEF TypeOK, RejectInput, SetState, parts
<1>7. faults' \in 0..MaxFaults
  BY FaultType, MoveInputType DEF RejectInput
<1> QED BY <1>1, <1>2, <1>3, <1>4, <1>5, <1>6, <1>7 DEF TypeOK

LEMMA TypeReport == TypeOK /\ Report => TypeOK'
<1> SUFFICES ASSUME TypeOK, Report PROVE TypeOK'
  OBVIOUS
<1>1. UNCHANGED <<slot, authRec, ota, newest, file, running, src, state,
                err, confirmReq, workers, conf, exposed, hostWrites>>
  BY DEF Report, parts, diag
<1>2. status' \in Statuses
  BY StatusType, StatusValues DEF TypeOK, Report, States, parts, diag
<1>3. pc' \in MainPCs
  BY DEF TypeOK, Report, parts, diag, MainPCs
<1>4. img' \in Genuine \cup {NoImage} /\ (pc' \in InstallPCs => img' \in Genuine)
  BY DEF TypeOK, Report, parts, diag, InstallPCs
<1>5. faults' \in 0..MaxFaults
  BY FaultType, StatusType DEF Report, TypeOK, States
<1> QED BY <1>1, <1>2, <1>3, <1>4, <1>5 DEF TypeOK

LEMMA TypeBeginConfirmation == TypeOK /\ BeginConfirmation => TypeOK'
<1> SUFFICES ASSUME TypeOK, BeginConfirmation PROVE TypeOK'
  OBVIOUS
<1>1. UNCHANGED <<slot, authRec, newest, status, running, src,
                state, err, confirmReq, workers, hostWrites>>
  BY DEF BeginConfirmation, RollBackAndReboot, parts, disk, diag, main
<1>2. ota' \in [OtaSlots -> OtaStates]
  BY DEF TypeOK, BeginConfirmation, RollBackAndReboot, parts, disk, diag, main, OtaStates,
    OtaSlots
<1>3. file' \in [Names -> Files]
  BY FileValues DEF TypeOK, BeginConfirmation, Names, RollBackAndReboot, parts, disk, diag, main
<1>4. pc' \in MainPCs
  BY DEF TypeOK, BeginConfirmation, RollBackAndReboot, parts, disk, diag, main, MainPCs
<1>5. img' \in Genuine \cup {NoImage} /\ (pc' \in InstallPCs => img' \in Genuine)
  BY DEF TypeOK, BeginConfirmation, RollBackAndReboot, parts, disk, diag, main, InstallPCs
<1>6. conf' \in ConfPCs
  BY DEF TypeOK, BeginConfirmation, RollBackAndReboot, parts, disk, diag, main, ConfPCs
<1>7. exposed' \in BOOLEAN
  BY DEF TypeOK, BeginConfirmation, RollBackAndReboot, parts, disk, diag, main
<1>8. faults' \in 0..MaxFaults
  BY FaultType DEF BeginConfirmation
<1> QED BY <1>1, <1>2, <1>3, <1>4, <1>5, <1>6, <1>7, <1>8 DEF TypeOK

LEMMA TypeStartWorkers == TypeOK /\ StartWorkers => TypeOK'
<1> SUFFICES ASSUME TypeOK, StartWorkers PROVE TypeOK'
  OBVIOUS
<1>1. UNCHANGED <<slot, authRec, ota, newest, file, status, running, src,
                state, err, confirmReq, conf, exposed, hostWrites>>
  BY DEF StartWorkers, parts, disk
<1>2. pc' \in MainPCs
  BY DEF TypeOK, StartWorkers, parts, disk, MainPCs
<1>3. img' \in Genuine \cup {NoImage} /\ (pc' \in InstallPCs => img' \in Genuine)
  BY DEF TypeOK, StartWorkers, parts, disk, InstallPCs
<1>4. workers' \in BOOLEAN
  BY DEF TypeOK, StartWorkers, parts, disk
<1>5. faults' \in 0..MaxFaults
  BY FaultType DEF StartWorkers
<1> QED BY <1>1, <1>2, <1>3, <1>4, <1>5 DEF TypeOK

LEMMA TypeOpenGate == TypeOK /\ OpenGate => TypeOK'
<1> SUFFICES ASSUME TypeOK, OpenGate PROVE TypeOK'
  OBVIOUS
<1>1. UNCHANGED <<slot, authRec, ota, newest, file, status, running, src,
                state, err, confirmReq, workers, conf, faults, hostWrites>>
  BY DEF OpenGate, parts, disk, diag
<1>2. pc' \in MainPCs
  BY DEF TypeOK, OpenGate, parts, disk, diag, MainPCs
<1>3. img' \in Genuine \cup {NoImage} /\ (pc' \in InstallPCs => img' \in Genuine)
  BY DEF TypeOK, OpenGate, parts, disk, diag, InstallPCs
<1>4. exposed' \in BOOLEAN
  BY DEF TypeOK, OpenGate, parts, disk, diag
<1> QED BY <1>1, <1>2, <1>3, <1>4 DEF TypeOK

LEMMA TypeExposeRecovery == TypeOK /\ ExposeRecovery => TypeOK'
<1> SUFFICES ASSUME TypeOK, ExposeRecovery PROVE TypeOK'
  OBVIOUS
<1>1. UNCHANGED <<slot, authRec, ota, newest, file, status, running, src,
                state, err, confirmReq, workers, conf, faults, hostWrites>>
  BY DEF ExposeRecovery, parts, disk, diag
<1>2. pc' \in MainPCs
  BY DEF TypeOK, ExposeRecovery, parts, disk, diag, MainPCs
<1>3. img' \in Genuine \cup {NoImage} /\ (pc' \in InstallPCs => img' \in Genuine)
  BY DEF TypeOK, ExposeRecovery, parts, disk, diag, InstallPCs
<1>4. exposed' \in BOOLEAN
  BY DEF TypeOK, ExposeRecovery, parts, disk, diag
<1> QED BY <1>1, <1>2, <1>3, <1>4 DEF TypeOK

LEMMA TypeHostRelease == TypeOK /\ HostRelease => TypeOK'
<1> SUFFICES ASSUME TypeOK, HostRelease PROVE TypeOK'
  OBVIOUS
<1>1. UNCHANGED <<slot, authRec, ota, newest, file, status, running, src,
                state, err, confirmReq, workers, conf, faults, hostWrites>>
  BY DEF HostRelease, parts, disk, diag
<1>2. pc' \in MainPCs
  BY DEF TypeOK, HostRelease, parts, disk, diag, MainPCs
<1>3. img' \in Genuine \cup {NoImage} /\ (pc' \in InstallPCs => img' \in Genuine)
  BY DEF TypeOK, HostRelease, parts, disk, diag, InstallPCs
<1>4. exposed' \in BOOLEAN
  BY DEF TypeOK, HostRelease, parts, disk, diag
<1> QED BY <1>1, <1>2, <1>3, <1>4 DEF TypeOK

LEMMA TypeHostWrite == TypeOK /\ HostWrite => TypeOK'
<1> SUFFICES ASSUME TypeOK, HostWrite PROVE TypeOK'
  OBVIOUS
<1>1. UNCHANGED <<slot, authRec, ota, newest, pc, running, src, img,
                state, err, confirmReq, workers, conf, exposed, faults>>
  BY DEF HostWrite, parts, diag, main
<1>2. file' \in [Names -> Files]
  BY FileValues DEF TypeOK, HostWrite, Names, parts, diag, main
<1>3. status' \in Statuses
  BY StatusType, StatusValues DEF TypeOK, HostWrite, States, parts, diag, main
<1>4. hostWrites' \in 0..MaxHostWrites
  BY ConstantsAssumption DEF TypeOK, HostWrite
<1> QED BY <1>1, <1>2, <1>3, <1>4 DEF TypeOK

LEMMA TypePowerCut == TypeOK /\ PowerCut => TypeOK'
<1> SUFFICES ASSUME TypeOK, PowerCut PROVE TypeOK'
  OBVIOUS
<1>1. UNCHANGED <<slot, authRec, ota, newest, running, src, state,
                err, confirmReq, workers, faults, hostWrites>>
  BY DEF PowerCut, parts, diag
<1>2. file' \in [Names -> Files]
  BY FileValues DEF TypeOK, PowerCut, Names, parts, diag
<1>3. status' \in Statuses
  BY StatusType, StatusValues DEF TypeOK, PowerCut, States, parts, diag
<1>4. pc' \in MainPCs
  BY DEF TypeOK, PowerCut, parts, diag, MainPCs
<1>5. img' \in Genuine \cup {NoImage} /\ (pc' \in InstallPCs => img' \in Genuine)
  BY DEF TypeOK, PowerCut, parts, diag, InstallPCs
<1>6. conf' \in ConfPCs
  BY DEF TypeOK, PowerCut, parts, diag, ConfPCs
<1>7. exposed' \in BOOLEAN
  BY DEF TypeOK, PowerCut, parts, diag
<1> QED BY <1>1, <1>2, <1>3, <1>4, <1>5, <1>6, <1>7 DEF TypeOK

LEMMA TypeBoot == TypeOK /\ Boot => TypeOK'
<1> SUFFICES ASSUME TypeOK, Boot PROVE TypeOK'
  OBVIOUS
<1>1. UNCHANGED <<slot, authRec, newest, file, status,
                conf, exposed, faults, hostWrites>>
  BY DEF Boot, disk
<1>2. ota' \in [OtaSlots -> OtaStates]
  BY DEF TypeOK, Boot, disk, OtaStates, OtaSlots
<1>3. pc' \in MainPCs
  BY DEF TypeOK, Boot, disk, MainPCs
<1>4. running' \in Slots
  BY ActiveType DEF TypeOK, Boot, Slots, OtaStates, OtaSlots
<1>5. src' \in {"flash", "psram"}
  BY DEF TypeOK, Boot, disk
<1>6. img' \in Genuine \cup {NoImage} /\ (pc' \in InstallPCs => img' \in Genuine)
  BY DEF TypeOK, Boot, disk, InstallPCs
<1>7. state' \in States
  BY DEF TypeOK, Boot, disk, States
<1>8. err' \in BOOLEAN
  BY DEF TypeOK, Boot, disk
<1>9. confirmReq' \in BOOLEAN
  BY DEF TypeOK, Boot, disk
<1>10. workers' \in BOOLEAN
  BY DEF TypeOK, Boot, disk
<1> QED BY <1>1, <1>2, <1>3, <1>4, <1>5, <1>6, <1>7, <1>8, <1>9, <1>10 DEF TypeOK

LEMMA TypeConfirmDelay == TypeOK /\ ConfirmDelay => TypeOK'
<1> SUFFICES ASSUME TypeOK, ConfirmDelay PROVE TypeOK'
  OBVIOUS
<1>1. UNCHANGED <<slot, authRec, newest, status, running,
                src, confirmReq, workers, hostWrites>>
  BY DEF ConfirmDelay, RollBackAndReboot, parts, disk, main, diag, SetState
<1>2. ota' \in [OtaSlots -> OtaStates]
  BY DEF TypeOK, ConfirmDelay, RollBackAndReboot, parts, disk, main, diag, OtaStates, OtaSlots
<1>3. file' \in [Names -> Files]
  BY FileValues DEF TypeOK, ConfirmDelay, Names, RollBackAndReboot, parts, disk, main, diag
<1>4. pc' \in MainPCs
  BY DEF TypeOK, ConfirmDelay, RollBackAndReboot, parts, disk, main, diag, MainPCs
<1>5. img' \in Genuine \cup {NoImage} /\ (pc' \in InstallPCs => img' \in Genuine)
  BY DEF TypeOK, ConfirmDelay, RollBackAndReboot, parts, disk, main, diag, InstallPCs
<1>6. state' \in States
  BY DEF TypeOK, ConfirmDelay, RollBackAndReboot, SetState, parts, disk, main, diag, States
<1>7. err' \in BOOLEAN
  BY DEF TypeOK, ConfirmDelay, RollBackAndReboot, SetState, parts, disk, main, diag
<1>8. conf' \in ConfPCs
  BY DEF TypeOK, ConfirmDelay, RollBackAndReboot, parts, disk, main, diag, ConfPCs
<1>9. exposed' \in BOOLEAN
  BY DEF TypeOK, ConfirmDelay, RollBackAndReboot, parts, disk, main, diag
<1>10. faults' \in 0..MaxFaults
  BY FaultType DEF ConfirmDelay
<1> QED BY <1>1, <1>2, <1>3, <1>4, <1>5, <1>6, <1>7, <1>8, <1>9, <1>10 DEF TypeOK

LEMMA TypeConfirmRead == TypeOK /\ ConfirmRead => TypeOK'
<1> SUFFICES ASSUME TypeOK, ConfirmRead PROVE TypeOK'
  OBVIOUS
<1>1. UNCHANGED <<slot, authRec, ota, newest, file, status, pc, running, src,
                img, state, err, confirmReq, workers, exposed, hostWrites>>
  BY DEF ConfirmRead, parts, disk, diag, main
<1>2. conf' \in ConfPCs
  BY DEF TypeOK, ConfirmRead, parts, disk, diag, main, ConfPCs
<1>3. faults' \in 0..MaxFaults
  BY FaultType DEF ConfirmRead, LooksAbsent
<1> QED BY <1>1, <1>2, <1>3 DEF TypeOK

LEMMA TypeConfirmRetire == TypeOK /\ ConfirmRetire => TypeOK'
<1> SUFFICES ASSUME TypeOK, ConfirmRetire PROVE TypeOK'
  OBVIOUS
<1>1. UNCHANGED <<slot, authRec, ota, newest, status, pc, running, src,
                img, state, err, confirmReq, workers, exposed, hostWrites>>
  BY DEF ConfirmRetire, parts, diag, main
<1>2. file' \in [Names -> Files]
  BY MoveType, FileValues DEF TypeOK, ConfirmRetire, Names, parts, diag, main
<1>3. conf' \in ConfPCs
  BY DEF TypeOK, ConfirmRetire, parts, diag, main, ConfPCs
<1>4. faults' \in 0..MaxFaults
  BY FaultType, MoveType DEF ConfirmRetire, Names
<1> QED BY <1>1, <1>2, <1>3, <1>4 DEF TypeOK

LEMMA TypeConfirmReport == TypeOK /\ ConfirmReport => TypeOK'
<1> SUFFICES ASSUME TypeOK, ConfirmReport PROVE TypeOK'
  OBVIOUS
<1>1. UNCHANGED <<slot, authRec, ota, newest, file, pc, running,
                src, img, confirmReq, workers, exposed, hostWrites>>
  BY DEF ConfirmReport, parts, main, SetState
<1>2. status' \in Statuses
  BY StatusType, StatusValues DEF TypeOK, ConfirmReport, States, parts, main
<1>3. state' \in States
  BY DEF TypeOK, ConfirmReport, SetState, parts, main, States
<1>4. err' \in BOOLEAN
  BY DEF TypeOK, ConfirmReport, SetState, parts, main
<1>5. conf' \in ConfPCs
  BY DEF TypeOK, ConfirmReport, parts, main, ConfPCs
<1>6. faults' \in 0..MaxFaults
  BY FaultType, StatusType DEF ConfirmReport, TypeOK, States
<1> QED BY <1>1, <1>2, <1>3, <1>4, <1>5, <1>6 DEF TypeOK

LEMMA TypeConfirmMark == TypeOK /\ ConfirmMark => TypeOK'
<1> SUFFICES ASSUME TypeOK, ConfirmMark PROVE TypeOK'
  OBVIOUS
<1>1. UNCHANGED <<slot, authRec, newest, status, running, src,
                state, err, confirmReq, workers, hostWrites>>
  BY DEF ConfirmMark, RollBackAndReboot, disk, diag, main, parts
<1>2. ota' \in [OtaSlots -> OtaStates]
  BY DEF TypeOK, ConfirmMark, RollBackAndReboot, disk, diag, main, parts, OtaStates, OtaSlots
<1>3. file' \in [Names -> Files]
  BY FileValues DEF TypeOK, ConfirmMark, Names, RollBackAndReboot, disk, diag, main, parts
<1>4. pc' \in MainPCs
  BY DEF TypeOK, ConfirmMark, RollBackAndReboot, disk, diag, main, parts, MainPCs
<1>5. img' \in Genuine \cup {NoImage} /\ (pc' \in InstallPCs => img' \in Genuine)
  BY DEF TypeOK, ConfirmMark, RollBackAndReboot, disk, diag, main, parts, InstallPCs
<1>6. conf' \in ConfPCs
  BY DEF TypeOK, ConfirmMark, RollBackAndReboot, disk, diag, main, parts, ConfPCs
<1>7. exposed' \in BOOLEAN
  BY DEF TypeOK, ConfirmMark, RollBackAndReboot, disk, diag, main, parts
<1>8. faults' \in 0..MaxFaults
  BY FaultType DEF ConfirmMark
<1> QED BY <1>1, <1>2, <1>3, <1>4, <1>5, <1>6, <1>7, <1>8 DEF TypeOK

LEMMA TypeConfirmStatus == TypeOK /\ ConfirmStatus => TypeOK'
<1> SUFFICES ASSUME TypeOK, ConfirmStatus PROVE TypeOK'
  OBVIOUS
<1>1. UNCHANGED <<slot, authRec, ota, newest, file, pc, running,
                src, img, confirmReq, workers, exposed, hostWrites>>
  BY DEF ConfirmStatus, parts, main, SetState
<1>2. status' \in Statuses
  BY StatusType, StatusValues DEF TypeOK, ConfirmStatus, States, parts, main
<1>3. state' \in States
  BY DEF TypeOK, ConfirmStatus, SetState, parts, main, States
<1>4. err' \in BOOLEAN
  BY DEF TypeOK, ConfirmStatus, SetState, parts, main
<1>5. conf' \in ConfPCs
  BY DEF TypeOK, ConfirmStatus, parts, main, ConfPCs
<1>6. faults' \in 0..MaxFaults
  BY FaultType, StatusType DEF ConfirmStatus, TypeOK, States
<1> QED BY <1>1, <1>2, <1>3, <1>4, <1>5, <1>6 DEF TypeOK

LEMMA TypeConfirmRemove == TypeOK /\ ConfirmRemove => TypeOK'
<1> SUFFICES ASSUME TypeOK, ConfirmRemove PROVE TypeOK'
  OBVIOUS
<1>1. UNCHANGED <<slot, authRec, ota, newest, status, pc, running,
                src, img, workers, exposed, hostWrites>>
  BY DEF ConfirmRemove, parts, main, SetState
<1>2. file' \in [Names -> Files]
  BY RemoveType, FileValues DEF TypeOK, ConfirmRemove, Names, parts, main
<1>3. state' \in States
  BY DEF TypeOK, ConfirmRemove, SetState, parts, main, States
<1>4. err' \in BOOLEAN
  BY DEF TypeOK, ConfirmRemove, SetState, parts, main
<1>5. confirmReq' \in BOOLEAN
  BY DEF TypeOK, ConfirmRemove, parts, main
<1>6. conf' \in ConfPCs
  BY DEF TypeOK, ConfirmRemove, parts, main, ConfPCs
<1>7. faults' \in 0..MaxFaults
  BY FaultType, RemoveType DEF ConfirmRemove, Names
<1> QED BY <1>1, <1>2, <1>3, <1>4, <1>5, <1>6, <1>7 DEF TypeOK

LEMMA TypeStep == TypeOK /\ [Next]_vars => TypeOK'
<1>1. ASSUME TypeOK, UNCHANGED vars PROVE TypeOK'
  BY <1>1 DEF TypeOK, vars, parts, disk, diag, main
<1> QED
  BY <1>1,
     TypeProcessUpdate, TypeReconcile, TypeCleanStatus, TypeCleanRemove,
     TypeRetirePending, TypeReportPending, TypeTakeInput, TypeInspectInput,
     TypeOpenInput, TypeEraseTarget, TypeWriteTarget, TypeEraseAuthRecord,
     TypeWriteAuthRecord, TypeMoveConflict, TypeStagePending,
     TypeAnnounceStaged, TypeSetBoot, TypeRestart, TypeUndoPending,
     TypeRejectInput, TypeReport, TypeBeginConfirmation, TypeStartWorkers,
     TypeOpenGate, TypeExposeRecovery, TypeHostRelease, TypeHostWrite,
     TypePowerCut, TypeBoot, TypeConfirmDelay, TypeConfirmRead,
     TypeConfirmRetire, TypeConfirmReport, TypeConfirmMark,
     TypeConfirmStatus, TypeConfirmRemove
  DEF Next, Startup, Transaction, Confirmation, Environment

\* Every variable keeps its type, and while a package is being installed its
\* image is known to be a genuine one (apply_update only gets an image that
\* inspect_image_at accepted).
THEOREM TypeCorrect == Spec => []TypeOK
<1>1. Init => TypeOK
  BY TypeInit
<1>2. TypeOK /\ [Next]_vars => TypeOK'
  BY TypeStep
<1> QED BY <1>1, <1>2, PTL DEF Spec

-----------------------------------------------------------------------------
(* What boots, before and after the steps that change otadata              *)

Up == pc \notin {"off", "restart"}

\* With nothing on trial, a device that is up runs the image that would boot
\* again, and the partition an update writes is another one.
LEMMA NoTrialRunning ==
    ASSUME Inv, Up, OnTrial = {}
    PROVE  /\ running = Active(ota, newest) /\ Fallback = running
           /\ Target \in OtaSlots /\ Target # running
<1>1. newest \in OtaSlots /\ ota \in [OtaSlots -> OtaStates]
  BY DEF Inv, TypeOK
<1>2. running = Active(ota, newest)
  BY DEF Inv, TrialIsNewest, Up
<1>3. \A s \in OtaSlots : ota[s] \notin {"new", "pending"}
  BY DEF OnTrial
<1>4. OtherSlot(newest) \in OtaSlots
  BY DEF OtherSlot, OtaSlots
<1>5. Fallback = Active(ota, newest)
  BY <1>1, <1>3, <1>4 DEF Fallback, Active, Select
<1>6. Target \in OtaSlots /\ Target # running
  BY DEF Target, OtherSlot, OtaSlots
<1> QED BY <1>2, <1>5, <1>6

\* A trial on a device that is up is the running image, on its first boot.
LEMMA TrialRunning ==
    ASSUME Inv, Up, OnTrial # {}
    PROVE  /\ running = newest /\ OnTrial = {newest} /\ newest \in OtaSlots
           /\ ota[newest] = "pending" /\ PendingVerify
<1>1. newest \in OtaSlots
  BY DEF Inv, TypeOK
<1>2. OnTrial = {newest}
  BY DEF Inv, TrialIsNewest
<1>3. ota[newest] = "pending"
  BY <1>2 DEF Inv, TrialIsNewest, OnTrial, Up
<1>4. running = newest
  BY <1>3 DEF Inv, TrialIsNewest, Up, Active, Select
<1> QED BY <1>1, <1>2, <1>3, <1>4 DEF PendingVerify

LEMMA NotPendingNoTrial == Inv /\ Up /\ ~PendingVerify => OnTrial = {}
BY TrialRunning

\* Rolling back leaves the fallback as what boots.
LEMMA RollBackEffect ==
    ASSUME Inv, Up, OnTrial # {}, newest' = newest,
           ota' = [ota EXCEPT ![running] = "aborted"]
    PROVE  OnTrial' = {} /\ Active(ota', newest') = Fallback /\ Fallback' = Fallback
<1>1. ota \in [OtaSlots -> OtaStates] /\ newest \in OtaSlots
  BY DEF Inv, TypeOK
<1>2. running = newest /\ OnTrial = {newest} /\ ota[newest] = "pending"
  BY TrialRunning
<1>3. /\ OtherSlot(newest) \in OtaSlots \ {newest}
      /\ OtaSlots = {newest, OtherSlot(newest)}
  BY <1>1 DEF OtherSlot, OtaSlots
<1>4. ota'[newest] = "aborted" /\ ota'[OtherSlot(newest)] = ota[OtherSlot(newest)]
  BY <1>1, <1>2, <1>3
<1>5. ota[OtherSlot(newest)] \notin {"new", "pending"}
  BY <1>2, <1>3 DEF OnTrial
<1>6. OnTrial' = {}
  BY <1>3, <1>4, <1>5 DEF OnTrial
<1> QED BY <1>2, <1>3, <1>4, <1>5, <1>6 DEF Active, Fallback, Select

\* Confirming makes the image that was on trial the fallback.
LEMMA ConfirmEffect ==
    ASSUME Inv, Up, OnTrial # {}, newest' = newest,
           ota' = [ota EXCEPT ![running] = "valid"]
    PROVE  /\ OnTrial' = {} /\ Active(ota', newest') = newest
           /\ Active(ota, newest) = newest /\ Fallback' = newest
           /\ ota'[newest] = "valid"
<1>1. ota \in [OtaSlots -> OtaStates] /\ newest \in OtaSlots
  BY DEF Inv, TypeOK
<1>2. running = newest /\ OnTrial = {newest} /\ ota[newest] = "pending"
  BY TrialRunning
<1>3. ota'[newest] = "valid" /\ \A s \in OtaSlots \ {newest} : ota'[s] = ota[s]
  BY <1>1, <1>2
<1>4. OnTrial' = {}
  BY <1>2, <1>3 DEF OnTrial
<1> QED BY <1>2, <1>3, <1>4 DEF Active, Fallback, Select

\* The commit puts the written partition on trial and keeps the fallback.
LEMMA CommitEffect ==
    ASSUME Inv, Up, OnTrial = {}, newest' = Target,
           ota' = [ota EXCEPT ![Target] = "new"]
    PROVE  OnTrial' = {Target} /\ Active(ota', newest') = Target /\ Fallback' = Fallback
<1>1. ota \in [OtaSlots -> OtaStates] /\ newest \in OtaSlots
  BY DEF Inv, TypeOK
<1>2. running = Active(ota, newest) /\ Fallback = running /\ Target \in OtaSlots
  BY NoTrialRunning
<1>3. ota'[Target] = "new" /\ \A s \in OtaSlots \ {Target} : ota'[s] = ota[s]
  BY <1>1, <1>2
<1>4. OnTrial' = {Target}
  BY <1>2, <1>3 DEF OnTrial
<1>5. Active(ota', newest') = Target
  BY <1>3 DEF Active, Select
<1>6. /\ OtherSlot(Target) \in OtaSlots \ {Target}
      /\ OtaSlots = {Target, OtherSlot(Target)}
      /\ OtherSlot(OtherSlot(Target)) = Target
      /\ running \in OtaSlots => OtherSlot(Target) = running
      /\ running \notin OtaSlots => running = "factory"
      /\ "factory" \notin OtaSlots
  BY <1>2 DEF Target, OtherSlot, OtaSlots, Active, Select, Inv, TypeOK, Slots
<1>7. Fallback' = IF ota[OtherSlot(Target)] = "valid" THEN OtherSlot(Target)
                  ELSE "factory"
  BY <1>3, <1>6 DEF Fallback, Select
<1>8. CASE running \in OtaSlots
  <2>1. Fallback = running /\ running # "factory"
    BY <1>2, <1>6, <1>8
  <2>2. ota[running] = "valid"
    BY <2>1 DEF Fallback, Select
  <2> QED BY <1>2, <1>4, <1>5, <1>6, <1>7, <1>8, <2>2
<1>9. CASE running \notin OtaSlots
  <2>1. \A s \in OtaSlots : ota[s] # "valid"
    <3>1. OtaSlots = {newest, OtherSlot(newest)}
      BY <1>1 DEF OtaSlots, OtherSlot
    <3>2. Fallback \notin OtaSlots
      BY <1>2, <1>9
    <3>3. newest \in OtaSlots /\ OtherSlot(newest) \in OtaSlots
      BY <1>1, <3>1
    <3> QED BY <3>1, <3>2, <3>3 DEF Fallback, Select
  <2> QED BY <1>2, <1>4, <1>5, <1>6, <1>7, <1>9, <2>1
<1> QED BY <1>8, <1>9

\* The bootloader starts what it selected; a trial is put on its first boot or
\* dropped for the fallback.
LEMMA BootEffect ==
    ASSUME Inv, Boot
    PROVE  /\ running' = Active(ota', newest') /\ Fallback' = Fallback
           /\ newest' = newest /\ ota'[newest] # "new"
           /\ OnTrial' \in {{}, OnTrial} /\ OnTrial' \subseteq {newest}
           /\ Active(ota', newest') \in {Active(ota, newest), Fallback}
           /\ ota[newest] = "pending" => OnTrial' = {}
           /\ ota[newest] # "pending" => OnTrial' = OnTrial
<1> DEFINE o == OtherSlot(newest)
<1> DEFINE dropped == [s \in OtaSlots |-> IF ota[s] = "pending" THEN "aborted"
                                          ELSE ota[s]]
<1> DEFINE selected == Active(dropped, newest)
<1>1. ota \in [OtaSlots -> OtaStates] /\ newest \in OtaSlots /\ slot[Fallback] \in Genuine
      /\ slot[Active(ota, newest)] \in Genuine
  BY DEF Inv, TypeOK, BootChoiceSound
<1>2. /\ o \in OtaSlots /\ o # newest /\ OtaSlots = {newest, o}
      /\ "factory" \notin OtaSlots
  BY <1>1 DEF OtherSlot, OtaSlots
<1>3. /\ newest' = newest /\ slot' = slot
      /\ ota' = [s \in OtaSlots |-> IF s = selected /\ dropped[s] = "new"
                                    THEN "pending" ELSE dropped[s]]
      /\ running' = IF slot[selected] = Garbage THEN "factory" ELSE selected
  BY DEF Boot
<1>4. ota[o] \notin {"new", "pending"}
  BY <1>2 DEF Inv, TrialIsNewest, OnTrial
<1>5. dropped[o] = ota[o] /\ ota'[o] = ota[o]
  BY <1>2, <1>3, <1>4
<1>6. Garbage \notin Genuine
  BY ConstantsAssumption
<1>7. CASE ota[newest] = "pending"
  <2>1. dropped[newest] = "aborted" /\ ota'[newest] = "aborted"
    BY <1>1, <1>3, <1>7
  <2>2. selected = Fallback
    BY <1>4, <1>5, <1>7, <2>1 DEF Active, Fallback, Select
  <2>3. Fallback' = Fallback /\ Active(ota', newest') = Fallback
    BY <1>3, <1>4, <1>5, <1>7, <2>1 DEF Active, Fallback, Select
  <2>4. OnTrial' = {}
    BY <1>2, <1>4, <1>5, <2>1 DEF OnTrial
  <2> QED BY <1>1, <1>3, <1>6, <1>7, <2>1, <2>2, <2>3, <2>4
<1>8. CASE ota[newest] = "new"
  <2>1. dropped[newest] = "new" /\ selected = newest
    BY <1>1, <1>8 DEF Active, Select
  <2>2. ota'[newest] = "pending"
    BY <1>1, <1>3, <2>1
  <2>3. Fallback' = Fallback /\ Active(ota', newest') = newest /\ Active(ota, newest) = newest
    BY <1>3, <1>5, <1>8, <2>2 DEF Active, Fallback, Select
  <2>4. OnTrial' = {newest} /\ OnTrial = {newest}
    BY <1>2, <1>4, <1>5, <1>8, <2>2 DEF OnTrial
  <2> QED BY <1>1, <1>3, <1>6, <1>8, <2>1, <2>2, <2>3, <2>4
<1>9. CASE ota[newest] \notin {"new", "pending"}
  <2>1. dropped[newest] = ota[newest] /\ ota'[newest] = ota[newest]
    BY <1>1, <1>3, <1>9
  <2>2. selected = Active(ota, newest)
    BY <1>5, <2>1 DEF Active, Select
  <2>3. Fallback' = Fallback /\ Active(ota', newest') = Active(ota, newest)
    BY <1>3, <1>5, <2>1 DEF Active, Fallback, Select
  <2>4. OnTrial' = {} /\ OnTrial = {}
    BY <1>2, <1>4, <1>5, <1>9, <2>1 DEF OnTrial
  <2> QED BY <1>1, <1>3, <1>6, <1>9, <2>1, <2>2, <2>3, <2>4
<1> QED BY <1>7, <1>8, <1>9

\* Writing the inactive partition, with nothing on trial, cannot change what
\* boots now or later.
LEMMA InactiveWrite ==
    ASSUME Inv, Up, OnTrial = {}, UNCHANGED <<ota, newest>>,
           \A s \in Slots \ {Target} : slot'[s] = slot[s],
           \A s \in OtaSlots \ {Target} : authRec'[s] = authRec[s]
    PROVE  FactoryKept' /\ BootChoiceSound'
<1>1. /\ running = Active(ota, newest) /\ Fallback = running
      /\ Target \in OtaSlots /\ Target # running
  BY NoTrialRunning
<1>2. running \in Slots /\ "factory" \in Slots \ {Target} /\ OtaSlots \subseteq Slots
  BY <1>1 DEF Inv, TypeOK, Slots, OtaSlots
<1>3. Active(ota', newest') = running /\ Fallback' = running
  BY <1>1 DEF Fallback
<1> QED BY <1>1, <1>2, <1>3 DEF Inv, FactoryKept, BootChoiceSound

\* The budget of failing calls only shrinks.
LEMMA FaultsSpent == [Next]_vars => UNCHANGED faults \/ Fails
<1> SUFFICES ASSUME [Next]_vars PROVE UNCHANGED faults \/ Fails
  OBVIOUS
<1>1. CASE Transaction
  <2>1. CASE ProcessUpdate
    BY <2>1 DEF ProcessUpdate, NoFault
  <2>2. CASE Reconcile
    BY <2>2 DEF Reconcile, LooksAbsent, NoFault
  <2>3. CASE CleanStatus
    BY <2>3 DEF CleanStatus, WriteDone, WriteFails, NoFault
  <2>4. CASE CleanRemove
    BY <2>4 DEF CleanRemove, RemoveDone, RemoveFails, NoFault
  <2>5. CASE RetirePending
    BY <2>5 DEF RetirePending, MoveDone, MoveFails, NoFault
  <2>6. CASE ReportPending
    BY <2>6 DEF ReportPending, WriteDone, WriteFails, NoFault
  <2>7. CASE TakeInput
    BY <2>7 DEF TakeInput, LooksAbsent, NoFault
  <2>8. CASE InspectInput
    BY <2>8 DEF InspectInput, NoFault
  <2>9. CASE OpenInput
    BY <2>9 DEF OpenInput, WriteDone, WriteFails, NoFault
  <2>10. CASE EraseTarget
    BY <2>10 DEF EraseTarget, NoFault
  <2>11. CASE WriteTarget
    BY <2>11 DEF WriteTarget, NoFault, VbusLost
  <2>12. CASE EraseAuthRecord
    BY <2>12 DEF EraseAuthRecord, NoFault, VbusLost
  <2>13. CASE WriteAuthRecord
    BY <2>13 DEF WriteAuthRecord, NoFault
  <2>14. CASE MoveConflict
    BY <2>14 DEF MoveConflict, LooksAbsent, NoFault, MoveDone, MoveFails
  <2>15. CASE StagePending
    BY <2>15 DEF StagePending, LooksAbsent, NoFault, MoveDone, MoveFails
  <2>16. CASE AnnounceStaged
    BY <2>16 DEF AnnounceStaged, WriteDone, WriteFails, NoFault
  <2>17. CASE SetBoot
    BY <2>17 DEF SetBoot, NoFault, VbusLost
  <2>18. CASE Restart
    BY <2>18 DEF Restart
  <2>19. CASE UndoPending
    BY <2>19 DEF UndoPending, MoveDone, MoveFails, NoFault
  <2>20. CASE RejectInput
    BY <2>20 DEF RejectInput, MoveInputToBad, NoFault, MoveDone, MoveFails
  <2>21. CASE Report
    BY <2>21 DEF Report, WriteDone, WriteFails, NoFault
  <2> QED BY <1>1, <2>1, <2>2, <2>3, <2>4, <2>5, <2>6, <2>7, <2>8, <2>9, <2>10, <2>11,
          <2>12, <2>13, <2>14, <2>15, <2>16, <2>17, <2>18, <2>19, <2>20, <2>21 DEF Transaction
<1>2. CASE Startup
  BY <1>2, <1>1 DEF Startup, BeginConfirmation, NoFault, StartWorkers, OpenGate,
    ExposeRecovery
<1>3. CASE Confirmation
  BY <1>3 DEF Confirmation, ConfirmDelay, NoFault, ConfirmRead, LooksAbsent, ConfirmRetire, MoveDone,
    MoveFails, ConfirmReport, WriteDone, WriteFails, ConfirmMark, ConfirmStatus,
    ConfirmRemove, RemoveDone, RemoveFails
<1>4. CASE Environment \/ Boot
  BY <1>4 DEF Environment, PowerCut, HostWrite, HostRelease, Boot
<1>5. CASE UNCHANGED vars
  BY <1>5 DEF vars
<1> QED BY <1>1, <1>2, <1>3, <1>4, <1>5 DEF Next

\* A step after which no call has failed yet follows a state of which that is
\* true, and is itself no failing call.
FailureLasts == NoFailureYet' => NoFailureYet /\ ~Fails
LEMMA FailureRemains == TypeOK /\ [Next]_vars => FailureLasts
BY FaultsSpent, ConstantsAssumption DEF FailureLasts, NoFailureYet, Fails, TypeOK

-----------------------------------------------------------------------------
(* Every action keeps the invariant: first what the action leaves alone,   *)
(* then one step per part of Inv that mentions something it changes.       *)


LEMMA InvProcessUpdate == Inv /\ FailureLasts /\ ProcessUpdate => Inv'
<1> SUFFICES ASSUME Inv, NoFailureYet' => NoFailureYet /\ ~Fails, ProcessUpdate PROVE Inv'
  BY DEF FailureLasts
<1>1. TypeOK'
  BY TypeProcessUpdate DEF Inv
<1>2. UNCHANGED <<slot, authRec, ota, newest, file, status,
                running, src, conf, exposed>>
  BY DEF ProcessUpdate, SetState, parts, disk
<1>3. OnTrial' = OnTrial
  BY <1>2 DEF OnTrial
<1>4. /\ FactoryKept' /\ BootChoiceSound' /\ NoInputBehindTrial'
      /\ ConfirmedMeansDecided'
  BY <1>2, <1>3 DEF Inv, FactoryKept, BootChoiceSound, Fallback, NoInputBehindTrial,
         ConfirmedMeansDecided
<1>5. TrialIsNewest'
  BY <1>2, <1>3 DEF Inv, TrialIsNewest, ProcessUpdate, parts, disk, TypeOK
<1>6. NoTrialInTransaction'
  <2>1. ~PendingVerify => OnTrial = {}
    BY NotPendingNoTrial DEF ProcessUpdate, Up
  <2> QED BY <1>3, <2>1 DEF ProcessUpdate, NoTrialInTransaction, TransactionPCs,
         InstallPCs
<1>7. InstallOrder'
  BY <1>2, <1>3 DEF Inv, InstallOrder, ProcessUpdate, parts, disk, Target,
         InstallPCs, TypeOK
<1>8. ConfirmationOrder'
  <2>1. PendingVerify <=> OnTrial # {}
    BY NotPendingNoTrial DEF ProcessUpdate, Up, PendingVerify, OnTrial
  <2>2. conf = "none" /\ ~exposed
    BY DEF Inv, TypeOK, ConfirmationOrder, ProcessUpdate
  <2>3. \/ pc' = "processed" /\ confirmReq' = TRUE /\ OnTrial # {}
        \/ pc' \in {"processed", "reconcile"} /\ OnTrial = {} /\ confirmReq' = confirmReq
    BY <2>1 DEF ProcessUpdate
  <2>4. confirmReq => OnTrial # {}
    BY <2>2 DEF Inv, ConfirmationOrder, ProcessUpdate
  <2> QED BY <1>2, <1>3, <2>2, <2>3, <2>4 DEF ConfirmationOrder, Verifying
<1> QED BY <1>1, <1>4, <1>5, <1>6, <1>7, <1>8 DEF Inv

LEMMA InvReconcile == Inv /\ FailureLasts /\ Reconcile => Inv'
<1> SUFFICES ASSUME Inv, NoFailureYet' => NoFailureYet /\ ~Fails, Reconcile PROVE Inv'
  BY DEF FailureLasts
<1>1. TypeOK'
  BY TypeReconcile DEF Inv
<1>2. UNCHANGED <<slot, authRec, ota, newest, file, status, running,
                src, img, confirmReq, conf, exposed>>
  BY DEF Reconcile, SetState, parts, disk
<1>3. OnTrial' = OnTrial
  BY <1>2 DEF OnTrial
<1>4. /\ FactoryKept' /\ BootChoiceSound' /\ NoInputBehindTrial'
      /\ ConfirmedMeansDecided'
  BY <1>2, <1>3 DEF Inv, FactoryKept, BootChoiceSound, Fallback, NoInputBehindTrial,
         ConfirmedMeansDecided
<1>5. TrialIsNewest'
  BY <1>2, <1>3 DEF Inv, TrialIsNewest, Reconcile, parts, disk, TypeOK
<1>6. NoTrialInTransaction'
  BY <1>2, <1>3 DEF Inv, NoTrialInTransaction, Reconcile, parts, disk,
         TransactionPCs, InstallPCs, TypeOK
<1>7. InstallOrder'
  BY <1>2, <1>3 DEF Inv, InstallOrder, Reconcile, parts, disk, Target, InstallPCs,
         TypeOK
<1>8. ConfirmationOrder'
  BY <1>2, <1>3 DEF Inv, ConfirmationOrder, Reconcile, parts, disk, TransactionPCs,
         InstallPCs, NoTrialInTransaction, Verifying, TypeOK
<1> QED BY <1>1, <1>4, <1>5, <1>6, <1>7, <1>8 DEF Inv

LEMMA InvCleanStatus == Inv /\ FailureLasts /\ CleanStatus => Inv'
<1> SUFFICES ASSUME Inv, NoFailureYet' => NoFailureYet /\ ~Fails, CleanStatus PROVE Inv'
  BY DEF FailureLasts
<1>1. TypeOK'
  BY TypeCleanStatus DEF Inv
<1>2. UNCHANGED <<slot, authRec, ota, newest, file, running,
                src, img, confirmReq, conf, exposed>>
  BY DEF CleanStatus, SetState, parts
<1>3. OnTrial' = OnTrial
  BY <1>2 DEF OnTrial
<1>4. FactoryKept' /\ BootChoiceSound' /\ NoInputBehindTrial'
  BY <1>2, <1>3 DEF Inv, FactoryKept, BootChoiceSound, Fallback, NoInputBehindTrial
<1>5. TrialIsNewest'
  BY <1>2, <1>3 DEF Inv, TrialIsNewest, CleanStatus, parts, TypeOK
<1>6. NoTrialInTransaction'
  BY <1>2, <1>3 DEF Inv, NoTrialInTransaction, CleanStatus, parts, TransactionPCs,
         InstallPCs, TypeOK
<1>7. InstallOrder'
  BY <1>2, <1>3 DEF Inv, InstallOrder, CleanStatus, parts, Target, InstallPCs,
         WriteDone, WriteFails, Status, NoStatus, TypeOK
<1>8. ConfirmationOrder'
  BY <1>2, <1>3 DEF Inv, ConfirmationOrder, CleanStatus, parts, TransactionPCs,
         InstallPCs, NoTrialInTransaction, Verifying, TypeOK
<1>9. ConfirmedMeansDecided'
  <2>1. OnTrial = {}
    BY DEF Inv, CleanStatus, NoTrialInTransaction, TransactionPCs, InstallPCs
  <2> QED BY <1>3, <2>1 DEF ConfirmedMeansDecided
<1> QED BY <1>1, <1>4, <1>5, <1>6, <1>7, <1>8, <1>9 DEF Inv

LEMMA InvCleanRemove == Inv /\ FailureLasts /\ CleanRemove => Inv'
<1> SUFFICES ASSUME Inv, NoFailureYet' => NoFailureYet /\ ~Fails, CleanRemove PROVE Inv'
  BY DEF FailureLasts
<1>1. TypeOK'
  BY TypeCleanRemove DEF Inv
<1>2. UNCHANGED <<slot, authRec, ota, newest, status, running,
                src, img, confirmReq, conf, exposed>>
  BY DEF CleanRemove, SetState, parts
<1>3. OnTrial' = OnTrial
  BY <1>2 DEF OnTrial
<1>4. FactoryKept' /\ BootChoiceSound' /\ ConfirmedMeansDecided'
  BY <1>2, <1>3 DEF Inv, FactoryKept, BootChoiceSound, Fallback, ConfirmedMeansDecided
<1>5. TrialIsNewest'
  BY <1>2, <1>3 DEF Inv, TrialIsNewest, CleanRemove, parts, TypeOK
<1>6. NoTrialInTransaction'
  BY <1>2, <1>3 DEF Inv, NoTrialInTransaction, CleanRemove, parts, TransactionPCs,
         InstallPCs, TypeOK
<1>7. InstallOrder'
  BY <1>2, <1>3 DEF Inv, InstallOrder, CleanRemove, parts, Target, InstallPCs,
         RemoveDone, RemoveFails, Names, TypeOK
<1>8. ConfirmationOrder'
  BY <1>2, <1>3 DEF Inv, ConfirmationOrder, CleanRemove, parts, TransactionPCs,
         InstallPCs, NoTrialInTransaction, Verifying, TypeOK
<1>9. NoInputBehindTrial'
  BY <1>2, <1>3 DEF Inv, NoInputBehindTrial, CleanRemove, parts, RemoveDone,
         RemoveFails, Names, TypeOK
<1> QED BY <1>1, <1>4, <1>5, <1>6, <1>7, <1>8, <1>9 DEF Inv

LEMMA InvRetirePending == Inv /\ FailureLasts /\ RetirePending => Inv'
<1> SUFFICES ASSUME Inv, NoFailureYet' => NoFailureYet /\ ~Fails, RetirePending PROVE Inv'
  BY DEF FailureLasts
<1>1. TypeOK'
  BY TypeRetirePending DEF Inv
<1>2. UNCHANGED <<slot, authRec, ota, newest, status, running,
                src, img, confirmReq, conf, exposed>>
  BY DEF RetirePending, parts, diag
<1>3. OnTrial' = OnTrial
  BY <1>2 DEF OnTrial
<1>4. FactoryKept' /\ BootChoiceSound' /\ ConfirmedMeansDecided'
  BY <1>2, <1>3 DEF Inv, FactoryKept, BootChoiceSound, Fallback, ConfirmedMeansDecided
<1>5. TrialIsNewest'
  BY <1>2, <1>3 DEF Inv, TrialIsNewest, RetirePending, parts, diag, TypeOK
<1>6. NoTrialInTransaction'
  BY <1>2, <1>3 DEF Inv, NoTrialInTransaction, RetirePending, parts, diag,
         TransactionPCs, InstallPCs, TypeOK
<1>7. InstallOrder'
  BY <1>2, <1>3 DEF Inv, InstallOrder, RetirePending, parts, diag, Target,
         InstallPCs, MoveDone, MoveFails, Names, TypeOK
<1>8. ConfirmationOrder'
  BY <1>2, <1>3 DEF Inv, ConfirmationOrder, RetirePending, parts, diag,
         TransactionPCs, InstallPCs, NoTrialInTransaction, Verifying, TypeOK
<1>9. NoInputBehindTrial'
  BY <1>2, <1>3 DEF Inv, NoInputBehindTrial, RetirePending, parts, diag, MoveDone,
         MoveFails, Names, TypeOK
<1> QED BY <1>1, <1>4, <1>5, <1>6, <1>7, <1>8, <1>9 DEF Inv

LEMMA InvReportPending == Inv /\ FailureLasts /\ ReportPending => Inv'
<1> SUFFICES ASSUME Inv, NoFailureYet' => NoFailureYet /\ ~Fails, ReportPending PROVE Inv'
  BY DEF FailureLasts
<1>1. TypeOK'
  BY TypeReportPending DEF Inv
<1>2. UNCHANGED <<slot, authRec, ota, newest, file, running,
                src, img, confirmReq, conf, exposed>>
  BY DEF ReportPending, parts, diag
<1>3. OnTrial' = OnTrial
  BY <1>2 DEF OnTrial
<1>4. FactoryKept' /\ BootChoiceSound' /\ NoInputBehindTrial'
  BY <1>2, <1>3 DEF Inv, FactoryKept, BootChoiceSound, Fallback, NoInputBehindTrial
<1>5. TrialIsNewest'
  BY <1>2, <1>3 DEF Inv, TrialIsNewest, ReportPending, parts, diag, TypeOK
<1>6. NoTrialInTransaction'
  BY <1>2, <1>3 DEF Inv, NoTrialInTransaction, ReportPending, parts, diag,
         TransactionPCs, InstallPCs, TypeOK
<1>7. InstallOrder'
  BY <1>2, <1>3 DEF Inv, InstallOrder, ReportPending, parts, diag, Target,
         InstallPCs, WriteDone, WriteFails, Status, NoStatus, TypeOK
<1>8. ConfirmationOrder'
  BY <1>2, <1>3 DEF Inv, ConfirmationOrder, ReportPending, parts, diag,
         TransactionPCs, InstallPCs, NoTrialInTransaction, Verifying, TypeOK
<1>9. ConfirmedMeansDecided'
  <2>1. OnTrial = {}
    BY DEF Inv, ReportPending, NoTrialInTransaction, TransactionPCs, InstallPCs
  <2> QED BY <1>3, <2>1 DEF ConfirmedMeansDecided
<1> QED BY <1>1, <1>4, <1>5, <1>6, <1>7, <1>8, <1>9 DEF Inv

LEMMA InvTakeInput == Inv /\ FailureLasts /\ TakeInput => Inv'
<1> SUFFICES ASSUME Inv, NoFailureYet' => NoFailureYet /\ ~Fails, TakeInput PROVE Inv'
  BY DEF FailureLasts
<1>1. TypeOK'
  BY TypeTakeInput DEF Inv
<1>2. UNCHANGED <<slot, authRec, ota, newest, file, status, running,
                src, img, confirmReq, conf, exposed>>
  BY DEF TakeInput, SetState, parts, disk
<1>3. OnTrial' = OnTrial
  BY <1>2 DEF OnTrial
<1>4. /\ FactoryKept' /\ BootChoiceSound' /\ NoInputBehindTrial'
      /\ ConfirmedMeansDecided'
  BY <1>2, <1>3 DEF Inv, FactoryKept, BootChoiceSound, Fallback, NoInputBehindTrial,
         ConfirmedMeansDecided
<1>5. TrialIsNewest'
  BY <1>2, <1>3 DEF Inv, TrialIsNewest, TakeInput, parts, disk, TypeOK
<1>6. NoTrialInTransaction'
  BY <1>2, <1>3 DEF Inv, NoTrialInTransaction, TakeInput, parts, disk,
         TransactionPCs, InstallPCs, TypeOK
<1>7. InstallOrder'
  BY <1>2, <1>3 DEF Inv, InstallOrder, TakeInput, parts, disk, Target, InstallPCs,
         TypeOK
<1>8. ConfirmationOrder'
  BY <1>2, <1>3 DEF Inv, ConfirmationOrder, TakeInput, parts, disk, TransactionPCs,
         InstallPCs, NoTrialInTransaction, Verifying, TypeOK
<1> QED BY <1>1, <1>4, <1>5, <1>6, <1>7, <1>8 DEF Inv

LEMMA InvInspectInput == Inv /\ FailureLasts /\ InspectInput => Inv'
<1> SUFFICES ASSUME Inv, NoFailureYet' => NoFailureYet /\ ~Fails, InspectInput PROVE Inv'
  BY DEF FailureLasts
<1>1. TypeOK'
  BY TypeInspectInput DEF Inv
<1>2. UNCHANGED <<slot, authRec, ota, newest, file, status,
                running, src, confirmReq, conf, exposed>>
  BY DEF InspectInput, SetState, parts, disk
<1>3. OnTrial' = OnTrial
  BY <1>2 DEF OnTrial
<1>4. /\ FactoryKept' /\ BootChoiceSound' /\ NoInputBehindTrial'
      /\ ConfirmedMeansDecided'
  BY <1>2, <1>3 DEF Inv, FactoryKept, BootChoiceSound, Fallback, NoInputBehindTrial,
         ConfirmedMeansDecided
<1>5. TrialIsNewest'
  BY <1>2, <1>3 DEF Inv, TrialIsNewest, InspectInput, parts, disk, TypeOK
<1>6. NoTrialInTransaction'
  BY <1>2, <1>3 DEF Inv, NoTrialInTransaction, InspectInput, parts, disk,
         TransactionPCs, InstallPCs, TypeOK
<1>7. InstallOrder'
  BY <1>2, <1>3 DEF Inv, InstallOrder, InspectInput, parts, disk, Target,
         InstallPCs, TypeOK
<1>8. ConfirmationOrder'
  BY <1>2, <1>3 DEF Inv, ConfirmationOrder, InspectInput, parts, disk,
         TransactionPCs, InstallPCs, NoTrialInTransaction, Verifying, TypeOK
<1> QED BY <1>1, <1>4, <1>5, <1>6, <1>7, <1>8 DEF Inv

LEMMA InvOpenInput == Inv /\ FailureLasts /\ OpenInput => Inv'
<1> SUFFICES ASSUME Inv, NoFailureYet' => NoFailureYet /\ ~Fails, OpenInput PROVE Inv'
  BY DEF FailureLasts
<1>1. TypeOK'
  BY TypeOpenInput DEF Inv
<1>2. UNCHANGED <<slot, authRec, ota, newest, file, running,
                src, img, confirmReq, conf, exposed>>
  BY DEF OpenInput, SetState, parts
<1>3. OnTrial' = OnTrial
  BY <1>2 DEF OnTrial
<1>4. FactoryKept' /\ BootChoiceSound' /\ NoInputBehindTrial'
  BY <1>2, <1>3 DEF Inv, FactoryKept, BootChoiceSound, Fallback, NoInputBehindTrial
<1>5. TrialIsNewest'
  BY <1>2, <1>3 DEF Inv, TrialIsNewest, OpenInput, parts, TypeOK
<1>6. NoTrialInTransaction'
  BY <1>2, <1>3 DEF Inv, NoTrialInTransaction, OpenInput, parts, TransactionPCs,
         InstallPCs, TypeOK
<1>7. InstallOrder'
  BY <1>2, <1>3 DEF Inv, InstallOrder, OpenInput, parts, Target, InstallPCs,
         WriteDone, WriteFails, Status, NoStatus, TypeOK
<1>8. ConfirmationOrder'
  BY <1>2, <1>3 DEF Inv, ConfirmationOrder, OpenInput, parts, TransactionPCs,
         InstallPCs, NoTrialInTransaction, Verifying, TypeOK
<1>9. ConfirmedMeansDecided'
  <2>1. OnTrial = {}
    BY DEF Inv, OpenInput, NoTrialInTransaction, TransactionPCs, InstallPCs
  <2> QED BY <1>3, <2>1 DEF ConfirmedMeansDecided
<1> QED BY <1>1, <1>4, <1>5, <1>6, <1>7, <1>8, <1>9 DEF Inv

LEMMA InvEraseTarget == Inv /\ FailureLasts /\ EraseTarget => Inv'
<1> SUFFICES ASSUME Inv, NoFailureYet' => NoFailureYet /\ ~Fails, EraseTarget PROVE Inv'
  BY DEF FailureLasts
<1>1. TypeOK'
  BY TypeEraseTarget DEF Inv
<1>2. UNCHANGED <<authRec, ota, newest, file, status, running,
                src, img, confirmReq, conf, exposed>>
  BY DEF EraseTarget, disk, diag
<1>3. OnTrial' = OnTrial
  BY <1>2 DEF OnTrial
<1>4. NoInputBehindTrial' /\ ConfirmedMeansDecided'
  BY <1>2, <1>3 DEF Inv, NoInputBehindTrial, ConfirmedMeansDecided
<1>5. FactoryKept'
  <2>1. OnTrial = {} /\ Up
    BY DEF Inv, EraseTarget, NoTrialInTransaction, TransactionPCs, InstallPCs, Up
  <2>2. /\ \A s \in Slots \ {Target} : slot'[s] = slot[s]
        /\ \A s \in OtaSlots \ {Target} : authRec'[s] = authRec[s]
    BY <1>2 DEF Inv, TypeOK, EraseTarget
  <2> QED BY <1>2, <2>1, <2>2, InactiveWrite
<1>6. BootChoiceSound'
  <2>1. OnTrial = {} /\ Up
    BY DEF Inv, EraseTarget, NoTrialInTransaction, TransactionPCs, InstallPCs, Up
  <2>2. /\ \A s \in Slots \ {Target} : slot'[s] = slot[s]
        /\ \A s \in OtaSlots \ {Target} : authRec'[s] = authRec[s]
    BY <1>2 DEF Inv, TypeOK, EraseTarget
  <2> QED BY <1>2, <2>1, <2>2, InactiveWrite
<1>7. TrialIsNewest'
  BY <1>2, <1>3 DEF Inv, TrialIsNewest, EraseTarget, disk, diag, TypeOK
<1>8. NoTrialInTransaction'
  BY <1>2, <1>3 DEF Inv, NoTrialInTransaction, EraseTarget, disk, diag,
         TransactionPCs, InstallPCs, TypeOK
<1>9. InstallOrder'
  BY <1>2, <1>3 DEF Inv, InstallOrder, EraseTarget, disk, diag, Target, InstallPCs,
         TypeOK
<1>10. ConfirmationOrder'
  BY <1>2, <1>3 DEF Inv, ConfirmationOrder, EraseTarget, disk, diag, TransactionPCs,
         InstallPCs, NoTrialInTransaction, Verifying, TypeOK
<1> QED BY <1>1, <1>4, <1>5, <1>6, <1>7, <1>8, <1>9, <1>10 DEF Inv

LEMMA InvWriteTarget == Inv /\ FailureLasts /\ WriteTarget => Inv'
<1> SUFFICES ASSUME Inv, NoFailureYet' => NoFailureYet /\ ~Fails, WriteTarget PROVE Inv'
  BY DEF FailureLasts
<1>1. TypeOK'
  BY TypeWriteTarget DEF Inv
<1>2. UNCHANGED <<authRec, ota, newest, file, status, running,
                src, img, confirmReq, conf, exposed>>
  BY DEF WriteTarget, disk, diag
<1>3. OnTrial' = OnTrial
  BY <1>2 DEF OnTrial
<1>4. NoInputBehindTrial' /\ ConfirmedMeansDecided'
  BY <1>2, <1>3 DEF Inv, NoInputBehindTrial, ConfirmedMeansDecided
<1>5. FactoryKept'
  <2>1. OnTrial = {} /\ Up
    BY DEF Inv, WriteTarget, NoTrialInTransaction, TransactionPCs, InstallPCs, Up
  <2>2. /\ \A s \in Slots \ {Target} : slot'[s] = slot[s]
        /\ \A s \in OtaSlots \ {Target} : authRec'[s] = authRec[s]
    BY <1>2 DEF Inv, TypeOK, WriteTarget
  <2> QED BY <1>2, <2>1, <2>2, InactiveWrite
<1>6. BootChoiceSound'
  <2>1. OnTrial = {} /\ Up
    BY DEF Inv, WriteTarget, NoTrialInTransaction, TransactionPCs, InstallPCs, Up
  <2>2. /\ \A s \in Slots \ {Target} : slot'[s] = slot[s]
        /\ \A s \in OtaSlots \ {Target} : authRec'[s] = authRec[s]
    BY <1>2 DEF Inv, TypeOK, WriteTarget
  <2> QED BY <1>2, <2>1, <2>2, InactiveWrite
<1>7. TrialIsNewest'
  BY <1>2, <1>3 DEF Inv, TrialIsNewest, WriteTarget, disk, diag, TypeOK
<1>8. NoTrialInTransaction'
  BY <1>2, <1>3 DEF Inv, NoTrialInTransaction, WriteTarget, disk, diag,
         TransactionPCs, InstallPCs, TypeOK
<1>9. InstallOrder'
  <2>1. Target' = Target /\ Target \in Slots
    BY <1>2, TargetType DEF Target
  <2>2. pc' = "reject" \/ (pc' = "authErase" /\ slot' = [slot EXCEPT ![Target] = img])
    BY DEF WriteTarget
  <2> QED BY <1>2, <2>1, <2>2 DEF Inv, TypeOK, InstallOrder, InstallPCs
<1>10. ConfirmationOrder'
  BY <1>2, <1>3 DEF Inv, ConfirmationOrder, WriteTarget, disk, diag, TransactionPCs,
         InstallPCs, NoTrialInTransaction, Verifying, TypeOK
<1> QED BY <1>1, <1>4, <1>5, <1>6, <1>7, <1>8, <1>9, <1>10 DEF Inv

LEMMA InvEraseAuthRecord == Inv /\ FailureLasts /\ EraseAuthRecord => Inv'
<1> SUFFICES ASSUME Inv, NoFailureYet' => NoFailureYet /\ ~Fails, EraseAuthRecord PROVE Inv'
  BY DEF FailureLasts
<1>1. TypeOK'
  BY TypeEraseAuthRecord DEF Inv
<1>2. UNCHANGED <<slot, ota, newest, file, status, running,
                src, img, confirmReq, conf, exposed>>
  BY DEF EraseAuthRecord, disk, diag
<1>3. OnTrial' = OnTrial
  BY <1>2 DEF OnTrial
<1>4. FactoryKept' /\ NoInputBehindTrial' /\ ConfirmedMeansDecided'
  BY <1>2, <1>3 DEF Inv, FactoryKept, NoInputBehindTrial, ConfirmedMeansDecided
<1>5. BootChoiceSound'
  <2>1. OnTrial = {} /\ Up
    BY DEF Inv, EraseAuthRecord, NoTrialInTransaction, TransactionPCs, InstallPCs, Up
  <2>2. /\ \A s \in Slots \ {Target} : slot'[s] = slot[s]
        /\ \A s \in OtaSlots \ {Target} : authRec'[s] = authRec[s]
    BY <1>2 DEF Inv, TypeOK, EraseAuthRecord
  <2> QED BY <1>2, <2>1, <2>2, InactiveWrite
<1>6. TrialIsNewest'
  BY <1>2, <1>3 DEF Inv, TrialIsNewest, EraseAuthRecord, disk, diag, TypeOK
<1>7. NoTrialInTransaction'
  BY <1>2, <1>3 DEF Inv, NoTrialInTransaction, EraseAuthRecord, disk, diag,
         TransactionPCs, InstallPCs, TypeOK
<1>8. InstallOrder'
  BY <1>2, <1>3 DEF Inv, InstallOrder, EraseAuthRecord, disk, diag, Target,
         InstallPCs, TypeOK
<1>9. ConfirmationOrder'
  BY <1>2, <1>3 DEF Inv, ConfirmationOrder, EraseAuthRecord, disk, diag,
         TransactionPCs, InstallPCs, NoTrialInTransaction, Verifying, TypeOK
<1> QED BY <1>1, <1>4, <1>5, <1>6, <1>7, <1>8, <1>9 DEF Inv

LEMMA InvWriteAuthRecord == Inv /\ FailureLasts /\ WriteAuthRecord => Inv'
<1> SUFFICES ASSUME Inv, NoFailureYet' => NoFailureYet /\ ~Fails, WriteAuthRecord PROVE Inv'
  BY DEF FailureLasts
<1>1. TypeOK'
  BY TypeWriteAuthRecord DEF Inv
<1>2. UNCHANGED <<slot, ota, newest, file, status, running,
                src, img, confirmReq, conf, exposed>>
  BY DEF WriteAuthRecord, disk, diag
<1>3. OnTrial' = OnTrial
  BY <1>2 DEF OnTrial
<1>4. FactoryKept' /\ NoInputBehindTrial' /\ ConfirmedMeansDecided'
  BY <1>2, <1>3 DEF Inv, FactoryKept, NoInputBehindTrial, ConfirmedMeansDecided
<1>5. BootChoiceSound'
  <2>1. OnTrial = {} /\ Up
    BY DEF Inv, WriteAuthRecord, NoTrialInTransaction, TransactionPCs, InstallPCs, Up
  <2>2. /\ \A s \in Slots \ {Target} : slot'[s] = slot[s]
        /\ \A s \in OtaSlots \ {Target} : authRec'[s] = authRec[s]
    BY <1>2 DEF Inv, TypeOK, WriteAuthRecord
  <2> QED BY <1>2, <2>1, <2>2, InactiveWrite
<1>6. TrialIsNewest'
  BY <1>2, <1>3 DEF Inv, TrialIsNewest, WriteAuthRecord, disk, diag, TypeOK
<1>7. NoTrialInTransaction'
  BY <1>2, <1>3 DEF Inv, NoTrialInTransaction, WriteAuthRecord, disk, diag,
         TransactionPCs, InstallPCs, TypeOK
<1>8. InstallOrder'
  <2>1. Target' = Target /\ Target \in OtaSlots
    BY <1>2, TargetType DEF Target
  <2>2. slot[Target] = img
    BY DEF Inv, InstallOrder, WriteAuthRecord, InstallPCs
  <2>3. \/ pc' = "reject"
        \/ /\ pc' = IF src = "psram" THEN "conflict" ELSE "stage"
           /\ authRec' = [authRec EXCEPT ![Target] = img]
    BY DEF WriteAuthRecord
  <2> QED BY <1>2, <2>1, <2>2, <2>3 DEF Inv, TypeOK, InstallOrder, InstallPCs
<1>9. ConfirmationOrder'
  BY <1>2, <1>3 DEF Inv, ConfirmationOrder, WriteAuthRecord, disk, diag,
         TransactionPCs, InstallPCs, NoTrialInTransaction, Verifying, TypeOK
<1> QED BY <1>1, <1>4, <1>5, <1>6, <1>7, <1>8, <1>9 DEF Inv

LEMMA InvMoveConflict == Inv /\ FailureLasts /\ MoveConflict => Inv'
<1> SUFFICES ASSUME Inv, NoFailureYet' => NoFailureYet /\ ~Fails, MoveConflict PROVE Inv'
  BY DEF FailureLasts
<1>1. TypeOK'
  BY TypeMoveConflict DEF Inv
<1>2. UNCHANGED <<slot, authRec, ota, newest, status, running,
                src, img, confirmReq, conf, exposed>>
  BY DEF MoveConflict, parts, diag
<1>3. OnTrial' = OnTrial
  BY <1>2 DEF OnTrial
<1>4. FactoryKept' /\ BootChoiceSound' /\ ConfirmedMeansDecided'
  BY <1>2, <1>3 DEF Inv, FactoryKept, BootChoiceSound, Fallback, ConfirmedMeansDecided
<1>5. TrialIsNewest'
  BY <1>2, <1>3 DEF Inv, TrialIsNewest, MoveConflict, parts, diag, TypeOK
<1>6. NoTrialInTransaction'
  BY <1>2, <1>3 DEF Inv, NoTrialInTransaction, MoveConflict, parts, diag,
         TransactionPCs, InstallPCs, TypeOK
<1>7. InstallOrder'
  BY <1>2, <1>3 DEF Inv, InstallOrder, MoveConflict, LooksAbsent, parts, diag, Target,
         InstallPCs, MoveDone, MoveFails, Names, TypeOK
<1>8. ConfirmationOrder'
  BY <1>2, <1>3 DEF Inv, ConfirmationOrder, MoveConflict, parts, diag,
         TransactionPCs, InstallPCs, NoTrialInTransaction, Verifying, TypeOK
<1>9. NoInputBehindTrial'
  BY <1>2, <1>3 DEF Inv, NoInputBehindTrial, MoveConflict, parts, diag, MoveDone,
         MoveFails, Names, TypeOK
<1> QED BY <1>1, <1>4, <1>5, <1>6, <1>7, <1>8, <1>9 DEF Inv

LEMMA InvStagePending == Inv /\ FailureLasts /\ StagePending => Inv'
<1> SUFFICES ASSUME Inv, NoFailureYet' => NoFailureYet /\ ~Fails, StagePending PROVE Inv'
  BY DEF FailureLasts
<1>1. TypeOK'
  BY TypeStagePending DEF Inv
<1>2. UNCHANGED <<slot, authRec, ota, newest, status, running,
                src, img, confirmReq, conf, exposed>>
  BY DEF StagePending, parts, diag
<1>3. OnTrial' = OnTrial
  BY <1>2 DEF OnTrial
<1>4. FactoryKept' /\ BootChoiceSound' /\ ConfirmedMeansDecided'
  BY <1>2, <1>3 DEF Inv, FactoryKept, BootChoiceSound, Fallback, ConfirmedMeansDecided
<1>5. TrialIsNewest'
  BY <1>2, <1>3 DEF Inv, TrialIsNewest, StagePending, parts, diag, TypeOK
<1>6. NoTrialInTransaction'
  BY <1>2, <1>3 DEF Inv, NoTrialInTransaction, StagePending, parts, diag,
         TransactionPCs, InstallPCs, TypeOK
<1>7. InstallOrder'
  BY <1>2, <1>3 DEF Inv, InstallOrder, StagePending, parts, diag, Target,
         InstallPCs, MoveDone, MoveFails, Names, TypeOK
<1>8. ConfirmationOrder'
  BY <1>2, <1>3 DEF Inv, ConfirmationOrder, StagePending, parts, diag,
         TransactionPCs, InstallPCs, NoTrialInTransaction, Verifying, TypeOK
<1>9. NoInputBehindTrial'
  BY <1>2, <1>3 DEF Inv, NoInputBehindTrial, StagePending, parts, diag, MoveDone,
         MoveFails, Names, TypeOK
<1> QED BY <1>1, <1>4, <1>5, <1>6, <1>7, <1>8, <1>9 DEF Inv

LEMMA InvAnnounceStaged == Inv /\ FailureLasts /\ AnnounceStaged => Inv'
<1> SUFFICES ASSUME Inv, NoFailureYet' => NoFailureYet /\ ~Fails, AnnounceStaged PROVE Inv'
  BY DEF FailureLasts
<1>1. TypeOK'
  BY TypeAnnounceStaged DEF Inv
<1>2. UNCHANGED <<slot, authRec, ota, newest, file, running,
                src, img, confirmReq, conf, exposed>>
  BY DEF AnnounceStaged, parts, diag
<1>3. OnTrial' = OnTrial
  BY <1>2 DEF OnTrial
<1>4. FactoryKept' /\ BootChoiceSound' /\ NoInputBehindTrial'
  BY <1>2, <1>3 DEF Inv, FactoryKept, BootChoiceSound, Fallback, NoInputBehindTrial
<1>5. TrialIsNewest'
  BY <1>2, <1>3 DEF Inv, TrialIsNewest, AnnounceStaged, parts, diag, TypeOK
<1>6. NoTrialInTransaction'
  BY <1>2, <1>3 DEF Inv, NoTrialInTransaction, AnnounceStaged, parts, diag,
         TransactionPCs, InstallPCs, TypeOK
<1>7. InstallOrder'
  BY <1>2, <1>3 DEF Inv, InstallOrder, AnnounceStaged, parts, diag, Target,
         InstallPCs, WriteDone, WriteFails, Status, NoStatus, TypeOK
<1>8. ConfirmationOrder'
  BY <1>2, <1>3 DEF Inv, ConfirmationOrder, AnnounceStaged, parts, diag,
         TransactionPCs, InstallPCs, NoTrialInTransaction, Verifying, TypeOK
<1>9. ConfirmedMeansDecided'
  BY <1>2, <1>3 DEF Inv, ConfirmedMeansDecided, AnnounceStaged, parts, diag,
         WriteDone, WriteFails, Status, NoStatus, TypeOK
<1> QED BY <1>1, <1>4, <1>5, <1>6, <1>7, <1>8, <1>9 DEF Inv

LEMMA InvSetBoot == Inv /\ FailureLasts /\ SetBoot => Inv'
<1> SUFFICES ASSUME Inv, NoFailureYet' => NoFailureYet /\ ~Fails, SetBoot PROVE Inv'
  BY DEF FailureLasts
<1>1. TypeOK'
  BY TypeSetBoot DEF Inv
<1>2. UNCHANGED <<slot, authRec, file, status, running, src,
                img, confirmReq, conf, exposed>>
  BY DEF SetBoot, SetState, disk
<1>3. FactoryKept'
  BY <1>2 DEF Inv, FactoryKept
<1>4. BootChoiceSound'
  <2>1. OnTrial = {} /\ Up
    BY DEF Inv, SetBoot, NoTrialInTransaction, TransactionPCs, InstallPCs, Up
  <2>2. CASE UNCHANGED <<ota, newest>> /\ pc' = "undo"
    BY <1>2, <2>2 DEF Inv, BootChoiceSound, Fallback
  <2>3. CASE /\ newest' = Target /\ ota' = [ota EXCEPT ![Target] = "new"]
             /\ pc' = "restart"
    <3>1. Active(ota', newest') = Target /\ Fallback' = Fallback
      BY <2>1, <2>3, CommitEffect
    <3>2. slot[Target] = img /\ authRec[Target] = img /\ img \in Genuine
      BY DEF Inv, TypeOK, InstallOrder, InstallPCs, SetBoot
    <3> QED BY <1>2, <3>1, <3>2 DEF Inv, BootChoiceSound
  <2> QED BY <2>2, <2>3 DEF SetBoot
<1>5. TrialIsNewest'
  <2>1. OnTrial = {} /\ Up
    BY DEF Inv, SetBoot, NoTrialInTransaction, TransactionPCs, InstallPCs, Up
  <2>2. CASE UNCHANGED <<ota, newest>> /\ pc' = "undo"
    BY <1>2, <2>1, <2>2 DEF Inv, TrialIsNewest, OnTrial, Up
  <2>3. CASE /\ newest' = Target /\ ota' = [ota EXCEPT ![Target] = "new"]
             /\ pc' = "restart"
    BY <2>1, <2>3, CommitEffect DEF TrialIsNewest
  <2> QED BY <2>2, <2>3 DEF SetBoot
<1>6. NoTrialInTransaction'
  BY <1>2 DEF Inv, NoTrialInTransaction, SetBoot, disk, OnTrial, TransactionPCs,
         InstallPCs, TypeOK, PendingVerify, OtaSlots, Select, Active, OtherSlot
<1>7. InstallOrder'
  BY <1>2 DEF Inv, InstallOrder, SetBoot, disk, Target, InstallPCs, TypeOK,
         PendingVerify, OtaSlots, Select, Active, OtherSlot
<1>8. ConfirmationOrder'
  <2>1. OnTrial = {} /\ Up
    BY DEF Inv, SetBoot, NoTrialInTransaction, TransactionPCs, InstallPCs, Up
  <2>2. CASE UNCHANGED <<ota, newest>> /\ pc' = "undo"
    BY <1>2, <2>2 DEF Inv, ConfirmationOrder, Verifying, OnTrial, SetBoot
  <2>3. CASE /\ newest' = Target /\ ota' = [ota EXCEPT ![Target] = "new"]
             /\ pc' = "restart"
    BY <1>2, <2>3 DEF Inv, ConfirmationOrder, Verifying, SetBoot
  <2> QED BY <2>2, <2>3 DEF SetBoot
<1>9. NoInputBehindTrial'
  BY <1>2 DEF Inv, InstallOrder, NoInputBehindTrial, SetBoot
<1>10. ConfirmedMeansDecided'
  BY <1>2 DEF Inv, InstallOrder, ConfirmedMeansDecided, SetBoot
<1> QED BY <1>1, <1>3, <1>4, <1>5, <1>6, <1>7, <1>8, <1>9, <1>10 DEF Inv

LEMMA InvRestart == Inv /\ FailureLasts /\ Restart => Inv'
<1> SUFFICES ASSUME Inv, NoFailureYet' => NoFailureYet /\ ~Fails, Restart PROVE Inv'
  BY DEF FailureLasts
<1>1. TypeOK'
  BY TypeRestart DEF Inv
<1>2. UNCHANGED <<slot, authRec, ota, newest, status, running, src,
                img, confirmReq, conf, exposed, faults>>
  BY DEF Restart, parts, diag
<1>3. OnTrial' = OnTrial
  BY <1>2 DEF OnTrial
<1>4. FactoryKept' /\ BootChoiceSound' /\ ConfirmedMeansDecided'
  BY <1>2, <1>3 DEF Inv, FactoryKept, BootChoiceSound, Fallback, ConfirmedMeansDecided
<1>5. TrialIsNewest'
  BY <1>2, <1>3 DEF Inv, TrialIsNewest, Restart, parts, diag, TypeOK
<1>6. NoTrialInTransaction'
  BY <1>2, <1>3 DEF Inv, NoTrialInTransaction, Restart, parts, diag, TransactionPCs,
         InstallPCs, TypeOK
<1>7. InstallOrder'
  BY <1>2, <1>3 DEF Inv, InstallOrder, Restart, parts, diag, Target, InstallPCs, TypeOK
<1>8. ConfirmationOrder'
  BY <1>2, <1>3 DEF Inv, ConfirmationOrder, Restart, parts, diag, TransactionPCs,
         InstallPCs, NoTrialInTransaction, Verifying, TypeOK
<1>9. NoInputBehindTrial'
  BY <1>2, <1>3 DEF Inv, NoInputBehindTrial, Restart, parts, diag, TypeOK
<1> QED BY <1>1, <1>4, <1>5, <1>6, <1>7, <1>8, <1>9 DEF Inv

LEMMA InvUndoPending == Inv /\ FailureLasts /\ UndoPending => Inv'
<1> SUFFICES ASSUME Inv, NoFailureYet' => NoFailureYet /\ ~Fails, UndoPending PROVE Inv'
  BY DEF FailureLasts
<1>1. TypeOK'
  BY TypeUndoPending DEF Inv
<1>2. UNCHANGED <<slot, authRec, ota, newest, status, running,
                src, img, confirmReq, conf, exposed>>
  BY DEF UndoPending, parts, diag
<1>3. OnTrial' = OnTrial
  BY <1>2 DEF OnTrial
<1>4. FactoryKept' /\ BootChoiceSound' /\ ConfirmedMeansDecided'
  BY <1>2, <1>3 DEF Inv, FactoryKept, BootChoiceSound, Fallback, ConfirmedMeansDecided
<1>5. TrialIsNewest'
  BY <1>2, <1>3 DEF Inv, TrialIsNewest, UndoPending, parts, diag, TypeOK
<1>6. NoTrialInTransaction'
  BY <1>2, <1>3 DEF Inv, NoTrialInTransaction, UndoPending, parts, diag,
         TransactionPCs, InstallPCs, TypeOK
<1>7. InstallOrder'
  BY <1>2, <1>3 DEF Inv, InstallOrder, UndoPending, parts, diag, Target, InstallPCs,
         MoveDone, MoveFails, Names, TypeOK
<1>8. ConfirmationOrder'
  BY <1>2, <1>3 DEF Inv, ConfirmationOrder, UndoPending, parts, diag,
         TransactionPCs, InstallPCs, NoTrialInTransaction, Verifying, TypeOK
<1>9. NoInputBehindTrial'
  BY <1>2, <1>3 DEF Inv, NoInputBehindTrial, UndoPending, parts, diag, MoveDone,
         MoveFails, Names, TypeOK
<1> QED BY <1>1, <1>4, <1>5, <1>6, <1>7, <1>8, <1>9 DEF Inv

LEMMA InvRejectInput == Inv /\ FailureLasts /\ RejectInput => Inv'
<1> SUFFICES ASSUME Inv, NoFailureYet' => NoFailureYet /\ ~Fails, RejectInput PROVE Inv'
  BY DEF FailureLasts
<1>1. TypeOK'
  BY TypeRejectInput DEF Inv
<1>2. UNCHANGED <<slot, authRec, ota, newest, status, running,
                src, img, confirmReq, conf, exposed>>
  BY DEF RejectInput, SetState, parts
<1>3. OnTrial' = OnTrial
  BY <1>2 DEF OnTrial
<1>4. FactoryKept' /\ BootChoiceSound' /\ ConfirmedMeansDecided'
  BY <1>2, <1>3 DEF Inv, FactoryKept, BootChoiceSound, Fallback, ConfirmedMeansDecided
<1>5. TrialIsNewest'
  BY <1>2, <1>3 DEF Inv, TrialIsNewest, RejectInput, parts, TypeOK
<1>6. NoTrialInTransaction'
  BY <1>2, <1>3 DEF Inv, NoTrialInTransaction, RejectInput, parts, TransactionPCs,
         InstallPCs, TypeOK
<1>7. InstallOrder'
  BY <1>2, <1>3 DEF Inv, InstallOrder, RejectInput, parts, Target, InstallPCs,
         MoveDone, MoveFails, Names, MoveInputToBad, TypeOK
<1>8. ConfirmationOrder'
  BY <1>2, <1>3 DEF Inv, ConfirmationOrder, RejectInput, parts, TransactionPCs,
         InstallPCs, NoTrialInTransaction, Verifying, TypeOK
<1>9. NoInputBehindTrial'
  BY <1>2, <1>3 DEF Inv, NoInputBehindTrial, RejectInput, parts, MoveDone,
         MoveFails, Names, MoveInputToBad, TypeOK
<1> QED BY <1>1, <1>4, <1>5, <1>6, <1>7, <1>8, <1>9 DEF Inv

LEMMA InvReport == Inv /\ FailureLasts /\ Report => Inv'
<1> SUFFICES ASSUME Inv, NoFailureYet' => NoFailureYet /\ ~Fails, Report PROVE Inv'
  BY DEF FailureLasts
<1>1. TypeOK'
  BY TypeReport DEF Inv
<1>2. UNCHANGED <<slot, authRec, ota, newest, file, running,
                src, img, confirmReq, conf, exposed>>
  BY DEF Report, parts, diag
<1>3. OnTrial' = OnTrial
  BY <1>2 DEF OnTrial
<1>4. FactoryKept' /\ BootChoiceSound' /\ NoInputBehindTrial'
  BY <1>2, <1>3 DEF Inv, FactoryKept, BootChoiceSound, Fallback, NoInputBehindTrial
<1>5. TrialIsNewest'
  BY <1>2, <1>3 DEF Inv, TrialIsNewest, Report, parts, diag, TypeOK
<1>6. NoTrialInTransaction'
  BY <1>2, <1>3 DEF Inv, NoTrialInTransaction, Report, parts, diag, TransactionPCs,
         InstallPCs, TypeOK
<1>7. InstallOrder'
  BY <1>2, <1>3 DEF Inv, InstallOrder, Report, parts, diag, Target, InstallPCs,
         WriteDone, WriteFails, Status, NoStatus, TypeOK
<1>8. ConfirmationOrder'
  BY <1>2, <1>3 DEF Inv, ConfirmationOrder, Report, parts, diag, TransactionPCs,
         InstallPCs, NoTrialInTransaction, Verifying, TypeOK
<1>9. ConfirmedMeansDecided'
  <2>1. OnTrial = {}
    BY DEF Inv, Report, NoTrialInTransaction, TransactionPCs, InstallPCs
  <2> QED BY <1>3, <2>1 DEF ConfirmedMeansDecided
<1> QED BY <1>1, <1>4, <1>5, <1>6, <1>7, <1>8, <1>9 DEF Inv

LEMMA InvBeginConfirmation == Inv /\ FailureLasts /\ BeginConfirmation => Inv'
<1> SUFFICES ASSUME Inv, NoFailureYet' => NoFailureYet /\ ~Fails, BeginConfirmation PROVE Inv'
  BY DEF FailureLasts
<1>1. TypeOK'
  BY TypeBeginConfirmation DEF Inv
<1>2. UNCHANGED <<slot, authRec, newest, status, running,
                src, img, confirmReq>>
  BY DEF BeginConfirmation, RollBackAndReboot, parts, disk, diag, main
<1>3. FactoryKept'
  BY <1>2 DEF Inv, FactoryKept
<1>4. BootChoiceSound'
  <2>1. confirmReq => OnTrial # {} /\ Up
    BY DEF Inv, ConfirmationOrder, Verifying, BeginConfirmation, Up
  <2>2. CASE confirmReq /\ RollBackAndReboot
    BY <1>2, <2>1, <2>2, RollBackEffect DEF RollBackAndReboot, Inv, BootChoiceSound
  <2>3. CASE UNCHANGED parts
    BY <2>3 DEF parts, Inv, BootChoiceSound, Fallback
  <2> QED BY <2>2, <2>3 DEF BeginConfirmation
<1>5. TrialIsNewest'
  BY <1>2 DEF Inv, TrialIsNewest, BeginConfirmation, RollBackAndReboot, parts, disk,
         diag, main, OnTrial, TypeOK, PendingVerify, OtaSlots, Select, Active,
         OtherSlot
<1>6. NoTrialInTransaction'
  BY <1>2 DEF Inv, NoTrialInTransaction, BeginConfirmation, RollBackAndReboot,
         parts, disk, diag, main, OnTrial, TransactionPCs, InstallPCs, TypeOK,
         PendingVerify, OtaSlots, Select, Active, OtherSlot
<1>7. InstallOrder'
  BY <1>2 DEF Inv, InstallOrder, BeginConfirmation, RollBackAndReboot, parts, disk,
         diag, main, Target, InstallPCs, TypeOK, PendingVerify, OtaSlots, Select,
         Active, OtherSlot
<1>8. ConfirmationOrder'
  BY <1>2 DEF Inv, ConfirmationOrder, BeginConfirmation, RollBackAndReboot, parts,
         disk, diag, main, OnTrial, TransactionPCs, InstallPCs,
         NoTrialInTransaction, Verifying, TypeOK, PendingVerify, OtaSlots, Select,
         Active, OtherSlot
<1>9. NoInputBehindTrial'
  <2>1. confirmReq => OnTrial # {} /\ Up
    BY DEF Inv, ConfirmationOrder, Verifying, BeginConfirmation, Up
  <2>2. CASE confirmReq /\ RollBackAndReboot
    BY <2>1, <2>2, RollBackEffect DEF RollBackAndReboot, NoInputBehindTrial
  <2>3. CASE UNCHANGED <<parts, disk>>
    BY <2>3 DEF parts, disk, Inv, NoInputBehindTrial, OnTrial
  <2> QED BY <2>2, <2>3 DEF BeginConfirmation
<1>10. ConfirmedMeansDecided'
  BY <1>2 DEF Inv, ConfirmedMeansDecided, BeginConfirmation, RollBackAndReboot,
         parts, disk, diag, main, OnTrial, TypeOK, PendingVerify, OtaSlots, Select,
         Active, OtherSlot
<1> QED BY <1>1, <1>3, <1>4, <1>5, <1>6, <1>7, <1>8, <1>9, <1>10 DEF Inv

LEMMA InvStartWorkers == Inv /\ FailureLasts /\ StartWorkers => Inv'
<1> SUFFICES ASSUME Inv, NoFailureYet' => NoFailureYet /\ ~Fails, StartWorkers PROVE Inv'
  BY DEF FailureLasts
<1>1. TypeOK'
  BY TypeStartWorkers DEF Inv
<1>2. UNCHANGED <<slot, authRec, ota, newest, file, status, running,
                src, img, confirmReq, conf, exposed>>
  BY DEF StartWorkers, parts, disk
<1>3. OnTrial' = OnTrial
  BY <1>2 DEF OnTrial
<1>4. /\ FactoryKept' /\ BootChoiceSound' /\ NoInputBehindTrial'
      /\ ConfirmedMeansDecided'
  BY <1>2, <1>3 DEF Inv, FactoryKept, BootChoiceSound, Fallback, NoInputBehindTrial,
         ConfirmedMeansDecided
<1>5. TrialIsNewest'
  BY <1>2, <1>3 DEF Inv, TrialIsNewest, StartWorkers, parts, disk, TypeOK
<1>6. NoTrialInTransaction'
  BY <1>2, <1>3 DEF Inv, NoTrialInTransaction, StartWorkers, parts, disk,
         TransactionPCs, InstallPCs, TypeOK
<1>7. InstallOrder'
  BY <1>2, <1>3 DEF Inv, InstallOrder, StartWorkers, parts, disk, Target,
         InstallPCs, TypeOK
<1>8. ConfirmationOrder'
  <2>1. pc = "tasks" /\ pc' \in {"gate", "halted"}
    BY DEF StartWorkers
  <2> QED BY <1>2, <1>3, <2>1 DEF Inv, ConfirmationOrder, Verifying
<1> QED BY <1>1, <1>4, <1>5, <1>6, <1>7, <1>8 DEF Inv

LEMMA InvOpenGate == Inv /\ FailureLasts /\ OpenGate => Inv'
<1> SUFFICES ASSUME Inv, NoFailureYet' => NoFailureYet /\ ~Fails, OpenGate PROVE Inv'
  BY DEF FailureLasts
<1>1. TypeOK'
  BY TypeOpenGate DEF Inv
<1>2. UNCHANGED <<slot, authRec, ota, newest, file, status, running,
                src, img, confirmReq, conf, faults>>
  BY DEF OpenGate, parts, disk, diag
<1>3. OnTrial' = OnTrial
  BY <1>2 DEF OnTrial
<1>4. /\ FactoryKept' /\ BootChoiceSound' /\ NoInputBehindTrial'
      /\ ConfirmedMeansDecided'
  BY <1>2, <1>3 DEF Inv, FactoryKept, BootChoiceSound, Fallback, NoInputBehindTrial,
         ConfirmedMeansDecided
<1>5. TrialIsNewest'
  BY <1>2, <1>3 DEF Inv, TrialIsNewest, OpenGate, parts, disk, diag, TypeOK
<1>6. NoTrialInTransaction'
  BY <1>2, <1>3 DEF Inv, NoTrialInTransaction, OpenGate, parts, disk, diag,
         TransactionPCs, InstallPCs, TypeOK
<1>7. InstallOrder'
  BY <1>2, <1>3 DEF Inv, InstallOrder, OpenGate, parts, disk, diag, Target,
         InstallPCs, TypeOK
<1>8. ConfirmationOrder'
  BY <1>2, <1>3 DEF Inv, ConfirmationOrder, OpenGate, ConfirmationOver, parts, disk, diag,
         TransactionPCs, InstallPCs, NoTrialInTransaction, Verifying, TypeOK
<1> QED BY <1>1, <1>4, <1>5, <1>6, <1>7, <1>8 DEF Inv

LEMMA InvExposeRecovery == Inv /\ FailureLasts /\ ExposeRecovery => Inv'
<1> SUFFICES ASSUME Inv, NoFailureYet' => NoFailureYet /\ ~Fails, ExposeRecovery PROVE Inv'
  BY DEF FailureLasts
<1>1. TypeOK'
  BY TypeExposeRecovery DEF Inv
<1>2. UNCHANGED <<slot, authRec, ota, newest, file, status, running,
                src, img, confirmReq, conf, faults>>
  BY DEF ExposeRecovery, parts, disk, diag
<1>3. OnTrial' = OnTrial
  BY <1>2 DEF OnTrial
<1>4. /\ FactoryKept' /\ BootChoiceSound' /\ NoInputBehindTrial'
      /\ ConfirmedMeansDecided'
  BY <1>2, <1>3 DEF Inv, FactoryKept, BootChoiceSound, Fallback, NoInputBehindTrial,
         ConfirmedMeansDecided
<1>5. TrialIsNewest'
  BY <1>2, <1>3 DEF Inv, TrialIsNewest, ExposeRecovery, parts, disk, diag, TypeOK
<1>6. NoTrialInTransaction'
  BY <1>2, <1>3 DEF Inv, NoTrialInTransaction, ExposeRecovery, parts, disk, diag,
         TransactionPCs, InstallPCs, TypeOK
<1>7. InstallOrder'
  BY <1>2, <1>3 DEF Inv, InstallOrder, ExposeRecovery, parts, disk, diag, Target,
         InstallPCs, TypeOK
<1>8. ConfirmationOrder'
  BY <1>2, <1>3 DEF Inv, ConfirmationOrder, ExposeRecovery, parts, disk, diag,
         TransactionPCs, InstallPCs, NoTrialInTransaction, Verifying, TypeOK
<1> QED BY <1>1, <1>4, <1>5, <1>6, <1>7, <1>8 DEF Inv

LEMMA InvHostRelease == Inv /\ FailureLasts /\ HostRelease => Inv'
<1> SUFFICES ASSUME Inv, NoFailureYet' => NoFailureYet /\ ~Fails, HostRelease PROVE Inv'
  BY DEF FailureLasts
<1>1. TypeOK'
  BY TypeHostRelease DEF Inv
<1>2. UNCHANGED <<slot, authRec, ota, newest, file, status, running,
                src, img, confirmReq, conf, faults>>
  BY DEF HostRelease, parts, disk, diag
<1>3. OnTrial' = OnTrial
  BY <1>2 DEF OnTrial
<1>4. /\ FactoryKept' /\ BootChoiceSound' /\ NoInputBehindTrial'
      /\ ConfirmedMeansDecided'
  BY <1>2, <1>3 DEF Inv, FactoryKept, BootChoiceSound, Fallback, NoInputBehindTrial,
         ConfirmedMeansDecided
<1>5. TrialIsNewest'
  BY <1>2, <1>3 DEF Inv, TrialIsNewest, HostRelease, parts, disk, diag, TypeOK
<1>6. NoTrialInTransaction'
  BY <1>2, <1>3 DEF Inv, NoTrialInTransaction, HostRelease, parts, disk, diag,
         TransactionPCs, InstallPCs, TypeOK
<1>7. InstallOrder'
  BY <1>2, <1>3 DEF Inv, InstallOrder, HostRelease, parts, disk, diag, Target,
         InstallPCs, TypeOK
<1>8. ConfirmationOrder'
  BY <1>2, <1>3 DEF Inv, ConfirmationOrder, HostRelease, parts, disk, diag,
         TransactionPCs, InstallPCs, NoTrialInTransaction, Verifying, TypeOK
<1> QED BY <1>1, <1>4, <1>5, <1>6, <1>7, <1>8 DEF Inv

LEMMA InvHostWrite == Inv /\ FailureLasts /\ HostWrite => Inv'
<1> SUFFICES ASSUME Inv, NoFailureYet' => NoFailureYet /\ ~Fails, HostWrite PROVE Inv'
  BY DEF FailureLasts
<1>1. TypeOK'
  BY TypeHostWrite DEF Inv
<1>2. UNCHANGED <<slot, authRec, ota, newest, pc, running, src,
                img, confirmReq, conf, exposed, faults>>
  BY DEF HostWrite, parts, diag, main
<1>3. OnTrial' = OnTrial
  BY <1>2 DEF OnTrial
<1>4. /\ FactoryKept' /\ BootChoiceSound' /\ TrialIsNewest'
      /\ NoTrialInTransaction' /\ ConfirmationOrder'
  BY <1>2, <1>3 DEF Inv, FactoryKept, BootChoiceSound, Fallback, TrialIsNewest,
         NoTrialInTransaction, ConfirmationOrder
<1>5. InstallOrder'
  BY <1>2, <1>3 DEF Inv, InstallOrder, HostWrite, parts, diag, main, Target,
         InstallPCs, TypeOK
<1>6. NoInputBehindTrial'
  <2>1. pc = "running" => OnTrial = {}
    BY DEF Inv, ConfirmationOrder, HostWrite
  <2>2. pc # "running" => file'["BIN"] = file["BIN"]
    BY DEF Inv, TypeOK, Names, HostWrite
  <2> QED BY <1>3, <2>1, <2>2 DEF Inv, NoInputBehindTrial
<1>7. ConfirmedMeansDecided'
  <2>1. status' = status \/ status' = NoStatus
    BY DEF HostWrite
  <2> QED BY <1>3, <2>1 DEF Inv, ConfirmedMeansDecided, NoStatus, Status
<1> QED BY <1>1, <1>4, <1>5, <1>6, <1>7 DEF Inv

LEMMA InvPowerCut == Inv /\ FailureLasts /\ PowerCut => Inv'
<1> SUFFICES ASSUME Inv, NoFailureYet' => NoFailureYet /\ ~Fails, PowerCut PROVE Inv'
  BY DEF FailureLasts
<1>1. TypeOK'
  BY TypePowerCut DEF Inv
<1>2. UNCHANGED <<slot, authRec, ota, newest, running,
                src, img, confirmReq, faults>>
  BY DEF PowerCut, parts, diag
<1>3. OnTrial' = OnTrial
  BY <1>2 DEF OnTrial
<1>4. FactoryKept' /\ BootChoiceSound'
  BY <1>2, <1>3 DEF Inv, FactoryKept, BootChoiceSound, Fallback
<1>5. TrialIsNewest'
  BY <1>2, <1>3 DEF Inv, TrialIsNewest, PowerCut, parts, diag, TypeOK
<1>6. NoTrialInTransaction'
  BY <1>2, <1>3 DEF Inv, NoTrialInTransaction, PowerCut, parts, diag,
         TransactionPCs, InstallPCs, TypeOK
<1>7. InstallOrder'
  BY <1>2, <1>3 DEF Inv, InstallOrder, PowerCut, parts, diag, Target, InstallPCs, TypeOK
<1>8. ConfirmationOrder'
  BY <1>2, <1>3 DEF Inv, ConfirmationOrder, PowerCut, parts, diag, TransactionPCs,
         InstallPCs, NoTrialInTransaction, Verifying, TypeOK
<1>9. NoInputBehindTrial'
  <2>1. file'["BIN"] = None \/ file'["BIN"] = file["BIN"]
    BY DEF PowerCut, Names
  <2> QED BY <1>3, <2>1 DEF Inv, NoInputBehindTrial
<1>10. ConfirmedMeansDecided'
  <2>1. status' = status \/ status' = NoStatus
    BY DEF PowerCut
  <2> QED BY <1>3, <2>1 DEF Inv, ConfirmedMeansDecided, NoStatus, Status
<1> QED BY <1>1, <1>4, <1>5, <1>6, <1>7, <1>8, <1>9, <1>10 DEF Inv

LEMMA InvBoot == Inv /\ FailureLasts /\ Boot => Inv'
<1> SUFFICES ASSUME Inv, NoFailureYet' => NoFailureYet /\ ~Fails, Boot PROVE Inv'
  BY DEF FailureLasts
<1>1. TypeOK'
  BY TypeBoot DEF Inv
<1>2. UNCHANGED <<slot, authRec, newest, file, status, conf, exposed, faults>>
  BY DEF Boot, disk
<1>3. FactoryKept'
  BY <1>2 DEF Inv, FactoryKept
<1>4. BootChoiceSound'
  BY <1>2, BootEffect DEF Inv, BootChoiceSound
<1>5. TrialIsNewest'
  BY <1>2, BootEffect DEF TrialIsNewest
<1>6. NoTrialInTransaction'
  BY <1>2 DEF Inv, NoTrialInTransaction, Boot, disk, OnTrial, TransactionPCs,
         InstallPCs, TypeOK, PendingVerify, OtaSlots, Select, Active, OtherSlot
<1>7. InstallOrder'
  BY <1>2 DEF Inv, InstallOrder, Boot, disk, Target, InstallPCs, TypeOK,
         PendingVerify, OtaSlots, Select, Active, OtherSlot
<1>8. ConfirmationOrder'
  BY <1>2 DEF Inv, ConfirmationOrder, Boot, disk, OnTrial, TransactionPCs,
         InstallPCs, NoTrialInTransaction, Verifying, TypeOK, PendingVerify,
         OtaSlots, Select, Active, OtherSlot
<1>9. NoInputBehindTrial'
  BY <1>2 DEF Inv, NoInputBehindTrial, Boot, disk, OnTrial, TypeOK, PendingVerify,
         OtaSlots, Select, Active, OtherSlot
<1>10. ConfirmedMeansDecided'
  BY <1>2 DEF Inv, ConfirmedMeansDecided, Boot, disk, OnTrial, TypeOK,
         PendingVerify, OtaSlots, Select, Active, OtherSlot
<1> QED BY <1>1, <1>3, <1>4, <1>5, <1>6, <1>7, <1>8, <1>9, <1>10 DEF Inv

LEMMA InvConfirmDelay == Inv /\ FailureLasts /\ ConfirmDelay => Inv'
<1> SUFFICES ASSUME Inv, NoFailureYet' => NoFailureYet /\ ~Fails, ConfirmDelay PROVE Inv'
  BY DEF FailureLasts
<1>1. TypeOK'
  BY TypeConfirmDelay DEF Inv
<1>2. UNCHANGED <<slot, authRec, newest, status, running,
                src, img, confirmReq>>
  BY DEF ConfirmDelay, RollBackAndReboot, SetState, parts, disk, main, diag
<1>3. FactoryKept'
  BY <1>2 DEF Inv, FactoryKept
<1>4. BootChoiceSound'
  <2>1. RollBackAndReboot => OnTrial # {} /\ Up
    BY DEF Inv, ConfirmationOrder, Verifying, ConfirmDelay, Up
  <2>2. CASE RollBackAndReboot
    BY <1>2, <2>1, <2>2, RollBackEffect DEF RollBackAndReboot, Inv, BootChoiceSound
  <2>3. CASE UNCHANGED parts
    BY <2>3 DEF parts, Inv, BootChoiceSound, Fallback
  <2> QED BY <2>2, <2>3 DEF ConfirmDelay
<1>5. TrialIsNewest'
  BY <1>2 DEF Inv, TrialIsNewest, ConfirmDelay, RollBackAndReboot, parts, disk,
         main, diag, OnTrial, TypeOK, PendingVerify, OtaSlots, Select, Active,
         OtherSlot
<1>6. NoTrialInTransaction'
  BY <1>2 DEF Inv, NoTrialInTransaction, ConfirmDelay, RollBackAndReboot, parts,
         disk, main, diag, OnTrial, TransactionPCs, InstallPCs, TypeOK,
         PendingVerify, OtaSlots, Select, Active, OtherSlot
<1>7. InstallOrder'
  BY <1>2 DEF Inv, InstallOrder, ConfirmDelay, RollBackAndReboot, parts, disk, main,
         diag, Target, InstallPCs, TypeOK, PendingVerify, OtaSlots, Select, Active,
         OtherSlot
<1>8. ConfirmationOrder'
  <2>1. RollBackAndReboot => OnTrial # {} /\ Up
    BY DEF Inv, ConfirmationOrder, Verifying, ConfirmDelay, Up
  <2>2. CASE RollBackAndReboot
    BY <2>1, <2>2, RollBackEffect DEF RollBackAndReboot, diag, ConfirmationOrder,
           Verifying
  <2>3. CASE /\ UNCHANGED <<parts, main, confirmReq>>
             /\ conf' \in {"read", "done"}
    <3>1. OnTrial' = OnTrial
      BY <2>3 DEF parts, OnTrial
    <3> QED BY <2>3, <3>1 DEF Inv, main, ConfirmationOrder, Verifying, ConfirmDelay
  <2> QED BY <2>2, <2>3 DEF ConfirmDelay
<1>9. NoInputBehindTrial'
  <2>1. RollBackAndReboot => OnTrial # {} /\ Up
    BY DEF Inv, ConfirmationOrder, Verifying, ConfirmDelay, Up
  <2>2. CASE RollBackAndReboot
    BY <2>1, <2>2, RollBackEffect DEF RollBackAndReboot, NoInputBehindTrial
  <2>3. CASE UNCHANGED <<parts, disk>>
    BY <2>3 DEF parts, disk, Inv, NoInputBehindTrial, OnTrial
  <2> QED BY <2>2, <2>3 DEF ConfirmDelay
<1>10. ConfirmedMeansDecided'
  BY <1>2 DEF Inv, ConfirmedMeansDecided, ConfirmDelay, RollBackAndReboot, parts,
         disk, main, diag, OnTrial, TypeOK, PendingVerify, OtaSlots, Select, Active,
         OtherSlot
<1> QED BY <1>1, <1>3, <1>4, <1>5, <1>6, <1>7, <1>8, <1>9, <1>10 DEF Inv

LEMMA InvConfirmRead == Inv /\ FailureLasts /\ ConfirmRead => Inv'
<1> SUFFICES ASSUME Inv, NoFailureYet' => NoFailureYet /\ ~Fails, ConfirmRead PROVE Inv'
  BY DEF FailureLasts
<1>1. TypeOK'
  BY TypeConfirmRead DEF Inv
<1>2. UNCHANGED <<slot, authRec, ota, newest, file, status, pc,
                running, src, img, confirmReq, exposed>>
  BY DEF ConfirmRead, parts, disk, diag, main
<1>3. OnTrial' = OnTrial
  BY <1>2 DEF OnTrial
<1>4. /\ FactoryKept' /\ BootChoiceSound' /\ TrialIsNewest'
      /\ NoTrialInTransaction' /\ InstallOrder' /\ NoInputBehindTrial'
      /\ ConfirmedMeansDecided'
  BY <1>2, <1>3 DEF Inv, FactoryKept, BootChoiceSound, Fallback, TrialIsNewest,
         NoTrialInTransaction, InstallOrder, Target, NoInputBehindTrial,
         ConfirmedMeansDecided
<1>5. ConfirmationOrder'
  BY <1>2, <1>3 DEF Inv, ConfirmationOrder, ConfirmRead, parts, disk, diag, main,
         TransactionPCs, InstallPCs, NoTrialInTransaction, Verifying, TypeOK
<1> QED BY <1>1, <1>4, <1>5 DEF Inv

LEMMA InvConfirmRetire == Inv /\ FailureLasts /\ ConfirmRetire => Inv'
<1> SUFFICES ASSUME Inv, NoFailureYet' => NoFailureYet /\ ~Fails, ConfirmRetire PROVE Inv'
  BY DEF FailureLasts
<1>1. TypeOK'
  BY TypeConfirmRetire DEF Inv
<1>2. UNCHANGED <<slot, authRec, ota, newest, status, pc,
                running, src, img, confirmReq, exposed>>
  BY DEF ConfirmRetire, parts, diag, main
<1>3. OnTrial' = OnTrial
  BY <1>2 DEF OnTrial
<1>4. /\ FactoryKept' /\ BootChoiceSound' /\ TrialIsNewest'
      /\ NoTrialInTransaction' /\ ConfirmedMeansDecided'
  BY <1>2, <1>3 DEF Inv, FactoryKept, BootChoiceSound, Fallback, TrialIsNewest,
         NoTrialInTransaction, ConfirmedMeansDecided
<1>5. InstallOrder'
  BY <1>2, <1>3 DEF Inv, InstallOrder, ConfirmRetire, parts, diag, main, Target,
         InstallPCs, MoveDone, MoveFails, Names, TypeOK
<1>6. ConfirmationOrder'
  BY <1>2, <1>3 DEF Inv, ConfirmationOrder, ConfirmRetire, parts, diag, main,
         TransactionPCs, InstallPCs, NoTrialInTransaction, Verifying, TypeOK
<1>7. NoInputBehindTrial'
  BY <1>2, <1>3 DEF Inv, NoInputBehindTrial, ConfirmRetire, parts, diag, main,
         MoveDone, MoveFails, Names, TypeOK
<1> QED BY <1>1, <1>4, <1>5, <1>6, <1>7 DEF Inv

LEMMA InvConfirmReport == Inv /\ FailureLasts /\ ConfirmReport => Inv'
<1> SUFFICES ASSUME Inv, NoFailureYet' => NoFailureYet /\ ~Fails, ConfirmReport PROVE Inv'
  BY DEF FailureLasts
<1>1. TypeOK'
  BY TypeConfirmReport DEF Inv
<1>2. UNCHANGED <<slot, authRec, ota, newest, file, pc,
                running, src, img, confirmReq, exposed>>
  BY DEF ConfirmReport, SetState, parts, main
<1>3. OnTrial' = OnTrial
  BY <1>2 DEF OnTrial
<1>4. /\ FactoryKept' /\ BootChoiceSound' /\ TrialIsNewest'
      /\ NoTrialInTransaction' /\ NoInputBehindTrial'
  BY <1>2, <1>3 DEF Inv, FactoryKept, BootChoiceSound, Fallback, TrialIsNewest,
         NoTrialInTransaction, NoInputBehindTrial
<1>5. InstallOrder'
  <2>1. pc \in {"tasks", "gate", "running", "halted"}
    BY DEF Inv, ConfirmationOrder, ConfirmReport
  <2> QED BY <1>2, <2>1 DEF InstallOrder, InstallPCs
<1>6. ConfirmationOrder'
  BY <1>2, <1>3 DEF Inv, ConfirmationOrder, ConfirmReport, parts, main,
         TransactionPCs, InstallPCs, NoTrialInTransaction, Verifying, TypeOK
<1>7. ConfirmedMeansDecided'
  BY <1>2, <1>3 DEF Inv, ConfirmedMeansDecided, ConfirmReport, parts, main,
         WriteDone, WriteFails, Status, NoStatus, TypeOK
<1> QED BY <1>1, <1>4, <1>5, <1>6, <1>7 DEF Inv

LEMMA InvConfirmMark == Inv /\ FailureLasts /\ ConfirmMark => Inv'
<1> SUFFICES ASSUME Inv, NoFailureYet' => NoFailureYet /\ ~Fails, ConfirmMark PROVE Inv'
  BY DEF FailureLasts
<1>1. TypeOK'
  BY TypeConfirmMark DEF Inv
<1>2. UNCHANGED <<slot, authRec, newest, status, running,
                src, img, confirmReq>>
  BY DEF ConfirmMark, RollBackAndReboot, disk, diag, main, parts
<1>3. FactoryKept'
  BY <1>2 DEF Inv, FactoryKept
<1>4. BootChoiceSound'
  <2>1. OnTrial # {} /\ Up
    BY DEF Inv, ConfirmationOrder, Verifying, ConfirmMark, Up
  <2>2. CASE RollBackAndReboot
    BY <1>2, <2>1, <2>2, RollBackEffect DEF RollBackAndReboot, Inv, BootChoiceSound
  <2>3. CASE /\ ota' = [ota EXCEPT ![running] = "valid"]
             /\ conf' = "status"
             /\ UNCHANGED <<slot, authRec, newest, disk, main, diag>>
    BY <2>1, <2>3, ConfirmEffect DEF Inv, BootChoiceSound
  <2> QED BY <2>2, <2>3 DEF ConfirmMark
<1>5. TrialIsNewest'
  <2>1. OnTrial # {} /\ Up
    BY DEF Inv, ConfirmationOrder, Verifying, ConfirmMark, Up
  <2>2. CASE RollBackAndReboot
    BY <2>1, <2>2, RollBackEffect DEF RollBackAndReboot, TrialIsNewest
  <2>3. CASE /\ ota' = [ota EXCEPT ![running] = "valid"]
             /\ conf' = "status"
             /\ UNCHANGED <<slot, authRec, newest, disk, main, diag>>
    BY <2>1, <2>3, ConfirmEffect, TrialRunning DEF main, TrialIsNewest
  <2> QED BY <2>2, <2>3 DEF ConfirmMark
<1>6. NoTrialInTransaction'
  BY <1>2 DEF Inv, NoTrialInTransaction, ConfirmMark, RollBackAndReboot, disk, diag,
         main, parts, OnTrial, TransactionPCs, InstallPCs, TypeOK, PendingVerify,
         OtaSlots, Select, Active, OtherSlot
<1>7. InstallOrder'
  BY <1>2 DEF Inv, InstallOrder, ConfirmMark, RollBackAndReboot, disk, diag, main,
         parts, Target, InstallPCs, TypeOK, PendingVerify, OtaSlots, Select, Active,
         OtherSlot
<1>8. ConfirmationOrder'
  <2>1. OnTrial # {} /\ Up
    BY DEF Inv, ConfirmationOrder, Verifying, ConfirmMark, Up
  <2>2. CASE RollBackAndReboot
    BY <2>1, <2>2, RollBackEffect DEF RollBackAndReboot, diag, ConfirmationOrder,
           Verifying
  <2>3. CASE /\ ota' = [ota EXCEPT ![running] = "valid"]
             /\ conf' = "status"
             /\ UNCHANGED <<slot, authRec, newest, disk, main, diag>>
    BY <2>1, <2>3, ConfirmEffect DEF Inv, main, diag, ConfirmationOrder, Verifying,
           ConfirmMark
  <2> QED BY <2>2, <2>3 DEF ConfirmMark
<1>9. NoInputBehindTrial'
  <2>1. OnTrial # {} /\ Up
    BY DEF Inv, ConfirmationOrder, Verifying, ConfirmMark, Up
  <2>2. CASE RollBackAndReboot
    BY <2>1, <2>2, RollBackEffect DEF RollBackAndReboot, NoInputBehindTrial
  <2>3. CASE /\ ota' = [ota EXCEPT ![running] = "valid"]
             /\ conf' = "status"
             /\ UNCHANGED <<slot, authRec, newest, disk, main, diag>>
    BY <2>1, <2>3, ConfirmEffect DEF NoInputBehindTrial
  <2> QED BY <2>2, <2>3 DEF ConfirmMark
<1>10. ConfirmedMeansDecided'
  BY <1>2 DEF Inv, ConfirmedMeansDecided, ConfirmMark, RollBackAndReboot, disk,
         diag, main, parts, OnTrial, TypeOK, PendingVerify, OtaSlots, Select,
         Active, OtherSlot
<1> QED BY <1>1, <1>3, <1>4, <1>5, <1>6, <1>7, <1>8, <1>9, <1>10 DEF Inv

LEMMA InvConfirmStatus == Inv /\ FailureLasts /\ ConfirmStatus => Inv'
<1> SUFFICES ASSUME Inv, NoFailureYet' => NoFailureYet /\ ~Fails, ConfirmStatus PROVE Inv'
  BY DEF FailureLasts
<1>1. TypeOK'
  BY TypeConfirmStatus DEF Inv
<1>2. UNCHANGED <<slot, authRec, ota, newest, file, pc,
                running, src, img, confirmReq, exposed>>
  BY DEF ConfirmStatus, SetState, parts, main
<1>3. OnTrial' = OnTrial
  BY <1>2 DEF OnTrial
<1>4. /\ FactoryKept' /\ BootChoiceSound' /\ TrialIsNewest'
      /\ NoTrialInTransaction' /\ NoInputBehindTrial'
  BY <1>2, <1>3 DEF Inv, FactoryKept, BootChoiceSound, Fallback, TrialIsNewest,
         NoTrialInTransaction, NoInputBehindTrial
<1>5. InstallOrder'
  <2>1. pc \in {"tasks", "gate", "running", "halted"}
    BY DEF Inv, ConfirmationOrder, ConfirmStatus
  <2> QED BY <1>2, <2>1 DEF InstallOrder, InstallPCs
<1>6. ConfirmationOrder'
  <2>1. /\ OnTrial = {} /\ confirmReq
        /\ pc \in {"tasks", "gate", "running", "halted"}
        /\ exposed => pc \in {"running", "recHost"}
        /\ ~(exposed /\ pc = "running")
    BY DEF Inv, ConfirmationOrder, ConfirmStatus
  <2>2. conf' \in {"remove", "done"}
    BY DEF ConfirmStatus
  <2> QED BY <1>2, <1>3, <2>1, <2>2 DEF ConfirmationOrder, Verifying
<1>7. ConfirmedMeansDecided'
  <2>1. OnTrial = {}
    BY DEF Inv, ConfirmationOrder, ConfirmStatus
  <2> QED BY <1>3, <2>1 DEF ConfirmedMeansDecided
<1> QED BY <1>1, <1>4, <1>5, <1>6, <1>7 DEF Inv

LEMMA InvConfirmRemove == Inv /\ FailureLasts /\ ConfirmRemove => Inv'
<1> SUFFICES ASSUME Inv, NoFailureYet' => NoFailureYet /\ ~Fails, ConfirmRemove PROVE Inv'
  BY DEF FailureLasts
<1>1. TypeOK'
  BY TypeConfirmRemove DEF Inv
<1>2. UNCHANGED <<slot, authRec, ota, newest, status, pc,
                running, src, img, exposed>>
  BY DEF ConfirmRemove, SetState, parts, main
<1>3. OnTrial' = OnTrial
  BY <1>2 DEF OnTrial
<1>4. /\ FactoryKept' /\ BootChoiceSound' /\ TrialIsNewest'
      /\ NoTrialInTransaction' /\ ConfirmedMeansDecided'
  BY <1>2, <1>3 DEF Inv, FactoryKept, BootChoiceSound, Fallback, TrialIsNewest,
         NoTrialInTransaction, ConfirmedMeansDecided
<1>5. InstallOrder'
  BY <1>2, <1>3 DEF Inv, InstallOrder, ConfirmRemove, parts, main, Target,
         InstallPCs, RemoveDone, RemoveFails, Names, TypeOK
<1>6. ConfirmationOrder'
  BY <1>2, <1>3 DEF Inv, ConfirmationOrder, ConfirmRemove, parts, main,
         TransactionPCs, InstallPCs, NoTrialInTransaction, Verifying, TypeOK
<1>7. NoInputBehindTrial'
  BY <1>2, <1>3 DEF Inv, NoInputBehindTrial, ConfirmRemove, parts, main, RemoveDone,
         RemoveFails, Names, TypeOK
<1> QED BY <1>1, <1>4, <1>5, <1>6, <1>7 DEF Inv

-----------------------------------------------------------------------------
(* The invariant                                                           *)

LEMMA InvInit == Init => Inv
<1> SUFFICES ASSUME Init PROVE Inv
  OBVIOUS
<1>1. TypeOK
  BY TypeInit
<1>2. OnTrial = {} /\ Active(ota, newest) = "factory" /\ Fallback = "factory"
  BY DEF Init, OnTrial, Active, Fallback, Select, OtaSlots, OtherSlot
<1>3. FactoryKept /\ BootChoiceSound
  BY <1>2, ConstantsAssumption DEF Init, FactoryKept, BootChoiceSound, Slots, OtaSlots
<1>4. TrialIsNewest /\ NoTrialInTransaction /\ NoInputBehindTrial
      /\ ConfirmedMeansDecided
  BY <1>2 DEF Init, TrialIsNewest, NoTrialInTransaction, NoInputBehindTrial,
              ConfirmedMeansDecided
<1>5. InstallOrder /\ ConfirmationOrder
  BY <1>2 DEF Init, InstallOrder, InstallPCs, ConfirmationOrder, Verifying
<1> QED BY <1>1, <1>3, <1>4, <1>5 DEF Inv

LEMMA InvStutter == Inv /\ UNCHANGED vars => Inv'
<1> SUFFICES ASSUME Inv, UNCHANGED vars PROVE Inv'
  OBVIOUS
<1>1. UNCHANGED <<slot, authRec, ota, newest, file, status, pc, running, src, img,
                 state, err, confirmReq, workers, conf, exposed, faults, hostWrites>>
  BY DEF vars, parts, disk, diag, main
<1>2. TypeOK' /\ OnTrial' = OnTrial /\ Fallback' = Fallback /\ Target' = Target
  BY <1>1 DEF Inv, TypeOK, OnTrial, Fallback, Target
<1>3. FactoryKept' /\ BootChoiceSound' /\ TrialIsNewest' /\ NoTrialInTransaction'
  BY <1>1, <1>2 DEF Inv, FactoryKept, BootChoiceSound, TrialIsNewest,
                    NoTrialInTransaction
<1>4. InstallOrder' /\ ConfirmationOrder' /\ NoInputBehindTrial'
      /\ ConfirmedMeansDecided'
  BY <1>1, <1>2 DEF Inv, InstallOrder, ConfirmationOrder, NoInputBehindTrial,
                    ConfirmedMeansDecided, NoFailureYet
<1> QED BY <1>2, <1>3, <1>4 DEF Inv

LEMMA InvStep == Inv /\ [Next]_vars => Inv'
<1> SUFFICES ASSUME Inv, [Next]_vars PROVE Inv'
  OBVIOUS
<1>0. FailureLasts
  BY FailureRemains DEF Inv
<1>1. ASSUME Transaction PROVE Inv'
  BY <1>0, <1>1,
     InvProcessUpdate, InvReconcile, InvCleanStatus, InvCleanRemove,
     InvRetirePending, InvReportPending, InvTakeInput, InvInspectInput,
     InvOpenInput, InvEraseTarget, InvWriteTarget, InvEraseAuthRecord,
     InvWriteAuthRecord, InvMoveConflict, InvStagePending, InvAnnounceStaged,
     InvSetBoot, InvRestart, InvUndoPending, InvRejectInput, InvReport
  DEF Transaction
<1>2. ASSUME Startup PROVE Inv'
  BY <1>0, <1>1, <1>2, InvBeginConfirmation, InvStartWorkers, InvOpenGate,
     InvExposeRecovery
  DEF Startup
<1>3. ASSUME Confirmation PROVE Inv'
  BY <1>0, <1>3, InvConfirmDelay, InvConfirmRead, InvConfirmRetire, InvConfirmReport,
     InvConfirmMark, InvConfirmStatus, InvConfirmRemove
  DEF Confirmation
<1>4. ASSUME Environment PROVE Inv'
  BY <1>0, <1>4, InvPowerCut, InvHostWrite, InvHostRelease DEF Environment
<1> QED BY <1>0, <1>2, <1>3, <1>4, InvBoot, InvStutter DEF Next

\* The order in which the update touches partitions, files, otadata and the
\* medium, kept by every step of every actor.
THEOREM Invariant == Spec => []Inv
<1> QED BY InvInit, InvStep, PTL DEF Spec

\* Wherever the power is cut, what boots next, and what boots if a trial is
\* dropped, is a complete image certified by its authentication record
\* (apply_update, esp_ota_set_boot_partition, the bootloader).
THEOREM BootAlwaysSound == Spec => []BootChoiceSound
<1>1. Inv => BootChoiceSound
  BY DEF Inv
<1> QED BY <1>1, Invariant, PTL

\* UPDATE_RESULT.TXT never says CONFIRMED of a device with an undecided trial
\* (OpenInput and AnnounceStaged before the commit, ConfirmStatus after the verdict).
THEOREM ConfirmedIsDecided == Spec => []ConfirmedMeansDecided
<1>1. Inv => ConfirmedMeansDecided
  BY DEF Inv
<1> QED BY <1>1, Invariant, PTL

\* Until a call fails, no second UPDATE.BIN waits on the config FAT behind a trial.
THEOREM NoSecondInput == Spec => []NoInputBehindTrial
<1>1. Inv => NoInputBehindTrial
  BY DEF Inv
<1> QED BY <1>1, Invariant, PTL

\* The host owns the config FAT only when no trial is undecided and the
\* ota_confirm task has ended (the gate of app_startup_run).
THEOREM MediumIsQuiet == Spec => []HostOwnsQuietMedium
<1>1. ASSUME Inv, exposed, pc = "running"
      PROVE  OnTrial = {} /\ conf \in {"none", "done"}
  BY <1>1 DEF Inv, TypeOK, ConfPCs, ConfirmationOrder
<1>2. Inv => HostOwnsQuietMedium
  BY <1>1 DEF HostOwnsQuietMedium
<1> QED BY <1>2, Invariant, PTL

-----------------------------------------------------------------------------
(* Refinement of AtomicUpdate                                              *)

LEMMA AbstractInit == Init => Abstract!Init
<1> SUFFICES ASSUME Init PROVE slot[Fallback] = FactoryImage /\ TrialImage = NoImage
  BY DEF Abstract!Init
<1>1. OnTrial = {} /\ Fallback = "factory"
  BY DEF Init, OnTrial, Fallback, Select, OtaSlots, OtherSlot
<1> QED BY <1>1 DEF Init, TrialImage, Slots, OtaSlots

\* Of the images on trial there is at most one.
LEMMA TrialImageIs ==
    /\ OnTrial = {} => TrialImage = NoImage
    /\ \A s : OnTrial = {s} => TrialImage = slot[s]
BY DEF TrialImage

\* A step that leaves what boots, what is on trial and their slots alone.
LEMMA SameBoot ==
    ASSUME OnTrial' = OnTrial, Fallback' = Fallback,
           \A s \in OnTrial \cup {Fallback} : slot'[s] = slot[s],
           OnTrial = {} \/ OnTrial = {newest}
    PROVE  UNCHANGED Abstract!vars
<1>1. slot'[Fallback'] = slot[Fallback]
  OBVIOUS
<1>2. TrialImage' = TrialImage
  BY DEF TrialImage
<1> QED BY <1>1, <1>2 DEF Abstract!vars

LEMMA TrialIsSingle == Inv => OnTrial = {} \/ OnTrial = {newest}
BY DEF Inv, TrialIsNewest

\* Steps that write no partition and no otadata.
LEMMA PartsKept == Inv /\ UNCHANGED <<slot, ota, newest>> => UNCHANGED Abstract!vars
<1> SUFFICES ASSUME Inv, UNCHANGED <<slot, ota, newest>> PROVE UNCHANGED Abstract!vars
  OBVIOUS
<1>1. OnTrial' = OnTrial /\ Fallback' = Fallback
  BY DEF OnTrial, Fallback
<1> QED BY <1>1, SameBoot, TrialIsSingle

LEMMA QuietSteps ==
    ASSUME Inv,
           \/ ProcessUpdate \/ Reconcile \/ CleanStatus \/ CleanRemove
           \/ RetirePending \/ ReportPending \/ TakeInput \/ InspectInput
           \/ OpenInput \/ EraseAuthRecord \/ WriteAuthRecord \/ MoveConflict
           \/ StagePending \/ AnnounceStaged \/ Restart \/ UndoPending
           \/ RejectInput \/ Report \/ StartWorkers \/ OpenGate \/ ExposeRecovery
           \/ HostRelease \/ HostWrite \/ PowerCut \/ ConfirmRead \/ ConfirmRetire
           \/ ConfirmReport \/ ConfirmStatus \/ ConfirmRemove
    PROVE  UNCHANGED Abstract!vars
<1>1. \/ ProcessUpdate \/ Reconcile \/ CleanStatus \/ CleanRemove \/ RetirePending
      \/ ReportPending \/ TakeInput \/ InspectInput \/ OpenInput
      => UNCHANGED <<slot, ota, newest>>
  BY DEF ProcessUpdate, Reconcile, CleanStatus, CleanRemove, RetirePending,
         ReportPending, TakeInput, InspectInput, OpenInput, parts
<1>2. \/ EraseAuthRecord \/ WriteAuthRecord \/ MoveConflict \/ StagePending
      \/ AnnounceStaged \/ Restart \/ UndoPending \/ RejectInput \/ Report
      => UNCHANGED <<slot, ota, newest>>
  BY DEF EraseAuthRecord, WriteAuthRecord, MoveConflict, StagePending,
         AnnounceStaged, Restart, UndoPending, RejectInput, Report, parts
<1>3. \/ StartWorkers \/ OpenGate \/ ExposeRecovery \/ HostRelease \/ HostWrite
      \/ PowerCut
      => UNCHANGED <<slot, ota, newest>>
  BY DEF StartWorkers, OpenGate, ExposeRecovery, HostRelease, HostWrite, PowerCut,
         parts
<1>4. \/ ConfirmRead \/ ConfirmRetire \/ ConfirmReport \/ ConfirmStatus
      \/ ConfirmRemove
      => UNCHANGED <<slot, ota, newest>>
  BY DEF ConfirmRead, ConfirmRetire, ConfirmReport, ConfirmStatus, ConfirmRemove,
         parts
<1>5. UNCHANGED <<slot, ota, newest>>
  BY <1>1, <1>2, <1>3, <1>4
<1> QED BY <1>5, PartsKept

\* The inactive partition is not the current image, and nothing is on trial.
LEMMA InactiveSlotSteps ==
    ASSUME Inv, EraseTarget \/ WriteTarget PROVE UNCHANGED Abstract!vars
<1>1. /\ UNCHANGED <<ota, newest>>
      /\ \A s \in Slots \ {Target} : slot'[s] = slot[s]
  BY DEF EraseTarget, WriteTarget, Inv, TypeOK
<1>2. OnTrial = {} /\ Up
  BY DEF Inv, NoTrialInTransaction, TransactionPCs, InstallPCs, EraseTarget,
         WriteTarget, Up
<1>3. Fallback = running /\ Target # running
  BY <1>2, NoTrialRunning
<1>4. OnTrial' = OnTrial /\ Fallback' = Fallback
  BY <1>1 DEF OnTrial, Fallback
<1>5. slot'[Fallback] = slot[Fallback]
  BY <1>1, <1>3 DEF Inv, TypeOK
<1> QED BY <1>2, <1>4, <1>5, SameBoot

\* The commit is Stage.
LEMMA CommitRefines == Inv /\ SetBoot => [Abstract!Next]_(Abstract!vars)
<1> SUFFICES ASSUME Inv, SetBoot PROVE [Abstract!Next]_(Abstract!vars)
  OBVIOUS
<1>1. CASE ota' = [ota EXCEPT ![Target] = "new"] /\ newest' = Target
  <2>1. OnTrial = {} /\ Up
    BY DEF Inv, NoTrialInTransaction, TransactionPCs, InstallPCs, SetBoot, Up
  <2>2. OnTrial' = {Target} /\ Fallback' = Fallback
    BY <1>1, <2>1, CommitEffect
  <2>3. slot' = slot /\ slot[Target] = img /\ img \in Genuine
    BY DEF SetBoot, Inv, InstallOrder, InstallPCs, TypeOK
  <2>4. TrialImage = NoImage
    BY <2>1 DEF TrialImage
  <2>5. TrialImage' = slot[Target]
    BY <2>2, <2>3 DEF TrialImage
  <2>6. slot'[Fallback'] = slot[Fallback]
    BY <2>2, <2>3
  <2> QED BY <2>3, <2>4, <2>5, <2>6 DEF Abstract!Next, Abstract!Stage
<1>2. CASE UNCHANGED <<ota, newest>>
  BY <1>2, PartsKept DEF SetBoot
<1> QED BY <1>1, <1>2 DEF SetBoot

\* ota_confirm's verdict is Confirm, giving up on the trial is RollBack.
LEMMA RollBackRefines ==
    ASSUME Inv, Up, OnTrial # {}, RollBackAndReboot PROVE Abstract!RollBack
<1>1. /\ slot' = slot /\ newest' = newest
      /\ ota' = [ota EXCEPT ![running] = "aborted"]
  BY DEF RollBackAndReboot
<1>2. OnTrial' = {} /\ Fallback' = Fallback
  BY <1>1, RollBackEffect
<1>3. OnTrial = {newest} /\ newest \in OtaSlots /\ Active(ota, newest) = newest
  BY TrialRunning, ConfirmEffect DEF Active, Select
<1>4. TrialImage = slot[newest] /\ slot[newest] \in Genuine
  BY <1>3 DEF TrialImage, Inv, BootChoiceSound
<1>5. TrialImage # NoImage /\ TrialImage' = NoImage
  BY <1>2, <1>4, ConstantsAssumption DEF TrialImage
<1>6. slot'[Fallback'] = slot[Fallback]
  BY <1>1, <1>2
<1> QED BY <1>5, <1>6 DEF Abstract!RollBack

LEMMA VerdictRefines ==
    ASSUME Inv, BeginConfirmation \/ ConfirmDelay \/ ConfirmMark
    PROVE  [Abstract!Next]_(Abstract!vars)
<1>1. CASE RollBackAndReboot
  <2>1. Up
    BY DEF BeginConfirmation, ConfirmDelay, ConfirmMark, Up, Inv, ConfirmationOrder
  <2>2. OnTrial # {}
    BY <1>1, <2>1 DEF BeginConfirmation, ConfirmDelay, ConfirmMark, Up, Inv,
       ConfirmationOrder, Verifying, RollBackAndReboot
  <2> QED BY <1>1, <2>1, <2>2, RollBackRefines DEF Abstract!Next
<1>2. CASE UNCHANGED <<slot, ota, newest>>
  BY <1>2, PartsKept
<1>3. CASE /\ ConfirmMark
           /\ ota' = [ota EXCEPT ![running] = "valid"]
           /\ UNCHANGED <<slot, newest>>
  <2>1. Up /\ OnTrial # {}
    BY <1>3 DEF ConfirmMark, Up, Inv, ConfirmationOrder, Verifying
  <2>2. OnTrial' = {} /\ Fallback' = newest /\ Active(ota, newest) = newest
    BY <1>3, <2>1, ConfirmEffect
  <2>3. OnTrial = {newest} /\ newest \in OtaSlots
    BY <2>1, TrialRunning
  <2>4. TrialImage = slot[newest] /\ slot[newest] \in Genuine
    BY <2>2, <2>3 DEF TrialImage, Inv, BootChoiceSound
  <2>5. TrialImage # NoImage /\ TrialImage' = NoImage
    BY <2>2, <2>4, ConstantsAssumption DEF TrialImage
  <2>6. slot'[Fallback'] = TrialImage
    BY <1>3, <2>2, <2>4
  <2> QED BY <2>5, <2>6 DEF Abstract!Next, Abstract!Confirm
<1> QED BY <1>1, <1>2, <1>3 DEF BeginConfirmation, ConfirmDelay, ConfirmMark, parts

\* The bootloader keeps a new trial and drops one that is not confirmed.
LEMMA BootRefines == Inv /\ Boot => [Abstract!Next]_(Abstract!vars)
<1> SUFFICES ASSUME Inv, Boot PROVE [Abstract!Next]_(Abstract!vars)
  OBVIOUS
<1>1. slot' = slot
  BY DEF Boot
<1>2. Fallback' = Fallback /\ newest' = newest /\ OnTrial' \in {{}, OnTrial}
  BY BootEffect
<1>3. slot'[Fallback'] = slot[Fallback]
  BY <1>1, <1>2
<1>4. CASE OnTrial' = OnTrial
  BY <1>1, <1>2, <1>4, SameBoot, TrialIsSingle
<1>5. CASE OnTrial' = {} /\ OnTrial # {}
  <2>1. OnTrial = {newest} /\ newest \in OtaSlots
    BY <1>5, TrialIsSingle DEF Inv, TypeOK
  <2>2. Active(ota, newest) = newest
    BY <2>1 DEF OnTrial, Active, Select
  <2>3. TrialImage = slot[newest] /\ slot[newest] \in Genuine
    BY <2>1, <2>2 DEF TrialImage, Inv, BootChoiceSound
  <2>4. TrialImage # NoImage /\ TrialImage' = NoImage
    BY <1>5, <2>3, ConstantsAssumption DEF TrialImage
  <2> QED BY <1>3, <2>4 DEF Abstract!Next, Abstract!RollBack
<1> QED BY <1>2, <1>4, <1>5

LEMMA AbstractStep == Inv /\ [Next]_vars => [Abstract!Next]_(Abstract!vars)
<1> SUFFICES ASSUME Inv, [Next]_vars PROVE [Abstract!Next]_(Abstract!vars)
  OBVIOUS
<1>1. CASE UNCHANGED vars
  BY <1>1, PartsKept DEF vars, parts
<1>2. CASE Transaction
  BY <1>2, QuietSteps, InactiveSlotSteps, CommitRefines DEF Transaction
<1>3. CASE BeginConfirmation \/ StartWorkers \/ OpenGate \/ ExposeRecovery
  BY <1>3, QuietSteps, VerdictRefines
<1>4. CASE Confirmation
  BY <1>4, QuietSteps, VerdictRefines DEF Confirmation
<1>5. CASE Environment
  BY <1>5, QuietSteps DEF Environment
<1> QED BY <1>1, <1>2, <1>3, <1>4, <1>5, BootRefines DEF Next, Startup

\* Whatever fails and whenever power is cut, the device behaves like one that
\* replaces its image by a genuine one after a trial, or keeps it.
THEOREM UpdateIsAtomic == Spec => AtomicUpdateSpec
<1>1. Init => Abstract!Init
  BY AbstractInit
<1>2. Inv /\ [Next]_vars => [Abstract!Next]_(Abstract!vars)
  BY AbstractStep
<1> QED BY <1>1, <1>2, Invariant, PTL DEF Spec, AtomicUpdateSpec, Abstract!Spec

\* The three together: what every moment of an update, a crash and a
\* confirmation promises (firmware_update.c).
THEOREM UpdateAlwaysSound == Spec => []UpdateSound
<1>1. BootChoiceSound /\ ConfirmedMeansDecided /\ NoInputBehindTrial => UpdateSound
  BY DEF UpdateSound
<1> QED BY <1>1, BootAlwaysSound, ConfirmedIsDecided, NoSecondInput, PTL

-----------------------------------------------------------------------------
(* The files of the update as long as no call fails                        *)

\* What UPDATE.PND may be for image i on trial in slot s.
Evidence(i, s) == {Package(i), Record(i, s)}

\* A trial has its evidence (TrialHasEvidence, for the slots on trial).
EvidenceThere ==
    \A s \in OnTrial : /\ file["PND"] \in Evidence(slot[s], s)
                       /\ status = Status("STAGED", slot[s])

\* Where UPDATE.PND is at each step of the transaction and of the confirmation
\* task as long as no call fails.
PendingPlaced ==
    /\ pc = "retire" => file["PND"] # None
    /\ pc \in {"reportPending", "input", "inspect", "open", "erase", "write", "authErase",
               "authWrite", "conflict", "stage"} => file["PND"] = None
    /\ pc \in {"announce", "setBoot"} => file["PND"] \in Evidence(img, Target)
    /\ pc = "undo" => src = "psram" /\ file["PND"] # None
    /\ pc \in {"cleanStatus", "cleanRemove"} => PendingIsRunning
    /\ conf \notin {"retire", "report"}
    /\ conf \in {"status", "remove"} => file["PND"] \in Evidence(slot[running], running)

\* Where the user's input is at each step of an installation.
InputPlaced ==
    /\ pc \in InstallPCs \ {"announce", "setBoot"} /\ src = "flash" =>
           file["BIN"] = Package(img)
    /\ pc = "conflict" => src = "psram"
    /\ pc = "reject" /\ src = "flash" => file["BIN"] # None
    /\ pc = "setBoot" => status = Status("STAGED", img)

\* The inductive part: no single one of the three is kept without the others.
Placed == EvidenceThere /\ PendingPlaced /\ InputPlaced

\* Evidence is a file.
LEMMA EvidenceIsThere == \A i, s : None \notin Evidence(i, s)
BY DEF Evidence, None, Package, Record

\* The files are in place on a device that has run no update.
LEMMA PlacedInit == Init => Placed
<1> SUFFICES ASSUME Init PROVE Placed
  OBVIOUS
<1>1. OnTrial = {}
  BY DEF Init, OnTrial
<1> QED BY <1>1 DEF Init, Placed, EvidenceThere, PendingPlaced, InputPlaced, InstallPCs

\* How a step keeps the evidence: it touches neither the trial nor the files;
\* there is no trial during the transaction; the trial is decided.
LEMMA EvidenceFrame ==
    ASSUME EvidenceThere, slot' = slot, ota' = ota, status' = status,
           file'["PND"] = file["PND"]
    PROVE  EvidenceThere'
BY DEF EvidenceThere, OnTrial

LEMMA NothingOnTrial ==
    ASSUME NoTrialInTransaction, pc \in TransactionPCs, ota' = ota
    PROVE  EvidenceThere'
BY DEF EvidenceThere, OnTrial, NoTrialInTransaction

\* A file with a package's kind is that package.
LEMMA PackageFile ==
    ASSUME NEW f \in Files, f.kind = "package"
    PROVE  f = Package(f.pkg) /\ f # None
BY DEF Files, None, Damaged, Package, Record

\* The running trial finds its own evidence.
LEMMA TrialEvidence ==
    ASSUME Inv, EvidenceThere, OnTrial # {}, Up
    PROVE  file["PND"] \in Evidence(slot[running], running)
BY TrialRunning DEF EvidenceThere

LEMMA DecidedEvidence == OnTrial' = {} => EvidenceThere'
BY DEF EvidenceThere

\* One lemma per action: as long as no call fails, the step leaves the files where
\* the next step of the transaction or of the confirmation expects them.
LEMMA PlacedProcessUpdate == Inv /\ Placed /\ ~Fails /\ ProcessUpdate => Placed'
<1> SUFFICES ASSUME Inv, Placed, ~Fails, ProcessUpdate PROVE Placed'
  OBVIOUS
<1> TypeOK /\ NoTrialInTransaction /\ ConfirmationOrder /\ PendingPlaced /\ InputPlaced /\ EvidenceThere
  BY DEF Inv, Placed
<1>1. EvidenceThere'
  BY EvidenceFrame DEF ProcessUpdate, parts, disk
<1>2. PendingPlaced'
  BY EvidenceIsThere DEF ProcessUpdate, parts, disk, PendingPlaced
<1>3. InputPlaced'
  BY DEF ProcessUpdate, InputPlaced, InstallPCs, TransactionPCs, PendingIsRunning,
     RecordMatches, Target, None, Package, Evidence, Record
<1> QED BY <1>1, <1>2, <1>3 DEF Placed

LEMMA PlacedReconcile == Inv /\ Placed /\ ~Fails /\ Reconcile => Placed'
<1> SUFFICES ASSUME Inv, Placed, ~Fails, Reconcile PROVE Placed'
  OBVIOUS
<1> TypeOK /\ NoTrialInTransaction /\ ConfirmationOrder /\ PendingPlaced /\ InputPlaced /\ EvidenceThere
  BY DEF Inv, Placed
<1>1. EvidenceThere'
  BY NothingOnTrial DEF Reconcile, parts, TransactionPCs
<1>2. PendingPlaced'
  BY EvidenceIsThere DEF Reconcile, LooksAbsent, SetState, parts, disk, PendingPlaced,
     PendingIsRunning, RecordMatches, None, Damaged
<1>3. InputPlaced'
  BY DEF Reconcile, InputPlaced, InstallPCs, TransactionPCs, PendingIsRunning, RecordMatches,
     Target, None, Package, Evidence, Record
<1> QED BY <1>1, <1>2, <1>3 DEF Placed

LEMMA PlacedCleanStatus == Inv /\ Placed /\ ~Fails /\ CleanStatus => Placed'
<1> SUFFICES ASSUME Inv, Placed, ~Fails, CleanStatus PROVE Placed'
  OBVIOUS
<1> TypeOK /\ NoTrialInTransaction /\ ConfirmationOrder /\ PendingPlaced /\ InputPlaced /\ EvidenceThere
  BY DEF Inv, Placed
<1>1. EvidenceThere'
  BY NothingOnTrial DEF CleanStatus, parts, TransactionPCs
<1>2. PendingPlaced'
  BY EvidenceIsThere DEF CleanStatus, parts, PendingPlaced, PendingIsRunning, RecordMatches
<1>3. InputPlaced'
  BY DEF CleanStatus, InputPlaced, InstallPCs, TransactionPCs, PendingIsRunning,
     RecordMatches, Target, None, Package, Evidence, Record
<1> QED BY <1>1, <1>2, <1>3 DEF Placed

LEMMA PlacedCleanRemove == Inv /\ Placed /\ ~Fails /\ CleanRemove => Placed'
<1> SUFFICES ASSUME Inv, Placed, ~Fails, CleanRemove PROVE Placed'
  OBVIOUS
<1> TypeOK /\ NoTrialInTransaction /\ ConfirmationOrder /\ PendingPlaced /\ InputPlaced /\ EvidenceThere
  BY DEF Inv, Placed
<1>1. EvidenceThere'
  BY NothingOnTrial DEF CleanRemove, parts, TransactionPCs, InstallPCs
<1>2. PendingPlaced'
  BY EvidenceIsThere DEF CleanRemove, RemoveDone, PendingPlaced, TypeOK, Names,
     PendingIsRunning, RecordMatches, ConfirmationOrder
<1>3. InputPlaced'
  BY DEF CleanRemove, PendingPlaced, InputPlaced, TypeOK, Names, InstallPCs, TransactionPCs,
     PendingIsRunning, RecordMatches, Target, None, Package, Evidence, Record
<1> QED BY <1>1, <1>2, <1>3 DEF Placed

LEMMA PlacedRetirePending == Inv /\ Placed /\ ~Fails /\ RetirePending => Placed'
<1> SUFFICES ASSUME Inv, Placed, ~Fails, RetirePending PROVE Placed'
  OBVIOUS
<1> TypeOK /\ NoTrialInTransaction /\ ConfirmationOrder /\ PendingPlaced /\ InputPlaced /\ EvidenceThere
  BY DEF Inv, Placed
<1>1. EvidenceThere'
  BY NothingOnTrial DEF RetirePending, parts, TransactionPCs
<1>2. PendingPlaced'
  BY EvidenceIsThere DEF RetirePending, MoveDone, MoveFails, PendingPlaced, TypeOK, Names,
     ConfirmationOrder
<1>3. InputPlaced'
  BY DEF RetirePending, InputPlaced, InstallPCs, TransactionPCs, PendingIsRunning,
     RecordMatches, Target, None, Package, Evidence, Record
<1> QED BY <1>1, <1>2, <1>3 DEF Placed

LEMMA PlacedReportPending == Inv /\ Placed /\ ~Fails /\ ReportPending => Placed'
<1> SUFFICES ASSUME Inv, Placed, ~Fails, ReportPending PROVE Placed'
  OBVIOUS
<1> TypeOK /\ NoTrialInTransaction /\ ConfirmationOrder /\ PendingPlaced /\ InputPlaced /\ EvidenceThere
  BY DEF Inv, Placed
<1>1. EvidenceThere'
  BY NothingOnTrial DEF ReportPending, parts, TransactionPCs
<1>2. PendingPlaced'
  BY EvidenceIsThere DEF ReportPending, PendingPlaced
<1>3. InputPlaced'
  BY DEF ReportPending, InputPlaced, InstallPCs, TransactionPCs, PendingIsRunning,
     RecordMatches, Target, None, Package, Evidence, Record
<1> QED BY <1>1, <1>2, <1>3 DEF Placed

LEMMA PlacedTakeInput == Inv /\ Placed /\ ~Fails /\ TakeInput => Placed'
<1> SUFFICES ASSUME Inv, Placed, ~Fails, TakeInput PROVE Placed'
  OBVIOUS
<1> TypeOK /\ NoTrialInTransaction /\ ConfirmationOrder /\ PendingPlaced /\ InputPlaced /\ EvidenceThere
  BY DEF Inv, Placed
<1>1. EvidenceThere'
  BY NothingOnTrial DEF TakeInput, parts, TransactionPCs
<1>2. PendingPlaced'
  BY EvidenceIsThere DEF TakeInput, disk, PendingPlaced
<1>3. InputPlaced'
  BY DEF TakeInput, InputPlaced, InstallPCs, TransactionPCs, PendingIsRunning, RecordMatches,
     Target, None, Package, Evidence, Record
<1> QED BY <1>1, <1>2, <1>3 DEF Placed

LEMMA PlacedInspectInput == Inv /\ Placed /\ ~Fails /\ InspectInput => Placed'
<1> SUFFICES ASSUME Inv, Placed, ~Fails, InspectInput PROVE Placed'
  OBVIOUS
<1> TypeOK /\ NoTrialInTransaction /\ ConfirmationOrder /\ PendingPlaced /\ InputPlaced /\ EvidenceThere
  BY DEF Inv, Placed
<1>1. EvidenceThere'
  BY NothingOnTrial DEF InspectInput, parts, TransactionPCs
<1>2. PendingPlaced'
  BY EvidenceIsThere DEF InspectInput, disk, PendingPlaced
<1>3. InputPlaced'
  <2> DEFINE f == file["BIN"]
  <2>1. f \in Files
    BY DEF TypeOK, Names
  <2>2. f.kind = "package" => f = Package(f.pkg) /\ f # None
    BY <2>1, PackageFile
  <2>3. src = "flash" /\ pc' = "open" => f.kind = "package" /\ img' = f.pkg
    BY ConstantsAssumption DEF InspectInput, InputName
  <2>4. src = "flash" /\ pc' = "reject" => f.kind = "package"
    BY ConstantsAssumption DEF InspectInput, InputName
  <2>5. pc' \in {"open", "reject", "report"} /\ UNCHANGED <<file, src>>
    BY DEF InspectInput, disk
  <2> QED BY <2>2, <2>3, <2>4, <2>5 DEF InputPlaced, InstallPCs
<1> QED BY <1>1, <1>2, <1>3 DEF Placed

LEMMA PlacedOpenInput == Inv /\ Placed /\ ~Fails /\ OpenInput => Placed'
<1> SUFFICES ASSUME Inv, Placed, ~Fails, OpenInput PROVE Placed'
  OBVIOUS
<1> TypeOK /\ NoTrialInTransaction /\ ConfirmationOrder /\ PendingPlaced /\ InputPlaced /\ EvidenceThere
  BY DEF Inv, Placed
<1>1. EvidenceThere'
  BY NothingOnTrial DEF OpenInput, parts, TransactionPCs, InstallPCs
<1>2. PendingPlaced'
  BY EvidenceIsThere DEF OpenInput, PendingPlaced
<1>3. InputPlaced'
  BY DEF OpenInput, WriteFails, InputPlaced, InstallPCs, TransactionPCs, PendingIsRunning,
     RecordMatches, Target, None, Package, Evidence, Record
<1> QED BY <1>1, <1>2, <1>3 DEF Placed

LEMMA PlacedEraseTarget == Inv /\ Placed /\ ~Fails /\ EraseTarget => Placed'
<1> SUFFICES ASSUME Inv, Placed, ~Fails, EraseTarget PROVE Placed'
  OBVIOUS
<1> TypeOK /\ NoTrialInTransaction /\ ConfirmationOrder /\ PendingPlaced /\ InputPlaced /\ EvidenceThere
  BY DEF Inv, Placed
<1>1. EvidenceThere'
  BY NothingOnTrial DEF EraseTarget, TransactionPCs, InstallPCs
<1>2. PendingPlaced'
  BY EvidenceIsThere DEF EraseTarget, disk, PendingPlaced
<1>3. InputPlaced'
  BY DEF EraseTarget, disk, InputPlaced, InstallPCs, TransactionPCs, PendingIsRunning,
     RecordMatches, Target, None, Package, Evidence, Record
<1> QED BY <1>1, <1>2, <1>3 DEF Placed

LEMMA PlacedWriteTarget == Inv /\ Placed /\ ~Fails /\ WriteTarget => Placed'
<1> SUFFICES ASSUME Inv, Placed, ~Fails, WriteTarget PROVE Placed'
  OBVIOUS
<1> TypeOK /\ NoTrialInTransaction /\ ConfirmationOrder /\ PendingPlaced /\ InputPlaced /\ EvidenceThere
  BY DEF Inv, Placed
<1>1. EvidenceThere'
  BY NothingOnTrial DEF WriteTarget, TransactionPCs, InstallPCs
<1>2. PendingPlaced'
  BY EvidenceIsThere DEF WriteTarget, disk, PendingPlaced, ConfirmationOrder
<1>3. InputPlaced'
  BY DEF WriteTarget, disk, InputPlaced, InstallPCs, TransactionPCs, PendingIsRunning,
     RecordMatches, Target, None, Package, Evidence, Record
<1> QED BY <1>1, <1>2, <1>3 DEF Placed

LEMMA PlacedEraseAuthRecord == Inv /\ Placed /\ ~Fails /\ EraseAuthRecord => Placed'
<1> SUFFICES ASSUME Inv, Placed, ~Fails, EraseAuthRecord PROVE Placed'
  OBVIOUS
<1> TypeOK /\ NoTrialInTransaction /\ ConfirmationOrder /\ PendingPlaced /\ InputPlaced /\ EvidenceThere
  BY DEF Inv, Placed
<1>1. EvidenceThere'
  BY NothingOnTrial DEF EraseAuthRecord, TransactionPCs, InstallPCs
<1>2. PendingPlaced'
  BY EvidenceIsThere DEF EraseAuthRecord, disk, PendingPlaced, RecordMatches
<1>3. InputPlaced'
  BY DEF EraseAuthRecord, disk, InputPlaced, InstallPCs, TransactionPCs, PendingIsRunning,
     RecordMatches, Target, None, Package, Evidence, Record
<1> QED BY <1>1, <1>2, <1>3 DEF Placed

LEMMA PlacedWriteAuthRecord == Inv /\ Placed /\ ~Fails /\ WriteAuthRecord => Placed'
<1> SUFFICES ASSUME Inv, Placed, ~Fails, WriteAuthRecord PROVE Placed'
  OBVIOUS
<1> TypeOK /\ NoTrialInTransaction /\ ConfirmationOrder /\ PendingPlaced /\ InputPlaced /\ EvidenceThere
  BY DEF Inv, Placed
<1>1. EvidenceThere'
  BY NothingOnTrial DEF WriteAuthRecord, TransactionPCs, InstallPCs
<1>2. PendingPlaced'
  BY EvidenceIsThere DEF WriteAuthRecord, disk, PendingPlaced, TypeOK, Names, InstallPCs,
     TransactionPCs, PendingIsRunning, RecordMatches, Target, ConfirmationOrder
<1>3. InputPlaced'
  BY DEF WriteAuthRecord, NoFault, disk, diag, InputPlaced, InstallPCs, TransactionPCs,
     PendingIsRunning, RecordMatches, Target, None, Package, Evidence, Record
<1> QED BY <1>1, <1>2, <1>3 DEF Placed

LEMMA PlacedMoveConflict == Inv /\ Placed /\ ~Fails /\ MoveConflict => Placed'
<1> SUFFICES ASSUME Inv, Placed, ~Fails, MoveConflict PROVE Placed'
  OBVIOUS
<1> TypeOK /\ NoTrialInTransaction /\ ConfirmationOrder /\ PendingPlaced /\ InputPlaced /\ EvidenceThere
  BY DEF Inv, Placed
<1>1. EvidenceThere'
  BY NothingOnTrial DEF MoveConflict, parts, TransactionPCs, InstallPCs
<1>2. PendingPlaced'
  BY EvidenceIsThere DEF MoveConflict, MoveDone, PendingPlaced, TypeOK, Names
<1>3. InputPlaced'
  BY DEF MoveConflict, InputPlaced
<1> QED BY <1>1, <1>2, <1>3 DEF Placed

LEMMA PlacedStagePending == Inv /\ Placed /\ ~Fails /\ StagePending => Placed'
<1> SUFFICES ASSUME Inv, Placed, ~Fails, StagePending PROVE Placed'
  OBVIOUS
<1> TypeOK /\ NoTrialInTransaction /\ ConfirmationOrder /\ PendingPlaced /\ InputPlaced /\ EvidenceThere
  BY DEF Inv, Placed
<1>1. EvidenceThere'
  BY NothingOnTrial DEF StagePending, parts, TransactionPCs, InstallPCs
<1>2. PendingPlaced'
  BY DEF StagePending, MoveDone, PendingPlaced, InputPlaced, TypeOK, Names, InstallPCs,
     TransactionPCs, PendingIsRunning, RecordMatches, Target, ConfirmationOrder, Evidence
<1>3. InputPlaced'
  BY DEF StagePending, MoveFails, InputPlaced, InstallPCs, TransactionPCs, PendingIsRunning,
     RecordMatches, Target, None, Package, Evidence, Record
<1> QED BY <1>1, <1>2, <1>3 DEF Placed

LEMMA PlacedAnnounceStaged == Inv /\ Placed /\ ~Fails /\ AnnounceStaged => Placed'
<1> SUFFICES ASSUME Inv, Placed, ~Fails, AnnounceStaged PROVE Placed'
  OBVIOUS
<1> TypeOK /\ NoTrialInTransaction /\ ConfirmationOrder /\ PendingPlaced /\ InputPlaced /\ EvidenceThere
  BY DEF Inv, Placed
<1>1. EvidenceThere'
  BY NothingOnTrial DEF AnnounceStaged, parts, TransactionPCs, InstallPCs
<1>2. PendingPlaced'
  BY EvidenceIsThere DEF AnnounceStaged, WriteFails, parts, PendingPlaced, Target
<1>3. InputPlaced'
  BY DEF AnnounceStaged, WriteDone, WriteFails, InputPlaced, Evidence, Record
<1> QED BY <1>1, <1>2, <1>3 DEF Placed

LEMMA PlacedSetBoot == Inv /\ Placed /\ ~Fails /\ SetBoot => Placed'
<1> SUFFICES ASSUME Inv, Placed, ~Fails, SetBoot PROVE Placed'
  OBVIOUS
<1> TypeOK /\ NoTrialInTransaction /\ ConfirmationOrder /\ PendingPlaced /\ InputPlaced /\ EvidenceThere
  BY DEF Inv, Placed
<1>1. EvidenceThere'
  <2>1. OnTrial = {} /\ slot[Target] = img /\ UNCHANGED <<slot, file, status>>
    BY DEF SetBoot, disk, Inv, InstallOrder, InstallPCs, NoTrialInTransaction, TransactionPCs
  <2>2. CASE ota' = ota
    BY <2>1, <2>2, DecidedEvidence DEF OnTrial
  <2>3. CASE ota' = [ota EXCEPT ![Target] = "new"] /\ newest' = Target
    <3>1. OnTrial' = {Target}
      BY <2>1, <2>3, CommitEffect DEF SetBoot, Up
    <3> QED BY <2>1, <3>1 DEF SetBoot, PendingPlaced, InputPlaced, EvidenceThere
  <2> QED BY <2>2, <2>3 DEF SetBoot
<1>2. PendingPlaced'
  BY EvidenceIsThere DEF SetBoot, VbusLost, disk, PendingPlaced, TransactionPCs
<1>3. InputPlaced'
  BY DEF SetBoot, InputPlaced, InstallPCs, TransactionPCs, PendingIsRunning, RecordMatches,
     Target, None, Package, Evidence, Record
<1> QED BY <1>1, <1>2, <1>3 DEF Placed

LEMMA PlacedRestart == Inv /\ Placed /\ ~Fails /\ Restart => Placed'
<1> SUFFICES ASSUME Inv, Placed, ~Fails, Restart PROVE Placed'
  OBVIOUS
<1> TypeOK /\ NoTrialInTransaction /\ ConfirmationOrder /\ PendingPlaced /\ InputPlaced /\ EvidenceThere
  BY DEF Inv, Placed
<1>1. EvidenceThere'
  BY EvidenceFrame DEF Restart, parts, diag, TypeOK, Names
<1>2. PendingPlaced'
  BY EvidenceIsThere DEF Restart, parts, PendingPlaced, TransactionPCs
<1>3. InputPlaced'
  BY DEF Restart, parts, PendingPlaced, InputPlaced, InstallPCs, TransactionPCs,
     PendingIsRunning, RecordMatches, Target, None, Package, Evidence, Record
<1> QED BY <1>1, <1>2, <1>3 DEF Placed

LEMMA PlacedUndoPending == Inv /\ Placed /\ ~Fails /\ UndoPending => Placed'
<1> SUFFICES ASSUME Inv, Placed, ~Fails, UndoPending PROVE Placed'
  OBVIOUS
<1> TypeOK /\ NoTrialInTransaction /\ ConfirmationOrder /\ PendingPlaced /\ InputPlaced /\ EvidenceThere
  BY DEF Inv, Placed
<1>1. EvidenceThere'
  BY NothingOnTrial DEF UndoPending, parts, TransactionPCs
<1>2. PendingPlaced'
  BY EvidenceIsThere DEF UndoPending, MoveFails, PendingPlaced, ConfirmationOrder
<1>3. InputPlaced'
  BY DEF UndoPending, diag, PendingPlaced, InputPlaced
<1> QED BY <1>1, <1>2, <1>3 DEF Placed

LEMMA PlacedRejectInput == Inv /\ Placed /\ ~Fails /\ RejectInput => Placed'
<1> SUFFICES ASSUME Inv, Placed, ~Fails, RejectInput PROVE Placed'
  OBVIOUS
<1> TypeOK /\ NoTrialInTransaction /\ ConfirmationOrder /\ PendingPlaced /\ InputPlaced /\ EvidenceThere
  BY DEF Inv, Placed
<1>1. EvidenceThere'
  BY NothingOnTrial DEF RejectInput, MoveInputToBad, SetState, parts, NoFault, MoveDone,
     MoveFails, TransactionPCs, InstallPCs
<1>2. PendingPlaced'
  BY EvidenceIsThere DEF RejectInput, MoveInputToBad, parts, MoveDone, MoveFails,
     PendingPlaced, TypeOK, Names
<1>3. InputPlaced'
  BY DEF RejectInput, InputPlaced, InstallPCs, TransactionPCs, PendingIsRunning,
     RecordMatches, Target, None, Package, Evidence, Record
<1> QED BY <1>1, <1>2, <1>3 DEF Placed

LEMMA PlacedReport == Inv /\ Placed /\ ~Fails /\ Report => Placed'
<1> SUFFICES ASSUME Inv, Placed, ~Fails, Report PROVE Placed'
  OBVIOUS
<1> TypeOK /\ NoTrialInTransaction /\ ConfirmationOrder /\ PendingPlaced /\ InputPlaced /\ EvidenceThere
  BY DEF Inv, Placed
<1>1. EvidenceThere'
  BY NothingOnTrial DEF Report, parts, TransactionPCs
<1>2. PendingPlaced'
  BY EvidenceIsThere DEF Report, parts, PendingPlaced
<1>3. InputPlaced'
  BY DEF Report, InputPlaced, InstallPCs, TransactionPCs, PendingIsRunning, RecordMatches,
     Target, None, Package, Evidence, Record
<1> QED BY <1>1, <1>2, <1>3 DEF Placed

LEMMA PlacedBeginConfirmation == Inv /\ Placed /\ ~Fails /\ BeginConfirmation => Placed'
<1> SUFFICES ASSUME Inv, Placed, ~Fails, BeginConfirmation PROVE Placed'
  OBVIOUS
<1> TypeOK /\ NoTrialInTransaction /\ ConfirmationOrder /\ PendingPlaced /\ InputPlaced /\ EvidenceThere
  BY DEF Inv, Placed
<1>1. EvidenceThere'
  BY EvidenceFrame DEF BeginConfirmation, parts, disk
<1>2. PendingPlaced'
  BY EvidenceIsThere DEF BeginConfirmation, PendingPlaced
<1>3. InputPlaced'
  BY DEF BeginConfirmation, InputPlaced, InstallPCs, TransactionPCs, PendingIsRunning,
     RecordMatches, Target, None, Package, Evidence, Record
<1> QED BY <1>1, <1>2, <1>3 DEF Placed

LEMMA PlacedStartWorkers == Inv /\ Placed /\ ~Fails /\ StartWorkers => Placed'
<1> SUFFICES ASSUME Inv, Placed, ~Fails, StartWorkers PROVE Placed'
  OBVIOUS
<1> TypeOK /\ NoTrialInTransaction /\ ConfirmationOrder /\ PendingPlaced /\ InputPlaced /\ EvidenceThere
  BY DEF Inv, Placed
<1>1. EvidenceThere'
  BY EvidenceFrame DEF StartWorkers, parts, disk
<1>2. PendingPlaced'
  BY EvidenceIsThere DEF StartWorkers, parts, disk, PendingPlaced
<1>3. InputPlaced'
  BY DEF StartWorkers, InputPlaced, InstallPCs, TransactionPCs, PendingIsRunning,
     RecordMatches, Target, None, Package, Evidence, Record
<1> QED BY <1>1, <1>2, <1>3 DEF Placed

LEMMA PlacedOpenGate == Inv /\ Placed /\ ~Fails /\ OpenGate => Placed'
<1> SUFFICES ASSUME Inv, Placed, ~Fails, OpenGate PROVE Placed'
  OBVIOUS
<1> TypeOK /\ NoTrialInTransaction /\ ConfirmationOrder /\ PendingPlaced /\ InputPlaced /\ EvidenceThere
  BY DEF Inv, Placed
<1>1. EvidenceThere'
  BY EvidenceFrame DEF OpenGate, parts, disk
<1>2. PendingPlaced'
  BY EvidenceIsThere DEF OpenGate, parts, disk, PendingPlaced
<1>3. InputPlaced'
  BY DEF OpenGate, InputPlaced, InstallPCs, TransactionPCs, PendingIsRunning, RecordMatches,
     Target, None, Package, Evidence, Record
<1> QED BY <1>1, <1>2, <1>3 DEF Placed

LEMMA PlacedExposeRecovery == Inv /\ Placed /\ ~Fails /\ ExposeRecovery => Placed'
<1> SUFFICES ASSUME Inv, Placed, ~Fails, ExposeRecovery PROVE Placed'
  OBVIOUS
<1> TypeOK /\ NoTrialInTransaction /\ ConfirmationOrder /\ PendingPlaced /\ InputPlaced /\ EvidenceThere
  BY DEF Inv, Placed
<1>1. EvidenceThere'
  BY EvidenceFrame DEF ExposeRecovery, parts, disk
<1>2. PendingPlaced'
  BY EvidenceIsThere DEF ExposeRecovery, parts, disk, PendingPlaced
<1>3. InputPlaced'
  BY DEF ExposeRecovery, InputPlaced, InstallPCs, TransactionPCs, PendingIsRunning,
     RecordMatches, Target, None, Package, Evidence, Record
<1> QED BY <1>1, <1>2, <1>3 DEF Placed

LEMMA PlacedConfirmDelay == Inv /\ Placed /\ ~Fails /\ ConfirmDelay => Placed'
<1> SUFFICES ASSUME Inv, Placed, ~Fails, ConfirmDelay PROVE Placed'
  OBVIOUS
<1> TypeOK /\ NoTrialInTransaction /\ ConfirmationOrder /\ PendingPlaced /\ InputPlaced /\ EvidenceThere
  BY DEF Inv, Placed
<1>1. EvidenceThere'
  <2>1. CASE RollBackAndReboot
    <3>1. OnTrial # {} /\ Up
      BY DEF ConfirmDelay, ConfirmationOrder, Verifying, Up
    <3>2. OnTrial' = {}
      BY <2>1, <3>1, RollBackEffect DEF RollBackAndReboot
    <3> QED BY <3>2, DecidedEvidence
  <2>2. CASE UNCHANGED <<parts, disk>>
    BY <2>2, EvidenceFrame DEF parts, disk
  <2> QED BY <2>1, <2>2 DEF ConfirmDelay
<1>2. PendingPlaced'
  BY EvidenceIsThere DEF ConfirmDelay, RollBackAndReboot, parts, disk, main, PendingPlaced,
     PendingIsRunning, RecordMatches, Target
<1>3. InputPlaced'
  BY DEF ConfirmDelay, RollBackAndReboot, disk, main, InputPlaced, InstallPCs,
     TransactionPCs, PendingIsRunning, RecordMatches, Target, None, Package, Evidence, Record
<1> QED BY <1>1, <1>2, <1>3 DEF Placed

LEMMA PlacedConfirmRead == Inv /\ Placed /\ ~Fails /\ ConfirmRead => Placed'
<1> SUFFICES ASSUME Inv, Placed, ~Fails, ConfirmRead PROVE Placed'
  OBVIOUS
<1> TypeOK /\ NoTrialInTransaction /\ ConfirmationOrder /\ PendingPlaced /\ InputPlaced /\ EvidenceThere
  BY DEF Inv, Placed
<1>1. EvidenceThere'
  BY EvidenceFrame DEF ConfirmRead, NoFault, parts, disk, diag, main, IsRecord, TypeOK, Names
<1>2. PendingPlaced'
  <2>1. OnTrial # {} /\ Up
    BY DEF ConfirmRead, ConfirmationOrder, Verifying, Up
  <2>2. file["PND"] \in Evidence(slot[running], running)
    BY <2>1, TrialEvidence
  <2>3. IsRecord(file["PND"]) => RecordMatches(file["PND"], running)
    BY <2>2 DEF Evidence, IsRecord, RecordMatches, Package, Record
  <2> QED BY <2>3 DEF ConfirmRead, PendingPlaced, PendingIsRunning, Target, RecordMatches,
     disk, main, parts
<1>3. InputPlaced'
  BY DEF ConfirmRead, disk, main, InputPlaced
<1> QED BY <1>1, <1>2, <1>3 DEF Placed

LEMMA PlacedConfirmRetire == Inv /\ Placed /\ ~Fails /\ ConfirmRetire => Placed'
<1> SUFFICES ASSUME Inv, Placed, ~Fails, ConfirmRetire PROVE Placed'
  OBVIOUS
<1> TypeOK /\ NoTrialInTransaction /\ ConfirmationOrder /\ PendingPlaced /\ InputPlaced /\ EvidenceThere
  BY DEF Inv, Placed
<1>1. EvidenceThere'
  BY DEF ConfirmRetire, PendingPlaced
<1>2. PendingPlaced'
  BY EvidenceIsThere DEF ConfirmRetire, PendingPlaced
<1>3. InputPlaced'
  BY DEF ConfirmRetire, PendingPlaced
<1> QED BY <1>1, <1>2, <1>3 DEF Placed

LEMMA PlacedConfirmReport == Inv /\ Placed /\ ~Fails /\ ConfirmReport => Placed'
<1> SUFFICES ASSUME Inv, Placed, ~Fails, ConfirmReport PROVE Placed'
  OBVIOUS
<1> TypeOK /\ NoTrialInTransaction /\ ConfirmationOrder /\ PendingPlaced /\ InputPlaced /\ EvidenceThere
  BY DEF Inv, Placed
<1>1. EvidenceThere'
  BY DEF ConfirmReport, PendingPlaced
<1>2. PendingPlaced'
  BY EvidenceIsThere DEF ConfirmReport, PendingPlaced
<1>3. InputPlaced'
  BY DEF ConfirmReport, PendingPlaced
<1> QED BY <1>1, <1>2, <1>3 DEF Placed

LEMMA PlacedConfirmMark == Inv /\ Placed /\ ~Fails /\ ConfirmMark => Placed'
<1> SUFFICES ASSUME Inv, Placed, ~Fails, ConfirmMark PROVE Placed'
  OBVIOUS
<1> TypeOK /\ NoTrialInTransaction /\ ConfirmationOrder /\ PendingPlaced /\ InputPlaced /\ EvidenceThere
  BY DEF Inv, Placed
<1>1. EvidenceThere'
  <2>1. OnTrial # {} /\ Up
    BY DEF ConfirmMark, ConfirmationOrder, Verifying, Up
  <2>2. OnTrial' = {}
    BY <2>1, RollBackEffect, ConfirmEffect DEF ConfirmMark
  <2> QED BY <2>2, DecidedEvidence
<1>2. PendingPlaced'
  <2>1. OnTrial # {} /\ Up /\ pc \in {"tasks", "gate", "running", "halted"}
    BY DEF ConfirmMark, ConfirmationOrder, Verifying, Up
  <2>2. file["PND"] \in Evidence(slot[running], running)
    BY <2>1, TrialEvidence
  <2> QED BY <2>1, <2>2 DEF ConfirmMark, PendingPlaced, disk, main
<1>3. InputPlaced'
  BY DEF ConfirmMark, disk, main, InputPlaced
<1> QED BY <1>1, <1>2, <1>3 DEF Placed

LEMMA PlacedConfirmStatus == Inv /\ Placed /\ ~Fails /\ ConfirmStatus => Placed'
<1> SUFFICES ASSUME Inv, Placed, ~Fails, ConfirmStatus PROVE Placed'
  OBVIOUS
<1> TypeOK /\ NoTrialInTransaction /\ ConfirmationOrder /\ PendingPlaced /\ InputPlaced /\ EvidenceThere
  BY DEF Inv, Placed
<1>1. EvidenceThere'
  <2>1. OnTrial = {} /\ ota' = ota
    BY DEF ConfirmStatus, ConfirmationOrder, parts
  <2> QED BY <2>1, DecidedEvidence DEF OnTrial
<1>2. PendingPlaced'
  BY EvidenceIsThere DEF ConfirmStatus, parts, main, PendingPlaced, PendingIsRunning,
     RecordMatches, Target
<1>3. InputPlaced'
  BY DEF ConfirmStatus, main, InputPlaced, ConfirmationOrder
<1> QED BY <1>1, <1>2, <1>3 DEF Placed

LEMMA PlacedConfirmRemove == Inv /\ Placed /\ ~Fails /\ ConfirmRemove => Placed'
<1> SUFFICES ASSUME Inv, Placed, ~Fails, ConfirmRemove PROVE Placed'
  OBVIOUS
<1> TypeOK /\ NoTrialInTransaction /\ ConfirmationOrder /\ PendingPlaced /\ InputPlaced /\ EvidenceThere
  BY DEF Inv, Placed
<1>1. EvidenceThere'
  <2>1. OnTrial = {} /\ ota' = ota
    BY DEF ConfirmRemove, ConfirmationOrder, parts
  <2> QED BY <2>1, DecidedEvidence DEF OnTrial
<1>2. PendingPlaced'
  BY EvidenceIsThere DEF ConfirmRemove, main, PendingPlaced, ConfirmationOrder
<1>3. InputPlaced'
  BY DEF ConfirmRemove, RemoveDone, RemoveFails, main, InputPlaced, TypeOK, Names
<1> QED BY <1>1, <1>2, <1>3 DEF Placed

LEMMA PlacedPowerCut == Inv /\ Placed /\ ~Fails /\ PowerCut => Placed'
<1> SUFFICES ASSUME Inv, Placed, ~Fails, PowerCut PROVE Placed'
  OBVIOUS
<1> TypeOK /\ NoTrialInTransaction /\ ConfirmationOrder /\ PendingPlaced /\ InputPlaced /\ EvidenceThere
  BY DEF Inv, Placed
<1>1. EvidenceThere'
  <2>1. CASE OnTrial = {}
    BY <2>1, DecidedEvidence DEF PowerCut, parts, OnTrial
  <2>2. CASE OnTrial # {}
    <3>1. pc \notin TransactionPCs /\ conf \notin {"retire", "report", "status"}
      BY <2>2 DEF NoTrialInTransaction, PendingPlaced, ConfirmationOrder
    <3>2. MoveInProgress = {} /\ ~WritingStatus
      BY <3>1 DEF MoveInProgress, WritingStatus, TransactionPCs, InstallPCs
    <3>3. file'["PND"] = file["PND"] /\ UNCHANGED <<slot, ota, status>>
      BY <3>2 DEF PowerCut, parts, Names
    <3> QED BY <3>3, EvidenceFrame
  <2> QED BY <2>1, <2>2
<1>2. PendingPlaced'
  BY EvidenceIsThere DEF PowerCut, PendingPlaced
<1>3. InputPlaced'
  BY DEF PowerCut, InputPlaced, InstallPCs, TransactionPCs, PendingIsRunning, RecordMatches,
     Target, None, Package, Evidence, Record
<1> QED BY <1>1, <1>2, <1>3 DEF Placed

LEMMA PlacedHostWrite == Inv /\ Placed /\ ~Fails /\ HostWrite => Placed'
<1> SUFFICES ASSUME Inv, Placed, ~Fails, HostWrite PROVE Placed'
  OBVIOUS
<1> TypeOK /\ NoTrialInTransaction /\ ConfirmationOrder /\ PendingPlaced /\ InputPlaced /\ EvidenceThere
  BY DEF Inv, Placed
<1>1. EvidenceThere'
  <2>1. CASE pc = "running"
    <3>1. OnTrial = {} /\ ota' = ota
      BY <2>1 DEF HostWrite, ConfirmationOrder, parts
    <3> QED BY <3>1, DecidedEvidence DEF OnTrial
  <2>2. CASE pc = "recHost"
    BY <2>2, EvidenceFrame DEF HostWrite, parts, TypeOK, Names
  <2> QED BY <2>1, <2>2 DEF HostWrite
<1>2. PendingPlaced'
  BY EvidenceIsThere DEF HostWrite, main, PendingPlaced, ConfirmationOrder
<1>3. InputPlaced'
  BY DEF HostWrite, main, InputPlaced, InstallPCs, TransactionPCs, PendingIsRunning,
     RecordMatches, Target, None, Package, Evidence, Record
<1> QED BY <1>1, <1>2, <1>3 DEF Placed

LEMMA PlacedHostRelease == Inv /\ Placed /\ ~Fails /\ HostRelease => Placed'
<1> SUFFICES ASSUME Inv, Placed, ~Fails, HostRelease PROVE Placed'
  OBVIOUS
<1> TypeOK /\ NoTrialInTransaction /\ ConfirmationOrder /\ PendingPlaced /\ InputPlaced /\ EvidenceThere
  BY DEF Inv, Placed
<1>1. EvidenceThere'
  BY EvidenceFrame DEF HostRelease, parts, disk
<1>2. PendingPlaced'
  BY EvidenceIsThere DEF HostRelease, parts, disk, PendingPlaced
<1>3. InputPlaced'
  BY DEF HostRelease, InputPlaced, InstallPCs, TransactionPCs, PendingIsRunning,
     RecordMatches, Target, None, Package, Evidence, Record
<1> QED BY <1>1, <1>2, <1>3 DEF Placed

LEMMA PlacedBoot == Inv /\ Placed /\ ~Fails /\ Boot => Placed'
<1> SUFFICES ASSUME Inv, Placed, ~Fails, Boot PROVE Placed'
  OBVIOUS
<1> TypeOK /\ NoTrialInTransaction /\ ConfirmationOrder /\ PendingPlaced /\ InputPlaced /\ EvidenceThere
  BY DEF Inv, Placed
<1>1. EvidenceThere'
  <2>1. OnTrial' \subseteq OnTrial /\ UNCHANGED <<slot, file, status>>
    BY BootEffect DEF Boot, disk
  <2> QED BY <2>1 DEF EvidenceThere
<1>2. PendingPlaced'
  BY EvidenceIsThere DEF Boot, PendingPlaced, ConfirmationOrder
<1>3. InputPlaced'
  BY DEF Boot, InputPlaced, InstallPCs, TransactionPCs, PendingIsRunning, RecordMatches,
     Target, None, Package, Evidence, Record
<1> QED BY <1>1, <1>2, <1>3 DEF Placed

-----------------------------------------------------------------------------
(* Evidence and packages are kept                                          *)

\* Every step but a failing call keeps the files in place.
LEMMA PlacedStep == Inv /\ Placed /\ ~Fails /\ [Next]_vars => Placed'
<1> SUFFICES ASSUME Inv, Placed, ~Fails, [Next]_vars PROVE Placed'
  OBVIOUS
<1>1. CASE Transaction
  BY <1>1, PlacedProcessUpdate, PlacedReconcile, PlacedCleanStatus, PlacedCleanRemove,
    PlacedRetirePending, PlacedReportPending, PlacedTakeInput, PlacedInspectInput,
    PlacedOpenInput, PlacedEraseTarget, PlacedWriteTarget, PlacedEraseAuthRecord,
    PlacedWriteAuthRecord, PlacedMoveConflict, PlacedStagePending, PlacedAnnounceStaged,
    PlacedSetBoot, PlacedRestart, PlacedUndoPending, PlacedRejectInput, PlacedReport DEF
    Transaction
<1>2. CASE Startup \/ Confirmation
  BY <1>1, <1>2, PlacedBeginConfirmation, PlacedStartWorkers, PlacedOpenGate,
    PlacedExposeRecovery, PlacedConfirmDelay, PlacedConfirmRead, PlacedConfirmRetire,
    PlacedConfirmReport, PlacedConfirmMark, PlacedConfirmStatus, PlacedConfirmRemove DEF
    Startup, Confirmation
<1>3. CASE Environment
  BY <1>3, PlacedPowerCut, PlacedHostWrite, PlacedHostRelease DEF Environment
<1>4. CASE UNCHANGED vars
  <2>1. UNCHANGED <<slot, ota, file, status, pc, running, src, img, conf>>
    BY <1>4 DEF vars, parts, disk, main
  <2>2. EvidenceThere' /\ PendingPlaced' /\ InputPlaced'
    BY <2>1 DEF Placed, EvidenceThere, OnTrial, PendingPlaced, InputPlaced,
       PendingIsRunning, RecordMatches, Target
  <2> QED BY <2>2 DEF Placed
<1> QED BY <1>1, <1>2, <1>3, <1>4, PlacedBoot DEF Next

\* The inductive invariant of both properties: Inv, and the files in place as
\* long as no call has failed.
LEMMA KeptInit == Init => Inv /\ (NoFailureYet => Placed)
BY InvInit, PlacedInit

LEMMA KeptStep ==
    Inv /\ (NoFailureYet => Placed) /\ [Next]_vars =>
        (Inv /\ (NoFailureYet => Placed))'
<1> SUFFICES ASSUME Inv, NoFailureYet => Placed, [Next]_vars
             PROVE  Inv' /\ (NoFailureYet' => Placed')
  OBVIOUS
<1>1. NoFailureYet' => NoFailureYet /\ ~Fails
  BY FailureRemains DEF FailureLasts, Inv
<1> QED BY <1>1, InvStep, PlacedStep

\* While no call has failed, a trial has its evidence on the FAT at every
\* moment: UPDATE.PND is the package or the record of exactly the image on
\* trial and UPDATE_RESULT.TXT says STAGED (write_pending_record, apply_update,
\* firmware_update_confirmation_task).
THEOREM EvidenceAlwaysThere == Spec => []TrialHasEvidence
<1>1. Inv /\ (NoFailureYet => Placed) => TrialHasEvidence
  BY DEF Placed, EvidenceThere, Evidence, TrialHasEvidence
<1> QED BY <1>1, KeptInit, KeptStep, PTL DEF Spec

\* The reasons for which a package may leave the config FAT (PackageKept).
Excused(p) ==
    \/ exposed
    \/ p = slot[running] /\ OnTrial = {}
    \/ /\ file["BAD"] = Package(p)
       /\ \E f \in {"BIN", "PND"} : file[f] # None

\* The steps that leave the three files of the config FAT alone.
LEMMA FilesFrame ==
    ASSUME NEW p \in Packages, \A f \in {"BIN", "PND", "BAD"} : file'[f] = file[f]
    PROVE  HasPackage(p)' = HasPackage(p)
BY DEF HasPackage

\* No step takes a package away for another reason.
LEMMA PackageLeaves ==
    ASSUME Inv, Placed, ~Fails, [Next]_vars,
           NEW p \in Packages, HasPackage(p), ~HasPackage(p)'
    PROVE  Excused(p)
<1> TypeOK /\ NoTrialInTransaction /\ ConfirmationOrder /\ PendingPlaced /\ InputPlaced
  BY DEF Inv, Placed
<1>0. ASSUME \A f \in {"BIN", "PND", "BAD"} : file'[f] = file[f] PROVE FALSE
  BY <1>0, FilesFrame
<1>1. ASSUME NEW b, file' = [file EXCEPT !["RBIN"] = b] PROVE FALSE
  BY <1>0, <1>1 DEF TypeOK, Names
<1>2. file["PND"] = Package(p) \/ file["BIN"] = Package(p) \/ file["BAD"] = Package(p)
  BY DEF HasPackage
<1>3. CASE \/ ProcessUpdate \/ Reconcile \/ CleanStatus \/ ReportPending \/ TakeInput \/
            InspectInput \/ OpenInput \/ EraseTarget \/ WriteTarget \/ EraseAuthRecord \/
            WriteAuthRecord \/ AnnounceStaged \/ SetBoot \/ Report \/ StartWorkers \/ OpenGate
            \/ ExposeRecovery \/ ConfirmRead \/ ConfirmReport \/ ConfirmStatus \/ HostRelease
            \/ Boot
  BY <1>0, <1>3 DEF ProcessUpdate, disk, Reconcile, CleanStatus, ReportPending, TakeInput,
    InspectInput, OpenInput, EraseTarget, WriteTarget, EraseAuthRecord, WriteAuthRecord,
    AnnounceStaged, SetBoot, Report, StartWorkers, OpenGate, ExposeRecovery, ConfirmRead,
    ConfirmReport, ConfirmStatus, HostRelease, Boot
<1>4. CASE Restart \/ BeginConfirmation \/ ConfirmDelay \/ ConfirmMark
  BY <1>0, <1>1, <1>4 DEF Restart, BeginConfirmation, ConfirmDelay, ConfirmMark,
    RollBackAndReboot, disk
<1>5. CASE CleanRemove
  <2>1. OnTrial = {} /\ file' = [file EXCEPT !["PND"] = None]
    BY <1>5 DEF CleanRemove, RemoveDone, RemoveFails, NoTrialInTransaction, TransactionPCs
  <2>2. file["PND"] = Package(p)
    BY <1>2, <2>1 DEF HasPackage, TypeOK, Names
  <2>3. p = slot[running]
    BY <2>2, <1>5 DEF CleanRemove, PendingPlaced, PendingIsRunning, RecordMatches, Package
  <2> QED BY <2>1, <2>3 DEF Excused
<1>6. CASE RetirePending
  <2>1. file["PND"] # None /\ file' = [file EXCEPT !["BAD"] = file["PND"], !["PND"] = None]
    BY <1>6 DEF RetirePending, PendingPlaced, MoveDone, MoveFails
  <2> QED BY <1>2, <2>1 DEF Excused, HasPackage, TypeOK, Names
<1>7. CASE MoveConflict
  <2>1. \/ file' = file
        \/ file["BIN"] # None /\ file' = [file EXCEPT !["BAD"] = file["BIN"], !["BIN"] = None]
    BY <1>7 DEF MoveConflict, MoveDone, MoveFails
  <2> QED BY <1>2, <2>1 DEF Excused, HasPackage, TypeOK, Names
<1>8. CASE StagePending
  <2>1. file["PND"] = None /\ None # Package(img)
    BY <1>8 DEF StagePending, PendingPlaced, None, Package
  <2>2. \/ file' = file
        \/ file' = [file EXCEPT !["PND"] = file["BIN"], !["BIN"] = None]
        \/ file' = [file EXCEPT !["PND"] = Record(img, Target)]
    BY <1>8, <2>1 DEF StagePending, InputPlaced, InstallPCs, MoveDone, MoveFails
  <2>3. None # Package(p)
    BY DEF None, Package
  <2> QED BY <1>2, <2>1, <2>2, <2>3 DEF HasPackage, TypeOK, Names
<1>9. CASE UndoPending
  <2>1. file["PND"] # None /\ file' = [file EXCEPT !["BAD"] = file["PND"], !["PND"] = None]
    BY <1>9 DEF UndoPending, PendingPlaced, MoveDone, MoveFails
  <2> QED BY <1>2, <2>1 DEF Excused, HasPackage, TypeOK, Names
<1>10. CASE RejectInput
  <2>1. CASE src = "psram"
    BY <1>1, <1>10, <2>1 DEF RejectInput, MoveInputToBad
  <2>2. CASE src = "flash"
    <3>1. file["BIN"] # None /\ file' = [file EXCEPT !["BAD"] = file["BIN"], !["BIN"] = None]
      BY <1>10, <2>2 DEF RejectInput, InputPlaced, MoveInputToBad, MoveDone, MoveFails
    <3> QED BY <1>2, <3>1 DEF Excused, HasPackage, TypeOK, Names
  <2> QED BY <2>1, <2>2 DEF TypeOK
<1>11. CASE PowerCut
  <2>1. PICK gone \in SUBSET MoveInProgress :
            file' = [f \in Names |-> IF f \in gone \cup {"RBIN"} THEN None ELSE file[f]]
    BY <1>11 DEF PowerCut
  <2>2. gone \subseteq {"BAD"} \/ (gone = {"PND"} /\ pc = "stage")
    BY <2>1 DEF MoveInProgress
  <2>3. CASE gone = {"PND"} /\ pc = "stage"
    BY <1>0, <2>1, <2>3 DEF PendingPlaced, Names
  <2>4. CASE gone \subseteq {"BAD"}
    <3>1. "BAD" \in gone /\ file["BAD"] = Package(p)
      BY <1>2, <2>1, <2>4 DEF HasPackage, Names
    <3>2. "BAD" \in MoveInProgress /\ conf # "retire"
      BY <2>1, <3>1 DEF PendingPlaced
    <3>3. \/ pc \in {"retire", "undo"}
          \/ pc = "conflict" /\ file["BIN"] # None
          \/ pc = "reject" /\ src = "flash"
      BY <3>2 DEF MoveInProgress
    <3> QED BY <3>1, <3>3 DEF PendingPlaced, InputPlaced, Excused
  <2> QED BY <2>2, <2>3, <2>4
<1>12. CASE ConfirmRetire
  BY <1>12 DEF ConfirmRetire, PendingPlaced
<1>13. CASE ConfirmRemove
  <2>1. OnTrial = {} /\ file' = [file EXCEPT !["PND"] = None]
    BY <1>13 DEF ConfirmRemove, RemoveDone, RemoveFails, ConfirmationOrder
  <2>2. file["PND"] = Package(p)
    BY <1>2, <2>1 DEF HasPackage, TypeOK, Names
  <2>3. p = slot[running]
    BY <2>2, <1>13 DEF ConfirmRemove, PendingPlaced, Evidence, Package, Record
  <2> QED BY <2>1, <2>3 DEF Excused
<1>14. CASE HostWrite
  BY <1>14 DEF HostWrite, Excused
<1>15. CASE UNCHANGED vars
  BY <1>0, <1>15 DEF vars, disk
<1> QED
  BY <1>3, <1>4, <1>5, <1>6, <1>7, <1>8, <1>9, <1>10, <1>11, <1>12, <1>13, <1>14, <1>15 DEF
    Next, Startup, Transaction, Confirmation, Environment

\* While no call has failed, a package leaves the config FAT only when the host
\* removes it, when it runs and is valid, or when it is UPDATE.BAD and another
\* takes that name: no power cut in move_file_at, process_update or
\* firmware_update_confirmation_task loses the image a user has copied.
THEOREM PackageAlwaysKept == Spec => PackageKept
<1> DEFINE Kept == NoFailureYet' =>
                     \A p \in Packages : HasPackage(p) /\ ~HasPackage(p)' => Excused(p)
<1>1. Inv /\ (NoFailureYet => Placed) /\ [Next]_vars => [Kept]_vars
  <2> SUFFICES ASSUME Inv, NoFailureYet => Placed, [Next]_vars, NoFailureYet'
               PROVE \A p \in Packages : HasPackage(p) /\ ~HasPackage(p)' => Excused(p)
    OBVIOUS
  <2>1. NoFailureYet /\ ~Fails
    BY FailureRemains DEF FailureLasts, Inv
  <2> QED BY <2>1, PackageLeaves
<1>2. [Kept]_vars => [NoFailureYet' =>
          \A p \in Packages :
              HasPackage(p) /\ ~HasPackage(p)' =>
                  \/ exposed
                  \/ p = slot[running] /\ OnTrial = {}
                  \/ /\ file["BAD"] = Package(p)
                     /\ \E f \in {"BIN", "PND"} : file[f] # None ]_vars
  BY DEF Excused
<1> HIDE DEF Kept
<1> QED BY <1>1, <1>2, KeptInit, KeptStep, PTL DEF Spec, PackageKept

=============================================================================
