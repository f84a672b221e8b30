---------------------------- MODULE ConfigMedium ----------------------------
(***************************************************************************)
(* The two files the program keeps on the config FAT and everyone who      *)
(* touches them: startup (app/startup.c, usb_device_storage_init), the     *)
(* console's PARAM SAVE, the sensor task that saves a calibration until it *)
(* succeeds or the user skips it, and the host that has the medium between *)
(* them.  The steps of a save and of a load are ReplacedFile; which files  *)
(* are accepted is ParameterSets and, for mc_data.json, here.              *)
(***************************************************************************)
EXTENDS ReplacedFile, ParameterSets

CONSTANTS
    SettingTexts, \* what the host may leave in setting.json
    Offsets       \* of a calibration, in range

Setting == "setting.json"
Calibration == "mc_data.json"
Calibrations == [offsets : Offsets]
HostSettings == {Parsed(t) : t \in SettingTexts}

\* Bound: what PARAM SAVE may be asked to keep.
ConsoleSettings == (HostSettings \ {Bad}) \cup {Defaults}

ASSUME MediumAssumption ==
    /\ Files = {Setting, Calibration} /\ Docs = ConsoleSettings \cup Calibrations
    /\ Refused = Bad /\ None # Bad /\ None \notin Files
    /\ {None, Bad} \cap Docs = {}

VARIABLES
    phase,      \* "off", "setting", "default", "mount", "calibration", "running"
    used,       \* sensor_state.imu_accel_calibration, None if not valid
    required,   \* APP_EVENT_IMU_ACCEL_CALIBRATION_REQUIRED
    pending,    \* the collected calibration that is not saved, or None
    owner,      \* of the medium: "app", "host" or, not mounted, "nobody"
    edited      \* history: the host has written mc_data.json in this boot

sensor == <<used, required, pending>>
medium == <<owner, edited>>
vars == <<fileVars, phase, sensor, medium>>

-----------------------------------------------------------------------------
(* mc_data.json                                                            *)

\* parse_document of imu_calibration_storage.c: exactly the known keys, this
\* format, a known model and three offsets in range.
CalibrationTexts ==
    [keys : {"exact", "other"}, version : {1, 2}, model : {"ICM-42688P-HXY", "other"},
     offsets : Offsets \cup {"refused"}]

KnownModel(m) == m = "ICM-42688P-HXY"

ParsedCalibration(t) ==
    IF t.keys = "exact" /\ t.version = 2 /\ KnownModel(t.model) /\ t.offsets \in Offsets
    THEN [offsets |-> t.offsets] ELSE Bad

HostCalibrations == {ParsedCalibration(t) : t \in CalibrationTexts}

-----------------------------------------------------------------------------
(* Startup: usb_device_storage_init, usb_device_load_imu_calibration       *)

Init ==
    /\ file \in [Files -> {None, Bad}] \cup {[f \in Files |-> IF f = Setting THEN Defaults ELSE None]}
    /\ backup = [f \in Files |-> None] /\ temp = backup
    /\ call = Off
    /\ answer = [f \in Files |-> "none"] /\ got = backup
    /\ phase = "off" /\ used = None /\ required = FALSE /\ pending = None
    /\ owner = "nobody" /\ edited = FALSE

PowerOn ==
    /\ phase = "off"
    /\ phase' = "setting"
    /\ call' = [Idle EXCEPT !.name = Setting, !.at = "load"]
    /\ UNCHANGED <<disk, replies, sensor, medium>>

\* No file and no backup: the defaults are written.  What is there and is
\* refused, or cannot be read, is left for the user.
LoadSetting ==
    /\ phase = "setting" /\ LoadStep
    /\ phase' = IF At("recover") /\ backup[Setting] = None THEN "default"
                ELSE IF call'.at = "idle" THEN "mount" ELSE phase
    /\ UNCHANGED <<sensor, medium>>

GenerateDefault ==
    /\ phase = "default" /\ BeginSave(Setting, Defaults)
    /\ phase' = "mount" /\ UNCHANGED <<sensor, medium>>

\* The first mount, INFO.TXT or the editor file fail, or the handover to the
\* MSC storage does: no medium in this boot, and a calibration is asked for.
MountFails ==
    /\ \/ phase = "setting" /\ At("load")
       \/ phase = "mount" /\ At("idle")
    /\ call' = Idle /\ phase' = "running" /\ required' = TRUE
    /\ UNCHANGED <<disk, replies, used, pending, medium>>

Mount ==
    /\ phase = "mount" /\ BeginLoad(Calibration)
    /\ owner' = "app" /\ phase' = "calibration"
    /\ UNCHANGED <<sensor, edited>>

LoadCalibration ==
    /\ phase = "calibration" /\ LoadStep
    /\ IF call'.at = "idle"
       THEN /\ phase' = "running"
            /\ used' = got'[Calibration]
            /\ required' = (got'[Calibration] = None)
       ELSE UNCHANGED <<phase, used, required>>
    /\ UNCHANGED <<pending, medium>>

-----------------------------------------------------------------------------
(* PARAM SAVE and the sensor task                                          *)

Usable == phase = "running" /\ owner = "app"   \* usb_device_storage_begin_app_io

ParamSave ==
    /\ Usable /\ \E c \in ConsoleSettings : BeginSave(Setting, c)
    /\ UNCHANGED <<phase, sensor, medium>>

Collect ==
    /\ phase = "running" /\ required /\ pending = None
    /\ pending' \in Calibrations
    /\ UNCHANGED <<fileVars, phase, used, required, medium>>

\* imu_calibration_controller_request_skip: final until the next boot.
SkipCalibration ==
    /\ phase = "running" /\ required /\ call.name # Calibration
    /\ required' = FALSE /\ pending' = None
    /\ UNCHANGED <<fileVars, phase, used, medium>>

SaveCalibration ==
    /\ Usable /\ pending # None /\ BeginSave(Calibration, pending)
    /\ UNCHANGED <<phase, sensor, medium>>

\* Mutant of SaveEnds: the collected result is used whatever the save says.
SaveEndsUsed ==
    IF call.name = Calibration /\ call'.at = "idle"
    THEN used' = pending /\ pending' = None /\ required' = FALSE
    ELSE UNCHANGED sensor

\* The end of the save the sensor task waits for; a failed one is tried again.
SaveEnds ==
    IF call.name = Calibration /\ answer'[Calibration] = "ok"
    THEN used' = pending /\ pending' = None /\ required' = FALSE
    ELSE UNCHANGED sensor

StepOfSave == SaveStep /\ SaveEnds /\ UNCHANGED <<phase, medium>>

-----------------------------------------------------------------------------
(* The host, and the power                                                 *)

\* A handover waits for storage_io_mutex.
HostTakes ==
    /\ Usable /\ At("idle")
    /\ owner' = "host" /\ UNCHANGED <<fileVars, phase, sensor, edited>>

HostWrites ==
    /\ owner = "host"
    /\ \/ \E d \in HostSettings \cup {None} :
              file' = [file EXCEPT ![Setting] = d] /\ UNCHANGED edited
       \/ \E d \in HostCalibrations \cup {None} :
              file' = [file EXCEPT ![Calibration] = d] /\ edited' = TRUE
    /\ UNCHANGED <<backup, temp, call, replies, phase, sensor, owner>>

HostReturns ==
    /\ owner = "host"
    /\ owner' \in {"app", "nobody"}
    /\ UNCHANGED <<fileVars, phase, sensor, edited>>

\* Between any two calls.  Only the medium is left.
PowerCut ==
    /\ phase # "off"
    /\ call' = Off /\ phase' = "off"
    /\ answer' = [f \in Files |-> "none"] /\ got' = [f \in Files |-> None]
    /\ used' = None /\ required' = FALSE /\ pending' = None
    /\ owner' = "nobody" /\ edited' = FALSE
    /\ UNCHANGED disk

Next ==
    \/ PowerOn \/ LoadSetting \/ GenerateDefault \/ MountFails \/ Mount \/ LoadCalibration
    \/ ParamSave \/ Collect \/ SkipCalibration \/ SaveCalibration \/ StepOfSave
    \/ HostTakes \/ HostWrites \/ HostReturns \/ PowerCut

Spec == Init /\ [][Next]_vars

-----------------------------------------------------------------------------
(* Properties                                                              *)

\* Each file is a document that is replaced as a whole: whatever fails and
\* wherever the power is cut, the file or its backup is the old document or
\* the new one, a save that answers ESP_OK has stored the new one and one that
\* fails has left the old one, and a load gives the document held or nothing.
\* This is \A f \in Files : Durable(f)!Spec, in the form TLC accepts.
KeptWhole ==
    /\ \A f \in Files : Durable(f)!Init
    /\ [][\A f \in Files : [Durable(f)!Next]_(Durable(f)!vars)]_vars

\* Until the host edits it, the calibration the fusion uses is the one the
\* next boot will find: a result is never used whose save failed, and a failed
\* save never loses the one in use (sensor_try_save_accel_calibration).
UsedIsSaved == used # None /\ ~edited => used = Held(Calibration)
=============================================================================
