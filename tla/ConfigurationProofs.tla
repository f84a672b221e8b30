------------------------ MODULE ConfigurationProofs ------------------------
(***************************************************************************)
(* Proofs about the configuration: on the medium (ConfigMedium and the     *)
(* ReplacedFile it extends), for every set of documents, and in memory     *)
(* (Parameters), for every collection loaded, every set of values and any  *)
(* number of commands, followers and callers.                              *)
(*                                                                         *)
(* Each file implements DurableFile, and the calibration in use is the one *)
(* that is kept.  What is in memory is read back because every command     *)
(* publishes a valid copy (CommandMade).  That the radio gets the power in *)
(* memory is seen only when everyone has ended; AirInv says who still has  *)
(* it in hand at every point before: main, the task that follows, the one  *)
(* that applies it, or the handler of a connection.                        *)
(***************************************************************************)
EXTENDS ConfigMedium, Parameters, FiniteSetTheorems, TLAPS

-----------------------------------------------------------------------------
(* One file                                                                *)

Values == Docs \cup {None, Bad}
Answers == {"none", "ok", "fail"}
SaveSteps == {"write", "verify", "stat", "unlink", "aside", "replace", "back", "tidy"}
LoadSteps == {"load", "recover"}

DiskTypes ==
    /\ file \in [Files -> Values] /\ backup \in [Files -> Values] /\ temp \in [Files -> Values]
CallTypes ==
    call \in [name : Files \cup {None}, at : {"idle", "off"} \cup SaveSteps \cup LoadSteps,
              doc : Docs \cup {None}, exists : BOOLEAN]
ReplyTypes == answer \in [Files -> Answers] /\ got \in [Files -> Docs \cup {None}]

\* What a call in progress works on; a save has not answered before its end.
CallMade ==
    /\ call.at \in {"idle", "off"} => call.name = None /\ call.doc = None
    /\ call.at \in LoadSteps => call.name \in Files /\ call.doc = None
    /\ call.at \in SaveSteps =>
        call.name \in Files /\ call.doc \in Docs /\ answer[call.name] = "none"

\* Where a save is: what it has verified, and where the old document is.
SaveMade ==
    /\ call.at \in {"stat", "unlink", "aside", "replace"} => Temp = call.doc
    /\ call.at \in {"unlink", "aside"} => Target # None
    /\ call.at \in {"replace", "back", "recover"} => Target = None
    /\ call.at = "tidy" => Target = call.doc

FileInv == DiskTypes /\ CallTypes /\ ReplyTypes /\ CallMade /\ SaveMade

LEMMA Distinct ==
  /\ None \notin Files /\ None \notin Docs /\ Bad \notin Docs /\ None # Bad
  /\ Docs \subseteq Values /\ None \in Values /\ Bad \in Values
BY MediumAssumption DEF Values

\* What a step may do to the abstract file of each name.
KeepsEach == \A f \in Files : [Durable(f)!Next]_(Durable(f)!vars)
SameHeld == \A f \in Files : Held(f)' = Held(f)

LEMMA StutterEach ==
  ASSUME NEW f \in Files, Held(f)' = Held(f), answer'[f] = answer[f], got'[f] = got[f],
         ~Saves(f), ~Saves(f)'
  PROVE  UNCHANGED Durable(f)!vars
BY DEF Durable!vars

\* Of a step of a save: it ends, or goes on, and other files are not touched.
StepEffect ==
    /\ FileInv' /\ got' = got
    /\ \/ call' = Idle
       \/ call'.at \in SaveSteps /\ call'.name = call.name /\ call'.doc = call.doc
    /\ \A f \in Files \ {call.name} : Held(f)' = Held(f) /\ answer'[f] = answer[f]
    /\ \A f \in Files :
        f = call.name /\ answer'[f] = "ok" => call' = Idle /\ Held(f)' = call.doc
    /\ KeepsEach

\* A save that answers: nothing changes with the answer, and "ok" means stored.
LEMMA SaveAnswers ==
  ASSUME FileInv, call.at \in SaveSteps, NEW a \in {"ok", "fail"}, Reply(a),
         DiskTypes', SameHeld, a = "ok" <=> At("tidy")
  PROVE  StepEffect
<1>1. /\ call' = Idle /\ call'.name = None /\ call'.at = "idle" /\ call'.doc = None
      /\ call'.exists = FALSE
  BY DEF Reply, Idle
<1>2. CallTypes' /\ CallMade' /\ SaveMade'
  BY <1>1 DEF CallTypes, CallMade, SaveMade, SaveSteps, LoadSteps, Idle
<1>3. call.name \in Files /\ call.doc \in Docs
  BY DEF FileInv, CallMade
<1>4. /\ ReplyTypes' /\ got' = got /\ answer'[call.name] = a
      /\ \A f \in Files \ {call.name} : answer'[f] = answer[f]
  BY <1>3 DEF Reply, FileInv, ReplyTypes, Answers
<1>5. \A f \in Files : f = call.name /\ a = "ok" => Held(f)' = call.doc
  BY <1>3, Distinct DEF SameHeld, FileInv, SaveMade, Target, Held, At
<1>6. ASSUME NEW f \in Files PROVE [Durable(f)!Next]_(Durable(f)!vars)
  <2>1. ~Saves(f)' /\ (Saves(f) <=> f = call.name) /\ Held(f)' = Held(f)
    BY <1>1, <1>6, Distinct DEF Saves, At, SaveSteps, SameHeld
  <2>2. CASE f = call.name
    <3>1. Durable(f)!Answer
      BY <1>3, <1>4, <2>1, <2>2, Distinct DEF Durable!Answer
    <3> QED BY <3>1 DEF Durable!Next
  <2>3. CASE f # call.name
    BY <1>4, <1>6, <2>1, <2>3, StutterEach
  <2> QED BY <2>2, <2>3
<1> QED BY <1>1, <1>2, <1>4, <1>5, <1>6 DEF StepEffect, FileInv, KeepsEach, SameHeld

\* A save that goes on, before or without the rename that stores.
LEMMA SaveGoesOn ==
  ASSUME FileInv, call.at \in SaveSteps \ {"tidy"}, CallTypes', call'.at \in SaveSteps \ {"tidy"},
         call'.name = call.name, call'.doc = call.doc, UNCHANGED replies,
         DiskTypes', SameHeld, SaveMade'
  PROVE  StepEffect
<1>1. call.name \in Files /\ call.doc \in Docs /\ answer[call.name] = "none"
  BY DEF FileInv, CallMade
<1>2. ReplyTypes' /\ CallMade' /\ answer' = answer /\ got' = got
  BY <1>1 DEF FileInv, ReplyTypes, CallMade, replies, SaveSteps, LoadSteps
<1>3. ASSUME NEW f \in Files PROVE UNCHANGED Durable(f)!vars
  BY <1>2, <1>3 DEF Durable!vars, SameHeld, Saves, At, SaveSteps
<1> QED BY <1>1, <1>2, <1>3 DEF StepEffect, FileInv, KeepsEach, SameHeld

LEMMA WentOn ==
  ASSUME CallTypes, NEW s \in SaveSteps \cup LoadSteps, GoOn(s)
  PROVE  /\ CallTypes' /\ call'.at = s /\ call'.name = call.name /\ call'.doc = call.doc
         /\ call'.exists = call.exists
BY DEF GoOn, CallTypes

LEMMA WhileSaving ==
  ASSUME FileInv, call.at \in SaveSteps
  PROVE  call.name \in Files /\ call.doc \in Docs
BY DEF FileInv, CallMade

LEMMA RefuseStep ==
  ASSUME FileInv, NEW s \in SaveSteps \ {"tidy"}, Refuse(s) PROVE StepEffect
<1>1. call.at = s /\ UNCHANGED <<file, backup>> /\ Reply("fail")
  BY DEF Refuse, At
<1>2. DiskTypes'
  BY <1>1, WhileSaving, Distinct DEF Refuse, DropTemp, IsTemp, FileInv, DiskTypes
<1>3. SameHeld
  BY <1>1 DEF SameHeld, Held
<1> QED BY <1>1, <1>2, <1>3, SaveAnswers DEF At

LEMMA WriteStep == ASSUME FileInv, Write PROVE StepEffect
<1>1. /\ call.at = "write" /\ call.at \in SaveSteps /\ call.name \in Files /\ call.doc \in Docs
      /\ UNCHANGED <<file, backup>>
  BY WhileSaving DEF Write, At, SaveSteps
<1>2. DiskTypes' /\ SameHeld
  BY <1>1, Distinct DEF Write, IsTemp, DropTemp, FileInv, DiskTypes, SameHeld, Held
<1>3. CASE Reply("fail")
  BY <1>1, <1>2, <1>3, SaveAnswers DEF At
<1>4. CASE GoOn("verify") /\ UNCHANGED replies
  <2>1. /\ CallTypes' /\ call'.at = "verify" /\ call'.name = call.name /\ call'.doc = call.doc
    BY <1>4, WentOn DEF FileInv, SaveSteps
  <2>2. SaveMade'
    BY <2>1 DEF SaveMade
  <2> QED BY <1>1, <1>2, <1>4, <2>1, <2>2, SaveGoesOn DEF SaveSteps
<1> QED BY <1>3, <1>4 DEF Write

LEMMA VerifyStep == ASSUME FileInv, Verify PROVE StepEffect
<1>1. CASE Refuse("verify")
  BY <1>1, RefuseStep DEF SaveSteps
<1>2. CASE At("verify") /\ Verified /\ GoOn("stat") /\ UNCHANGED <<disk, replies>>
  <2>1. /\ CallTypes' /\ call'.at = "stat" /\ call'.name = call.name /\ call'.doc = call.doc
    BY <1>2, WentOn DEF FileInv, SaveSteps
  <2>2. SaveMade' /\ DiskTypes' /\ SameHeld
    BY <1>2, <2>1 DEF SaveMade, Verified, Temp, FileInv, DiskTypes, disk, SameHeld, Held
  <2> QED BY <1>2, <2>1, <2>2, SaveGoesOn DEF SaveSteps, At
<1> QED BY <1>1, <1>2 DEF Verify

LEMMA StatStep == ASSUME FileInv, Stat PROVE StepEffect
<1>1. CASE Refuse("stat")
  BY <1>1, RefuseStep DEF SaveSteps
<1>2. CASE /\ At("stat")
           /\ call' = [call EXCEPT !.at = IF Target = None THEN "replace" ELSE "unlink",
                                   !.exists = Target # None]
           /\ UNCHANGED <<disk, replies>>
  <2>1. /\ CallTypes' /\ call'.at = IF Target = None THEN "replace" ELSE "unlink"
        /\ call'.name = call.name /\ call'.doc = call.doc
    BY <1>2 DEF FileInv, CallTypes, SaveSteps
  <2>2. SaveMade' /\ DiskTypes' /\ SameHeld
    BY <1>2, <2>1 DEF SaveMade, Temp, Target, FileInv, DiskTypes, disk, SameHeld, Held, At
  <2> QED BY <1>2, <2>1, <2>2, SaveGoesOn DEF SaveSteps, At
<1> QED BY <1>1, <1>2 DEF Stat

LEMMA UnlinkStep == ASSUME FileInv, UnlinkBackup PROVE StepEffect
<1>1. CASE Refuse("unlink")
  BY <1>1, RefuseStep DEF SaveSteps
<1>2. CASE At("unlink") /\ IsBackup(None) /\ GoOn("aside") /\ UNCHANGED <<file, temp, replies>>
  <2>1. /\ CallTypes' /\ call'.at = "aside" /\ call'.name = call.name /\ call'.doc = call.doc
        /\ call.name \in Files
    BY <1>2, WentOn, WhileSaving DEF FileInv, SaveSteps, At
  <2>2. SaveMade' /\ DiskTypes' /\ SameHeld
    BY <1>2, <2>1, Distinct
    DEF SaveMade, Temp, Target, FileInv, DiskTypes, SameHeld, Held, At, IsBackup
  <2> QED BY <1>2, <2>1, <2>2, SaveGoesOn DEF SaveSteps, At, replies
<1> QED BY <1>1, <1>2 DEF UnlinkBackup

LEMMA AsideStep == ASSUME FileInv, MoveAside PROVE StepEffect
<1>1. CASE Refuse("aside")
  BY <1>1, RefuseStep DEF SaveSteps
<1>2. CASE /\ At("aside") /\ IsBackup(Target) /\ IsTarget(None)
           /\ GoOn("replace") /\ UNCHANGED <<temp, replies>>
  <2>1. /\ CallTypes' /\ call'.at = "replace" /\ call'.name = call.name /\ call'.doc = call.doc
        /\ call.name \in Files
    BY <1>2, WentOn, WhileSaving DEF FileInv, SaveSteps, At
  <2>2. SaveMade' /\ DiskTypes' /\ SameHeld
    BY <1>2, <2>1, Distinct
    DEF SaveMade, Temp, Target, FileInv, DiskTypes, SameHeld, Held, At, IsBackup, IsTarget
  <2> QED BY <1>2, <2>1, <2>2, SaveGoesOn DEF SaveSteps, At, replies
<1> QED BY <1>1, <1>2 DEF MoveAside

\* The one step that changes what is held.
LEMMA ReplaceStep == ASSUME FileInv, Replace PROVE StepEffect
<1>1. CASE Refuse("replace")
  BY <1>1, RefuseStep DEF SaveSteps
<1>2. CASE At("replace") /\ call.exists /\ GoOn("back") /\ UNCHANGED <<disk, replies>>
  <2>1. /\ CallTypes' /\ call'.at = "back" /\ call'.name = call.name /\ call'.doc = call.doc
    BY <1>2, WentOn DEF FileInv, SaveSteps
  <2>2. SaveMade' /\ DiskTypes' /\ SameHeld
    BY <1>2, <2>1 DEF SaveMade, Target, FileInv, DiskTypes, disk, SameHeld, Held, At
  <2> QED BY <1>2, <2>1, <2>2, SaveGoesOn DEF SaveSteps, At
<1>3. CASE /\ At("replace") /\ IsTarget(Temp) /\ IsTemp(None)
           /\ GoOn("tidy") /\ UNCHANGED <<backup, replies>>
  <2> DEFINE n == call.name
  <2>1. /\ CallTypes' /\ call'.at = "tidy" /\ call'.name = n /\ call'.doc = call.doc
        /\ n \in Files /\ call.doc \in Docs /\ call.at = "replace"
    BY <1>3, WentOn, WhileSaving DEF FileInv, SaveSteps, At
  <2>2. Temp = call.doc
    BY <2>1 DEF FileInv, SaveMade
  <2>3. /\ file'[n] = call.doc /\ backup' = backup /\ DiskTypes'
        /\ \A f \in Files \ {n} : file'[f] = file[f]
    BY <1>3, <2>1, <2>2, Distinct DEF FileInv, DiskTypes, IsTarget, IsTemp, Temp
  <2>4. SaveMade'
    BY <2>1, <2>3 DEF SaveMade, Target
  <2>5. ReplyTypes' /\ CallMade' /\ answer' = answer /\ got' = got /\ answer[n] = "none"
    BY <1>3, <2>1 DEF FileInv, ReplyTypes, CallMade, replies, SaveSteps, LoadSteps
  <2>6. Held(n)' = call.doc /\ \A f \in Files \ {n} : Held(f)' = Held(f)
    BY <2>1, <2>3, Distinct DEF Held
  <2>7. Durable(n)!Store
    BY <2>1, <2>5, <2>6, Distinct DEF Durable!Store, Saves, At
  <2>8. ASSUME NEW f \in Files \ {n} PROVE UNCHANGED Durable(f)!vars
    <3>1. ~Saves(f) /\ ~Saves(f)'
      BY <2>1, <2>8 DEF Saves
    <3> QED BY <2>5, <2>6, <2>8, <3>1, StutterEach
  <2>9. KeepsEach
    BY <2>1, <2>7, <2>8 DEF KeepsEach, Durable!Next
  <2> QED BY <2>1, <2>3, <2>4, <2>5, <2>6, <2>9 DEF StepEffect, FileInv, SaveSteps
<1> QED BY <1>1, <1>2, <1>3 DEF Replace

LEMMA BackStep == ASSUME FileInv, MoveBack PROVE StepEffect
<1>1. CASE Refuse("back")
  BY <1>1, RefuseStep DEF SaveSteps
<1>2. CASE At("back") /\ IsTarget(Backup) /\ IsBackup(None) /\ DropTemp /\ Reply("fail")
  <2>1. call.at = "back" /\ call.at \in SaveSteps /\ call.name \in Files
    BY <1>2, WhileSaving DEF SaveSteps, At
  <2>2. DiskTypes' /\ SameHeld
    BY <1>2, <2>1, Distinct
    DEF FileInv, SaveMade, Target, Backup, DiskTypes, SameHeld, Held, IsTarget, IsBackup,
        IsTemp, DropTemp
  <2> QED BY <1>2, <2>1, <2>2, SaveAnswers DEF At
<1> QED BY <1>1, <1>2 DEF MoveBack

LEMMA TidyStep == ASSUME FileInv, Tidy PROVE StepEffect
<1>1. call.at = "tidy" /\ call.at \in SaveSteps /\ call.name \in Files /\ call.doc \in Docs
  BY WhileSaving DEF Tidy, SaveSteps, At
<1>2. DiskTypes' /\ SameHeld
  BY <1>1, Distinct
  DEF Tidy, FileInv, SaveMade, Target, DiskTypes, SameHeld, Held, IsBackup
<1> QED BY <1>1, <1>2, SaveAnswers DEF Tidy, At

LEMMA SaveStepEffect == ASSUME FileInv, SaveStep PROVE StepEffect
BY WriteStep, VerifyStep, StatStep, UnlinkStep, AsideStep, ReplaceStep, BackStep, TidyStep
   DEF SaveStep

\* A load reads what is held and touches nothing of it.
LoadEffect ==
    /\ FileInv' /\ SameHeld /\ answer' = answer /\ KeepsEach
    /\ \/ /\ call' = Idle
          /\ \A f \in Files \ {call.name} : got'[f] = got[f]
          /\ \A f \in Files : f = call.name => got'[f] = None \/ got'[f] = Held(f)
       \/ call'.at = "recover" /\ call'.name = call.name /\ got' = got

LEMMA LoadEnds ==
  ASSUME FileInv, call.at \in LoadSteps, NEW d \in Docs \cup {None}, Loaded(d), DiskTypes', SameHeld,
         d = None \/ d = Held(call.name)
  PROVE  LoadEffect
<1>1. /\ call' = Idle /\ call'.name = None /\ call'.at = "idle" /\ call'.doc = None
      /\ call'.exists = FALSE
  BY DEF Loaded, Idle
<1>2. CallTypes' /\ CallMade' /\ SaveMade'
  BY <1>1 DEF CallTypes, CallMade, SaveMade, SaveSteps, LoadSteps, Idle
<1>3. call.name \in Files /\ call.doc = None
  BY DEF FileInv, CallMade
<1>4. /\ ReplyTypes' /\ answer' = answer /\ got'[call.name] = d
      /\ \A f \in Files \ {call.name} : got'[f] = got[f]
  BY <1>3 DEF Loaded, FileInv, ReplyTypes
<1>5. ASSUME NEW f \in Files PROVE [Durable(f)!Next]_(Durable(f)!vars)
  <2>1. ~Saves(f)' /\ ~Saves(f) /\ Held(f)' = Held(f)
    BY <1>1, <1>5, Distinct DEF Saves, At, LoadSteps, SameHeld
  <2>2. CASE f = call.name
    <3>1. Durable(f)!Read
      BY <1>3, <1>4, <2>1, <2>2, Distinct DEF Durable!Read
    <3> QED BY <3>1 DEF Durable!Next
  <2>3. CASE f # call.name
    BY <1>4, <1>5, <2>1, <2>3, StutterEach
  <2> QED BY <2>2, <2>3
<1> QED BY <1>1, <1>2, <1>4, <1>5 DEF LoadEffect, FileInv, KeepsEach

LEMMA LoadStepEffect == ASSUME FileInv, LoadStep PROVE LoadEffect
<1>1. call.at \in LoadSteps /\ call.name \in Files
  BY DEF LoadStep, LoadTarget, Recover, At, LoadSteps, FileInv, CallMade
<1>2. CASE /\ At("load") /\ Target \in Docs /\ Loaded(Target)
           /\ IsBackup(None) \/ UNCHANGED backup
           /\ UNCHANGED <<file, temp>>
  <2>1. DiskTypes' /\ SameHeld /\ Target = Held(call.name)
    BY <1>1, <1>2, Distinct DEF FileInv, DiskTypes, IsBackup, Target, SameHeld, Held
  <2> QED BY <1>1, <1>2, <2>1, LoadEnds
<1>3. CASE Loaded(None) /\ UNCHANGED disk
  <2>1. DiskTypes' /\ SameHeld
    BY <1>3 DEF FileInv, DiskTypes, disk, SameHeld, Held
  <2> QED BY <1>1, <1>3, <2>1, LoadEnds
<1>4. CASE At("load") /\ Target = None /\ GoOn("recover") /\ UNCHANGED <<disk, replies>>
  <2>1. /\ CallTypes' /\ call'.at = "recover" /\ call'.name = call.name /\ call'.doc = call.doc
    BY <1>4, WentOn DEF FileInv, LoadSteps
  <2>2. /\ DiskTypes' /\ SameHeld /\ SaveMade' /\ ReplyTypes' /\ CallMade'
        /\ answer' = answer /\ got' = got
    BY <1>1, <1>4, <2>1
    DEF FileInv, DiskTypes, disk, SameHeld, Held, SaveMade, Target, ReplyTypes, replies,
      CallMade,
        SaveSteps, LoadSteps
  <2>3. ASSUME NEW f \in Files PROVE UNCHANGED Durable(f)!vars
    <3>1. ~Saves(f)' /\ ~Saves(f) /\ Held(f)' = Held(f)
      BY <1>4, <2>1, <2>2 DEF Saves, At, SameHeld
    <3> QED BY <2>2, <3>1, StutterEach
  <2> QED BY <2>1, <2>2, <2>3 DEF LoadEffect, FileInv, KeepsEach
<1>5. CASE /\ At("recover") /\ Backup \in Docs /\ Loaded(Backup)
           /\ IsTarget(Backup) /\ IsBackup(None) /\ UNCHANGED temp
  <2>1. DiskTypes' /\ SameHeld /\ Backup = Held(call.name)
    BY <1>1, <1>5, Distinct
    DEF FileInv, SaveMade, Target, At, DiskTypes, IsBackup, IsTarget, Backup, SameHeld, Held
  <2> QED BY <1>1, <1>5, <2>1, LoadEnds
<1> QED BY <1>2, <1>3, <1>4, <1>5 DEF LoadStep, LoadTarget, Recover

LEMMA SaveBegins ==
  ASSUME FileInv, NEW n \in Files, NEW d \in Docs, BeginSave(n, d)
  PROVE  /\ FileInv' /\ SameHeld /\ KeepsEach
         /\ call'.at = "write" /\ call'.name = n /\ call'.doc = d
<1>1. /\ call.at = "idle" /\ call.name = None /\ UNCHANGED disk
      /\ call' = [name |-> n, at |-> "write", doc |-> d, exists |-> FALSE]
      /\ answer' = [answer EXCEPT ![n] = "none"] /\ got' = [got EXCEPT ![n] = None]
  BY DEF BeginSave, At, FileInv, CallMade
<1>2. call'.at = "write" /\ call'.name = n /\ call'.doc = d
  BY <1>1
<1>3. DiskTypes' /\ SameHeld
  BY <1>1 DEF disk, FileInv, DiskTypes, SameHeld, Held
<1>4. CallTypes' /\ ReplyTypes' /\ CallMade' /\ SaveMade'
  BY <1>1, <1>2 DEF CallTypes, ReplyTypes, CallMade, SaveMade, FileInv, SaveSteps, LoadSteps,
    Answers
<1>5. ASSUME NEW f \in Files PROVE [Durable(f)!Next]_(Durable(f)!vars)
  <2>1. ~Saves(f) /\ (Saves(f)' <=> f = n) /\ ~At("tidy")' /\ Held(f)' = Held(f)
    BY <1>1, <1>2, <1>3, <1>5, Distinct DEF Saves, At, SameHeld
  <2>2. CASE f = n
    <3>1. Durable(f)!Ask
      BY <1>1, <1>2, <2>1, <2>2, Distinct DEF Durable!Ask, FileInv, ReplyTypes
    <3> QED BY <3>1 DEF Durable!Next
  <2>3. CASE f # n
    <3>1. answer'[f] = answer[f] /\ got'[f] = got[f]
      BY <1>1, <1>5, <2>3 DEF FileInv, ReplyTypes
    <3> QED BY <1>5, <2>1, <2>3, <3>1, StutterEach
  <2> QED BY <2>2, <2>3
<1> QED BY <1>2, <1>3, <1>4, <1>5 DEF FileInv, KeepsEach

\* A load begins or is dropped, or nothing is done with the files.
LEMMA NoSave ==
  ASSUME FileInv, UNCHANGED <<disk, replies>>, CallTypes', CallMade', SaveMade',
         call.at \notin SaveSteps, call'.at \notin SaveSteps
  PROVE  FileInv' /\ SameHeld /\ KeepsEach
<1>1. DiskTypes' /\ ReplyTypes' /\ SameHeld /\ answer' = answer /\ got' = got
  BY DEF disk, replies, FileInv, DiskTypes, ReplyTypes, SameHeld, Held
<1>2. ASSUME NEW f \in Files PROVE UNCHANGED Durable(f)!vars
  <2>1. ~Saves(f) /\ ~Saves(f)'
    BY <1>2, Distinct DEF Saves, At, FileInv, CallTypes, CallMade, SaveSteps, LoadSteps
  <2> QED BY <1>1, <1>2, <2>1, StutterEach DEF SameHeld
<1> QED BY <1>1, <1>2 DEF FileInv, KeepsEach

LEMMA SameFiles ==
  ASSUME FileInv, UNCHANGED fileVars PROVE FileInv' /\ SameHeld /\ KeepsEach
<1>1. FileInv' /\ SameHeld
  BY DEF fileVars, disk, replies, FileInv, DiskTypes, CallTypes, ReplyTypes, CallMade, SaveMade,
         Target, Temp, SameHeld, Held
<1>2. ASSUME NEW f \in Files PROVE UNCHANGED Durable(f)!vars
  BY DEF fileVars, disk, replies, Durable!vars, Held, Saves, At
<1> QED BY <1>1, <1>2 DEF KeepsEach

-----------------------------------------------------------------------------
(* The medium                                                              *)

Phases ==
    /\ phase = "off" <=> At("off")
    /\ phase = "setting" => call.at \in LoadSteps /\ call.name = Setting
    /\ phase = "default" => At("idle")
    /\ phase = "mount" => call.at \in {"idle"} \cup SaveSteps /\ call.name # Calibration
    /\ phase = "calibration" => call.at \in LoadSteps /\ call.name = Calibration
    /\ phase = "running" => call.at \in {"idle"} \cup SaveSteps
    /\ owner = "host" => phase = "running" /\ At("idle")

\* A calibration is collected only while none is in use, and the one being
\* saved is the one collected.
Sensor ==
    /\ phase # "running" => used = None /\ pending = None /\ ~required
    /\ required => used = None
    /\ pending # None => required
    /\ phase = "running" /\ call.name = Calibration => pending = call.doc

MediumTypes ==
    /\ phase \in {"off", "setting", "default", "mount", "calibration", "running"}
    /\ used \in Docs \cup {None} /\ pending \in Calibrations \cup {None}
    /\ required \in BOOLEAN /\ edited \in BOOLEAN
    /\ owner \in {"app", "host", "nobody"}

Inv == FileInv /\ MediumTypes /\ Phases /\ Sensor /\ UsedIsSaved

Good == Inv' /\ KeepsEach

LEMMA Documents ==
  /\ Setting \in Files /\ Calibration \in Files /\ Setting # Calibration
  /\ ConsoleSettings \subseteq Docs /\ Defaults \in Docs /\ Calibrations \subseteq Docs
  /\ HostSettings \subseteq Values /\ HostCalibrations \subseteq Values
  /\ None \notin Calibrations
<1>1. /\ Setting \in Files /\ Calibration \in Files /\ Setting # Calibration
      /\ ConsoleSettings \subseteq Docs /\ Defaults \in Docs /\ Calibrations \subseteq Docs
  BY MediumAssumption DEF Setting, Calibration, ConsoleSettings
<1>2. HostSettings \subseteq Values
  BY <1>1 DEF ConsoleSettings, Values
<1>3. HostCalibrations \subseteq Values
  BY <1>1 DEF HostCalibrations, ParsedCalibration, Calibrations, Values
<1> QED BY <1>1, <1>2, <1>3, Distinct

LEMMA InitGood == Init => Inv /\ \A f \in Files : Durable(f)!Init
<1> SUFFICES ASSUME Init PROVE Inv /\ \A f \in Files : Durable(f)!Init
  OBVIOUS
<1>1. call.name = None /\ call.at = "off" /\ call.doc = None /\ call.exists = FALSE
  BY DEF Init, Off, Idle
<1>2. CallTypes /\ CallMade /\ SaveMade
  BY <1>1 DEF Init, Off, Idle, CallTypes, CallMade, SaveMade, SaveSteps, LoadSteps
<1>3. DiskTypes /\ ReplyTypes
  BY Documents, Distinct DEF Init, DiskTypes, ReplyTypes, Answers, Values
<1>4. MediumTypes /\ Phases /\ Sensor /\ UsedIsSaved
  BY <1>1 DEF Init, MediumTypes, Phases, Sensor, UsedIsSaved, At
<1>5. ASSUME NEW f \in Files PROVE Durable(f)!Init
  <2>1. ~Saves(f) /\ Held(f) \in Docs \cup {None, Bad}
    BY <1>1, <1>3, <1>5, Distinct DEF Saves, Held, DiskTypes, Values
  <2> QED BY <1>5, <2>1, Distinct DEF Init, Durable!Init
<1> QED BY <1>2, <1>3, <1>4, <1>5 DEF Inv, FileInv

\* A step that leaves the files alone, or only reads them, is judged by the rest.
LEMMA GoodByRest ==
  ASSUME Inv, FileInv', KeepsEach, MediumTypes', Phases', Sensor', UsedIsSaved'
  PROVE  Good
BY DEF Good, Inv

LEMMA PowerOnGood == ASSUME Inv, PowerOn PROVE Good
<1>1. /\ phase = "off" /\ phase' = "setting" /\ UNCHANGED <<disk, replies, sensor, medium>>
      /\ call' = [name |-> Setting, at |-> "load", doc |-> None, exists |-> FALSE]
  BY DEF PowerOn, Idle
<1>2. call'.at = "load" /\ call'.name = Setting /\ call'.doc = None
  BY <1>1
<1>3. call.at = "off"
  BY <1>1 DEF Inv, Phases, At
<1>4. CallTypes' /\ CallMade' /\ SaveMade'
  BY <1>1, <1>2, Documents DEF CallTypes, CallMade, SaveMade, SaveSteps, LoadSteps
<1>5. FileInv' /\ SameHeld /\ KeepsEach
  BY <1>1, <1>2, <1>3, <1>4, NoSave DEF SaveSteps, Inv
<1>6. MediumTypes' /\ Phases' /\ Sensor' /\ UsedIsSaved'
  BY <1>1, <1>2 DEF Inv, MediumTypes, Phases, Sensor, UsedIsSaved, sensor, medium, LoadSteps, At
<1> QED BY <1>5, <1>6, GoodByRest

LEMMA LoadSettingGood == ASSUME Inv, LoadSetting PROVE Good
<1>1. /\ phase = "setting" /\ UNCHANGED <<sensor, medium>> /\ call.at \in LoadSteps
      /\ call.name = Setting
      /\ phase' = IF At("recover") /\ backup[Setting] = None THEN "default"
                  ELSE IF call'.at = "idle" THEN "mount" ELSE phase
  BY DEF LoadSetting, Inv, Phases
<1>2. LoadEffect
  BY LoadStepEffect DEF LoadSetting, Inv
<1>3. At("recover") /\ backup[Setting] = None => call' = Idle
  BY <1>1, Distinct DEF LoadSetting, LoadStep, LoadTarget, Recover, Loaded, At, Backup
<1>4. \/ call'.at = "idle" /\ call'.name = None
      \/ call'.at = "recover" /\ call'.name = Setting /\ phase' = phase
  BY <1>1, <1>2, <1>3 DEF LoadEffect, Idle
<1>5. phase' \in {"setting", "default", "mount"} /\ (phase' = "setting" <=> call'.at = "recover")
  BY <1>1, <1>3, <1>4 DEF Idle
<1>6. MediumTypes' /\ Phases' /\ Sensor' /\ UsedIsSaved'
  BY <1>1, <1>4, <1>5, Documents, Distinct
  DEF Inv, MediumTypes, Phases, Sensor, UsedIsSaved, sensor, medium, LoadSteps, At
<1> QED BY <1>2, <1>6, GoodByRest DEF LoadEffect

LEMMA GenerateDefaultGood == ASSUME Inv, GenerateDefault PROVE Good
<1>1. phase = "default" /\ phase' = "mount" /\ UNCHANGED <<sensor, medium>>
  BY DEF GenerateDefault
<1>2. /\ FileInv' /\ SameHeld /\ KeepsEach
      /\ call'.at = "write" /\ call'.name = Setting
  BY SaveBegins, Documents DEF GenerateDefault, Inv
<1>3. MediumTypes' /\ Phases' /\ Sensor' /\ UsedIsSaved'
  BY <1>1, <1>2, Documents
  DEF Inv, MediumTypes, Phases, Sensor, UsedIsSaved, sensor, medium, SaveSteps, At
<1> QED BY <1>2, <1>3, GoodByRest

LEMMA MountFailsGood == ASSUME Inv, MountFails PROVE Good
<1>1. /\ phase # "running" /\ call.at \in {"load", "idle"} /\ phase' = "running" /\ required' = TRUE
      /\ UNCHANGED <<disk, replies, used, pending, medium>>
      /\ call' = [name |-> None, at |-> "idle", doc |-> None, exists |-> FALSE]
  BY DEF MountFails, Idle, At
<1>2. call'.at = "idle" /\ call'.name = None /\ call'.doc = None
  BY <1>1
<1>3. CallTypes' /\ CallMade' /\ SaveMade'
  BY <1>1, <1>2 DEF CallTypes, CallMade, SaveMade, SaveSteps, LoadSteps
<1>4. FileInv' /\ SameHeld /\ KeepsEach
  BY <1>1, <1>2, <1>3, NoSave DEF SaveSteps, Inv
<1>5. MediumTypes' /\ Phases' /\ Sensor' /\ UsedIsSaved'
  BY <1>1, <1>2, Documents, Distinct DEF Inv, MediumTypes, Phases, Sensor, UsedIsSaved,
    medium, At
<1> QED BY <1>4, <1>5, GoodByRest

LEMMA MountGood == ASSUME Inv, Mount PROVE Good
<1>1. /\ phase = "mount" /\ phase' = "calibration" /\ owner' = "app"
      /\ UNCHANGED <<disk, replies, sensor, edited>> /\ call.at = "idle"
      /\ call' = [name |-> Calibration, at |-> "load", doc |-> None, exists |-> FALSE]
  BY DEF Mount, BeginLoad, Idle, At
<1>2. call'.at = "load" /\ call'.name = Calibration /\ call'.doc = None
  BY <1>1
<1>3. CallTypes' /\ CallMade' /\ SaveMade'
  BY <1>1, <1>2, Documents DEF CallTypes, CallMade, SaveMade, SaveSteps, LoadSteps
<1>4. FileInv' /\ SameHeld /\ KeepsEach
  BY <1>1, <1>2, <1>3, NoSave DEF SaveSteps, Inv
<1>5. MediumTypes' /\ Phases' /\ Sensor' /\ UsedIsSaved'
  BY <1>1, <1>2 DEF Inv, MediumTypes, Phases, Sensor, UsedIsSaved, sensor, LoadSteps, At
<1> QED BY <1>4, <1>5, GoodByRest

LEMMA LoadCalibrationGood == ASSUME Inv, LoadCalibration PROVE Good
<1>1. /\ phase = "calibration" /\ UNCHANGED <<pending, medium>>
      /\ call.at \in LoadSteps /\ call.name = Calibration
  BY DEF LoadCalibration, Inv, Phases
<1>2. LoadEffect
  BY LoadStepEffect DEF LoadCalibration, Inv
<1>3. CASE call'.at = "idle"
  <2>1. /\ phase' = "running" /\ used' = got'[Calibration] /\ required' = (got'[Calibration] = None)
    BY <1>3 DEF LoadCalibration
  <2>2. /\ got'[Calibration] = None \/ got'[Calibration] = Held(Calibration)'
        /\ call'.name = None
    BY <1>1, <1>2, <1>3, Documents DEF LoadEffect, Idle, SameHeld
  <2>3. used' \in Docs \cup {None}
    BY <1>2, <2>1, Documents DEF LoadEffect, FileInv, ReplyTypes
  <2>4. MediumTypes' /\ Phases' /\ Sensor' /\ UsedIsSaved'
    BY <1>1, <1>3, <2>1, <2>2, <2>3, Documents, Distinct
    DEF Inv, MediumTypes, Phases, Sensor, UsedIsSaved, medium, At
  <2> QED BY <1>2, <2>4, GoodByRest DEF LoadEffect
<1>4. CASE call'.at # "idle"
  <2>1. UNCHANGED <<phase, used, required>>
    BY <1>4 DEF LoadCalibration
  <2>2. call'.at = "recover" /\ call'.name = Calibration
    BY <1>1, <1>2, <1>4 DEF LoadEffect, Idle
  <2>3. MediumTypes' /\ Phases' /\ Sensor' /\ UsedIsSaved'
    BY <1>1, <2>1, <2>2 DEF Inv, MediumTypes, Phases, Sensor, UsedIsSaved, medium, At, LoadSteps
  <2> QED BY <1>2, <2>3, GoodByRest DEF LoadEffect
<1> QED BY <1>3, <1>4

LEMMA ParamSaveGood == ASSUME Inv, ParamSave PROVE Good
<1>1. phase = "running" /\ owner = "app" /\ UNCHANGED <<phase, sensor, medium>>
  BY DEF ParamSave, Usable
<1>2. /\ FileInv' /\ SameHeld /\ KeepsEach
      /\ call'.at = "write" /\ call'.name = Setting
  BY SaveBegins, Documents DEF ParamSave, Inv
<1>3. MediumTypes' /\ Phases' /\ Sensor' /\ UsedIsSaved'
  BY <1>1, <1>2, Documents
  DEF Inv, MediumTypes, Phases, Sensor, UsedIsSaved, SameHeld, sensor, medium, SaveSteps, At
<1> QED BY <1>2, <1>3, GoodByRest

LEMMA SaveCalibrationGood == ASSUME Inv, SaveCalibration PROVE Good
<1>1. /\ phase = "running" /\ owner = "app" /\ pending # None
      /\ UNCHANGED <<phase, sensor, medium>>
  BY DEF SaveCalibration, Usable
<1>2. pending \in Docs
  BY <1>1, Documents DEF Inv, MediumTypes
<1>3. /\ FileInv' /\ SameHeld /\ KeepsEach
      /\ call'.at = "write" /\ call'.name = Calibration /\ call'.doc = pending
  BY <1>2, SaveBegins, Documents DEF SaveCalibration, Inv
<1>4. MediumTypes' /\ Phases' /\ Sensor' /\ UsedIsSaved'
  BY <1>1, <1>3, Documents
  DEF Inv, MediumTypes, Phases, Sensor, UsedIsSaved, SameHeld, sensor, medium, SaveSteps, At
<1> QED BY <1>3, <1>4, GoodByRest

LEMMA StepOfSaveGood == ASSUME Inv, StepOfSave PROVE Good
<1>1. UNCHANGED <<phase, medium>> /\ call.at \in SaveSteps
  BY DEF StepOfSave, SaveStep, Write, Verify, Stat, UnlinkBackup, MoveAside, Replace,
    MoveBack, Tidy,
         Refuse, At, SaveSteps
<1>2. StepEffect /\ SaveEnds
  BY SaveStepEffect DEF StepOfSave, Inv
<1>3. /\ call.name \in Files /\ call.doc \in Docs /\ phase \in {"mount", "running"}
      /\ owner # "host"
  BY <1>1, WhileSaving DEF Inv, Phases, MediumTypes, At, SaveSteps, LoadSteps
<1>4. /\ call'.at \in {"idle"} \cup SaveSteps
      /\ call'.name = None \/ (call'.name = call.name /\ call'.doc = call.doc)
  BY <1>2 DEF StepEffect, Idle
<1>5. Phases'
  BY <1>1, <1>3, <1>4, Documents, Distinct
  DEF Inv, Phases, medium, SaveSteps, At
<1>6. CASE call.name = Calibration /\ answer'[Calibration] = "ok"
  <2>1. used' = pending /\ pending' = None /\ required' = FALSE
    BY <1>2, <1>6 DEF SaveEnds
  <2>2. phase = "running" /\ pending = call.doc /\ call' = Idle /\ Held(Calibration)' = call.doc
    BY <1>2, <1>3, <1>6 DEF StepEffect, Inv, Phases, Sensor
  <2>3. call'.name = None
    BY <2>2 DEF Idle
  <2>4. MediumTypes' /\ Sensor' /\ UsedIsSaved'
    BY <1>1, <1>3, <2>1, <2>2, <2>3, Documents, Distinct
    DEF Inv, MediumTypes, Sensor, UsedIsSaved, medium
  <2> QED BY <1>2, <1>5, <2>4, GoodByRest DEF StepEffect
<1>7. CASE call.name = Calibration /\ answer'[Calibration] # "ok"
  <2>1. UNCHANGED sensor
    BY <1>2, <1>7 DEF SaveEnds
  <2>2. used = None
    BY <1>3, <1>7, Documents, Distinct DEF Inv, Phases, Sensor
  <2>3. MediumTypes' /\ Sensor' /\ UsedIsSaved'
    BY <1>1, <1>4, <2>1, <2>2, Documents, Distinct
    DEF Inv, MediumTypes, Sensor, UsedIsSaved, medium, sensor
  <2> QED BY <1>2, <1>5, <2>3, GoodByRest DEF StepEffect
<1>8. CASE call.name # Calibration
  <2>1. UNCHANGED sensor /\ Held(Calibration)' = Held(Calibration)
    BY <1>2, <1>8, Documents DEF SaveEnds, StepEffect
  <2>2. MediumTypes' /\ Sensor' /\ UsedIsSaved'
    BY <1>1, <1>4, <1>8, <2>1, Documents, Distinct
    DEF Inv, MediumTypes, Sensor, UsedIsSaved, medium, sensor
  <2> QED BY <1>2, <1>5, <2>2, GoodByRest DEF StepEffect
<1> QED BY <1>6, <1>7, <1>8

\* Collect, SkipCalibration, HostTakes and HostReturns leave the files alone.
LEMMA OthersGood ==
  ASSUME Inv, Collect \/ SkipCalibration \/ HostTakes \/ HostReturns PROVE Good
<1>1. UNCHANGED <<fileVars, phase>>
  BY DEF Collect, SkipCalibration, HostTakes, HostReturns
<1>2. call' = call /\ file' = file /\ backup' = backup
  BY <1>1 DEF fileVars, disk
<1>3. FileInv' /\ SameHeld /\ KeepsEach
  BY <1>1, SameFiles DEF Inv
<1>4. CASE Collect
  <2>1. call.name # Calibration
    BY <1>4, Documents, Distinct
    DEF Collect, Inv, Phases, Sensor, FileInv, CallMade, SaveSteps, LoadSteps
  <2> QED BY <1>1, <1>2, <1>3, <1>4, <2>1, GoodByRest, Documents
      DEF Collect, Inv, MediumTypes, Phases, Sensor, UsedIsSaved, SameHeld, medium, At
<1>5. CASE SkipCalibration
  BY <1>1, <1>2, <1>3, <1>5, GoodByRest, Documents
  DEF SkipCalibration, Inv, MediumTypes, Phases, Sensor, UsedIsSaved, SameHeld, medium, At
<1>6. CASE HostTakes
  BY <1>1, <1>2, <1>3, <1>6, GoodByRest, Documents
  DEF HostTakes, Usable, Inv, MediumTypes, Phases, Sensor, UsedIsSaved, SameHeld, sensor, At
<1>7. CASE HostReturns
  BY <1>1, <1>2, <1>3, <1>7, GoodByRest, Documents
  DEF HostReturns, Inv, MediumTypes, Phases, Sensor, UsedIsSaved, SameHeld, sensor, At
<1> QED BY <1>4, <1>5, <1>6, <1>7

LEMMA HostWritesGood == ASSUME Inv, HostWrites PROVE Good
<1>1. /\ UNCHANGED <<backup, temp, call, answer, got, phase, used, required, pending, owner>>
      /\ call.at = "idle" /\ call.name = None
      /\ \E n \in Files, d \in Values :
            /\ file' = [file EXCEPT ![n] = d]
            /\ edited' = TRUE \/ (n = Setting /\ edited' = edited)
  BY Documents, Distinct
  DEF HostWrites, replies, sensor, Inv, Phases, At, FileInv, CallMade, SaveSteps, LoadSteps
<1>2. PICK n \in Files, d \in Values :
            /\ file' = [file EXCEPT ![n] = d]
            /\ edited' = TRUE \/ (n = Setting /\ edited' = edited)
  BY <1>1
<1>3. DiskTypes' /\ CallTypes' /\ ReplyTypes' /\ CallMade' /\ SaveMade'
  BY <1>1, <1>2
  DEF Inv, FileInv, DiskTypes, CallTypes, ReplyTypes, CallMade, SaveMade, SaveSteps, LoadSteps
<1>4. \A f \in Files \ {n} : Held(f)' = Held(f)
  BY <1>1, <1>2 DEF Held, Inv, FileInv, DiskTypes
<1>5. ASSUME NEW f \in Files PROVE [Durable(f)!Next]_(Durable(f)!vars)
  <2>1. ~Saves(f) /\ ~Saves(f)' /\ UNCHANGED <<answer, got>>
    BY <1>1, <1>5, Distinct DEF Saves
  <2>2. Held(f)' \in Docs \cup {None, Bad}
    BY <1>3, <1>5 DEF Held, DiskTypes, Values
  <2>3. Durable(f)!Edit
    BY <2>1, <2>2 DEF Durable!Edit
  <2> QED BY <2>3 DEF Durable!Next
<1>6. UsedIsSaved'
  BY <1>1, <1>2, <1>4, Documents DEF Inv, UsedIsSaved
<1>7. MediumTypes' /\ Phases' /\ Sensor'
  BY <1>1, <1>2 DEF Inv, MediumTypes, Phases, Sensor, At
<1> QED BY <1>3, <1>5, <1>6, <1>7, GoodByRest DEF FileInv, KeepsEach

\* The power goes at any step of any call.
LEMMA PowerCutGood == ASSUME Inv, PowerCut PROVE Good
<1>1. /\ call' = [name |-> None, at |-> "off", doc |-> None, exists |-> FALSE]
      /\ answer' = [f \in Files |-> "none"] /\ got' = [f \in Files |-> None] /\ UNCHANGED disk
      /\ phase' = "off" /\ used' = None /\ required' = FALSE /\ pending' = None
      /\ owner' = "nobody" /\ edited' = FALSE
  BY DEF PowerCut, Off, Idle
<1>2. call'.name = None /\ call'.at = "off" /\ call'.doc = None
  BY <1>1
<1>3. DiskTypes' /\ CallTypes' /\ ReplyTypes' /\ CallMade' /\ SaveMade' /\ SameHeld
  BY <1>1, <1>2
  DEF Inv, FileInv, disk, DiskTypes, CallTypes, ReplyTypes, CallMade, SaveMade, SameHeld, Held,
      SaveSteps, LoadSteps, Answers
<1>4. ASSUME NEW f \in Files PROVE [Durable(f)!Next]_(Durable(f)!vars)
  <2>1. ~Saves(f)' /\ Held(f)' = Held(f)
    BY <1>2, <1>3, <1>4, Distinct DEF Saves, SameHeld
  <2>2. Durable(f)!Cut
    BY <1>1, <1>4, <2>1 DEF Durable!Cut
  <2> QED BY <2>2 DEF Durable!Next
<1>5. MediumTypes' /\ Phases' /\ Sensor' /\ UsedIsSaved'
  BY <1>1, <1>2 DEF MediumTypes, Phases, Sensor, UsedIsSaved, At
<1> QED BY <1>3, <1>4, <1>5, GoodByRest DEF FileInv, KeepsEach

LEMMA StepGood == Inv /\ [Next]_vars => Good
<1> SUFFICES ASSUME Inv, [Next]_vars PROVE Good
  OBVIOUS
<1>1. CASE UNCHANGED vars
  <2>1. UNCHANGED <<fileVars, phase, used, required, pending, owner, edited>>
    BY <1>1 DEF vars, sensor, medium
  <2>2. FileInv' /\ SameHeld /\ KeepsEach
    BY <2>1, SameFiles DEF Inv
  <2>3. call' = call
    BY <2>1 DEF fileVars
  <2>4. MediumTypes' /\ Phases' /\ Sensor' /\ UsedIsSaved'
    BY <2>1, <2>2, <2>3, Documents
    DEF Inv, MediumTypes, Phases, Sensor, UsedIsSaved, SameHeld, At
  <2> QED BY <2>2, <2>4, GoodByRest
<1> QED
  BY <1>1, PowerOnGood, LoadSettingGood, GenerateDefaultGood, MountFailsGood, MountGood,
     LoadCalibrationGood, ParamSaveGood, SaveCalibrationGood, StepOfSaveGood, OthersGood,
     HostWritesGood, PowerCutGood
  DEF Next

\* The inductive invariant holds in every state a behaviour reaches.
THEOREM MediumInvariant == Spec => []Inv
<1>1. Init => Inv
  BY InitGood
<1>2. Inv /\ [Next]_vars => Inv'
  BY StepGood DEF Good
<1> QED BY <1>1, <1>2, PTL DEF Spec

\* Until the host edits it, the calibration in use is the one on the medium
\* (sensor_try_save_accel_calibration, app/startup.c).
THEOREM CalibrationIsSaved == Spec => []UsedIsSaved
<1>1. Inv => UsedIsSaved
  BY DEF Inv
<1> QED BY <1>1, MediumInvariant, PTL

\* setting.json and mc_data.json implement DurableFile: every step of a save, a
\* load, the host or a power cut is a step or a stutter of each file's promise.
THEOREM FilesAreDurable == Spec => KeptWhole
<1>1. Init => \A f \in Files : Durable(f)!Init
  BY InitGood
<1>2. Inv /\ [Next]_vars => [\A f \in Files : [Durable(f)!Next]_(Durable(f)!vars)]_vars
  BY StepGood DEF Good, KeepsEach
<1> QED BY <1>1, <1>2, MediumInvariant, PTL DEF Spec, KeptWhole

-----------------------------------------------------------------------------
(* The parameters in memory                                                *)

Configs == [Names -> AnyValue]

RunningTypes ==
    /\ running \in Collections /\ ValidCollection(running)
    /\ active \in DOMAIN running.sets /\ news \in BOOLEAN

\* The command works on a copy that is valid and differs only where it was asked to.
CommandMade ==
    command # Nothing =>
        /\ command.number \in DOMAIN running.sets /\ command.names \subseteq Names
        /\ command.config \in Configs /\ Valid(command.config)
        /\ \A p \in Names \ command.names :
              command.config[p] = Effective(running, command.number)[p]

HeardMade == (heard # Nothing => heard \in Configs) /\ (~news => heard # Nothing)

ParamInv == RunningTypes /\ CommandMade /\ HeardMade /\ SetIsTold

\* The radio and who works on it; a peer is connected while its handler runs.
AirTypes ==
    /\ ble \in {"down", "copied", "set", "up"} /\ missed \in BOOLEAN
    /\ configured \in AnyValue /\ copied \in AnyValue \cup {Nothing}
    /\ radio \in AnyValue \cup {Nothing} /\ link \in AnyValue \cup {Nothing}
    /\ connecting \in {Nothing, <<>>} \cup {<<p>> : p \in AnyValue}
    /\ applying \in [Callers -> Calls \cup {Nothing}]
AirPhases ==
    /\ ble = "down" \/ copied # Nothing
    /\ ble \in {"down", "copied"} \/ radio # Nothing
    /\ ble = "up" \/ (link = Nothing /\ connecting = Nothing /\ applying = [c \in Callers |-> Nothing])
    /\ connecting # Nothing => link # Nothing
    /\ applying["host"] # Nothing => link # Nothing /\ applying["host"].linked

\* Nobody has to be told of a power: the BLE task has heard of it, or main sets it.
Current == ~news \/ heard = Nothing

\* Where the power in memory is on its way to the radio, unless it was missed.
MainHasIt ==
    /\ ble \in {"copied", "set"} => copied = PowerNow
    /\ ble = "set" => radio = PowerNow /\ configured = PowerNow
AirHasIt ==
    Current /\ ble = "up" =>
        /\ configured = PowerNow
        /\ connecting \in {Nothing, <<>>, <<PowerNow>>}
        /\ \A c \in Callers : applying[c] # Nothing => applying[c].power = PowerNow
        /\ radio = PowerNow \/ \E c \in Callers : applying[c] # Nothing
        /\ \/ link \in {Nothing, PowerNow} \/ connecting # Nothing \/ applying["host"] # Nothing
           \/ applying["worker"] # Nothing /\ applying["worker"].linked

AirInv == AirTypes /\ AirPhases /\ (missed \/ (MainHasIt /\ AirHasIt))

LEMMA CollectionFacts ==
  ASSUME NEW c \in Collections
  PROVE  /\ c.shared \in [Shared -> AnyValue] /\ DOMAIN c.sets \subseteq Numbers
         /\ \A n \in DOMAIN c.sets : c.sets[n] \in [Own -> AnyValue]
         /\ c.sets \in [DOMAIN c.sets -> [Own -> AnyValue]]
         /\ c = [shared |-> c.shared, sets |-> c.sets]
<1>1. PICK D \in SUBSET Numbers : c.sets \in [D -> [Own -> AnyValue]]
  BY DEF Collections
<1> QED BY <1>1 DEF Collections

LEMMA EffectiveFacts ==
  ASSUME NEW c \in Collections, NEW n \in DOMAIN c.sets
  PROVE  /\ Effective(c, n) \in Configs
         /\ \A p \in Shared : Effective(c, n)[p] = c.shared[p]
         /\ \A p \in Own : Effective(c, n)[p] = c.sets[n][p]
<1>1. \A p \in Own : p \notin Shared
  BY ParameterAssumption
<1> QED BY <1>1, CollectionFacts DEF Effective, Configs, Names

\* app_config_profiles_set_config: one set and the shared values are replaced,
\* and every set stays valid, since no order reaches a shared parameter.
LEMMA WithFacts ==
  ASSUME NEW coll \in Collections, ValidCollection(coll), NEW n \in DOMAIN coll.sets,
         NEW c \in Configs, Valid(c)
  PROVE  /\ With(coll, n, c) \in Collections
         /\ DOMAIN With(coll, n, c).sets = DOMAIN coll.sets
         /\ \A m \in DOMAIN coll.sets, p \in Names :
               Effective(With(coll, n, c), m)[p] =
                   IF p \in Shared \/ m = n THEN c[p] ELSE Effective(coll, m)[p]
         /\ ValidCollection(With(coll, n, c))
<1> DEFINE w == With(coll, n, c)
<1>1. /\ w.shared = Take(c, Shared) /\ w.sets = [coll.sets EXCEPT ![n] = Take(c, Own)]
      /\ w = [shared |-> w.shared, sets |-> w.sets]
  BY DEF With
<1>2. Take(c, Shared) \in [Shared -> AnyValue] /\ Take(c, Own) \in [Own -> AnyValue]
  BY DEF Take, Configs, Names
<1>3. w.sets \in [DOMAIN coll.sets -> [Own -> AnyValue]] /\ DOMAIN coll.sets \in SUBSET Numbers
  BY <1>1, <1>2, CollectionFacts
<1>4. w \in Collections
  BY <1>1, <1>2, <1>3 DEF Collections
<1>5. DOMAIN w.sets = DOMAIN coll.sets
  BY <1>3
<1>6. ASSUME NEW m \in DOMAIN coll.sets, NEW p \in Names
      PROVE  Effective(w, m)[p] = IF p \in Shared \/ m = n THEN c[p] ELSE Effective(coll, m)[p]
  <2>1. CASE p \in Shared
    BY <1>1, <1>4, <1>5, <2>1, EffectiveFacts DEF Take
  <2>2. CASE p \notin Shared
    BY <1>1, <1>4, <1>5, <2>2, EffectiveFacts, CollectionFacts DEF Take, Names
  <2> QED BY <2>1, <2>2
<1>7. ASSUME NEW m \in DOMAIN coll.sets PROVE Valid(Effective(w, m))
  <2> DEFINE new == Effective(w, m)
             old == Effective(coll, m)
  <2>1. new \in Configs /\ old \in Configs /\ Valid(old)
    BY <1>4, <1>5, EffectiveFacts DEF ValidCollection
  <2>2. CASE m = n
    <3>1. new = c
      BY <1>6, <2>1, <2>2 DEF Configs
    <3> QED BY <3>1
  <2>3. CASE m # n
    <3>1. /\ \A p \in Shared : new[p] = c[p]
          /\ \A p \in Own : new[p] = old[p]
      BY <1>6, <2>3, ParameterAssumption DEF Names
    <3>2. \A p \in Names : InLimits(p, new[p])
      BY <2>1, <3>1 DEF Valid, Configs, Names
    <3>3. \A q \in AtMost \cup Below : {q[1], q[2]} \subseteq Names => {q[1], q[2]} \subseteq Own
      BY ParameterAssumption DEF Names
    <3>4. \A q \in Within(new, AtMost) :
            q \in Within(old, AtMost) /\ new[q[1]] = old[q[1]] /\ new[q[2]] = old[q[2]]
      BY <2>1, <3>1, <3>3 DEF Within, Configs
    <3>5. \A q \in Within(new, Below) :
            q \in Within(old, Below) /\ new[q[1]] = old[q[1]] /\ new[q[2]] = old[q[2]]
      BY <2>1, <3>1, <3>3 DEF Within, Configs
    <3> QED BY <2>1, <3>2, <3>4, <3>5 DEF Valid, Configs
  <2> QED BY <2>2, <2>3
<1>8. ValidCollection(w)
  BY <1>5, <1>7 DEF ValidCollection
<1> QED BY <1>4, <1>5, <1>6, <1>8

LEMMA DefaultFacts ==
  ASSUME NEW n \in Numbers
  PROVE  DefaultsOf(n) \in Configs /\ Valid(DefaultsOf(n))
<1>1. Valid(DefaultsOf(n)) /\ DefaultsOf(n) = [p \in Names |-> DefaultsOf(n)[p]]
  BY ParameterAssumption DEF DefaultsOf
<1>2. ASSUME NEW p \in Names PROVE DefaultsOf(n)[p] \in AnyValue
  BY <1>1, <1>2 DEF Valid, InLimits, AnyValue, DefaultsOf
<1> QED BY <1>1, <1>2 DEF Configs

\* The least of a set of numbers comes first when they are sorted.
LEMMA SortedExists ==
  ASSUME NEW S \in SUBSET Numbers
  PROVE  LET s == Sorted(S)
         IN  /\ IsFiniteSet(S) /\ s \in [1 .. Cardinality(S) -> S]
             /\ \A i, j \in 1 .. Cardinality(S) : i < j => s[i] < s[j]
             /\ \A n \in S : \E i \in 1 .. Cardinality(S) : s[i] = n
<1> DEFINE IsSorted(s, T) ==
             /\ s \in [1 .. Cardinality(T) -> T]
             /\ \A i, j \in 1 .. Cardinality(T) : i < j => s[i] < s[j]
             /\ \A n \in T : \E i \in 1 .. Cardinality(T) : s[i] = n
           Has(k) == \A T \in SUBSET (1 .. k) : IsFiniteSet(T) /\ \E s : IsSorted(s, T)
<1>1. Has(0)
  <2>1. SUBSET (1 .. 0) = {{}}
    OBVIOUS
  <2>2. IsFiniteSet({}) /\ Cardinality({}) = 0
    BY FS_EmptySet
  <2>3. IsSorted(<<>>, {})
    BY <2>2
  <2> QED BY <2>1, <2>2, <2>3
<1>2. ASSUME NEW k \in Nat, Has(k) PROVE Has(k + 1)
  <2> SUFFICES ASSUME NEW T \in SUBSET (1 .. (k + 1))
               PROVE IsFiniteSet(T) /\ \E s : IsSorted(s, T)
    OBVIOUS
  <2>1. CASE k + 1 \notin T
    <3>1. T \in SUBSET (1 .. k)
      BY <2>1
    <3> QED BY <1>2, <3>1
  <2>2. CASE k + 1 \in T
    <3> DEFINE U == T \ {k + 1}
               c == Cardinality(U)
    <3>1. U \in SUBSET (1 .. k)
      OBVIOUS
    <3>2. IsFiniteSet(U) /\ \E s : IsSorted(s, U)
      BY <1>2, <3>1
    <3>3. PICK u : IsSorted(u, U)
      BY <3>2
    <3>4. T = U \cup {k + 1} /\ k + 1 \notin U
      BY <2>2
    <3> HIDE DEF U
    <3>5. IsFiniteSet(T) /\ Cardinality(T) = c + 1 /\ c \in Nat
      <4>1. IsFiniteSet(U \cup {k + 1}) /\ Cardinality(U \cup {k + 1}) = Cardinality(U) + 1
        BY <3>2, <3>4, FS_AddElement
      <4> QED BY <3>2, <3>4, <4>1, FS_CardinalityType
    <3> DEFINE s == [i \in 1 .. (c + 1) |-> IF i = c + 1 THEN k + 1 ELSE u[i]]
    <3> HIDE DEF c
    <3>6. \A i \in 1 .. c : u[i] \in U /\ u[i] \in T /\ u[i] \in 1 .. k
      BY <3>1, <3>3, <3>4 DEF c
    <3>7. s \in [1 .. (c + 1) -> T]
      <4>1. ASSUME NEW i \in 1 .. (c + 1) PROVE (IF i = c + 1 THEN k + 1 ELSE u[i]) \in T
        <5>1. i # c + 1 => i \in 1 .. c
          BY <3>5
        <5> QED BY <3>4, <3>6, <5>1
      <4> QED BY <4>1
    <3>8. ASSUME NEW i \in 1 .. (c + 1), NEW j \in 1 .. (c + 1), i < j
          PROVE  s[i] < s[j]
      <4>1. i \in 1 .. c /\ i # c + 1
        BY <3>5, <3>8
      <4>2. s[i] = u[i] /\ u[i] \in 1 .. k
        BY <3>6, <4>1
      <4>3. CASE j = c + 1
        BY <4>2, <4>3
      <4>4. CASE j # c + 1
        <5>1. j \in 1 .. c /\ s[j] = u[j]
          BY <3>5, <4>4
        <5> QED BY <3>3, <3>8, <4>1, <4>2, <5>1 DEF c
      <4> QED BY <4>3, <4>4
    <3>9. ASSUME NEW n \in T PROVE \E i \in 1 .. (c + 1) : s[i] = n
      <4>1. CASE n = k + 1
        <5>1. c + 1 \in 1 .. (c + 1) /\ s[c + 1] = n
          BY <3>5, <4>1
        <5> QED BY <5>1
      <4>2. CASE n # k + 1
        <5>1. PICK i \in 1 .. c : u[i] = n
          BY <3>3, <3>4, <4>2 DEF c
        <5>2. i \in 1 .. (c + 1) /\ s[i] = n
          BY <3>5, <5>1
        <5> QED BY <5>2
      <4> QED BY <4>1, <4>2
    <3>10. IsSorted(s, T)
      BY <3>5, <3>7, <3>8, <3>9
    <3> QED BY <3>5, <3>10
  <2> QED BY <2>1, <2>2
<1> HIDE DEF Has, IsSorted
<1>3. Has(5)
  <2>1. Has(1)
    BY <1>1, <1>2
  <2>2. Has(2)
    BY <2>1, <1>2
  <2>3. Has(3)
    BY <2>2, <1>2
  <2>4. Has(4)
    BY <2>3, <1>2
  <2> QED BY <2>4, <1>2
<1>4. IsFiniteSet(S) /\ \E s : IsSorted(s, S)
  BY <1>3 DEF Has, Numbers
<1>5. PICK s : IsSorted(s, S)
  BY <1>4
<1>6. \E t \in [1 .. Cardinality(S) -> S] :
        /\ \A i, j \in DOMAIN t : i < j => t[i] < t[j]
        /\ \A n \in S : \E i \in DOMAIN t : t[i] = n
  BY <1>5 DEF IsSorted
<1>7. /\ Sorted(S) \in [1 .. Cardinality(S) -> S]
      /\ \A i, j \in DOMAIN Sorted(S) : i < j => Sorted(S)[i] < Sorted(S)[j]
      /\ \A n \in S : \E i \in DOMAIN Sorted(S) : Sorted(S)[i] = n
  BY <1>6 DEF Sorted
<1> QED BY <1>4, <1>7

LEMMA FirstIsOneOfThem ==
  ASSUME NEW S \in SUBSET Numbers, S # {}
  PROVE  Sorted(S)[1] \in S
<1>1. PICK n \in S : TRUE
  OBVIOUS
<1>2. /\ IsFiniteSet(S) /\ Sorted(S) \in [1 .. Cardinality(S) -> S]
      /\ \E i \in 1 .. Cardinality(S) : Sorted(S)[i] = n
  BY SortedExists
<1>3. Cardinality(S) \in Nat
  BY <1>2, FS_CardinalityType
<1>4. 1 \in 1 .. Cardinality(S)
  BY <1>2, <1>3
<1> QED BY <1>2, <1>4

-----------------------------------------------------------------------------
(* What is written is read back                                            *)

LEMMA ReadsBackLemma ==
  ASSUME NEW coll \in Collections, ValidCollection(coll)
  PROVE  Parsed(Written(coll)) = coll
<1> DEFINE D == DOMAIN coll.sets
           numbers == Sorted(D)
           t == Written(coll)
           entry(i) == [number |-> <<numbers[i]>>, own |-> <<Once(coll.sets[numbers[i]])>>]
<1>1. /\ D \in SUBSET Numbers /\ D # {} /\ coll.shared \in [Shared -> AnyValue]
      /\ \A n \in D : coll.sets[n] \in [Own -> AnyValue]
      /\ coll.sets \in [D -> [Own -> AnyValue]]
      /\ coll = [shared |-> coll.shared, sets |-> coll.sets]
  BY CollectionFacts DEF ValidCollection
<1>2. \A n \in D : Valid(Effective(coll, n)) /\ Effective(coll, n) \in Configs
  BY EffectiveFacts DEF ValidCollection
<1>3. /\ numbers \in [1 .. Cardinality(D) -> D] /\ DOMAIN numbers = 1 .. Cardinality(D)
      /\ \A i, j \in 1 .. Cardinality(D) : numbers[i] = numbers[j] => i = j
      /\ \A n \in D : \E i \in 1 .. Cardinality(D) : numbers[i] = n
  <2>1. /\ numbers \in [1 .. Cardinality(D) -> D]
        /\ \A i, j \in 1 .. Cardinality(D) : i < j => numbers[i] < numbers[j]
        /\ \A n \in D : \E i \in 1 .. Cardinality(D) : numbers[i] = n
    BY <1>1, SortedExists
  <2> HIDE DEF D, numbers
  <2>2. Numbers \subseteq Int
    BY DEF Numbers
  <2>3. \A i \in 1 .. Cardinality(D) : i \in Int /\ numbers[i] \in Int
    BY <1>1, <2>1, <2>2
  <2> QED BY <2>1, <2>3
<1>4. /\ t.version = <<1>> /\ t.shared = <<Once(coll.shared)>>
      /\ t.sets = <<[i \in DOMAIN numbers |-> entry(i)]>>
  BY DEF Written
<1> HIDE DEF D, numbers, t
<1>5. ASSUME NEW scope \in {Shared, Own}, NEW values \in [scope -> AnyValue],
             \A p \in scope : InLimits(p, values[p])
      PROVE  Parameters(Once(values), scope) = values /\ values # Refused
  <2>1. \A p \in scope : Once(values)[p] = <<values[p]>>
    BY DEF Once
  <2>2. \A p \in scope : Len(Once(values)[p]) = 1 /\ Once(values)[p][1] = values[p]
    BY <2>1
  <2>3. values = [p \in scope |-> values[p]]
    OBVIOUS
  <2> QED BY <1>5, <2>2, <2>3, ParameterAssumption DEF Parameters
<1>6. /\ \A p \in Shared : InLimits(p, coll.shared[p])
      /\ \A n \in D : \A p \in Own : InLimits(p, coll.sets[n][p])
  BY <1>1, <1>2, EffectiveFacts DEF Valid, Configs, Names
<1>7. t.shared[1] = Once(coll.shared) /\ Len(t.shared) = 1 /\ Len(t.sets) = 1
      /\ t.sets[1] = [i \in DOMAIN numbers |-> entry(i)]
  BY <1>4
<1>8. Parameters(t.shared[1], Shared) = coll.shared /\ coll.shared # Refused
  BY <1>1, <1>5, <1>6, <1>7
<1>9. ASSUME NEW n \in Numbers
      PROVE  Numbered(t, n) = {i \in 1 .. Cardinality(D) : numbers[i] = n}
  <2>1. DOMAIN t.sets[1] = 1 .. Cardinality(D)
    BY <1>3, <1>7
  <2>2. \A i \in 1 .. Cardinality(D) : t.sets[1][i].number = <<numbers[i]>>
    BY <1>3, <1>7
  <2>3. \A i \in 1 .. Cardinality(D) : t.sets[1][i].number = <<n>> <=> numbers[i] = n
    BY <2>2
  <2> QED BY <2>1, <2>3, Zenon DEF Numbered
<1>10. ASSUME NEW n \in D
       PROVE Numbered(t, n) # {} /\ SetOf(t, n) = coll.sets[n] /\ SetOf(t, n) # Refused
  <2>1. PICK i \in 1 .. Cardinality(D) : numbers[i] = n
    BY <1>3
  <2>2. Numbered(t, n) = {i}
    BY <1>1, <1>3, <1>9, <2>1
  <2>3. Cardinality(Numbered(t, n)) = 1 /\ (CHOOSE j \in Numbered(t, n) : TRUE) = i
    BY <2>2, FS_Singleton
  <2> DEFINE e == t.sets[1][CHOOSE j \in Numbered(t, n) : TRUE]
  <2>4. e.own = <<Once(coll.sets[n])>>
    <3>1. e = t.sets[1][i]
      BY <2>3
    <3>2. t.sets[1][i] = entry(i)
      BY <1>3, <1>7
    <3> QED BY <2>1, <3>1, <3>2
  <2>5. Len(e.own) = 1 /\ e.own[1] = Once(coll.sets[n])
    BY <2>4
  <2>6. Parameters(e.own[1], Own) = coll.sets[n] /\ coll.sets[n] # Refused
    BY <1>1, <1>5, <1>6, <2>5
  <2>7. \A p \in Shared : t.shared[1][p][1] = coll.shared[p]
    BY <1>1, <1>7 DEF Once
  <2>8. [p \in Names |-> IF p \in Shared THEN t.shared[1][p][1] ELSE coll.sets[n][p]]
          = Effective(coll, n)
    BY <2>7 DEF Effective
  <2>9. Valid([p \in Names |-> IF p \in Shared THEN t.shared[1][p][1] ELSE coll.sets[n][p]])
    BY <1>2, <2>8
  <2>10. SetOf(t, n) = coll.sets[n]
    BY <2>3, <2>5, <2>6, <2>9 DEF SetOf
  <2> QED BY <2>2, <2>6, <2>10
<1>11. ASSUME NEW n \in Numbers \ D PROVE Numbered(t, n) = {}
  BY <1>3, <1>9
<1> DEFINE good == {n \in Numbers : Numbered(t, n) # {} /\ SetOf(t, n) # Refused}
<1>12. good = D /\ good # {}
  BY <1>1, <1>10, <1>11
<1>13. Parsed(t) = [shared |-> Parameters(t.shared[1], Shared), sets |-> [n \in good |-> SetOf(t, n)]]
  BY <1>4, <1>7, <1>8, <1>12 DEF Parsed
<1>14. [n \in good |-> SetOf(t, n)] = coll.sets
  BY <1>1, <1>10, <1>12
<1> QED BY <1>1, <1>8, <1>13, <1>14 DEF t

-----------------------------------------------------------------------------
(* The console and SW3                                                     *)

LEMMA InitParam == ParametersInit => ParamInv
<1> SUFFICES ASSUME ParametersInit PROVE ParamInv
  OBVIOUS
<1>1. running \in Collections /\ ValidCollection(running)
  BY LoadedAssumption DEF ParametersInit
<1>2. active \in DOMAIN running.sets
  BY <1>1, CollectionFacts, FirstIsOneOfThem DEF ParametersInit, Selected, ValidCollection
<1> QED BY <1>1, <1>2 DEF ParametersInit, ParamInv, RunningTypes, CommandMade, HeardMade,
    SetIsTold

LEMMA ActiveFacts ==
  ASSUME RunningTypes
  PROVE  /\ active \in Numbers /\ Effective(running, active) \in Configs
         /\ Valid(Effective(running, active))
BY CollectionFacts, EffectiveFacts DEF RunningTypes, ValidCollection

\* What a command edits.
LEMMA ReadParam ==
  ASSUME ParamInv, NEW names \in SUBSET Names, NEW result, Read(names, result),
         result \in Configs, Valid(result),
         \A p \in Names \ names : result[p] = Effective(running, active)[p]
  PROVE  ParamInv'
<1>1. /\ UNCHANGED <<running, active, news, heard>>
      /\ command' = [number |-> active, names |-> names, config |-> result]
  BY DEF Read, config
<1>2. RunningTypes' /\ HeardMade' /\ SetIsTold'
  BY <1>1 DEF ParamInv, RunningTypes, HeardMade, SetIsTold
<1>3. CommandMade'
  BY <1>1 DEF ParamInv, RunningTypes, CommandMade
<1> QED BY <1>2, <1>3 DEF ParamInv

LEMMA SetParam == ParamInv /\ Set => ParamInv'
<1> SUFFICES ASSUME ParamInv, NEW p \in Names, NEW v \in Limits[p],
                    Read({p}, SetText(Effective(running, active), p, v))
             PROVE  ParamInv'
  BY DEF Set
<1> DEFINE old == Effective(running, active)
           result == SetText(old, p, v)
<1>1. old \in Configs /\ result # Refused
  BY ActiveFacts DEF ParamInv, Read
<1>2. result = Assign(old, p, v) /\ Valid(result)
  BY <1>1 DEF SetText
<1>3. v \in AnyValue
  BY DEF AnyValue
<1>4. result \in Configs /\ \A r \in Names \ {p} : result[r] = old[r]
  BY <1>1, <1>2, <1>3 DEF Assign, Configs
<1> QED BY <1>2, <1>4, ReadParam

LEMMA ResetOneParam == ParamInv /\ ResetOne => ParamInv'
<1> SUFFICES ASSUME ParamInv, NEW p \in Names,
                    Read({p}, Reset(Effective(running, active), active, p))
             PROVE  ParamInv'
  BY DEF ResetOne
<1> DEFINE old == Effective(running, active)
           result == Reset(old, active, p)
<1>1. old \in Configs /\ result # Refused /\ active \in Numbers
  BY ActiveFacts DEF ParamInv, Read
<1>2. result = Assign(old, p, DefaultsOf(active)[p]) /\ Valid(result)
  BY <1>1 DEF Reset, ResetBlindly
<1>3. DefaultsOf(active)[p] \in AnyValue
  BY <1>1, DefaultFacts DEF Configs
<1>4. result \in Configs /\ \A r \in Names \ {p} : result[r] = old[r]
  BY <1>1, <1>2, <1>3 DEF Assign, Configs
<1> QED BY <1>2, <1>4, ReadParam

LEMMA ResetAllParam == ParamInv /\ ResetAll => ParamInv'
<1> SUFFICES ASSUME ParamInv, Read(Names, DefaultsOf(active)) PROVE ParamInv'
  BY DEF ResetAll
<1>1. DefaultsOf(active) \in Configs /\ Valid(DefaultsOf(active))
  BY ActiveFacts, DefaultFacts DEF ParamInv
<1> QED BY <1>1, ReadParam

LEMMA PublishParam == ParamInv /\ Publish => ParamInv'
<1> SUFFICES ASSUME ParamInv, Publish PROVE ParamInv'
  OBVIOUS
<1> DEFINE n == command.number
           c == command.config
<1>1. /\ command # Nothing /\ running' = With(running, n, c) /\ news' = (news \/ n = active)
      /\ command' = Nothing /\ UNCHANGED <<active, heard>>
  BY DEF Publish, PublishForProfile
<1>2. n \in DOMAIN running.sets /\ c \in Configs /\ Valid(c)
  BY <1>1 DEF ParamInv, CommandMade
<1>3. running \in Collections /\ ValidCollection(running) /\ active \in DOMAIN running.sets
      /\ news \in BOOLEAN
  BY DEF ParamInv, RunningTypes
<1>4. running' \in Collections /\ ValidCollection(running') /\ active' \in DOMAIN running'.sets
  BY <1>1, <1>2, <1>3, WithFacts
<1>5. SetIsTold'
  <2> SUFFICES ASSUME ~news', NEW p \in Own PROVE heard'[p] = running'.sets[active'][p]
    BY DEF SetIsTold
  <2>1. n # active /\ ~news
    BY <1>1, <1>3
  <2>2. running'.sets[active] = running.sets[active]
    BY <1>1, <1>3, <2>1 DEF With
  <2> QED BY <1>1, <2>1, <2>2 DEF ParamInv, SetIsTold
<1>6. RunningTypes' /\ HeardMade' /\ CommandMade'
  BY <1>1, <1>3, <1>4 DEF ParamInv, RunningTypes, HeardMade, CommandMade
<1> QED BY <1>5, <1>6 DEF ParamInv

LEMMA SelectParam == ParamInv /\ SelectNext => ParamInv'
<1> SUFFICES ASSUME ParamInv, SelectNext PROVE ParamInv'
  OBVIOUS
<1>1. /\ active' = NextNumber(DOMAIN running.sets, active) /\ news' = TRUE
      /\ UNCHANGED <<running, command, heard>>
  BY DEF SelectNext
<1>2. DOMAIN running.sets \in SUBSET Numbers /\ DOMAIN running.sets # {}
  BY CollectionFacts DEF ParamInv, RunningTypes, ValidCollection
<1>3. active' \in DOMAIN running.sets
  BY <1>1, <1>2, FirstIsOneOfThem DEF NextNumber
<1> QED BY <1>1, <1>3 DEF ParamInv, RunningTypes, CommandMade, HeardMade, SetIsTold

LEMMA FollowParam == ParamInv /\ Follow => ParamInv'
<1> SUFFICES ASSUME ParamInv, Follow PROVE ParamInv'
  OBVIOUS
<1>1. heard' = Effective(running, active) /\ news' = FALSE /\ UNCHANGED <<running, active, command>>
  BY DEF Follow
<1>2. /\ heard' \in Configs /\ heard' # Nothing
      /\ \A p \in Own : heard'[p] = running.sets[active][p]
  BY <1>1, ActiveFacts, EffectiveFacts, NoneAssumption DEF ParamInv, RunningTypes, Configs
<1> QED BY <1>1, <1>2 DEF ParamInv, RunningTypes, CommandMade, HeardMade, SetIsTold

LEMMA RestParam ==
  ASSUME ParamInv,
         \/ GiveUp \/ EndApply("worker") \/ EndApply("host") \/ MainCopies \/ MainSets \/ MainEnds
         \/ Connect \/ ReadConfigured \/ ApplyRead \/ Disconnect \/ UNCHANGED parametersVars
  PROVE  ParamInv'
<1>1. /\ UNCHANGED <<running, active, news, heard>> /\ command' \in {command, Nothing}
  BY DEF GiveUp, EndApply, MainCopies, MainSets, MainEnds, Connect, ReadConfigured, ApplyRead,
         Disconnect, parametersVars, config
<1> QED BY <1>1 DEF ParamInv, RunningTypes, CommandMade, HeardMade, SetIsTold

LEMMA StepParam == ParamInv /\ [ParametersNext]_parametersVars => ParamInv'
BY SetParam, ResetOneParam, ResetAllParam, PublishParam, SelectParam, FollowParam, RestParam
  DEF ParametersNext

\* The collection in memory is valid, and so is every copy a command works on.
THEOREM ParametersInvariant == ParametersSpec => []ParamInv
BY InitParam, StepParam, PTL DEF ParametersSpec

\* Whatever was set, reset and selected, config_storage_save writes what is in
\* memory and the next boot reads back the same: PARAM SAVE never refuses it.
THEOREM EverySetReadsBack == ParametersSpec => []ReadsBack
<1>1. ParamInv => ReadsBack
  BY ReadsBackLemma DEF ParamInv, RunningTypes, ReadsBack
<1> QED BY <1>1, ParametersInvariant, PTL

\* A task that sees no new revision works with the selected set as it is
\* (app_resources_copy_config_with_revision).
THEOREM FollowersAreTold == ParametersSpec => []SetIsTold
<1>1. ParamInv => SetIsTold
  BY DEF ParamInv
<1> QED BY <1>1, ParametersInvariant, PTL

\* Only PARAM SET and RESET change what is in memory, and only where they were asked to.
LEMMA StepAsked ==
  ASSUME ParamInv, [ParametersNext]_parametersVars, running' # running,
         NEW n \in DOMAIN running.sets, NEW p \in Names,
         Effective(running', n)[p] # Effective(running, n)[p]
  PROVE  p \in command.names /\ (p \in Shared \/ n = command.number)
<1>1. Publish
  BY DEF ParametersNext, SelectNext, Set, ResetOne, ResetAll, Read, GiveUp, Follow, EndApply,
    MainCopies,
         MainSets, MainEnds, Connect, ReadConfigured, ApplyRead, Disconnect, parametersVars,
    config
<1> DEFINE m == command.number
           c == command.config
<1>2. command # Nothing /\ running' = With(running, m, c)
  BY <1>1 DEF Publish, PublishForProfile
<1>3. /\ m \in DOMAIN running.sets /\ c \in Configs /\ Valid(c)
      /\ \A r \in Names \ command.names : c[r] = Effective(running, m)[r]
      /\ running \in Collections /\ ValidCollection(running)
  BY <1>2 DEF ParamInv, CommandMade, RunningTypes
<1> HIDE DEF m, c
<1>4. Effective(running', n)[p] = IF p \in Shared \/ n = m THEN c[p] ELSE Effective(running, n)[p]
  BY <1>2, <1>3, WithFacts
<1>5. p \in Shared \/ n = m
  BY <1>4
<1>6. c[p] # Effective(running, m)[p]
  <2>1. p \in Shared => Effective(running, n)[p] = Effective(running, m)[p]
    BY <1>3, EffectiveFacts
  <2> QED BY <1>4, <1>5, <2>1
<1> QED BY <1>3, <1>5, <1>6 DEF m

\* A command changes the parameters it names and no other, though SW3 selects
\* another set between its reading and its publishing
\* (app_resources_publish_config_for_profile).
THEOREM CommandsChangeWhatTheyName == ParametersSpec => OnlyAsked
<1>1. ParamInv /\ [ParametersNext]_parametersVars => [running' # running =>
          \A n \in DOMAIN running.sets, p \in Names :
              Effective(running', n)[p] # Effective(running, n)[p] =>
                  p \in command.names /\ (p \in Shared \/ n = command.number)]_parametersVars
  BY StepAsked
<1> QED BY <1>1, ParametersInvariant, PTL DEF ParametersSpec, OnlyAsked

-----------------------------------------------------------------------------
(* The power on its way to the radio                                       *)

USE DEF Callers

LEMMA PowerIsAValue == ParamInv => PowerNow \in AnyValue
BY CollectionFacts, PowerAssumption DEF ParamInv, RunningTypes, PowerNow

LEMMA InitAir == ParametersInit => AirInv
<1> SUFFICES ASSUME ParametersInit PROVE AirInv
  OBVIOUS
<1>1. Limits[Power] \subseteq AnyValue /\ Power \in Names
  BY PowerAssumption DEF AnyValue, Names
<1>2. Limits[Power] # {}
  <2>1. Valid(DefaultsOf(1)) /\ DOMAIN DefaultsOf(1) = Names
    BY ParameterAssumption DEF Numbers, DefaultsOf
  <2> QED BY <1>1, <2>1 DEF Valid, InLimits
<1>3. configured \in AnyValue
  BY <1>1, <1>2 DEF ParametersInit
<1> QED BY <1>3 DEF ParametersInit, AirInv, AirTypes, AirPhases, MainHasIt, AirHasIt

LEMMA QuietAir ==
  ASSUME AirInv, UNCHANGED air, missed' = missed, running' = running, heard' = heard,
         news' \in {news, TRUE}
  PROVE  AirInv'
BY DEF AirInv, AirTypes, AirPhases, MainHasIt, AirHasIt, Current, PowerNow, air

LEMMA PublishAir == ParamInv /\ AirInv /\ Publish => AirInv'
<1> SUFFICES ASSUME ParamInv, AirInv, Publish PROVE AirInv'
  OBVIOUS
<1>1. /\ news' = (news \/ command.number = active) /\ missed' = (missed \/ Misses(command.number))
      /\ UNCHANGED <<heard, ble, copied, configured, radio, link, connecting, applying>>
  BY DEF Publish, PublishForProfile, air
<1>2. AirTypes' /\ AirPhases'
  BY <1>1 DEF AirInv, AirTypes, AirPhases, Misses
<1>3. CASE missed'
  BY <1>2, <1>3 DEF AirInv
<1>4. CASE ~missed' /\ PowerNow' = PowerNow
  <2>1. ~missed /\ (Current' => Current)
    BY <1>1, <1>4 DEF ParamInv, RunningTypes, Current
  <2> QED BY <1>1, <1>2, <1>4, <2>1 DEF AirInv, MainHasIt, AirHasIt
<1>5. CASE ~missed' /\ PowerNow' # PowerNow
  <2>1. ble \notin {"copied", "set"} /\ command.number = active /\ ~(ble = "up" /\ heard = Nothing)
    BY <1>1, <1>5 DEF Misses, PowerNow
  <2>2. news' /\ (ble = "up" => ~Current')
    BY <1>1, <2>1 DEF Current
  <2> QED BY <1>1, <1>2, <2>1, <2>2 DEF AirInv, MainHasIt, AirHasIt
<1> QED BY <1>3, <1>4, <1>5

\* What the critical section of ble_vario_apply_tx_power leaves for the rest of the call.
LEMMA BeginApplyFacts ==
  ASSUME AirTypes, NEW caller \in Callers, NEW p \in AnyValue, BeginApply(caller, p)
  PROVE  /\ configured' = p /\ applying' \in [Callers -> Calls \cup {Nothing}]
         /\ \A c \in Callers \ {caller} : applying'[c] = applying[c]
         /\ ble # "up" => applying'[caller] = Nothing
         /\ ble = "up" => /\ applying'[caller] # Nothing /\ applying'[caller].power = p
                          /\ applying'[caller].linked = (link # Nothing)
<1> DEFINE new == IF ble = "up" THEN [power |-> p, linked |-> link # Nothing] ELSE Nothing
<1>1. configured' = p /\ applying' = [applying EXCEPT ![caller] = new]
  BY DEF BeginApply
<1>2. new \in Calls \cup {Nothing}
  BY DEF Calls
<1>3. applying'[caller] = new
  BY <1>1 DEF AirTypes
<1>4. ble = "up" => new # Nothing
  <2>1. ble = "up" => new \in Calls
    BY DEF Calls
  <2>2. Nothing \notin Calls
    BY NoneAssumption
  <2> HIDE DEF new
  <2> QED BY <2>1, <2>2
<1>5. /\ \A c \in Callers \ {caller} : applying'[c] = applying[c]
      /\ applying' \in [Callers -> Calls \cup {Nothing}]
  <2> HIDE DEF new
  <2> QED BY <1>1, <1>2 DEF AirTypes
<1>6. ble = "up" => new.power = p /\ new.linked = (link # Nothing)
  OBVIOUS
<1> HIDE DEF new
<1>7. ble # "up" => new = Nothing
  BY DEF new
<1> QED BY <1>1, <1>3, <1>4, <1>5, <1>6, <1>7

LEMMA FollowAir == ParamInv /\ AirInv /\ Follow => AirInv'
<1> SUFFICES ASSUME ParamInv, AirInv, Follow PROVE AirInv'
  OBVIOUS
<1>1. /\ applying["worker"] = Nothing /\ news' = FALSE /\ PowerNow' = PowerNow
      /\ UNCHANGED <<ble, copied, radio, link, connecting>>
  BY DEF Follow, PowerNow
<1>2. CASE heard # Nothing /\ news
  <2>1. BeginApply("worker", PowerNow) /\ missed' = (missed \/ Overtakes)
    BY <1>2 DEF Follow
  <2>2. /\ configured' = PowerNow /\ applying' \in [Callers -> Calls \cup {Nothing}]
        /\ applying'["host"] = applying["host"]
        /\ ble # "up" => applying'["worker"] = Nothing
        /\ ble = "up" => /\ applying'["worker"] # Nothing /\ applying'["worker"].power = PowerNow
                         /\ applying'["worker"].linked = (link # Nothing)
    BY <2>1, BeginApplyFacts, PowerIsAValue DEF AirInv
  <2>3. AirTypes'
    BY <1>1, <2>1, <2>2, PowerIsAValue DEF AirInv, AirTypes, Overtakes
  <2>4. AirPhases'
    BY <1>1, <2>2, <2>3 DEF AirInv, AirPhases, AirTypes
  <2>5. ~missed' => MainHasIt'
    BY <1>1, <2>1, <2>2 DEF AirInv, MainHasIt
  <2>6. ~missed' => AirHasIt'
    <3> SUFFICES ASSUME ~missed', ble = "up" PROVE AirHasIt'
      BY <1>1 DEF AirHasIt
    <3>1. connecting \in {<<>>, Nothing, <<PowerNow>>}
          /\ (applying["host"] # Nothing => applying["host"].power = PowerNow)
      BY <2>1 DEF Overtakes
    <3> QED BY <1>1, <2>2, <3>1 DEF AirHasIt
  <2> QED BY <2>3, <2>4, <2>5, <2>6 DEF AirInv
<1>3. CASE ~(heard # Nothing /\ news)
  <2>1. UNCHANGED <<configured, applying, missed>>
    BY <1>3 DEF Follow
  <2>2. Current
    BY <1>3 DEF Current
  <2> QED BY <1>1, <2>1, <2>2 DEF AirInv, AirTypes, AirPhases, MainHasIt, AirHasIt
<1> QED BY <1>2, <1>3

LEMMA EndApplyAir == ASSUME NEW c \in Callers, ParamInv, AirInv, EndApply(c) PROVE AirInv'
<1> DEFINE Told == IF applying[c].linked /\ link # Nothing THEN applying[c].power ELSE link
<1>1. PICK obeyed \in SUBSET {"base", "connection"} :
        /\ radio' = IF "base" \in obeyed THEN applying[c].power ELSE radio
        /\ link' = IF "connection" \in obeyed /\ applying[c].linked /\ link # Nothing
                   THEN applying[c].power ELSE link
        /\ missed' = (missed \/ obeyed # {"base", "connection"})
  BY DEF EndApply
<1>2. /\ applying[c] # Nothing /\ radio' \in {applying[c].power, radio} /\ link' \in {Told, link}
      /\ applying' = [applying EXCEPT ![c] = Nothing] /\ PowerNow' = PowerNow
      /\ missed' \in BOOLEAN /\ UNCHANGED <<news, heard, ble, copied, configured, connecting>>
  BY <1>1 DEF EndApply, PowerNow
<1>3. ~missed' => ~missed /\ radio' = applying[c].power /\ link' = Told
  BY <1>1
<1>4. /\ applying[c].power \in AnyValue /\ applying[c].power # Nothing
      /\ ble = "up" /\ applying'[c] = Nothing /\ \A d \in Callers \ {c} : applying'[d] = applying[d]
      /\ applying' \in [Callers -> Calls \cup {Nothing}]
  BY <1>2, NoneAssumption DEF AirInv, AirTypes, AirPhases, Calls
<1>5. link' # Nothing <=> link # Nothing
  BY <1>2, <1>4
<1>6. AirTypes'
  BY <1>2, <1>4 DEF AirInv, AirTypes
<1>7. AirPhases'
  BY <1>2, <1>4, <1>5 DEF AirInv, AirPhases
<1>8. ~missed' => MainHasIt'
  BY <1>2, <1>4 DEF AirInv, MainHasIt
<1>9. ASSUME ~missed', Current' PROVE AirHasIt'
  <2>1. AirHasIt /\ Current /\ applying[c].power = PowerNow
    BY <1>2, <1>4, <1>9, <1>3 DEF AirInv, AirHasIt, Current
  <2>2. \/ link' \in {Nothing, PowerNow} \/ connecting # Nothing \/ applying'["host"] # Nothing
        \/ applying'["worker"] # Nothing /\ applying'["worker"].linked
    <3>1. CASE applying[c].linked
      BY <1>9, <1>3, <2>1, <3>1
    <3>2. CASE ~applying[c].linked
      <4>1. c = "worker" /\ link' = link
        BY <1>2, <1>9, <1>3, <3>2 DEF AirInv, AirPhases
      <4> QED BY <1>2, <1>4, <2>1, <3>2, <4>1 DEF AirHasIt
    <3> QED BY <3>1, <3>2
  <2> QED BY <1>2, <1>4, <1>9, <1>3, <2>1, <2>2 DEF AirHasIt
<1> QED BY <1>2, <1>6, <1>7, <1>8, <1>9, <1>3 DEF AirInv, AirHasIt

LEMMA MainAir == ParamInv /\ AirInv /\ (MainCopies \/ MainSets \/ MainEnds) => AirInv'
<1> SUFFICES ASSUME ParamInv, AirInv, MainCopies \/ MainSets \/ MainEnds PROVE AirInv'
  OBVIOUS
<1>1. /\ UNCHANGED <<news, heard, link, connecting, applying>> /\ PowerNow' = PowerNow
      /\ PowerNow \in AnyValue /\ Nothing \notin AnyValue
      /\ Limits[Power] \subseteq AnyValue
  BY PowerIsAValue, NoneAssumption, PowerAssumption
  DEF MainCopies, MainSets, MainEnds, config, PowerNow, AnyValue, Names
<1>2. CASE MainCopies
  BY <1>1, <1>2 DEF MainCopies, config, PowerNow, AirInv, AirTypes, AirPhases, MainHasIt, AirHasIt
<1>3. CASE MainSets
  BY <1>1, <1>3 DEF MainSets, AirInv, AirTypes, AirPhases, MainHasIt, AirHasIt
<1>4. CASE MainEnds
  <2>1. link = Nothing /\ connecting = Nothing /\ \A c \in Callers : applying[c] = Nothing
    BY <1>4 DEF MainEnds, AirInv, AirPhases
  <2> QED BY <1>1, <1>4, <2>1 DEF MainEnds, config, AirInv, AirTypes, AirPhases, MainHasIt, AirHasIt
<1> QED BY <1>2, <1>3, <1>4

LEMMA ConnectAir == AirInv /\ Connect => AirInv'
<1> SUFFICES ASSUME AirInv, Connect PROVE AirInv'
  OBVIOUS
<1>1. /\ ble = "up" /\ link = Nothing /\ link' = radio /\ connecting' = <<>> /\ PowerNow' = PowerNow
      /\ UNCHANGED <<missed, news, heard, ble, copied, configured, radio, applying>>
  BY DEF Connect, config, PowerNow
<1>2. radio # Nothing /\ applying["host"] = Nothing /\ <<>> # Nothing
  BY <1>1, NoneAssumption DEF AirInv, AirPhases
<1> QED BY <1>1, <1>2 DEF AirInv, AirTypes, AirPhases, MainHasIt, AirHasIt, Current

LEMMA ReadAir == AirInv /\ ReadConfigured => AirInv'
<1> SUFFICES ASSUME AirInv, ReadConfigured PROVE AirInv'
  OBVIOUS
<1>1. /\ connecting = <<>> /\ connecting' = <<configured>> /\ PowerNow' = PowerNow
      /\ UNCHANGED <<missed, news, heard, ble, copied, configured, radio, link, applying>>
  BY DEF ReadConfigured, config, PowerNow
<1>2. configured \in AnyValue /\ connecting # Nothing /\ connecting' # Nothing /\ ble = "up"
  BY <1>1, NoneAssumption DEF AirInv, AirTypes, AirPhases
<1> QED BY <1>1, <1>2 DEF AirInv, AirTypes, AirPhases, MainHasIt, AirHasIt, Current

LEMMA ApplyReadAir == AirInv /\ ApplyRead => AirInv'
<1> SUFFICES ASSUME AirInv, ApplyRead PROVE AirInv'
  OBVIOUS
<1>1. /\ connecting \notin {<<>>, Nothing} /\ BeginApply("host", connecting[1]) /\ connecting' = Nothing
      /\ UNCHANGED <<missed, news, heard, ble, copied, radio, link>> /\ PowerNow' = PowerNow
  BY DEF ApplyRead, config, PowerNow
<1>2. PICK p \in AnyValue : connecting = <<p>>
  BY <1>1 DEF AirInv, AirTypes
<1>3. ble = "up" /\ link # Nothing
  BY <1>1 DEF AirInv, AirPhases
<1>4. /\ configured' = p /\ applying' \in [Callers -> Calls \cup {Nothing}]
      /\ applying'["worker"] = applying["worker"]
      /\ applying'["host"] # Nothing /\ applying'["host"].power = p /\ applying'["host"].linked
  BY <1>1, <1>2, <1>3, BeginApplyFacts DEF AirInv
<1>5. AirTypes' /\ AirPhases'
  BY <1>1, <1>3, <1>4 DEF AirInv, AirTypes, AirPhases
<1>6. ~missed => MainHasIt'
  BY <1>1, <1>3 DEF MainHasIt
<1>7. ~missed => AirHasIt'
  <2> SUFFICES ASSUME ~missed, Current PROVE AirHasIt'
    BY <1>1 DEF AirHasIt, Current
  <2>1. AirHasIt /\ p = PowerNow
    BY <1>2, <1>3, NoneAssumption DEF AirInv, AirHasIt
  <2> QED BY <1>1, <1>3, <1>4, <2>1 DEF AirHasIt
<1> QED BY <1>1, <1>5, <1>6, <1>7 DEF AirInv

LEMMA DisconnectAir == AirInv /\ Disconnect => AirInv'
BY DEF Disconnect, config, AirInv, AirTypes, AirPhases, MainHasIt, AirHasIt, Current, PowerNow

LEMMA StepAir == ParamInv /\ AirInv /\ [ParametersNext]_parametersVars => AirInv'
<1> SUFFICES ASSUME ParamInv, AirInv, [ParametersNext]_parametersVars PROVE AirInv'
  OBVIOUS
<1>1. ASSUME Set \/ ResetOne \/ ResetAll \/ GiveUp \/ SelectNext \/ UNCHANGED parametersVars
      PROVE AirInv'
  <2>1. /\ UNCHANGED air /\ missed' = missed /\ running' = running /\ heard' = heard
        /\ news' \in {news, TRUE}
    BY <1>1 DEF Set, ResetOne, ResetAll, Read, GiveUp, SelectNext, config, parametersVars
  <2> QED BY <2>1, QuietAir DEF ParamInv, HeardMade
<1> QED
  BY <1>1, PublishAir, FollowAir, EndApplyAir, MainAir, ConnectAir, ReadAir, ApplyReadAir,
     DisconnectAir DEF ParametersNext

\* A power that is not at the radio yet is in somebody's hand, or was missed.
THEOREM AirInvariant == ParametersSpec => [](ParamInv /\ AirInv)
BY InitParam, StepParam, InitAir, StepAir, PTL DEF ParametersSpec

\* Once everyone has ended, advertising and the connection have the power in
\* memory, but for what Misses and Overtakes record and until the controller
\* refuses a power (ble_vario_apply_tx_power).
THEOREM PowerReachesTheRadio == ParametersSpec => []PowerReaches
<1>1. ParamInv /\ AirInv => PowerReaches
  BY DEF PowerReaches, AirInv, AirHasIt, Current
<1> QED BY <1>1, AirInvariant, PTL
=============================================================================
