---------------------------- MODULE AtomicUpdate ----------------------------
(***************************************************************************)
(* What the update promises, without files, partitions or power cuts: the  *)
(* device runs its current image; one genuine image at a time can be put   *)
(* on trial; the trial either replaces the current image or leaves it.     *)
(***************************************************************************)
CONSTANTS Genuine, FactoryImage, NoImage

VARIABLES current, trial

vars == <<current, trial>>

Init == current = FactoryImage /\ trial = NoImage

Stage ==
    /\ trial = NoImage
    /\ trial' \in Genuine
    /\ UNCHANGED current

Confirm ==
    /\ trial # NoImage
    /\ current' = trial /\ trial' = NoImage

RollBack ==
    /\ trial # NoImage
    /\ trial' = NoImage
    /\ UNCHANGED current

Next == Stage \/ Confirm \/ RollBack

Spec == Init /\ [][Next]_vars
=============================================================================
