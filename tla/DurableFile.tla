----------------------------- MODULE DurableFile -----------------------------
(***************************************************************************)
(* What a file kept by write, verify and rename promises, without names,   *)
(* copies or steps: one document at a time is held; a save replaces it as  *)
(* a whole or leaves it, and its answer says which, unless the power is    *)
(* cut before the answer; a read gives the document held, or nothing.      *)
(***************************************************************************)
CONSTANTS Docs, None, Bad

VARIABLES held, asked, stored, answer, got

vars == <<held, asked, stored, answer, got>>

Init ==
    /\ held \in Docs \cup {None, Bad} /\ asked = None /\ stored = FALSE
    /\ answer = "none" /\ got = None

Ask ==
    /\ asked = None
    /\ asked' \in Docs /\ stored' = FALSE /\ answer' = "none" /\ got' = None
    /\ UNCHANGED held

Store ==
    /\ asked # None /\ ~stored
    /\ held' = asked /\ stored' = TRUE
    /\ UNCHANGED <<asked, answer, got>>

Answer ==
    /\ asked # None
    /\ answer' = IF stored THEN "ok" ELSE "fail"
    /\ asked' = None /\ stored' = FALSE
    /\ UNCHANGED <<held, got>>

\* A cut takes the answer and what was read, never what is held.
Cut == asked' = None /\ stored' = FALSE /\ answer' = "none" /\ got' = None /\ UNCHANGED held

Read ==
    /\ asked = None
    /\ got' \in {None} \cup ({held} \cap Docs)
    /\ UNCHANGED <<held, asked, stored, answer>>

\* The host puts anything in its place.
Edit ==
    /\ asked = None
    /\ held' \in Docs \cup {None, Bad}
    /\ UNCHANGED <<asked, stored, answer, got>>

Next == Ask \/ Store \/ Answer \/ Cut \/ Read \/ Edit

Spec == Init /\ [][Next]_vars
=============================================================================
