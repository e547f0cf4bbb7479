----------------------------- MODULE JobLifecycle -----------------------------
(***************************************************************************)
(* What a measurement job promises to whoever watches it: it stays open     *)
(* until it ends exactly once, either ready with a measurement or failed    *)
(* without one, and an ended job never changes.                             *)
(***************************************************************************)
VARIABLES phase, measured

TypeOK == phase \in {"open", "ready", "failed"} /\ measured \in BOOLEAN

Init == phase = "open" /\ measured = FALSE

Complete == phase = "open" /\ phase' = "ready" /\ measured' = TRUE

Fail == phase = "open" /\ phase' = "failed" /\ UNCHANGED measured

Next == Complete \/ Fail

Spec == Init /\ [][Next]_<<phase, measured>>
=============================================================================
