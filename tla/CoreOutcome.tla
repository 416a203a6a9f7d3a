----------------------------- MODULE CoreOutcome -----------------------------
(***************************************************************************)
(* What a core process promises to whoever reads its state file: it        *)
(* records "running" at most once, before anything else, then at most one  *)
(* final state, after which it is gone; it may also leave or be killed     *)
(* without a word.                                                         *)
(***************************************************************************)
VARIABLES
    record,    \* what the core recorded last, "none" before that
    alive      \* the process exists

outcomeVars == <<record, alive>>

Init == record = "none" /\ alive = TRUE

Up ==
    /\ alive /\ record = "none"
    /\ record' = "running"
    /\ UNCHANGED alive

End ==
    /\ alive /\ record \in {"none", "running"}
    /\ record' \in {"stopped", "failed"}
    /\ alive' = FALSE

Vanish ==
    /\ alive /\ record \in {"none", "running"}
    /\ alive' = FALSE
    /\ UNCHANGED record

Next == Up \/ End \/ Vanish

Spec == Init /\ [][Next]_outcomeVars

=============================================================================
