------------------------------ MODULE RunOutcome ------------------------------
(* What a run promises those who watch it, whatever its stages, commands,       *)
(* faults and restarts do: its stages work while it is open; it closes with     *)
(* none of them left at work; while it closes a cancel may overrule the verdict *)
(* but nothing else may change it; and it ends as its verdict says, for good.   *)
(* RunScheduler implements it (its KeepsPromise).                                *)
CONSTANT Stage

Verdict == {"completed", "failed", "cancelled"}
Unknown == "-"

VARIABLES
  phase,    \* open, closing, or how it ended
  verdict,  \* the outcome the run has, or Unknown
  busy      \* the stages that can still move

vars == <<phase, verdict, busy>>

Init == phase = "open" /\ verdict = Unknown /\ busy = {}

Work ==
  /\ phase = "open"
  /\ busy' \in SUBSET Stage
  /\ UNCHANGED <<phase, verdict>>

\* A run asked to cancel has no verdict before its frames acknowledged.
Close ==
  /\ phase = "open"
  /\ phase' = "closing" /\ busy' = {}
  /\ verdict' \in Verdict \cup {Unknown}

Cancel ==
  /\ phase = "closing"
  /\ verdict' = "cancelled"
  /\ UNCHANGED <<phase, busy>>

\* The post-processing of a run that completed may fail it.
End ==
  /\ phase = "closing" /\ verdict # Unknown
  /\ verdict' \in {verdict} \cup (IF verdict = "completed" THEN {"failed"} ELSE {})
  /\ phase' = verdict'
  /\ UNCHANGED busy

Next == Work \/ Close \/ Cancel \/ End

Spec == Init /\ [][Next]_vars

=============================================================================
