--------------------------- MODULE MCReadinessPass ---------------------------
(* A workflow for ReadinessPass whose edges lead against the order of the visits. *)
EXTENDS ReadinessPass

When(f, t, on, when) == [from |-> f, to |-> t, on |-> on, handles |-> FALSE, when |-> when]

(* 5 and 4 lead into 3, 3 and 4 into 2, and 2 and 5 into 1, whose summary 6 reads.   *)
(* 2 and 1 each cancel the rest, so that 4 and 3 may lose twice; 3 may be skipped    *)
(* before the condition on 5's edge fails.                                           *)
Races ==
  {When(5, 3, "always", "error"), When(4, 3, "failure", "true"),
   When(3, 2, "completion", "true"), When(4, 2, "completion", "true"),
   When(2, 1, "always", "true"), When(5, 1, "success", "true"),
   When(1, 6, "success", "true")}

Racing ==
  [s \in Stages |->
     CASE s = 1 -> [mode |-> "any", n |-> 0, cancel |-> TRUE]
       [] s = 2 -> [mode |-> "n_of_m", n |-> 1, cancel |-> TRUE]
       [] OTHER -> [mode |-> "all", n |-> 0, cancel |-> FALSE]]

Guards == [s \in Stages |-> IF s = 5 THEN "false" ELSE "true"]

SkipsCount == [s \in Stages |-> IF s = 4 THEN "completed" ELSE None]

\* 1 -> 2, and 2 reads the summary of 1.
Pair == {When(1, 2, "success", "true")}
PairJoins == [s \in Stages |-> [mode |-> "all", n |-> 0, cancel |-> FALSE]]
Open == [s \in Stages |-> "true"]
NoSkips == [s \in Stages |-> None]

=============================================================================
