--------------------------- MODULE MCRunScheduler ---------------------------
(* Small workflows and policies for the runs of RunScheduler.                   *)
EXTENDS RunScheduler

Edge(from, to, on) ==
  [from |-> from, to |-> to, on |-> on, handles |-> on = "failure", when |-> "true"]

All == [mode |-> "all", n |-> 0, cancel |-> FALSE]
AnyOf == [mode |-> "any", n |-> 0, cancel |-> TRUE]

NoEdges == {}
AllJoins == [s \in Stages |-> All]
NoGuards == [s \in Stages |-> "true"]
NoGroups == [s \in Stages |-> None]

\* 1 -> 2
Chain == {Edge(1, 2, "success")}

\* 1, 2 and 3 race into 4, which needs one of them; 1 and 2 share a conversation.
Race == {Edge(s, 4, "success") : s \in {1, 2, 3}}
RaceJoins == [s \in Stages |-> IF s = 4 THEN AnyOf ELSE All]
RacersGroup == [s \in Stages |-> IF s \in {1, 2} THEN "shared" ELSE None]

Retrying(n) == [attempts |-> n, mode |-> "restart", restart |-> TRUE, exhausted |-> "pause"]
RetryOnce == [s \in Stages |-> Retrying(2)]
NoRetry == [s \in Stages |-> [Retrying(1) EXCEPT !.exhausted = "fail"]]

=============================================================================
