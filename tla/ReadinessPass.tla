---------------------------- MODULE ReadinessPass ----------------------------
(* One readiness pass of the scheduler over the stages of a scope               *)
(* (resolveReadiness, decide.ts): sweeps in the order of the instance paths,    *)
(* each stage decided by what the ones before it have made of the statuses,     *)
(* until a sweep changes nothing.  RunScheduler takes a pass as one step, with  *)
(* any result WorkflowGraph!Resolutions allows; this module is how the code     *)
(* comes to one.                                                                *)
EXTENDS WorkflowGraph

None == "none"

CONSTANTS
  As,      \* per stage: what its operator skip counts as
  Awaits,  \* the stages that read an llm summary which is still being written
  Found    \* the statuses a pass may find (a bound for TLC)

ASSUME PassAssumption ==
  /\ As \in [Stages -> {None, "completed", "skipped"}]
  /\ Awaits \subseteq Stages
  /\ Found \subseteq StageState \ {"absent"}

VARIABLES
  from,     \* the statuses the pass found
  st,       \* the statuses now
  at,       \* the stage the sweep visits next; N + 1 at its end
  changed   \* the sweep has decided a stage

vars == <<from, st, at, changed>>

TypeOK ==
  /\ from \in [Stages -> StageState] /\ st \in [Stages -> StageState]
  /\ at \in 1 .. N + 1 /\ changed \in BOOLEAN

-----------------------------------------------------------------------------
Unresolved == {"pending"} \cup TerminalStage

\* Who was made ready was made so by its join, and has ended the losers of its race.
\* Anyone may have been ended since: by an operator, a deadline, a failure.
Founded(x) ==
  \A s \in Stages :
    /\ x[s] \notin Unresolved \/ x[s] = "completed" =>
         \E unseen \in SUBSET {e.from : e \in In(s)} :
           Verdict(s, Before(x, unseen), As) = "ready"
    /\ x[s] \notin Unresolved /\ CancelsRest(s) =>
         \A l \in ExclusiveLosers(s) : x[l] \in TerminalStage

Init ==
  /\ from \in {x \in [Stages -> Found] : Founded(x)}
  /\ st = from /\ at = 1 /\ changed = FALSE

\* The instance was resolved before, or its join is not decided yet.
Blocked ==
  /\ st[at] = "pending" => Verdict(at, st, As) = "pending"
  /\ UNCHANGED <<st, changed>>

\* Mutant: the sweep does not count as one that changed something.
ClosesUnmarked ==
  /\ st[at] = "pending" /\ Verdict(at, st, As) \in {"skipped", "failed"}
  /\ st' = [st EXCEPT ![at] = Verdict(at, st, As)]
  /\ UNCHANGED changed

\* transition(skipped), failConditionError.
Closes ==
  /\ st[at] = "pending" /\ Verdict(at, st, As) \in {"skipped", "failed"}
  /\ st' = [st EXCEPT ![at] = Verdict(at, st, As)]
  /\ changed' = TRUE

\* awaitsSummary: the stage stays pending, but the sweep counts as one that changed it.
AwaitsSummary ==
  /\ st[at] = "pending" /\ Verdict(at, st, As) = "ready" /\ at \in Awaits
  /\ changed' = TRUE
  /\ UNCHANGED st

\* What j becoming ready makes of the statuses: its losers are cancelled with it.
Opened(j) ==
  [s \in Stages |->
     IF s = j THEN "ready"
     ELSE IF CancelsRest(j) /\ s \in ExclusiveLosers(j) /\ st[s] \notin TerminalStage
            THEN "cancelled" ELSE st[s]]

Opens ==
  /\ st[at] = "pending" /\ Verdict(at, st, As) = "ready" /\ at \notin Awaits
  /\ st' = Opened(at)
  /\ changed' = TRUE

Visit ==
  /\ at \in Stages
  /\ Blocked \/ Closes \/ AwaitsSummary \/ Opens
  /\ at' = at + 1
  /\ UNCHANGED from

\* Mutant: changed is not reset before the sweep.
AgainUnreset ==
  /\ at = N + 1 /\ changed
  /\ at' = 1
  /\ UNCHANGED <<from, st, changed>>

\* while (changed)
Again ==
  /\ at = N + 1 /\ changed
  /\ at' = 1 /\ changed' = FALSE
  /\ UNCHANGED <<from, st>>

Next == Visit \/ Again

Spec == Init /\ [][Next]_vars

\* The pass is a loop: nothing else runs before it has ended.
FairSpec == Spec /\ WF_vars(Next)

Done == at = N + 1 /\ ~changed

-----------------------------------------------------------------------------
\* When a pass has ended, what it made of the statuses is a resolution of those it
\* found: every stage is decided by its join and none is left that could be, whatever
\* the order of the visits, and a loser of a race has ended (resolveReadiness).
Resolved == Done => st \in Resolutions(from, As)

\* A stage whose join lets it go on, but which reads a summary that is not there.
Reading(s) == s \in Awaits /\ st[s] = "pending" /\ Verdict(s, st, As) = "ready"

\* A pass ends unless it comes to a stage that has to wait for a summary
\* (while (changed), decide.ts:692).
EndsUnlessRead == <>(Done \/ \E s \in Stages : Reading(s))

\* Every pass ends: a stage that has to wait for a summary is left for the message
\* that brings it (decide.ts:746).
PassEnds == <>Done

=============================================================================
