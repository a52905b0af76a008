---------------------------- MODULE WorkflowGraph ----------------------------
(* A compiled workflow and the pure rules of the scheduler over it: when an    *)
(* edge lets control through (readiness.ts), what a join decides for a         *)
(* pending stage, which stages a join that needs no more of them cancels, and  *)
(* the outcome of a scope whose stages are all terminal (terminal.ts).         *)
(*                                                                             *)
(* A condition (a stage's guard, an edge's `when`) reads outputs, which the    *)
(* model does not carry: it has one value per graph, "true" (also for an       *)
(* absent condition), "false", or "error" when it cannot be evaluated.         *)
EXTENDS Integers, FiniteSets, RunStates

CONSTANTS
  N,       \* the stages are 1 .. N, in the order of their instance paths
  Edges,   \* the edges: from, to, on, handles, when
  Join,    \* per stage: mode, n (of n_of_m), cancel (cancelRemaining)
  Guard    \* per stage: the value of its guard; "false" also for a skip key of the run

Stages == 1 .. N

Condition == {"true", "false", "error"}

EdgeType == [from : Stages, to : Stages, on : {"success", "failure", "completion", "always"},
             handles : BOOLEAN, when : Condition]

JoinType == [mode : {"all", "any", "n_of_m"}, n : Nat, cancel : BOOLEAN]

ASSUME GraphAssumption ==
  /\ N \in Nat \ {0}
  /\ Edges \subseteq EdgeType
  /\ Join \in [Stages -> JoinType]
  /\ Guard \in [Stages -> Condition]
  \* compile() refuses a cyclic graph and a second edge between two stages.
  /\ \E rank \in [Stages -> Stages] : \A e \in Edges : rank[e.from] < rank[e.to]
  /\ \A e, f \in Edges : e.from = f.from /\ e.to = f.to => e = f

In(s) == {e \in Edges : e.to = s}

Out(s) == {e \in Edges : e.from = s}

-----------------------------------------------------------------------------
(* st: the status of every stage; as: what its operator skip counts as.        *)

Completed(st, as, s) == st[s] = "completed" \/ (st[s] = "skipped" /\ as[s] = "completed")

EdgeOnMatches(e, st, as) ==
  \/ e.on \in {"success", "completion"} /\ Completed(st, as, e.from)
  \/ e.on \in {"failure", "completion"} /\ st[e.from] = "failed"
  \/ e.on = "always" /\ st[e.from] \in TerminalStage

\* "broken" is a dead predecessor whose edge matched but whose `when` failed to evaluate.
PredState(e, st, as) ==
  IF st[e.from] \notin TerminalStage THEN "pending"
  ELSE IF EdgeOnMatches(e, st, as) /\ e.when # "false"
         THEN IF e.when = "true" THEN "active" ELSE "broken"
  ELSE IF st[e.from] = "skipped" /\ as[e.from] # "completed" THEN "neutral"
  ELSE "dead"

\* THE readiness predicate of a pending stage: its join, then its guard.
Verdict(s, st, as) ==
  LET Preds(p) == {e \in In(s) : PredState(e, st, as) = p}
      active   == Cardinality(Preds("active"))
      pending  == Cardinality(Preds("pending"))
      opened   == IF Guard[s] = "error" THEN "failed" ELSE IF Guard[s] = "false" THEN "skipped" ELSE "ready"
  IN  IF Preds("broken") # {} THEN "failed"
      ELSE CASE Join[s].mode = "all" ->
                  IF Preds("dead") # {} THEN "skipped"
                  ELSE IF pending > 0 THEN "pending"
                  ELSE IF active > 0 \/ In(s) = {} THEN opened ELSE "skipped"
             [] Join[s].mode = "any" ->
                  IF active > 0 THEN opened ELSE IF pending > 0 THEN "pending" ELSE "skipped"
             [] OTHER ->
                  IF active >= Join[s].n THEN opened
                  ELSE IF active + pending < Join[s].n THEN "skipped" ELSE "pending"

\* The stages that lead into the join j and nowhere else, up the exclusive chain.
ExclusiveLosers(j) ==
  UNION { X \in SUBSET (Stages \ {j}) :
            \A k \in X : Out(k) # {} /\ \A e \in Out(k) : e.to \in X \cup {j} }

\* A join that got what it needs cancels the rest of what leads only into it.
CancelsRest(j) == Join[j].mode # "all" /\ Join[j].cancel

\* The statuses a stage met that was decided before the stages of unseen ended.
Before(res, unseen) == [s \in Stages |-> IF s \in unseen THEN "pending" ELSE res[s]]

\* A stage is decided once, by the predecessors that had ended when the pass came by:
\* what the others come to later (a condition that fails) no longer counts.
Judged(s, st, res, as) ==
  IF res[s] = "pending" THEN Verdict(s, res, as) = "pending"
  ELSE \E unseen \in SUBSET {e.from : e \in In(s)} :
         /\ \A p \in unseen : st[p] \notin TerminalStage
         /\ res[s] = Verdict(s, Before(res, unseen), as)

\* Readiness to a fixed point: res is what the pass makes of the statuses st.
\* A stage the pass cancels as a loser may have been resolved just before.
Resolves(st, res, as) ==
  \A s \in Stages :
    LET lost == \E j \in Stages : /\ st[j] = "pending" /\ res[j] = "ready"
                                  /\ CancelsRest(j) /\ s \in ExclusiveLosers(j)
    IN  IF st[s] \in TerminalStage THEN res[s] = st[s]
        ELSE IF lost THEN \/ res[s] = "cancelled"
                          \/ /\ st[s] = "pending"
                             /\ res[s] \in TerminalStage
                             /\ Judged(s, st, res, as)
        ELSE IF st[s] = "pending" THEN Judged(s, st, res, as)
        ELSE res[s] = st[s]

\* The statuses a pass may end with: only pending stages and losers move.
Resolutions(st, as) ==
  LET Open == {s \in Stages : st[s] = "pending"}
      Whole(d) ==
        [s \in Stages |->
           IF s \in Open THEN d[s]
           ELSE IF /\ st[s] \notin TerminalStage
                   /\ \E j \in Open : d[j] = "ready" /\ CancelsRest(j) /\ s \in ExclusiveLosers(j)
                  THEN "cancelled" ELSE st[s]]
  IN  { res \in { Whole(d) : d \in [Open -> {"pending", "ready", "skipped", "failed", "cancelled"}] } :
          Resolves(st, res, as) }

-----------------------------------------------------------------------------
\* A failure is handled by an active handler edge into a stage that completed,
\* or that failed and is itself handled.
Absorbs(e, H, st, as) ==
  /\ e.handles /\ e.when = "true" /\ EdgeOnMatches(e, st, as)
  /\ st[e.to] = "completed" \/ e.to \in H

Handled(st, as) ==
  UNION { H \in SUBSET {s \in Stages : st[s] = "failed"} :
            \A f \in H : \E e \in Out(f) : Absorbs(e, H, st, as) }

\* loser: the stages cancelled as losers of a join.
ScopeOutcome(st, as, loser) ==
  IF \E s \in Stages : st[s] = "failed" /\ s \notin Handled(st, as) THEN "failed"
  ELSE IF \E s \in Stages : st[s] = "cancelled" /\ ~loser[s] THEN "cancelled"
  ELSE "completed"

\* A failure-handler edge is active for a stage that fails (G5 3.5 ROUTE).
HasFailureRoute(s) ==
  \E e \in Out(s) : e.handles /\ e.on # "success" /\ e.when = "true"

=============================================================================
