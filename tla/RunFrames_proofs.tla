-------------------------- MODULE RunFrames_proofs --------------------------
(* The rows of the stages, the frames that work for them and the launches that *)
(* wait fit together, for every workflow, policy, command and fault: no frame   *)
(* works for a stage that was taken from it, no attempt is without its frame,   *)
(* no handler makes a move the stores would refuse, and no join races on with   *)
(* losers that have not ended.  While no process dies, stages of a session      *)
(* group take turns, a paused run starts nothing and a retry keeps its mode.    *)
(*                                                                             *)
(* Framed, the inductive invariant, is stated stage by stage (Matched, Manned).  *)
(* Goes says what a handler may make of a stage, Passes what the settle that     *)
(* follows it may, and Leads what the two make of the world: every action of the *)
(* scheduler is shown to lead there (its ...Leads lemma), and the invariants and *)
(* the theorems are read off Leads.                                              *)
EXTENDS RunScheduler_proofs

LaunchesOf(w, s) == {l \in w.launches : l.st = s}

\* v has what w has of stage s.
Same(w, v, s) ==
  /\ v.inst[s] = w.inst[s] /\ v.frames[s] = w.frames[s] /\ v.owed[s] = w.owed[s]
  /\ LaunchesOf(v, s) = LaunchesOf(w, s)

\* v is w but for the run, the timers and the tasks.
Alike(w, v) ==
  /\ v.inst = w.inst /\ v.frames = w.frames /\ v.owed = w.owed /\ v.launches = w.launches

\* v is w but for the row of stage s.
RowOnly(w, v, s) ==
  /\ v.frames = w.frames /\ v.launches = w.launches
  /\ \A x \in Stages : x # s => v.inst[x] = w.inst[x] /\ v.owed[x] = w.owed[x]

-----------------------------------------------------------------------------
(* What the building blocks make of a stage.                                    *)

LEMMA AlikeSame ==
  ASSUME NEW w, NEW v, Alike(w, v), NEW s PROVE Same(w, v, s)
BY DEF Alike, Same, LaunchesOf

LEMMA RowOnlySame ==
  ASSUME NEW w, NEW v, NEW s, RowOnly(w, v, s)
  PROVE  /\ \A x \in Stages : x # s => Same(w, v, x)
         /\ v.frames[s] = w.frames[s] /\ LaunchesOf(v, s) = LaunchesOf(w, s)
BY DEF RowOnly, Same, LaunchesOf

LEMMA SameTrans ==
  ASSUME NEW u, NEW v, NEW w, NEW s, Same(u, v, s), Same(v, w, s) PROVE Same(u, w, s)
BY DEF Same

\* What an abort makes of a stage: its launch is withdrawn, or its frame is told.
Aborted(w, v, s) ==
  /\ v.frames[s].at = w.frames[s].at /\ v.frames[s].no = w.frames[s].no
  /\ w.frames[s].stop => v.frames[s].stop
  /\ LaunchesOf(v, s) = {l \in LaunchesOf(w, s) : ~(l.tracked /\ l.no = w.inst[s].no)}
  /\ LaunchesOf(v, s) = LaunchesOf(w, s) /\ w.frames[s].at # None /\ w.frames[s].no = w.inst[s].no =>
       v.frames[s].stop

LEMMA AbortAt ==
  ASSUME NEW w \in WorldType, NEW S, NEW s \in Stages
  PROVE  /\ Abort(w, S).run = w.run /\ Abort(w, S).inst = w.inst /\ Abort(w, S).owed = w.owed
         /\ s \notin S => Same(w, Abort(w, S), s)
         /\ s \in S => Aborted(w, Abort(w, S), s)
<1> DEFINE v == Abort(w, S)
           Hit(l) == l.tracked /\ l.st \in S /\ l.no = w.inst[l.st].no
           Told == /\ s \in S /\ \A l \in w.launches : Hit(l) => l.st # s
                   /\ w.frames[s].at # None /\ w.frames[s].no = w.inst[s].no
<1>1. v.run = w.run /\ v.inst = w.inst /\ v.owed = w.owed BY DEF Abort, WorldType
<1>2. v.launches = {l \in w.launches : ~Hit(l)} BY DEF Abort, WorldType
<1>3. v.frames[s] = IF Told THEN [w.frames[s] EXCEPT !.stop = TRUE] ELSE w.frames[s]
  BY DEF Abort, WorldType
<1>4. w.frames[s] \in FrameType BY WorldParts
<1>5. /\ v.frames[s].at = w.frames[s].at /\ v.frames[s].no = w.frames[s].no
      /\ v.frames[s].stop = (w.frames[s].stop \/ Told)
  BY <1>3, <1>4 DEF FrameType
<1>6. LaunchesOf(v, s) = {l \in LaunchesOf(w, s) : ~Hit(l)} BY <1>2 DEF LaunchesOf
<1>7. CASE s \notin S BY <1>1, <1>3, <1>6, <1>7 DEF Same, LaunchesOf
<1>8. CASE s \in S
  <2>1. \A l \in LaunchesOf(w, s) : Hit(l) <=> l.tracked /\ l.no = w.inst[s].no
    BY <1>8 DEF LaunchesOf
  <2>2. LaunchesOf(v, s) = {l \in LaunchesOf(w, s) : ~(l.tracked /\ l.no = w.inst[s].no)}
    BY <1>6, <2>1
  <2>3. LaunchesOf(v, s) = LaunchesOf(w, s) => \A l \in w.launches : Hit(l) => l.st # s
    BY <1>6 DEF LaunchesOf
  <2>4. Aborted(w, v, s)
    <3> HIDE DEF v, Hit
    <3> QED BY <1>1, <1>5, <1>8, <2>2, <2>3 DEF Aborted
  <2> QED BY <1>1, <1>8, <2>4
<1> QED BY <1>1, <1>7, <1>8

\* What Stop makes of a stage it stops.
Stopped(w, v, s, to, why) ==
  /\ v.inst[s].status = to /\ v.inst[s].why = why
  /\ v.inst[s].live = (w.inst[s].live /\ w.inst[s].status # "ready")
  /\ v.inst[s].no = w.inst[s].no /\ v.inst[s].mode = w.inst[s].mode /\ v.owed[s] = w.owed[s]
  /\ IF w.inst[s].live THEN Aborted(w, v, s)
     ELSE v.frames[s] = w.frames[s] /\ LaunchesOf(v, s) = LaunchesOf(w, s)

LEMMA StopAt ==
  ASSUME NEW w \in WorldType, NEW S \in SUBSET Stages, NEW to \in StageState,
         NEW why \in [Stages -> Reason], NEW s \in Stages
  PROVE  /\ Stop(w, S, to, why).run = w.run
         /\ s \notin S => Same(w, Stop(w, S, to, why), s)
         /\ s \in S => Stopped(w, Stop(w, S, to, why), s, to, why[s])
<1> DEFINE I == [x \in Stages |->
                   IF x \in S
                     THEN [w.inst[x] EXCEPT !.status = to, !.why = why[x], !.gate = None,
                             !.live = w.inst[x].live /\ w.inst[x].status # "ready"]
                     ELSE w.inst[x]]
           T == {t \in w.timers : t.st \notin S}
           p == [[w EXCEPT !.inst = I] EXCEPT !.timers = T]
           A == {x \in S : w.inst[x].live}
           v == Stop(w, S, to, why)
<1>1. I \in [Stages -> InstanceType]
  <2>1. \A x \in Stages : w.inst[x] \in InstanceType BY WorldParts
  <2>2. ASSUME NEW x \in Stages PROVE I[x] \in InstanceType
    <3>1. why[x] \in Reason OBVIOUS
    <3>2. (w.inst[x].live /\ w.inst[x].status # "ready") \in BOOLEAN OBVIOUS
    <3> QED BY <2>1, <3>1, <3>2, InstanceMoves
  <2> QED BY <2>2
<1>2. /\ s \notin S => I[s] = w.inst[s]
      /\ s \in S => /\ I[s].status = to /\ I[s].why = why[s]
                    /\ I[s].live = (w.inst[s].live /\ w.inst[s].status # "ready")
                    /\ I[s].no = w.inst[s].no /\ I[s].mode = w.inst[s].mode
  BY WorldParts DEF InstanceType
<1>3. v = Abort(p, A) BY DEF Stop
<1>4. T \in SUBSET TimerType BY WorldParts
<1>5. w.inst[s].live \in BOOLEAN BY WorldParts, InstanceParts
<1>6. I[s].no = w.inst[s].no BY <1>2
<1> HIDE DEF I, T
<1>7. p \in WorldType BY <1>1, <1>4, NewInst, NewTimers
<1>8. /\ p.run = w.run /\ p.inst = I /\ p.frames = w.frames /\ p.launches = w.launches
      /\ p.owed = w.owed
  BY DEF WorldType
<1>9. LaunchesOf(p, s) = LaunchesOf(w, s) BY <1>8 DEF LaunchesOf
<1> HIDE DEF p
<1>10. v.run = w.run /\ v.inst = I /\ v.owed = w.owed
  <2>1. Abort(p, A).run = p.run /\ Abort(p, A).inst = p.inst /\ Abort(p, A).owed = p.owed
    BY <1>7, AbortAt
  <2> QED BY <1>3, <1>8, <2>1
<1>11. s \notin A => v.frames[s] = w.frames[s] /\ LaunchesOf(v, s) = LaunchesOf(w, s)
  BY <1>3, <1>7, <1>8, <1>9, AbortAt DEF Same
<1>12. s \in A => Aborted(w, v, s)
  <2>1. s \in A => Aborted(p, v, s) BY <1>3, <1>7, AbortAt
  <2>2. Aborted(p, v, s) => Aborted(w, v, s) BY <1>6, <1>8, <1>9 DEF Aborted
  <2> QED BY <2>1, <2>2
<1>13. s \notin S => Same(w, v, s) BY <1>2, <1>10, <1>11 DEF Same
<1>14. s \in S => Stopped(w, v, s, to, why[s])
  BY <1>2, <1>5, <1>10, <1>11, <1>12 DEF Stopped
<1> QED BY <1>10, <1>13, <1>14

LEMMA CancelAt ==
  ASSUME NEW w \in WorldType, NEW S \in SUBSET Stages, NEW s \in Stages
  PROVE  /\ Cancel(w, S).run = w.run
         /\ s \notin S => Same(w, Cancel(w, S), s)
         /\ s \in S => Stopped(w, Cancel(w, S), s, "cancelled", Because(None))
<1>1. AllBecause(None) \in [Stages -> Reason] /\ AllBecause(None)[s] = Because(None)
  BY AllBecauseType DEF AllBecause
<1>2. "cancelled" \in StageState BY StatesOfStages
<1> DEFINE why == AllBecause(None)
           v == Stop(w, S, "cancelled", why)
<1> HIDE DEF why
<1>3. /\ v.run = w.run
      /\ s \notin S => Same(w, v, s)
      /\ s \in S => Stopped(w, v, s, "cancelled", why[s])
  BY <1>1, <1>2, StopAt DEF why
<1> QED BY <1>1, <1>3 DEF Cancel, why

\* Of stage s only the row moves, to the status.
Row(w, v, s, status, why, live) ==
  /\ RowOnly(w, v, s) /\ v.run = w.run /\ v.owed = w.owed
  /\ v.inst[s].status = status /\ v.inst[s].why = why /\ v.inst[s].live = live
  /\ v.inst[s].no = w.inst[s].no /\ v.inst[s].mode = w.inst[s].mode

LEMMA RowAt ==
  ASSUME NEW w \in WorldType, NEW s \in Stages
  PROVE  /\ Row(w, Fail(w, s), s, "failed", Because(None), w.inst[s].live)
         /\ Row(w, Halt(w, s), s, "paused", Because("stopped"), w.inst[s].live)
         /\ Row(w, Completes(w, s), s, "completed", Because(None), w.inst[s].live)
<1>1. w.inst[s] \in InstanceType BY WorldParts
<1>2. Row(w, Fail(w, s), s, "failed", Because(None), w.inst[s].live)
  BY <1>1 DEF Fail, Row, RowOnly, WorldType, InstanceType
<1>3. Row(w, Halt(w, s), s, "paused", Because("stopped"), w.inst[s].live)
  BY <1>1 DEF Halt, Row, RowOnly, WorldType, InstanceType
<1>4. Row(w, Completes(w, s), s, "completed", Because(None), w.inst[s].live)
  BY <1>1 DEF Completes, Row, RowOnly, WorldType, InstanceType
<1> QED BY <1>2, <1>3, <1>4

LEMMA SettledAt ==
  ASSUME NEW w \in WorldType, NEW s \in Stages, NEW counted \in BOOLEAN
  PROVE  Row(w, Settled(w, s, counted), s, w.inst[s].status, w.inst[s].why, FALSE)
BY WorldParts DEF Settled, Row, RowOnly, WorldType, InstanceType

LEMMA StatusAt ==
  ASSUME NEW w \in WorldType, NEW s \in Stages, NEW status \in StageState
  PROVE  Row(w, [w EXCEPT !.inst[s].status = status], s, status, w.inst[s].why, w.inst[s].live)
BY WorldParts DEF Row, RowOnly, WorldType, InstanceType

LEMMA WithTtlAlike ==
  ASSUME NEW w \in WorldType, NEW s PROVE Alike(w, WithTtl(w, s)) /\ WithTtl(w, s).run = w.run
BY DEF WithTtl, WorldType, Alike

LEMMA RowTrans ==
  ASSUME NEW u, NEW v, NEW w, NEW s,
         NEW a, NEW b, NEW c, Row(u, v, s, a, b, c), NEW d, NEW e, NEW f, Row(v, w, s, d, e, f)
  PROVE  Row(u, w, s, d, e, f)
BY DEF Row, RowOnly

LEMMA RowAlike ==
  ASSUME NEW u, NEW v, NEW w, NEW s, NEW a, NEW b, NEW c, Row(u, v, s, a, b, c),
         Alike(v, w), w.run = v.run
  PROVE  Row(u, w, s, a, b, c)
BY DEF Row, RowOnly, Alike

\* What a resume makes of a paused stage.
Unpaused(w, v, s, base) ==
  LET i == w.inst[s]
      kept == IF i.why.base = base THEN i.why.phase ELSE None
  IN  /\ v.inst[s].status = IF kept = "retry_wait" THEN "retry_wait" ELSE "ready"
      /\ v.inst[s].why = IF kept = None THEN Because("resume") ELSE RetryIn(i.why.mode)
      /\ v.inst[s].live = i.live /\ v.inst[s].no = i.no /\ v.inst[s].mode = i.mode
      /\ v.frames[s] = w.frames[s] /\ LaunchesOf(v, s) = LaunchesOf(w, s) /\ v.owed[s] = w.owed[s]

LEMMA UnpauseAt ==
  ASSUME NEW w \in WorldType, NEW S \in SUBSET Stages, NEW base, NEW s \in Stages
  PROVE  /\ Unpause(w, S, base).run = w.run
         /\ s \notin S => Same(w, Unpause(w, S, base), s)
         /\ s \in S => Unpaused(w, Unpause(w, S, base), s, base)
<1> DEFINE v == Unpause(w, S, base)
           kept(x) == IF w.inst[x].why.base = base THEN w.inst[x].why.phase ELSE None
           row == [w.inst[s] EXCEPT
                     !.status = IF kept(s) = "retry_wait" THEN "retry_wait" ELSE "ready",
                     !.why = IF kept(s) = None THEN Because("resume") ELSE RetryIn(w.inst[s].why.mode)]
<1>1. /\ v.run = w.run /\ v.frames = w.frames /\ v.launches = w.launches /\ v.owed = w.owed
      /\ v.inst[s] = IF s \notin S THEN w.inst[s] ELSE row
  BY DEF Unpause, WorldType
<1>2. w.inst[s] \in InstanceType BY WorldParts
<1>3. /\ row.status = IF kept(s) = "retry_wait" THEN "retry_wait" ELSE "ready"
      /\ row.why = IF kept(s) = None THEN Because("resume") ELSE RetryIn(w.inst[s].why.mode)
      /\ row.live = w.inst[s].live /\ row.no = w.inst[s].no /\ row.mode = w.inst[s].mode
  BY <1>2 DEF InstanceType
<1>4. LaunchesOf(v, s) = LaunchesOf(w, s) BY <1>1 DEF LaunchesOf
<1>5. s \notin S => Same(w, v, s) BY <1>1, <1>4 DEF Same
<1>6. s \in S => Unpaused(w, v, s, base)
  <2> HIDE DEF v, row
  <2> QED BY <1>1, <1>3, <1>4 DEF Unpaused
<1> QED BY <1>1, <1>5, <1>6

\* What a failure makes of the row of s, whose attempt is settled.
Failed(w, v, s) ==
  LET i == w.inst[s]
      j == v.inst[s]
  IN  /\ v.run = w.run /\ \A x \in Stages : x # s => Same(w, v, x)
      /\ v.frames[s] = w.frames[s] /\ LaunchesOf(v, s) = LaunchesOf(w, s)
      /\ ~j.live /\ j.no = i.no /\ j.mode = i.mode
      /\ \/ j.status = "failed" /\ v.owed[s] = w.owed[s]
         \/ j.status = "paused" /\ j.why = Because("stopped") /\ v.owed[s] = w.owed[s]
         \/ /\ v.owed[s] \in RetryMode
            /\ \/ j.status = "retry_wait" /\ j.why = RetryIn(v.owed[s])
               \/ /\ j.status = "paused" /\ w.run.status = "paused"
                  /\ j.why = [base |-> "run_paused", phase |-> "retry_wait", mode |-> v.owed[s]]

LEMMA RetryAt ==
  ASSUME NEW w \in WorldType, NEW s \in Stages, NEW mode \in RetryMode,
         ~w.inst[s].live, w.inst[s].status # "ready"
  PROVE  Failed(w, Retry(w, s, mode), s)
<1> DEFINE o == [w EXCEPT !.owed[s] = mode]
           why == [x \in Stages |-> [base |-> "run_paused", phase |-> "retry_wait", mode |-> mode]]
<1>1. o \in WorldType BY NewOwed
<1>2. /\ o.run = w.run /\ o.inst = w.inst /\ o.frames = w.frames /\ o.launches = w.launches
      /\ o.owed[s] = mode /\ \A x \in Stages : x # s => o.owed[x] = w.owed[x]
  BY DEF WorldType
<1>3. w.inst[s] \in InstanceType BY WorldParts
<1>4. CASE w.run.status = "paused"
  <2> DEFINE v == Stop(o, {s}, "paused", why)
  <2>1. Retry(w, s, mode) = v BY <1>4 DEF Retry
  <2>2. why \in [Stages -> Reason] BY DEF Reason, RetryMode
  <2>3. why[s] = [base |-> "run_paused", phase |-> "retry_wait", mode |-> mode] OBVIOUS
  <2>4. {s} \in SUBSET Stages /\ "paused" \in StageState BY StatesOfStages
  <2> HIDE DEF o, why
  <2>5. v.run = o.run /\ Stopped(o, v, s, "paused", why[s]) BY <1>1, <2>2, <2>4, StopAt
  <2>6. \A x \in Stages : x # s => Same(o, v, x) BY <1>1, <2>2, <2>4, StopAt
  <2> HIDE DEF v
  <2>7. \A x \in Stages : x # s => Same(w, v, x) BY <1>2, <2>6 DEF Same, LaunchesOf
  <2>8. LaunchesOf(o, s) = LaunchesOf(w, s) BY <1>2 DEF LaunchesOf
  <2> QED BY <1>2, <1>4, <2>1, <2>3, <2>5, <2>7, <2>8 DEF Failed, Stopped
<1>5. CASE w.run.status # "paused"
  <2> DEFINE i == [w.inst[s] EXCEPT !.status = "retry_wait", !.why = RetryIn(mode)]
             v == Retry(w, s, mode)
  <2>1. /\ v.run = w.run /\ v.frames = w.frames /\ v.launches = w.launches /\ v.owed = o.owed
        /\ v.inst[s] = i /\ \A x \in Stages : x # s => v.inst[x] = w.inst[x]
    BY <1>5 DEF Retry, WorldType
  <2>2. i.status = "retry_wait" /\ i.why = RetryIn(mode) /\ i.live = w.inst[s].live
        /\ i.no = w.inst[s].no /\ i.mode = w.inst[s].mode
    BY <1>3 DEF InstanceType
  <2> HIDE DEF v, i, o
  <2>3. \A x \in Stages : x # s => Same(w, v, x) BY <1>2, <2>1 DEF Same, LaunchesOf
  <2>4. LaunchesOf(v, s) = LaunchesOf(w, s) BY <2>1 DEF LaunchesOf
  <2>5. Failed(w, v, s) BY <1>2, <2>1, <2>2, <2>3, <2>4 DEF Failed
  <2> QED BY <2>5 DEF v
<1> QED BY <1>4, <1>5

LEMMA RowFailed ==
  ASSUME NEW w \in WorldType, NEW v, NEW s \in Stages
  PROVE  /\ Row(w, v, s, "failed", Because(None), FALSE) => Failed(w, v, s)
         /\ Row(w, v, s, "paused", Because("stopped"), FALSE) => Failed(w, v, s)
BY RowOnlySame DEF Row, Failed

LEMMA ApplyFailureAt ==
  ASSUME NEW w \in WorldType, NEW s \in Stages, NEW class,
         ~w.inst[s].live, w.inst[s].status # "ready"
  PROVE  Failed(w, ApplyFailure(w, s, class), s)
<1>0. w.inst[s].live = FALSE BY WorldParts, InstanceParts
<1>1. Failed(w, Retry(w, s, RetryModeOf(s, class)), s) BY RetryModeOfType, RetryAt
<1>2. Failed(w, WithTtl(Halt(w, s), s), s)
  <2>1. Row(w, Halt(w, s), s, "paused", Because("stopped"), FALSE) BY <1>0, RowAt
  <2>2. Row(w, WithTtl(Halt(w, s), s), s, "paused", Because("stopped"), FALSE)
    BY <2>1, HaltType, WithTtlAlike, RowAlike
  <2> QED BY <2>2, RowFailed
<1>3. Failed(w, Fail(w, s), s)
  <2>1. Row(w, Fail(w, s), s, "failed", Because(None), FALSE) BY <1>0, RowAt
  <2> QED BY <2>1, RowFailed
<1> QED BY <1>1, <1>2, <1>3 DEF ApplyFailure

\* ... and of s with a live attempt, which is settled first.
LEMMA SettledFailureAt ==
  ASSUME NEW w \in WorldType, NEW s \in Stages, NEW class, NEW counted \in BOOLEAN,
         w.inst[s].status # "ready"
  PROVE  Failed(w, ApplyFailure(Settled(w, s, counted), s, class), s)
<1> DEFINE p == Settled(w, s, counted)
           v == ApplyFailure(p, s, class)
<1>1. p \in WorldType /\ Row(w, p, s, w.inst[s].status, w.inst[s].why, FALSE) BY SettledType, SettledAt
<1>2. Failed(p, v, s)
  <2>1. ~p.inst[s].live /\ p.inst[s].status # "ready" BY <1>1 DEF Row
  <2> HIDE DEF p
  <2> QED BY <1>1, <2>1, ApplyFailureAt
<1>3. \A x \in Stages : x # s => Same(w, v, x) BY <1>1, <1>2, RowOnlySame DEF Row, Failed, Same
<1>4. p.frames[s] = w.frames[s] /\ LaunchesOf(p, s) = LaunchesOf(w, s) BY <1>1, RowOnlySame DEF Row
<1> HIDE DEF p, v
<1>5. Failed(w, v, s) BY <1>1, <1>2, <1>3, <1>4 DEF Row, Failed
<1> QED BY <1>5 DEF v, p

LEMMA PauseReasonPhase ==
  ASSUME NEW i \in InstanceType, NEW base
  PROVE  PauseReason(i, base).phase = "retry_wait" => i.status = "retry_wait"
BY DEF PauseReason, Because, None

\* What a pause of the run makes of a stage.
LEMMA PauseRunAt ==
  ASSUME NEW w \in WorldType, NEW mode, NEW why \in {"user", "budget"}, NEW s \in Stages
  PROVE  LET v == PauseRun(w, mode, why)
         IN  /\ v.run.status = "paused" /\ v.run.over = w.run.over
             /\ \/ Same(w, v, s) /\ w.inst[s].status \notin {"ready", "retry_wait"}
                \/ /\ w.inst[s].status \in
                        {"ready", "retry_wait"} \cup (IF mode = "interrupt" THEN Attempt ELSE {})
                   /\ Stopped(w, v, s, "paused", PauseReason(w.inst[s], "run_paused"))
<1> DEFINE S == {x \in Stages : w.inst[x].status \in
                   {"ready", "retry_wait"} \cup (IF mode = "interrupt" THEN Attempt ELSE {})}
           p == [w EXCEPT !.run.status = "paused", !.run.why = why]
           reasons == [x \in Stages |-> PauseReason(w.inst[x], "run_paused")]
           q == Stop(p, S, "paused", reasons)
           v == WithTtl(q, 0)
<1>1. p \in WorldType BY NewRunParts, StatesOfRuns
<1>2. Alike(w, p) /\ p.run.status = "paused" /\ p.run.over = w.run.over
  BY DEF WorldType, RunType, Alike
<1>3. reasons \in [Stages -> Reason] /\ reasons[s] = PauseReason(w.inst[s], "run_paused")
  BY WorldParts, PauseReasonType
<1>4. S \in SUBSET Stages /\ "paused" \in StageState BY StatesOfStages
<1>5. PauseRun(w, mode, why) = v BY DEF PauseRun
<1>6. /\ s \in S => w.inst[s].status \in
                      {"ready", "retry_wait"} \cup (IF mode = "interrupt" THEN Attempt ELSE {})
      /\ s \notin S => w.inst[s].status \notin {"ready", "retry_wait"}
  OBVIOUS
<1> HIDE DEF p, S, reasons
<1>7. /\ q \in WorldType /\ q.run = p.run
      /\ s \notin S => Same(p, q, s)
      /\ s \in S => Stopped(p, q, s, "paused", reasons[s])
  BY <1>1, <1>3, <1>4, StopType, StopAt
<1> HIDE DEF q
<1>8. Alike(q, v) /\ v.run = q.run BY <1>7, WithTtlAlike
<1> HIDE DEF v
<1>9. CASE s \in S
  <2>1. Stopped(w, v, s, "paused", reasons[s])
    BY <1>2, <1>7, <1>8, <1>9 DEF Stopped, Aborted, Alike, LaunchesOf
  <2> QED BY <1>2, <1>3, <1>5, <1>6, <1>7, <1>8, <1>9, <2>1
<1>10. CASE s \notin S
  <2>1. Same(w, v, s) BY <1>2, <1>7, <1>8, <1>10, AlikeSame, SameTrans
  <2> QED BY <1>2, <1>5, <1>6, <1>7, <1>8, <1>10, <2>1
<1> QED BY <1>9, <1>10

LEMMA ResumeRunAt ==
  ASSUME NEW w \in WorldType, NEW s \in Stages
  PROVE  LET v == ResumeRun(w)
         IN  /\ v.run.status = "running" /\ v.run.over = w.run.over
             /\ \/ Same(w, v, s)
                \/ /\ w.inst[s].status = "paused" /\ w.inst[s].why.base = "run_paused"
                   /\ Unpaused(w, v, s, "run_paused")
<1> DEFINE S == {x \in Stages : w.inst[x].status = "paused" /\ w.inst[x].why.base = "run_paused"}
           r == Unpause(w, S, "run_paused")
           v == ResumeRun(w)
<1>1. S \in SUBSET Stages OBVIOUS
<1>2. /\ r \in WorldType /\ r.run = w.run
      /\ s \notin S => Same(w, r, s)
      /\ s \in S => Unpaused(w, r, s, "run_paused")
  <2> HIDE DEF S
  <2> QED BY <1>1, UnpauseType, UnpauseAt
<1>3. v = [r EXCEPT !.run.status = "running", !.run.why = None,
                    !.timers = r.timers \ {Timer(0, "pause_ttl")}]
  BY DEF ResumeRun
<1>4. s \in S => w.inst[s].status = "paused" /\ w.inst[s].why.base = "run_paused" OBVIOUS
<1> HIDE DEF r, v, S
<1>5. Alike(r, v) /\ v.run.status = "running" /\ v.run.over = r.run.over
  BY <1>2, <1>3 DEF WorldType, RunType, Alike
<1>6. CASE s \in S
  <2>1. Unpaused(w, v, s, "run_paused") BY <1>2, <1>5, <1>6 DEF Unpaused, Alike, LaunchesOf
  <2> QED BY <1>2, <1>4, <1>5, <1>6, <2>1 DEF v
<1>7. CASE s \notin S
  <2>1. Same(w, v, s) BY <1>2, <1>5, <1>7, AlikeSame, SameTrans
  <2> QED BY <1>2, <1>5, <2>1 DEF v
<1> QED BY <1>6, <1>7

LEMMA FinalizeAlike ==
  ASSUME NEW w \in WorldType PROVE Alike(w, Finalize(w)) /\ Finalize(w).run = w.run
BY DEF Finalize, WorldType, Alike

LEMMA DecideAlike ==
  ASSUME NEW w \in WorldType, NEW status \in RunState, NEW outcome \in Outcome
  PROVE  /\ Alike(w, Decide(w, status, outcome))
         /\ Decide(w, status, outcome).run.status = status
<1> DEFINE p == [w EXCEPT !.run.status = status, !.run.outcome = outcome]
           q == [p EXCEPT !.timers = {}]
           d == [w EXCEPT !.run.status = status, !.run.outcome = outcome, !.timers = {}]
<1>1. p \in WorldType BY NewRunParts
<1>2. Alike(w, p) /\ p.run.status = status BY DEF WorldType, RunType, Alike
<1>3. d = q OBVIOUS
<1> HIDE DEF p
<1>4. q \in WorldType BY <1>1, NewTimers
<1>5. Alike(w, q) /\ q.run.status = status BY <1>1, <1>2 DEF WorldType, Alike
<1> HIDE DEF q, d
<1>6. Alike(q, Finalize(q)) /\ Finalize(q).run = q.run BY <1>4, FinalizeAlike
<1>7. Decide(w, status, outcome) = Finalize(q) BY <1>3 DEF Decide, d
<1>8. Alike(w, Finalize(q)) BY <1>5, <1>6 DEF Alike
<1> QED BY <1>5, <1>6, <1>7, <1>8

LEMMA CancelRunAt ==
  ASSUME NEW w \in WorldType, NEW s \in Stages
  PROVE  LET v == CancelRun(w)
         IN  /\ v.run.status = "cancelling"
             /\ \/ Same(w, v, s)
                \/ /\ w.inst[s].status \notin TerminalStage \cup {"absent"}
                   /\ Stopped(w, v, s, "cancelled", Because(None))
<1> DEFINE v == CancelRun(w)
<1>1. CASE w.run.status = "finalizing"
  <2> DEFINE p == [w EXCEPT !.run.status = "cancelling", !.run.outcome = "cancelled"]
  <2>1. p \in WorldType BY NewRunParts, StatesOfRuns DEF Outcome
  <2>2. Alike(w, p) /\ p.run.status = "cancelling" BY DEF WorldType, RunType, Alike
  <2>3. v = Finalize(p) BY <1>1 DEF CancelRun
  <2> HIDE DEF p, v
  <2>4. Alike(p, v) /\ v.run = p.run BY <2>1, <2>3, FinalizeAlike
  <2>5. Same(w, v, s) BY <2>2, <2>4, AlikeSame, SameTrans
  <2> QED BY <2>2, <2>4, <2>5 DEF v
<1>2. CASE w.run.status # "finalizing"
  <2> DEFINE p == [w EXCEPT !.run.status = "cancelling"]
             c == Cancel(p, Open(w))
  <2>1. p \in WorldType BY NewRunParts, StatesOfRuns
  <2>2. Alike(w, p) /\ p.run.status = "cancelling" BY DEF WorldType, RunType, Alike
  <2>3. v = [c EXCEPT !.timers = {}] BY <1>2 DEF CancelRun
  <2>4. Open(w) \in SUBSET Stages BY DEF Open
  <2> HIDE DEF p, v
  <2>5. /\ c \in WorldType /\ c.run = p.run
        /\ s \notin Open(w) => Same(p, c, s)
        /\ s \in Open(w) => Stopped(p, c, s, "cancelled", Because(None))
    BY <2>1, <2>4, CancelType, CancelAt
  <2> HIDE DEF c
  <2>6. Alike(c, v) /\ v.run = c.run BY <2>3, <2>5 DEF WorldType, Alike
  <2>7. CASE s \in Open(w)
    <3>1. Stopped(w, v, s, "cancelled", Because(None))
      BY <2>2, <2>5, <2>6, <2>7 DEF Stopped, Aborted, Alike, LaunchesOf
    <3> QED BY <2>2, <2>5, <2>6, <2>7, <3>1 DEF v, Open
  <2>8. CASE s \notin Open(w)
    <3>1. Same(w, v, s) BY <2>2, <2>5, <2>6, <2>8, AlikeSame, SameTrans
    <3> QED BY <2>2, <2>5, <2>6, <3>1 DEF v
  <2> QED BY <2>7, <2>8
<1> QED BY <1>1, <1>2

\* Only the status and its reason move.
Turned(w, v, s, status, why) ==
  /\ v.inst[s].status = status /\ v.inst[s].why = why /\ v.inst[s].live = w.inst[s].live
  /\ v.inst[s].no = w.inst[s].no /\ v.inst[s].mode = w.inst[s].mode
  /\ v.frames[s] = w.frames[s] /\ LaunchesOf(v, s) = LaunchesOf(w, s) /\ v.owed[s] = w.owed[s]

LEMMA RootedAt ==
  ASSUME NEW w \in WorldType, NEW s \in Stages
  PROVE  /\ Rooted(w).run = w.run
         /\ w.inst[s].status # "absent" => Same(w, Rooted(w), s)
         /\ w.inst[s].status = "absent" => Turned(w, Rooted(w), s, "pending", w.inst[s].why)
<1> DEFINE v == Rooted(w)
<1>1. /\ v.run = w.run /\ v.frames = w.frames /\ v.launches = w.launches /\ v.owed = w.owed
      /\ v.inst[s] = IF w.inst[s].status = "absent" THEN [w.inst[s] EXCEPT !.status = "pending"]
                     ELSE w.inst[s]
  BY DEF Rooted, WorldType
<1>2. w.inst[s] \in InstanceType BY WorldParts
<1>3. LaunchesOf(v, s) = LaunchesOf(w, s) BY <1>1 DEF LaunchesOf
<1>4. CASE w.inst[s].status # "absent"
  BY <1>1, <1>3, <1>4 DEF Same
<1>5. CASE w.inst[s].status = "absent"
  <2>1. /\ v.inst[s].status = "pending" /\ v.inst[s].why = w.inst[s].why
        /\ v.inst[s].live = w.inst[s].live /\ v.inst[s].no = w.inst[s].no
        /\ v.inst[s].mode = w.inst[s].mode
    BY <1>1, <1>2, <1>5 DEF InstanceType
  <2> QED BY <1>1, <1>3, <1>5, <2>1 DEF Turned
<1> QED BY <1>4, <1>5

\* What the readiness pass makes of a stage.
Resolved(w, v, s, to) ==
  IF to = "cancelled" /\ w.inst[s].status # "cancelled" THEN Stopped(w, v, s, "cancelled", Because(None))
  ELSE IF to # "cancelled" /\ w.inst[s].status = "pending" THEN Turned(w, v, s, to, Because(None))
  ELSE Same(w, v, s)

LEMMA ResolveAt ==
  ASSUME NEW w \in WorldType, NEW res \in [Stages -> StageState], NEW s \in Stages
  PROVE  Resolve(w, res).run = w.run /\ Resolved(w, Resolve(w, res), s, res[s])
<1> DEFINE lost == {x \in Stages : res[x] = "cancelled" /\ w.inst[x].status # "cancelled"}
           Moves(x) == w.inst[x].status = "pending" /\ res[x] # "cancelled"
           I == [x \in Stages |->
                   IF Moves(x) THEN [w.inst[x] EXCEPT !.status = res[x], !.why = Because(None)]
                   ELSE w.inst[x]]
           p == [w EXCEPT !.inst = I]
           q == Cancel(p, lost)
           v == [q EXCEPT !.inst = [x \in Stages |->
                   [q.inst[x] EXCEPT !.loser = q.inst[x].loser \/ x \in lost]]]
<1>1. Resolve(w, res) = v BY DEF Resolve
<1>2. I \in [Stages -> InstanceType]
  <2>1. \A x \in Stages : w.inst[x] \in InstanceType BY WorldParts
  <2>2. Because(None) \in Reason BY Reasons
  <2> QED BY <2>1, <2>2, InstanceMoves
<1>3. p \in WorldType
  <2> HIDE DEF I
  <2> QED BY <1>2, NewInst
<1>4. lost \in SUBSET Stages OBVIOUS
<1>5. /\ p.run = w.run /\ p.frames = w.frames /\ p.launches = w.launches /\ p.owed = w.owed
      /\ p.inst[s] = IF Moves(s) THEN [w.inst[s] EXCEPT !.status = res[s], !.why = Because(None)]
                     ELSE w.inst[s]
  BY DEF WorldType
<1>6. LaunchesOf(p, s) = LaunchesOf(w, s) BY <1>5 DEF LaunchesOf
<1>7. s \in lost <=> res[s] = "cancelled" /\ w.inst[s].status # "cancelled" OBVIOUS
<1> HIDE DEF p, lost
<1>8. /\ q \in WorldType /\ q.run = p.run
      /\ s \notin lost => Same(p, q, s)
      /\ s \in lost => Stopped(p, q, s, "cancelled", Because(None))
  BY <1>3, <1>4, CancelType, CancelAt
<1> HIDE DEF q
<1>9. /\ v.run = q.run /\ v.frames = q.frames /\ v.launches = q.launches /\ v.owed = q.owed
      /\ v.inst[s] = [q.inst[s] EXCEPT !.loser = q.inst[s].loser \/ s \in lost]
  BY <1>8 DEF WorldType
<1>10. LaunchesOf(v, s) = LaunchesOf(q, s) BY <1>9 DEF LaunchesOf
<1>11. q.inst[s] \in InstanceType /\ w.inst[s] \in InstanceType BY <1>8, WorldParts
<1>12. /\ v.inst[s].status = q.inst[s].status /\ v.inst[s].why = q.inst[s].why
       /\ v.inst[s].live = q.inst[s].live /\ v.inst[s].no = q.inst[s].no
       /\ v.inst[s].mode = q.inst[s].mode
       /\ s \notin lost => v.inst[s] = q.inst[s]
  BY <1>9, <1>11 DEF InstanceType
<1> HIDE DEF v, I
<1>13. CASE s \in lost
  <2>1. p.inst[s] = w.inst[s] BY <1>5, <1>7, <1>13
  <2>2. Stopped(p, q, s, "cancelled", Because(None)) BY <1>8, <1>13
  <2> HIDE DEF Moves
  <2>3. /\ v.inst[s].live = q.inst[s].live /\ v.owed[s] = q.owed[s] /\ v.frames[s] = q.frames[s]
        /\ p.frames[s] = w.frames[s] /\ p.owed[s] = w.owed[s]
    BY <1>5, <1>9, <1>12
  <2>4. w.inst[s].live => Aborted(w, v, s)
    <3>1. w.inst[s].live => Aborted(p, q, s) BY <2>1, <2>2 DEF Stopped
    <3> QED BY <1>6, <1>10, <2>1, <2>3, <3>1 DEF Aborted
  <2>5. ~w.inst[s].live => v.frames[s] = w.frames[s] /\ LaunchesOf(v, s) = LaunchesOf(w, s)
    BY <1>6, <1>10, <2>1, <2>2, <2>3 DEF Stopped
  <2>6. Stopped(w, v, s, "cancelled", Because(None))
    BY <1>12, <2>1, <2>2, <2>3, <2>4, <2>5 DEF Stopped
  <2> QED BY <1>1, <1>5, <1>7, <1>8, <1>9, <1>13, <2>6 DEF Resolved
<1>14. CASE s \notin lost
  <2>1. Same(p, v, s) BY <1>8, <1>9, <1>10, <1>12, <1>14 DEF Same
  <2>2. CASE Moves(s)
    <3>1. /\ p.inst[s].status = res[s] /\ p.inst[s].why = Because(None)
          /\ p.inst[s].live = w.inst[s].live /\ p.inst[s].no = w.inst[s].no
          /\ p.inst[s].mode = w.inst[s].mode
      BY <1>5, <1>11, <2>2 DEF InstanceType
    <3>2. Turned(w, v, s, res[s], Because(None)) BY <1>5, <1>6, <2>1, <3>1 DEF Turned, Same
    <3> QED BY <1>1, <1>5, <1>8, <1>9, <2>2, <3>2 DEF Resolved
  <2>3. CASE ~Moves(s)
    <3>1. Same(w, v, s) BY <1>5, <1>6, <2>1, <2>3 DEF Same
    <3> QED BY <1>1, <1>5, <1>7, <1>8, <1>9, <1>14, <2>3, <3>1 DEF Resolved
  <2> QED BY <2>2, <2>3
<1> QED BY <1>13, <1>14

\* What the launch of a new attempt makes of a stage.
Launched(w, v, s) ==
  /\ v.inst[s].status = w.inst[s].status /\ v.inst[s].why = w.inst[s].why /\ v.inst[s].live
  /\ v.inst[s].no = w.inst[s].no + 1 /\ v.inst[s].mode = ModeFor(w.inst[s])
  /\ v.frames[s] = w.frames[s] /\ v.owed[s] = w.owed[s]
  /\ LaunchesOf(w, s) = {} =>
       LaunchesOf(v, s) = {[st |-> s, no |-> w.inst[s].no + 1, tracked |-> TRUE]}

LEMMA LaunchAt ==
  ASSUME NEW w \in WorldType, NEW A \in SUBSET Stages, NEW s \in Stages
  PROVE  LET v == Accounted(Launch(w, A))
         IN  /\ v.run.status \in RunLive /\ v.run.over = w.run.over
             /\ s \notin A => Same(w, v, s)
             /\ s \in A => Launched(w, v, s)
<1> DEFINE l == Launch(w, A)
           v == Accounted(l)
           Old == {IF x.st \in A THEN [x EXCEPT !.tracked = FALSE] ELSE x : x \in w.launches}
           New == {[st |-> x, no |-> w.inst[x].no + 1, tracked |-> TRUE] : x \in A}
           row == [w.inst[s] EXCEPT !.no = w.inst[s].no + 1, !.live = TRUE, !.mode = ModeFor(w.inst[s])]
<1>1. /\ l.run = w.run /\ l.frames = w.frames /\ l.owed = w.owed
      /\ l.launches = Old \cup New
      /\ l.inst[s] = IF s \in A THEN row ELSE w.inst[s]
  BY DEF Launch, WorldType
<1>2. w.inst[s] \in InstanceType BY WorldParts
<1>3. /\ row.status = w.inst[s].status /\ row.why = w.inst[s].why /\ row.live
      /\ row.no = w.inst[s].no + 1 /\ row.mode = ModeFor(w.inst[s])
  BY <1>2 DEF InstanceType
<1>4. \A x \in w.launches : x.st = [x EXCEPT !.tracked = FALSE].st
  <2>1. \A x \in w.launches : x \in LaunchType BY WorldParts
  <2> QED BY <2>1 DEF LaunchType
<1>5. s \notin A => LaunchesOf(l, s) = LaunchesOf(w, s)
  <2> SUFFICES ASSUME s \notin A, NEW x PROVE x \in LaunchesOf(l, s) <=> x \in LaunchesOf(w, s)
    OBVIOUS
  <2>1. x \in New => x.st # s OBVIOUS
  <2>2. x \in Old /\ x.st = s => x \in w.launches BY <1>4
  <2>3. x \in w.launches /\ x.st = s => x \in Old OBVIOUS
  <2> HIDE DEF Old, New
  <2> QED BY <1>1, <2>1, <2>2, <2>3 DEF LaunchesOf
<1>6. s \in A /\ LaunchesOf(w, s) = {} =>
        LaunchesOf(l, s) = {[st |-> s, no |-> w.inst[s].no + 1, tracked |-> TRUE]}
  <2> DEFINE mine == [st |-> s, no |-> w.inst[s].no + 1, tracked |-> TRUE]
  <2> SUFFICES ASSUME s \in A, LaunchesOf(w, s) = {}, NEW x
               PROVE  x \in LaunchesOf(l, s) <=> x = mine
    OBVIOUS
  <2>1. x \in New /\ x.st = s => x = mine OBVIOUS
  <2>2. mine \in New /\ mine.st = s OBVIOUS
  <2>3. x \in Old => x.st # s BY <1>4 DEF LaunchesOf
  <2> HIDE DEF Old, New, mine
  <2> QED BY <1>1, <2>1, <2>2, <2>3 DEF LaunchesOf
<1> HIDE DEF Old, New, row
<1>7. l \in WorldType BY LaunchIsTyped
<1> HIDE DEF l
<1>8. Alike(l, v) /\ v.run.status \in RunLive /\ v.run.over = l.run.over
  BY <1>7 DEF Accounted, WorldType, RunType, Alike, RunLive
<1>9. LaunchesOf(v, s) = LaunchesOf(l, s) BY <1>8 DEF Alike, LaunchesOf
<1> HIDE DEF v
<1>10. s \notin A => Same(w, v, s) BY <1>1, <1>5, <1>8, <1>9 DEF Same, Alike
<1>11. s \in A => Launched(w, v, s) BY <1>1, <1>3, <1>6, <1>8, <1>9 DEF Launched, Alike
<1> QED BY <1>1, <1>8, <1>10, <1>11 DEF v, l

-----------------------------------------------------------------------------
(* What holds of a stage.                                                       *)

WorksIn(w, s) == w.frames[s].at # None /\ ~w.frames[s].stop

\* A launch of s that Claim would make the frame of its attempt.
Due(w, l, s) ==
  /\ w.inst[s].status = "ready" /\ w.inst[s].live /\ l.no = w.inst[s].no
  /\ w.frames[s].at # None => w.frames[s].no < w.inst[s].no

\* The row of a stage, its frame and its launches fit together.
Matched(w, s) ==
  LET i == w.inst[s]
      f == w.frames[s]
  IN  /\ i.live => i.status \notin {"absent", "pending", "retry_wait"}
      /\ i.status \in Attempt => i.live
      /\ i.status = "paused" /\ i.why.phase = "retry_wait" => ~i.live
      /\ f.at # None => f.no <= i.no
      /\ WorksIn(w, s) => /\ i.live /\ f.no = i.no /\ i.status \in Attempt \cup {"awaiting_input"}
                          /\ f.at # "work" => i.status = "awaiting_input"
      /\ \A l \in LaunchesOf(w, s) : l.tracked /\ (i.status \in TerminalStage \/ Due(w, l, s))

\* A stage in an attempt state is worked on.
Manned(w, s) == w.inst[s].status \in Attempt => WorksIn(w, s)

\* Nobody works for the stage, and nobody will.
Off(w, s) ==
  LET i == w.inst[s]
      f == w.frames[s]
  IN  /\ i.status \notin Attempt
      /\ i.live => i.status \notin {"absent", "pending", "retry_wait"}
      /\ i.status = "paused" /\ i.why.phase = "retry_wait" => ~i.live
      /\ f.at # None => f.stop /\ f.no <= i.no
      /\ \A l \in LaunchesOf(w, s) : l.tracked /\ i.status \in TerminalStage

\* The stage is as the snapshot has it, or was cancelled since.
AtRest(w, s, was) ==
  LET i == w.inst[s]
  IN  /\ w.frames[s].at = None /\ LaunchesOf(w, s) = {} /\ i.no = was.no
      /\ (i.status = was.status /\ i.live) \/ i.status = "cancelled"

\* A launch of the stage waits.
Queued(w, s) == LaunchesOf(w, s) # {} /\ w.inst[s].status = "ready"

\* The stage has the conversation of its session group, or will have it.
Has(w, s) == Queued(w, s) \/ w.inst[s].status \in Attempt \cup {"awaiting_input"}

\* A retry that was granted and not started yet is still known, in its mode.
Remembered(w, s) ==
  LET i == w.inst[s]
      mode == w.owed[s]
  IN  mode # None =>
        \/ i.status \in TerminalStage
        \/ /\ i.status \in {"ready", "retry_wait"} /\ i.why.base = "retry" /\ i.why.mode = mode
           /\ Queued(w, s) => i.mode = mode
        \/ /\ i.status = "paused" /\ i.why.base \in {"run_paused", "user_paused"}
           /\ i.why.phase # None /\ i.why.mode = mode

LegalStage(from, to) == from = to \/ <<from, to>> \in StageRows

\* A stage starts from a launch that waited.
Starts(w, v, s) ==
  w.inst[s].status = "ready" /\ v.inst[s].status = "starting" => Queued(w, s)

\* The stage was ready once: its attempts are counted, or its status tells.
Begun(w, s) ==
  w.inst[s].no > 0 \/ w.inst[s].status \notin TerminalStage \cup {"absent", "pending"}

\* What a handler may make of a stage.
Goes(w, v, s) ==
  /\ Matched(v, s) /\ Manned(v, s)
  /\ LegalStage(w.inst[s].status, v.inst[s].status) /\ Starts(w, v, s)
  /\ Begun(v, s) => Begun(w, s)
  /\ IsUp => /\ Has(v, s) => Has(w, s)
             /\ Queued(v, s) => Queued(w, s)
             /\ Remembered(w, s) => Remembered(v, s)

LEMMA StagePartTypes ==
  ASSUME NEW w \in WorldType, NEW s \in Stages
  PROVE  /\ w.inst[s] \in InstanceType /\ w.inst[s].status \in StageState /\ w.inst[s].no \in Nat
         /\ w.inst[s].live \in BOOLEAN /\ w.inst[s].why \in Reason
         /\ w.frames[s] \in FrameType /\ w.frames[s].no \in Nat /\ w.frames[s].stop \in BOOLEAN
         /\ w.owed[s] \in RetryMode \cup {None}
         /\ \A l \in LaunchesOf(w, s) : l \in LaunchType /\ l.no \in Nat
<1>1. w.inst[s] \in InstanceType /\ w.frames[s] \in FrameType /\ w.owed[s] \in RetryMode \cup {None}
  BY WorldParts
<1>2. \A l \in w.launches : l \in LaunchType BY WorldParts
<1> QED BY <1>1, <1>2, InstanceParts DEF FrameType, LaunchType, LaunchesOf

LEMMA SameParts ==
  ASSUME NEW w, NEW v, NEW s, Same(w, v, s)
  PROVE  /\ Matched(w, s) = Matched(v, s) /\ Manned(w, s) = Manned(v, s)
         /\ Has(w, s) = Has(v, s) /\ Queued(w, s) = Queued(v, s)
         /\ Remembered(w, s) = Remembered(v, s) /\ Off(w, s) = Off(v, s)
         /\ \A was : AtRest(w, s, was) = AtRest(v, s, was)
<1>1. WorksIn(w, s) = WorksIn(v, s) /\ \A l : Due(w, l, s) = Due(v, l, s) BY DEF Same, WorksIn, Due
<1>2. Queued(w, s) = Queued(v, s) BY DEF Same, Queued
<1> QED BY <1>1, <1>2 DEF Same, Matched, Manned, Has, Remembered, Off, AtRest

LEMMA OffParts ==
  ASSUME NEW w, NEW s, Off(w, s)
  PROVE  /\ Matched(w, s) /\ Manned(w, s) /\ ~Queued(w, s)
         /\ Has(w, s) => w.inst[s].status = "awaiting_input"
<1>1. ~WorksIn(w, s) BY DEF Off, WorksIn
<1>2. "ready" \notin TerminalStage BY DEF TerminalStage
<1> QED BY <1>1, <1>2 DEF Off, Matched, Manned, Queued, Has

LEMMA SameGoes ==
  ASSUME NEW w, NEW v, NEW s, Matched(w, s), Manned(w, s), Same(w, v, s) PROVE Goes(w, v, s)
<1>1. v.inst[s] = w.inst[s] BY DEF Same
<1> QED BY <1>1, SameParts DEF Goes, LegalStage, Starts, Begun

LEMMA BegunKept ==
  ASSUME NEW w, NEW v, NEW s, v.inst[s].no = w.inst[s].no,
         \/ w.inst[s].status \notin TerminalStage \cup {"absent", "pending"}
         \/ v.inst[s].status \in TerminalStage \cup {"absent", "pending"}
  PROVE  Begun(v, s) => Begun(w, s)
BY DEF Begun

LEMMA OffGoes ==
  ASSUME NEW w, NEW v, NEW s, Off(v, s), LegalStage(w.inst[s].status, v.inst[s].status),
         v.inst[s].status = "awaiting_input" => w.inst[s].status = "awaiting_input",
         Begun(v, s) => Begun(w, s), IsUp /\ Remembered(w, s) => Remembered(v, s)
  PROVE  Goes(w, v, s)
<1>1. v.inst[s].status # "starting" BY DEF Off, Attempt
<1> QED BY <1>1, OffParts DEF Goes, Starts, Has

LEMMA StoppedOff ==
  ASSUME NEW w \in WorldType, NEW v \in WorldType, NEW s \in Stages, Matched(w, s),
         NEW to \in {"paused"} \cup TerminalStage, NEW why, Stopped(w, v, s, to, why),
         to = "paused" => w.inst[s].status \notin TerminalStage,
         to = "paused" /\ why.phase = "retry_wait" => w.inst[s].status = "retry_wait"
  PROVE  Off(v, s)
<1> DEFINE i == w.inst[s]
           j == v.inst[s]
           f == w.frames[s]
           g == v.frames[s]
<1>1. /\ i.live \in BOOLEAN /\ i.no \in Nat /\ f.stop \in BOOLEAN /\ g.stop \in BOOLEAN
  BY StagePartTypes
<1>2. j.status = to /\ j.why = why /\ j.no = i.no /\ j.live = (i.live /\ i.status # "ready")
  BY DEF Stopped
<1>3. to \notin Attempt /\ to \notin {"absent", "pending", "retry_wait"} BY DEF Attempt, TerminalStage
<1>4. i.live => Aborted(w, v, s) BY DEF Stopped
<1>5. ~i.live => g = f /\ LaunchesOf(v, s) = LaunchesOf(w, s) BY DEF Stopped
<1>6. "ready" \notin TerminalStage /\ (Attempt \cup {"awaiting_input"}) \cap (TerminalStage \cup {"ready"}) = {}
  BY DEF TerminalStage, Attempt
<1>7. /\ i.live => i.status \notin {"absent", "pending", "retry_wait"}
      /\ f.at # None => f.no <= i.no
      /\ f.at # None /\ ~f.stop => i.live /\ f.no = i.no /\ i.status \in Attempt \cup {"awaiting_input"}
      /\ \A l \in LaunchesOf(w, s) :
           l.tracked /\ (i.status \in TerminalStage \/ (i.status = "ready" /\ i.live /\ l.no = i.no))
  BY DEF Matched, WorksIn, Due
<1>8. g.at # None => g.stop /\ g.no <= j.no
  <2>1. CASE ~i.live BY <1>1, <1>2, <1>5, <1>7, <2>1
  <2>2. CASE i.live
    <3>1. g.at = f.at /\ g.no = f.no /\ (f.stop => g.stop) BY <1>4, <2>2 DEF Aborted
    <3>2. CASE f.stop BY <1>1, <1>2, <1>7, <3>1, <3>2
    <3>3. CASE f.at # None /\ ~f.stop
      <4>1. LaunchesOf(w, s) = {} BY <1>6, <1>7, <3>3
      <4>2. g.stop BY <1>4, <1>7, <2>2, <3>3, <4>1 DEF Aborted
      <4> QED BY <1>2, <1>7, <3>1, <4>2
    <3> QED BY <3>1, <3>2, <3>3
  <2> QED BY <2>1, <2>2
<1>9. \A l \in LaunchesOf(v, s) : l.tracked /\ i.status \in TerminalStage
  <2>1. CASE ~i.live BY <1>5, <1>7, <2>1
  <2>2. CASE i.live BY <1>4, <1>7, <2>2 DEF Aborted
  <2> QED BY <2>1, <2>2
<1>10. j.status = "paused" /\ j.why.phase = "retry_wait" => ~j.live BY <1>2, <1>7
<1> QED BY <1>2, <1>3, <1>7, <1>8, <1>9, <1>10 DEF Off

\* A stage that ends is off ...
LEMMA EndedGoes ==
  ASSUME NEW w \in WorldType, NEW v \in WorldType, NEW s \in Stages, Matched(w, s),
         NEW to \in TerminalStage, NEW why, Stopped(w, v, s, to, why)
  PROVE  /\ Off(v, s) /\ Remembered(v, s)
         /\ LegalStage(w.inst[s].status, to) => Goes(w, v, s)
<1>1. to # "paused" /\ to # "awaiting_input" BY DEF TerminalStage
<1>2. v.inst[s].status = to BY DEF Stopped
<1>3. Off(v, s) BY <1>1, StoppedOff
<1>4. Remembered(v, s) BY <1>2 DEF Remembered
<1>5. Begun(v, s) => Begun(w, s) BY <1>2, BegunKept DEF Stopped
<1> QED BY <1>1, <1>2, <1>3, <1>4, <1>5, OffGoes

LEMMA PausedRemembers ==
  ASSUME NEW w \in WorldType, NEW v \in WorldType, NEW s \in Stages, Remembered(w, s),
         NEW base \in {"run_paused", "user_paused"},
         w.inst[s].status \in {"ready", "retry_wait"} \cup Attempt,
         Stopped(w, v, s, "paused", PauseReason(w.inst[s], base))
  PROVE  Remembered(v, s)
<1> DEFINE i == w.inst[s]
           why == PauseReason(i, base)
<1>1. v.inst[s].status = "paused" /\ v.inst[s].why = why /\ v.owed[s] = w.owed[s] BY DEF Stopped
<1>2. w.owed[s] # None => i.status \in {"ready", "retry_wait"} /\ i.why.base = "retry"
                          /\ i.why.mode = w.owed[s]
  BY DEF Remembered, Attempt, TerminalStage
<1>3. i.status \in {"ready", "retry_wait"} /\ i.why.base = "retry" =>
        why.base = base /\ why.mode = i.why.mode /\ why.phase # None
  BY DEF PauseReason, None
<1> HIDE DEF why
<1> QED BY <1>1, <1>2, <1>3 DEF Remembered

\* ... and so is one that pauses.
LEMMA PausedGoes ==
  ASSUME NEW w \in WorldType, NEW v \in WorldType, NEW s \in Stages, Matched(w, s),
         NEW base \in {"run_paused", "user_paused"},
         w.inst[s].status \in {"ready", "retry_wait"} \cup Attempt,
         Stopped(w, v, s, "paused", PauseReason(w.inst[s], base))
  PROVE  Off(v, s) /\ (Remembered(w, s) => Remembered(v, s)) /\ Goes(w, v, s)
<1>1. w.inst[s].status \notin TerminalStage BY DEF TerminalStage, Attempt
<1>2. w.inst[s] \in InstanceType BY WorldParts
<1>3. Off(v, s) BY <1>1, <1>2, PauseReasonPhase, StoppedOff
<1>4. Remembered(w, s) => Remembered(v, s) BY PausedRemembers
<1>5. v.inst[s].status = "paused" BY DEF Stopped
<1>6. LegalStage(w.inst[s].status, "paused") BY DEF LegalStage, StageRows
<1>7. w.inst[s].status \notin TerminalStage \cup {"absent", "pending"} BY <1>1 DEF Attempt
<1>8. Begun(v, s) => Begun(w, s) BY <1>7, BegunKept DEF Stopped
<1> QED BY <1>3, <1>4, <1>5, <1>6, <1>8, OffGoes

\* A paused stage has no frame at work and no launch; a resume leaves it so.
LEMMA PausedOff ==
  ASSUME NEW w \in WorldType, NEW s \in Stages, Matched(w, s),
         w.inst[s].status \in {"absent", "pending", "retry_wait", "paused"}
  PROVE  Off(w, s) /\ LaunchesOf(w, s) = {}
<1>1. w.inst[s].status \notin Attempt \cup TerminalStage \cup {"ready", "awaiting_input"}
  BY DEF Attempt, TerminalStage
<1>2. ~WorksIn(w, s) /\ LaunchesOf(w, s) = {} BY <1>1 DEF Matched, Due
<1>3. w.frames[s].stop \in BOOLEAN BY StagePartTypes
<1> QED BY <1>1, <1>2, <1>3 DEF Off, Matched, WorksIn

LEMMA UnpausedGoes ==
  ASSUME NEW w \in WorldType, NEW v \in WorldType, NEW s \in Stages, Matched(w, s), NEW base,
         w.inst[s].status = "paused", Unpaused(w, v, s, base),
         base = IF w.inst[s].why.base = "run_paused" THEN "run_paused" ELSE "user_paused"
  PROVE  Goes(w, v, s)
<1> DEFINE i == w.inst[s]
           j == v.inst[s]
           kept == IF i.why.base = base THEN i.why.phase ELSE None
<1>1. Off(w, s) /\ LaunchesOf(w, s) = {} BY PausedOff
<1>2. /\ j.status = IF kept = "retry_wait" THEN "retry_wait" ELSE "ready"
      /\ j.why = IF kept = None THEN Because("resume") ELSE RetryIn(i.why.mode)
      /\ j.live = i.live /\ j.no = i.no /\ v.frames[s] = w.frames[s]
      /\ LaunchesOf(v, s) = {} /\ v.owed[s] = w.owed[s]
  BY <1>1 DEF Unpaused
<1>3. kept = "retry_wait" => ~i.live BY DEF Matched, None
<1>4. ~Queued(v, s) BY <1>2 DEF Queued
<1>5. Remembered(w, s) => Remembered(v, s)
  <2> SUFFICES ASSUME Remembered(w, s), w.owed[s] # None PROVE Remembered(v, s)
    BY <1>2 DEF Remembered
  <2>1. /\ i.why.base \in {"run_paused", "user_paused"} /\ i.why.phase # None
        /\ i.why.mode = w.owed[s]
    BY DEF Remembered, TerminalStage
  <2>2. kept # None BY <2>1
  <2>3. j.why.base = "retry" /\ j.why.mode = w.owed[s] BY <1>2, <2>1, <2>2 DEF RetryIn
  <2> HIDE DEF kept
  <2> QED BY <1>2, <1>4, <2>3 DEF Remembered
<1>6. Off(v, s)
  <2> HIDE DEF kept
  <2> QED BY <1>1, <1>2, <1>3 DEF Off, Attempt
<1>7. LegalStage(i.status, j.status)
  <2> HIDE DEF kept
  <2> QED BY <1>2 DEF LegalStage, StageRows
<1>8. j.status # "awaiting_input"
  <2> HIDE DEF kept
  <2> QED BY <1>2
<1> HIDE DEF kept
<1>9. Begun(v, s) => Begun(w, s) BY <1>2, BegunKept DEF TerminalStage
<1> QED BY <1>5, <1>6, <1>7, <1>8, <1>9, OffGoes

LEMMA RowOff ==
  ASSUME NEW w, NEW v, NEW s, Off(w, s), LaunchesOf(w, s) = {},
         v.frames[s] = w.frames[s], LaunchesOf(v, s) = LaunchesOf(w, s),
         v.inst[s].live = w.inst[s].live, v.inst[s].no = w.inst[s].no,
         v.inst[s].status \in {"ready", "failed"}
  PROVE  Off(v, s)
BY DEF Off, Attempt

\* What the message about the end of an attempt, or of its frame, makes of a stage
\* with a live attempt.
Reported(w, v, s) ==
  LET i == w.inst[s]
      j == v.inst[s]
  IN  /\ v.run = w.run /\ \A x \in Stages : x # s => Same(w, v, x)
      /\ v.frames[s] = w.frames[s] /\ LaunchesOf(v, s) = LaunchesOf(w, s)
      /\ ~j.live /\ j.no = i.no /\ j.mode = i.mode
      /\ \/ i.status \in Attempt /\ Failed(w, v, s)
         \/ i.status = "validating" /\ j.status = "completed" /\ v.owed[s] = w.owed[s]
         \/ i.status = "awaiting_input" /\ j.status = "paused" /\ v.owed[s] = w.owed[s]
              /\ j.why = Because("stopped")
         \/ i.status \notin Attempt /\ j.status = i.status /\ j.why = i.why /\ v.owed[s] = w.owed[s]

LEMMA SettledReported ==
  ASSUME NEW w \in WorldType, NEW s \in Stages
  PROVE  /\ w.inst[s].status \notin Attempt => Reported(w, Settled(w, s, FALSE), s)
         /\ w.inst[s].status = "validating" => Reported(w, Completes(Settled(w, s, FALSE), s), s)
         /\ w.inst[s].status \in Attempt \cup {"awaiting_input"} =>
              Reported(w, Halt(Settled(w, s, FALSE), s), s)
<1> DEFINE p == Settled(w, s, FALSE)
<1>1. p \in WorldType /\ Row(w, p, s, w.inst[s].status, w.inst[s].why, FALSE)
  BY SettledType, SettledAt
<1> HIDE DEF p
<1>2. p.inst[s].live = FALSE BY <1>1 DEF Row
<1>3. Row(p, Completes(p, s), s, "completed", Because(None), FALSE)
  BY <1>1, <1>2, RowAt DEF Row
<1>4. Row(p, Halt(p, s), s, "paused", Because("stopped"), FALSE)
  BY <1>1, <1>2, RowAt DEF Row
<1>5. Row(w, Completes(p, s), s, "completed", Because(None), FALSE)
  BY <1>1, <1>3 DEF Row, RowOnly
<1>6. Row(w, Halt(p, s), s, "paused", Because("stopped"), FALSE)
  BY <1>1, <1>4 DEF Row, RowOnly
<1>7. ASSUME NEW v, NEW status, NEW why, Row(w, v, s, status, why, FALSE)
      PROVE  /\ v.run = w.run /\ \A x \in Stages : x # s => Same(w, v, x)
             /\ v.frames[s] = w.frames[s] /\ LaunchesOf(v, s) = LaunchesOf(w, s)
             /\ ~v.inst[s].live /\ v.inst[s].no = w.inst[s].no /\ v.inst[s].mode = w.inst[s].mode
             /\ v.inst[s].status = status /\ v.inst[s].why = why /\ v.owed[s] = w.owed[s]
  BY <1>7, RowOnlySame DEF Row
<1>8. w.inst[s].status \notin Attempt => Reported(w, p, s)
  BY <1>1, RowOnlySame DEF Row, Reported
<1>9. w.inst[s].status = "validating" => Reported(w, Completes(p, s), s) BY <1>5, <1>7 DEF Reported
<1>10. Failed(w, Halt(p, s), s) BY <1>6, RowFailed
<1>11. w.inst[s].status \in Attempt \cup {"awaiting_input"} => Reported(w, Halt(p, s), s)
  BY <1>6, <1>10, RowOnlySame DEF Row, Reported
<1> QED
  <2> HIDE DEF Reported
  <2> QED BY <1>8, <1>9, <1>11 DEF p

LEMMA OnAttemptSettledAt ==
  ASSUME NEW w \in WorldType, NEW s \in Stages, NEW no, NEW ending
  PROVE  LET v == OnAttemptSettled(w, s, no, ending)
         IN  IF no # w.inst[s].no \/ ~w.inst[s].live THEN v = w ELSE Reported(w, v, s)
<1> DEFINE v == OnAttemptSettled(w, s, no, ending)
           Live == no = w.inst[s].no /\ w.inst[s].live
<1>1. ~Live => v = w BY DEF OnAttemptSettled
<1>2. Live /\ w.inst[s].status \notin Attempt => v = Settled(w, s, FALSE) BY DEF OnAttemptSettled
<1>3. ASSUME Live, w.inst[s].status \in Attempt
      PROVE  \/ w.inst[s].status = "validating" /\ v = Completes(Settled(w, s, FALSE), s)
             \/ v = Halt(Settled(w, s, FALSE), s)
             \/ \E counted \in BOOLEAN, class \in {"repairable", "fatal", ending} :
                  v = ApplyFailure(Settled(w, s, counted), s, class)
  <2>1. ending = "succeeded" /\ w.inst[s].status = "validating" =>
          v = Completes(Settled(w, s, FALSE), s)
    BY <1>3 DEF OnAttemptSettled
  <2>2. ending = "succeeded" /\ w.inst[s].status # "validating" =>
          v = ApplyFailure(Settled(w, s, TRUE), s, "repairable")
    BY <1>3 DEF OnAttemptSettled
  <2>3. ending = "aborted" => v = Halt(Settled(w, s, FALSE), s) BY <1>3 DEF OnAttemptSettled
  <2>4. ending = "budget" => v = ApplyFailure(Settled(w, s, FALSE), s, "fatal")
    BY <1>3 DEF OnAttemptSettled
  <2>5. ending \notin {"succeeded", "aborted", "budget"} =>
          v = ApplyFailure(Settled(w, s, TRUE), s, ending)
    BY <1>3 DEF OnAttemptSettled
  <2> HIDE DEF v
  <2> QED BY <2>1, <2>2, <2>3, <2>4, <2>5
<1> HIDE DEF v
<1>4. ASSUME w.inst[s].status \in Attempt, NEW counted \in BOOLEAN, NEW class
      PROVE  Reported(w, ApplyFailure(Settled(w, s, counted), s, class), s)
  <2>1. w.inst[s].status # "ready" BY <1>4 DEF Attempt
  <2>2. Failed(w, ApplyFailure(Settled(w, s, counted), s, class), s) BY <2>1, SettledFailureAt
  <2> QED BY <1>4, <2>2 DEF Reported, Failed
<1>5. CASE ~Live BY <1>1, <1>5 DEF v
<1>6. CASE Live /\ w.inst[s].status \notin Attempt BY <1>2, <1>6, SettledReported DEF v
<1>7. CASE Live /\ w.inst[s].status \in Attempt
  <2>1. Reported(w, v, s) BY <1>3, <1>4, <1>7, SettledReported
  <2> QED BY <1>7, <2>1 DEF v
<1> QED BY <1>5, <1>6, <1>7

LEMMA OnFrameLostAt ==
  ASSUME NEW w \in WorldType, NEW s \in Stages, NEW no
  PROVE  LET v == OnFrameLost(w, s, no)
         IN  IF no # w.inst[s].no \/ ~w.inst[s].live \/ w.inst[s].status # "awaiting_input"
               THEN v = w ELSE Reported(w, v, s)
<1>1. "awaiting_input" \notin Attempt BY DEF Attempt
<1> QED BY <1>1, SettledReported DEF OnFrameLost

\* The stage is off then, if its frame and its launches were.
LEMMA ReportedOff ==
  ASSUME NEW w \in WorldType, NEW v, NEW s \in Stages, Reported(w, v, s),
         w.frames[s].at # None => w.frames[s].stop /\ w.frames[s].no <= w.inst[s].no,
         \A l \in LaunchesOf(w, s) : l.tracked /\ w.inst[s].status \in TerminalStage
  PROVE  /\ Off(v, s) /\ LegalStage(w.inst[s].status, v.inst[s].status)
         /\ v.inst[s].status = "awaiting_input" => w.inst[s].status = "awaiting_input"
         /\ (Remembered(w, s) => Remembered(v, s)) /\ (Begun(v, s) => Begun(w, s))
<1> DEFINE i == w.inst[s]
           j == v.inst[s]
<1>1. Attempt \cap (TerminalStage \cup {"awaiting_input"}) = {} /\ "awaiting_input" \notin TerminalStage
  BY DEF Attempt, TerminalStage
<1>2. Failed(w, v, s) => j.status \in {"failed", "paused", "retry_wait"} BY DEF Failed
<1>3. j.status \notin Attempt /\ (i.status \in TerminalStage => j.status = i.status)
  BY <1>1, <1>2 DEF Reported, Attempt
<1>4. Off(v, s) BY <1>3 DEF Off, Reported
<1>5. LegalStage(i.status, j.status) BY <1>2 DEF Reported, LegalStage, StageRows
<1>6. j.status = "awaiting_input" => i.status = "awaiting_input" BY <1>2 DEF Reported
<1>7. ASSUME Remembered(w, s) PROVE Remembered(v, s)
  <2>1. ~Queued(v, s) BY <1>4, OffParts
  <2>2. i.status \in Attempt \cup {"awaiting_input"} => w.owed[s] = None
    BY <1>7 DEF Remembered, Attempt, TerminalStage
  <2>3. CASE i.status \in Attempt /\ Failed(w, v, s)
    <3>1. j.status = "failed" => Remembered(v, s) BY DEF Remembered, TerminalStage
    <3>2. v.owed[s] = None => Remembered(v, s) BY DEF Remembered
    <3>3. v.owed[s] \in RetryMode /\ j.status = "retry_wait" /\ j.why = RetryIn(v.owed[s])
            => Remembered(v, s)
      BY <2>1 DEF Remembered, RetryIn
    <3>4. j.status = "paused" /\ j.why = [base |-> "run_paused", phase |-> "retry_wait", mode |-> v.owed[s]]
            => Remembered(v, s)
      BY DEF Remembered, None
    <3> QED BY <2>2, <2>3, <3>1, <3>2, <3>3, <3>4 DEF Failed
  <2>4. CASE v.owed[s] = None BY <2>4 DEF Remembered
  <2>5. CASE i.status \notin Attempt /\ j.status = i.status /\ j.why = i.why /\ v.owed[s] = w.owed[s]
    BY <1>7, <2>1, <2>5 DEF Remembered
  <2>6. CASE i.status = "validating" /\ v.owed[s] = w.owed[s] BY <2>2, <2>4, <2>6 DEF Attempt
  <2> QED BY <2>2, <2>3, <2>4, <2>5, <2>6 DEF Reported
<1>8. j.no = i.no BY DEF Reported
<1>9. i.status \in Attempt \cup {"awaiting_input"} \/ j.status = i.status BY DEF Reported, Attempt
<1>10. Begun(v, s) => Begun(w, s) BY <1>8, <1>9, BegunKept DEF Begun, Attempt, TerminalStage
<1> QED BY <1>4, <1>5, <1>6, <1>7, <1>10

-----------------------------------------------------------------------------
(* What settling makes of a stage.                                              *)

Settling(from, to) ==
  \/ from = to
  \/ from \in {"absent", "pending"}
       /\ to \in {"pending", "ready", "skipped", "failed", "cancelled", "paused"}
  \/ from \notin TerminalStage /\ to = "cancelled"
  \/ from \in {"ready", "retry_wait"} /\ to = "paused"

Passes(w, v, s) ==
  /\ Matched(v, s) /\ (Manned(w, s) => Manned(v, s))
  /\ Settling(w.inst[s].status, v.inst[s].status)
  /\ v.inst[s].status \in Attempt \cup {"awaiting_input"} => v.inst[s].status = w.inst[s].status
  /\ Remembered(w, s) => Remembered(v, s)

\* It does not get hold of the conversation of its group.
Lets(w, v, s) == (Has(v, s) => Has(w, s)) /\ (Queued(v, s) => Queued(w, s))

Rests(w, v, s) == \A was : AtRest(w, s, was) => AtRest(v, s, was)

LEMMA SettlingTrans ==
  ASSUME NEW a, NEW b, NEW c, Settling(a, b), Settling(b, c) PROVE Settling(a, c)
BY DEF Settling, TerminalStage

LEMMA PassesTrans ==
  ASSUME NEW u, NEW v, NEW w, NEW s
  PROVE  /\ Passes(u, v, s) /\ Passes(v, w, s) => Passes(u, w, s)
         /\ Lets(u, v, s) /\ Lets(v, w, s) => Lets(u, w, s)
         /\ Rests(u, v, s) /\ Rests(v, w, s) => Rests(u, w, s)
BY SettlingTrans DEF Passes, Lets, Rests

LEMMA SamePasses ==
  ASSUME NEW w, NEW v, NEW s, Same(w, v, s)
  PROVE  (Matched(w, s) => Passes(w, v, s)) /\ Lets(w, v, s) /\ Rests(w, v, s)
<1>1. v.inst[s] = w.inst[s] BY DEF Same
<1> QED BY <1>1, SameParts DEF Passes, Lets, Rests, Settling

LEMMA OffPasses ==
  ASSUME NEW w, NEW v, NEW s, Off(v, s), Settling(w.inst[s].status, v.inst[s].status),
         v.inst[s].status # "awaiting_input", Remembered(w, s) => Remembered(v, s)
  PROVE  Passes(w, v, s) /\ Lets(w, v, s)
<1>1. v.inst[s].status \notin Attempt BY DEF Off
<1> QED BY <1>1, OffParts DEF Passes, Lets

LEMMA TurnedPasses ==
  ASSUME NEW w \in WorldType, NEW v \in WorldType, NEW s \in Stages, Matched(w, s),
         w.inst[s].status \in {"absent", "pending"},
         NEW to \in {"pending", "ready", "skipped", "failed"}, NEW why, Turned(w, v, s, to, why)
  PROVE  Passes(w, v, s) /\ Lets(w, v, s) /\ Rests(w, v, s)
<1>1. Off(w, s) /\ LaunchesOf(w, s) = {} BY PausedOff
<1>2. /\ v.inst[s].status = to /\ v.inst[s].live = w.inst[s].live /\ v.inst[s].no = w.inst[s].no
      /\ v.frames[s] = w.frames[s] /\ LaunchesOf(v, s) = {} /\ v.owed[s] = w.owed[s]
  BY <1>1 DEF Turned
<1>3. ~w.inst[s].live BY DEF Matched
<1>4. Off(v, s) BY <1>1, <1>2, <1>3 DEF Off, Attempt
<1>5. Remembered(w, s) => v.owed[s] = None BY <1>2 DEF Remembered, TerminalStage
<1>6. Remembered(w, s) => Remembered(v, s) BY <1>5 DEF Remembered
<1>7. Settling(w.inst[s].status, v.inst[s].status) BY <1>2 DEF Settling
<1>8. Rests(w, v, s) BY <1>3 DEF Rests, AtRest
<1> QED BY <1>2, <1>4, <1>6, <1>7, <1>8, OffPasses

LEMMA CancelledRests ==
  ASSUME NEW w, NEW v, NEW s, NEW why, Stopped(w, v, s, "cancelled", why) PROVE Rests(w, v, s)
<1> SUFFICES ASSUME NEW was, AtRest(w, s, was) PROVE AtRest(v, s, was) BY DEF Rests
<1>1. w.frames[s].at = None /\ LaunchesOf(w, s) = {} BY DEF AtRest
<1>2. v.frames[s].at = None /\ LaunchesOf(v, s) = {} BY <1>1 DEF Stopped, Aborted
<1> QED BY <1>2 DEF Stopped, AtRest

LEMMA RootedPasses ==
  ASSUME NEW w \in WorldType, NEW s \in Stages, Matched(w, s)
  PROVE  LET v == Rooted(w)
         IN  /\ v \in WorldType /\ v.run = w.run
             /\ Passes(w, v, s) /\ Lets(w, v, s) /\ Rests(w, v, s)
             /\ v.inst[s].status = IF w.inst[s].status = "absent" THEN "pending" ELSE w.inst[s].status
<1> DEFINE v == Rooted(w)
<1>1. /\ v \in WorldType /\ v.run = w.run
      /\ w.inst[s].status # "absent" => Same(w, v, s)
      /\ w.inst[s].status = "absent" => Turned(w, v, s, "pending", w.inst[s].why)
  BY RootedType, RootedAt
<1> HIDE DEF v
<1>2. CASE w.inst[s].status = "absent" BY <1>1, <1>2, TurnedPasses DEF Turned, v
<1>3. CASE w.inst[s].status # "absent" BY <1>1, <1>3, SamePasses DEF Same, v
<1> QED BY <1>2, <1>3

\* Only pending stages and losers move in a pass, and a loser has not ended.
LEMMA ResolutionMoves ==
  ASSUME NEW st \in [Stages -> StageState], NEW as, NEW res \in Resolutions(st, as), NEW s \in Stages
  PROVE  /\ st[s] = "pending" => res[s] \in {"pending", "ready", "skipped", "failed", "cancelled"}
         /\ st[s] # "pending" => res[s] = st[s] \/ (res[s] = "cancelled" /\ st[s] \notin TerminalStage)
<1>1. PICK d \in [{x \in Stages : st[x] = "pending"}
                    -> {"pending", "ready", "skipped", "failed", "cancelled"}] :
        res = [x \in Stages |->
           IF x \in {y \in Stages : st[y] = "pending"} THEN d[x]
           ELSE IF /\ st[x] \notin TerminalStage
                   /\ \E j \in {y \in Stages : st[y] = "pending"} :
                        d[j] = "ready" /\ CancelsRest(j) /\ x \in ExclusiveLosers(j)
                  THEN "cancelled" ELSE st[x]]
  BY DEF Resolutions
<1>2. CASE st[s] = "pending" BY <1>1, <1>2
<1>3. CASE st[s] # "pending" BY <1>1, <1>3
<1> QED BY <1>2, <1>3

LEMMA ResolvedPasses ==
  ASSUME NEW w \in WorldType, NEW as, NEW res \in Resolutions(StatusOf(w), as),
         NEW s \in Stages, Matched(w, s)
  PROVE  LET v == Resolve(w, res)
         IN  /\ v \in WorldType /\ v.run = w.run
             /\ Passes(w, v, s) /\ Lets(w, v, s) /\ Rests(w, v, s)
<1> DEFINE v == Resolve(w, res)
           from == w.inst[s].status
<1>1. StatusOf(w) \in [Stages -> StageState] /\ StatusOf(w)[s] = from
  BY StagePartTypes DEF StatusOf
<1>2. res \in [Stages -> StageState] BY <1>1, ResolutionStates
<1>3. /\ from = "pending" => res[s] \in {"pending", "ready", "skipped", "failed", "cancelled"}
      /\ from # "pending" => res[s] = from \/ (res[s] = "cancelled" /\ from \notin TerminalStage)
  <2> HIDE DEF from
  <2> DEFINE st == StatusOf(w)
  <2> HIDE DEF st
  <2> QED BY <1>1, ResolutionMoves DEF st
<1>4. v \in WorldType /\ v.run = w.run /\ Resolved(w, v, s, res[s]) BY <1>2, ResolveType, ResolveAt
<1> HIDE DEF v
<1>5. CASE res[s] = "cancelled" /\ from # "cancelled"
  <2>1. Stopped(w, v, s, "cancelled", Because(None)) BY <1>4, <1>5 DEF Resolved
  <2>2. "cancelled" \in TerminalStage /\ from \notin TerminalStage
    BY <1>3, <1>5 DEF TerminalStage
  <2>3. Off(v, s) /\ Remembered(v, s) BY <1>4, <2>1, <2>2, EndedGoes
  <2>4. v.inst[s].status = "cancelled" BY <2>1 DEF Stopped
  <2>5. Settling(from, v.inst[s].status) BY <2>2, <2>4 DEF Settling
  <2> QED BY <1>4, <2>1, <2>3, <2>4, <2>5, OffPasses, CancelledRests DEF v
<1>6. CASE res[s] # "cancelled" /\ from = "pending"
  <2>1. Turned(w, v, s, res[s], Because(None)) BY <1>4, <1>6 DEF Resolved
  <2> QED BY <1>3, <1>4, <1>6, <2>1, TurnedPasses DEF v
<1>7. CASE ~(res[s] = "cancelled" /\ from # "cancelled") /\ ~(res[s] # "cancelled" /\ from = "pending")
  <2>1. Same(w, v, s) BY <1>4, <1>7 DEF Resolved
  <2> QED BY <1>4, <2>1, SamePasses DEF v
<1> QED BY <1>5, <1>6, <1>7

LEMMA PauseRunGoes ==
  ASSUME NEW w \in WorldType, NEW mode, NEW why \in {"user", "budget"}, NEW s \in Stages, Matched(w, s)
  PROVE  LET v == PauseRun(w, mode, why)
         IN  /\ v \in WorldType /\ v.run.status = "paused" /\ ~Queued(v, s)
             /\ mode = "drain" => Passes(w, v, s)
             /\ Begun(v, s) => Begun(w, s)
             /\ Lets(w, v, s) /\ (Manned(w, s) => Goes(w, v, s))
<1> DEFINE v == PauseRun(w, mode, why)
           from == w.inst[s].status
           reason == PauseReason(w.inst[s], "run_paused")
<1>1. /\ v \in WorldType /\ v.run.status = "paused"
      /\ \/ Same(w, v, s) /\ from \notin {"ready", "retry_wait"}
         \/ /\ from \in {"ready", "retry_wait"} \cup (IF mode = "interrupt" THEN Attempt ELSE {})
            /\ Stopped(w, v, s, "paused", reason)
  BY PauseRunType, PauseRunAt
<1> HIDE DEF v
<1>2. CASE Same(w, v, s) /\ from \notin {"ready", "retry_wait"}
  <2>1. ~Queued(v, s) BY <1>2 DEF Same, Queued
  <2>2. Begun(v, s) => Begun(w, s) BY <1>2 DEF Same, Begun
  <2> QED BY <1>1, <1>2, <2>1, <2>2, SamePasses, SameGoes DEF v
<1>3. CASE /\ from \in {"ready", "retry_wait"} \cup (IF mode = "interrupt" THEN Attempt ELSE {})
           /\ Stopped(w, v, s, "paused", reason)
  <2>1. from \in {"ready", "retry_wait"} \cup Attempt BY <1>3
  <2>2. Off(v, s) /\ (Remembered(w, s) => Remembered(v, s)) /\ Goes(w, v, s)
    BY <1>1, <1>3, <2>1, PausedGoes
  <2>3. v.inst[s].status = "paused" BY <1>3 DEF Stopped
  <2>4. ~Queued(v, s) /\ ~Has(v, s) BY <2>2, <2>3, OffParts
  <2>5. mode = "drain" => Settling(from, v.inst[s].status) BY <1>3, <2>3 DEF Settling
  <2>6. mode = "drain" => Passes(w, v, s) BY <2>2, <2>3, <2>5, OffPasses
  <2>7. Begun(v, s) => Begun(w, s)
    <3>1. v.inst[s].no = w.inst[s].no BY <1>3 DEF Stopped
    <3>2. from \notin TerminalStage \cup {"absent", "pending"} BY <2>1 DEF TerminalStage, Attempt
    <3> QED BY <3>1, <3>2, BegunKept
  <2> QED BY <1>1, <2>2, <2>3, <2>4, <2>6, <2>7 DEF v, Lets
<1> QED BY <1>1, <1>2, <1>3

LEMMA LaunchedPasses ==
  ASSUME NEW w \in WorldType, NEW v \in WorldType, NEW s \in Stages, Matched(w, s),
         w.inst[s].status = "ready", ~w.inst[s].live, Launched(w, v, s)
  PROVE  Passes(w, v, s) /\ Rests(w, v, s)
<1> DEFINE i == w.inst[s]
           j == v.inst[s]
           mine == [st |-> s, no |-> i.no + 1, tracked |-> TRUE]
<1>1. "ready" \notin TerminalStage \cup Attempt \cup {"awaiting_input"} BY DEF TerminalStage, Attempt
<1>2. LaunchesOf(w, s) = {} BY <1>1 DEF Matched, Due
<1>3. /\ j.status = "ready" /\ j.why = i.why /\ j.live /\ j.no = i.no + 1 /\ j.mode = ModeFor(i)
      /\ v.frames[s] = w.frames[s] /\ v.owed[s] = w.owed[s] /\ LaunchesOf(v, s) = {mine}
  BY <1>2 DEF Launched
<1>4. mine.tracked /\ mine.no = j.no BY <1>3
<1> HIDE DEF mine
<1>5. i.no \in Nat /\ w.frames[s].no \in Nat BY StagePartTypes
<1>6. ~WorksIn(w, s) /\ (w.frames[s].at # None => w.frames[s].no <= i.no) BY DEF Matched
<1>7. Matched(v, s)
  <2>1. ~WorksIn(v, s) BY <1>3, <1>6 DEF WorksIn
  <2>2. v.frames[s].at # None => v.frames[s].no < j.no /\ v.frames[s].no <= j.no BY <1>3, <1>5, <1>6
  <2>3. Due(v, mine, s) BY <1>3, <1>4, <2>2 DEF Due
  <2> QED BY <1>1, <1>3, <1>4, <2>1, <2>2, <2>3 DEF Matched
<1>8. ASSUME Remembered(w, s) PROVE Remembered(v, s)
  <2> SUFFICES ASSUME w.owed[s] # None PROVE Remembered(v, s) BY <1>3 DEF Remembered
  <2>1. i.why.base = "retry" /\ i.why.mode = w.owed[s] BY <1>1, <1>8 DEF Remembered
  <2>2. j.mode = w.owed[s] BY <1>3, <2>1 DEF ModeFor
  <2> QED BY <1>3, <2>1, <2>2 DEF Remembered
<1>9. Manned(v, s) BY <1>1, <1>3 DEF Manned
<1>10. Rests(w, v, s) BY DEF Rests, AtRest
<1> QED BY <1>1, <1>3, <1>7, <1>8, <1>9, <1>10 DEF Passes, Settling

\* The losers of every join that won its race have ended.
Raced(w) ==
  \A j \in Stages : CancelsRest(j) /\ Begun(w, j) =>
    \A s \in ExclusiveLosers(j) : w.inst[s].status \in TerminalStage

\* Stages of a session group take turns.
Grouped(w) ==
  \A s, t \in Stages : s # t /\ Group[s] = Group[t] /\ Group[s] # None => ~(Has(w, s) /\ Has(w, t))

\* Nothing waits to start in a paused run.
Halted(w) == w.run.status = "paused" => \A s \in Stages : ~Queued(w, s)

NotOver(w) == w.run.over => w.run.status \notin RunLive

LEMMA LetsGrouped ==
  ASSUME NEW w, NEW v, \A s \in Stages : Lets(w, v, s), Grouped(w) PROVE Grouped(v)
BY DEF Lets, Grouped

LEMMA LetsHalted ==
  ASSUME NEW w, NEW v, \A s \in Stages : Lets(w, v, s), Halted(w),
         v.run.status = "paused" => w.run.status = "paused"
  PROVE  Halted(v)
BY DEF Lets, Halted

LEMMA LosersAreStages == ASSUME NEW j PROVE ExclusiveLosers(j) \subseteq Stages
BY DEF ExclusiveLosers

LEMMA BegunRaced ==
  ASSUME NEW w, NEW v, Raced(w),
         \A s \in Stages : /\ Begun(v, s) => Begun(w, s)
                           /\ w.inst[s].status \in TerminalStage => v.inst[s].status \in TerminalStage
  PROVE  Raced(v)
BY LosersAreStages DEF Raced

\* The readiness pass makes a join that cancels the rest ready together with the
\* end of its losers.
LEMMA ResolvedRaces ==
  ASSUME NEW w \in WorldType, NEW as, NEW res \in Resolutions(StatusOf(w), as), Raced(w)
  PROVE  Raced(Resolve(w, res))
<1> DEFINE v == Resolve(w, res)
           st == StatusOf(w)
<1>1. st \in [Stages -> StageState] /\ \A s \in Stages : st[s] = w.inst[s].status
  BY StagePartTypes DEF StatusOf
<1>2. res \in [Stages -> StageState] BY <1>1, ResolutionStates
<1>3. Resolves(st, res, as) BY DEF Resolutions
<1>4. ASSUME NEW s \in Stages PROVE v.inst[s].status = res[s] /\ v.inst[s].no = w.inst[s].no
  <2>1. Resolved(w, v, s, res[s]) BY <1>2, ResolveAt
  <2>2. st[s] # "pending" => res[s] = st[s] \/ res[s] = "cancelled"
    <3> HIDE DEF st
    <3> QED BY <1>1, ResolutionMoves DEF st
  <2> HIDE DEF v, st
  <2> QED BY <1>1, <2>1, <2>2 DEF Resolved, Stopped, Turned, Same
<1> HIDE DEF v
<1>5. \A s \in Stages : st[s] \in TerminalStage => res[s] = st[s] BY <1>3 DEF Resolves
<1> SUFFICES ASSUME NEW j \in Stages, CancelsRest(j), Begun(v, j), NEW s \in ExclusiveLosers(j)
             PROVE  v.inst[s].status \in TerminalStage
  BY DEF Raced, v
<1>6. s \in Stages BY LosersAreStages
<1> HIDE DEF st
<1>7. CASE Begun(w, j)
  <2>1. st[s] \in TerminalStage BY <1>1, <1>6, <1>7 DEF Raced
  <2> QED BY <1>4, <1>5, <1>6, <2>1
<1>8. CASE ~Begun(w, j)
  <2>1. /\ st[j] \in TerminalStage \cup {"absent", "pending"}
        /\ res[j] \notin TerminalStage \cup {"absent", "pending"}
    BY <1>1, <1>4, <1>8 DEF Begun
  <2>2. st[j] # "pending" => res[j] = st[j] \/ res[j] = "cancelled"
    BY <1>1, ResolutionMoves DEF st
  <2>3. st[j] = "pending" /\ res[j] = "ready"
    <3>1. st[j] = "pending" BY <2>1, <2>2 DEF TerminalStage
    <3>2. res[j] \in {"pending", "ready", "skipped", "failed", "cancelled"}
      BY <1>1, <3>1, ResolutionMoves DEF st
    <3> QED BY <2>1, <3>1, <3>2 DEF TerminalStage
  <2>4. res[s] \in TerminalStage BY <1>3, <1>5, <1>6, <2>3 DEF Resolves, TerminalStage
  <2> QED BY <1>4, <1>6, <2>4
<1> QED BY <1>7, <1>8

LEMMA LaunchPasses ==
  ASSUME NEW w \in WorldType, NEW A \in Admissions(w), \A s \in Stages : Matched(w, s)
  PROVE  LET v == Accounted(Launch(w, A))
         IN  /\ v \in WorldType /\ v.run.status \in RunLive /\ v.run.over = w.run.over
             /\ \A s \in Stages : Passes(w, v, s) /\ Rests(w, v, s) /\ (Begun(v, s) => Begun(w, s))
             /\ Grouped(w) => Grouped(v)
<1> DEFINE v == Accounted(Launch(w, A))
           Used == {s \in Stages : Admitted(w.inst[s])}
           Holds(s) == s \in Used \/ w.inst[s].status = "awaiting_input"
           Alone(s) == Group[s] = None \/ \A t \in Stages : Group[t] = Group[s] =>
                                              ~Holds(t) /\ ~(t \in A /\ t < s)
<1>1. /\ A \in SUBSET Stages
      /\ \A s \in A : w.inst[s].status = "ready" /\ ~w.inst[s].live /\ Alone(s)
  BY DEF Admissions
<1>2. v \in WorldType BY <1>1, LaunchIsTyped, AccountedType
<1>3. ASSUME NEW s \in Stages
      PROVE  /\ v.run.status \in RunLive /\ v.run.over = w.run.over
             /\ s \notin A => Same(w, v, s)
             /\ s \in A => Launched(w, v, s)
  BY <1>1, LaunchAt
<1>4. 1 \in Stages BY GraphAssumption DEF Stages
<1> HIDE DEF v
<1>5. ASSUME NEW s \in Stages
      PROVE  Passes(w, v, s) /\ Rests(w, v, s) /\ (Begun(v, s) => Begun(w, s))
  <2>1. CASE s \in A
    <3>1. Begun(w, s) BY <1>1, <2>1 DEF Begun, TerminalStage
    <3> QED BY <1>1, <1>2, <1>3, <2>1, <3>1, LaunchedPasses
  <2>2. CASE s \notin A
    <3>1. Begun(v, s) => Begun(w, s) BY <1>3, <2>2 DEF Same, Begun
    <3> QED BY <1>3, <2>2, <3>1, SamePasses
  <2> QED BY <2>1, <2>2
<1>6. \A s \in Stages : s \notin A /\ Has(v, s) => Has(w, s) BY <1>3, SameParts
<1>7. \A s \in Stages : Has(w, s) => Holds(s)
  <2> SUFFICES ASSUME NEW s \in Stages, Has(w, s) PROVE Holds(s) OBVIOUS
  <2>1. Queued(w, s) => w.inst[s].live /\ w.inst[s].status = "ready"
    BY DEF Queued, Matched, Due, TerminalStage
  <2>2. w.inst[s].status \in Attempt => w.inst[s].live BY DEF Matched
  <2> QED BY <2>1, <2>2 DEF Has, Admitted
<1> HIDE DEF Holds, Used
<1>8. ASSUME Grouped(w) PROVE Grouped(v)
  <2> SUFFICES ASSUME NEW s \in Stages, NEW t \in Stages, s # t, Group[s] = Group[t],
                      Group[s] # None, Has(v, s), Has(v, t)
               PROVE  FALSE
    BY DEF Grouped
  <2>1. s \in A => ~Holds(t) /\ ~(t \in A /\ t < s) BY <1>1
  <2>2. t \in A => ~Holds(s) /\ ~(s \in A /\ s < t) BY <1>1
  <2>3. s < t \/ t < s BY GraphAssumption DEF Stages
  <2>4. ~(Has(w, s) /\ Has(w, t)) BY <1>8 DEF Grouped
  <2> QED BY <1>6, <1>7, <2>1, <2>2, <2>3, <2>4
<1> QED BY <1>2, <1>3, <1>4, <1>5, <1>8 DEF v

SettlingRun(from, to) ==
  from = to \/ (from \in RunLive /\ to \in {"running", "waiting", "paused", "finalizing", "cancelling"})

\* What settling makes of a world.  The stages Q still wait for recovery.
Settles(w, x, Q) ==
  /\ x \in WorldType /\ NotOver(x) /\ SettlingRun(w.run.status, x.run.status)
  /\ \A s \in Stages : Passes(w, x, s) /\ (s \in Q => Rests(w, x, s))
  /\ Grouped(w) => Grouped(x)
  /\ Halted(w) => Halted(x)
  /\ Raced(w) => Raced(x)

LEMMA PassesRaced ==
  ASSUME NEW w, NEW v, Raced(w), \A s \in Stages : Passes(w, v, s) /\ (Begun(v, s) => Begun(w, s))
  PROVE  Raced(v)
<1>1. \A s \in Stages : w.inst[s].status \in TerminalStage => v.inst[s].status = w.inst[s].status
  BY DEF Passes, Settling, TerminalStage
<1> QED BY <1>1, BegunRaced

LEMMA ScheduleSettles ==
  ASSUME NEW w \in WorldType, NEW Q, NEW x \in Schedule(w), \A s \in Stages : Matched(w, s),
         w.run.status \in RunLive, Q = {} \/ NotOver(w)
  PROVE  Settles(w, x, Q)
<1>1. "paused" \notin RunLive /\ "finalizing" \notin RunLive /\ "cancelling" \notin RunLive
  BY DEF RunLive
<1>2. x \in WorldType BY ScheduleType
<1>3. CASE Open(w) = {} /\ x = Conclude(w)
  <2> DEFINE outcome == ScopeOutcome(StatusOf(w), SkippedAs(w), [s \in Stages |-> w.inst[s].loser])
             status == IF outcome = "cancelled" THEN "cancelling" ELSE "finalizing"
  <2>1. outcome \in Outcome BY DEF ScopeOutcome, Outcome
  <2>2. status \in RunState /\ status \in {"cancelling", "finalizing"} BY StatesOfRuns
  <2>3. x = Decide(w, status, outcome) BY <1>3 DEF Conclude
  <2> HIDE DEF outcome, status
  <2>4. Alike(w, x) /\ x.run.status = status BY <2>1, <2>2, <2>3, DecideAlike
  <2>5. \A s \in Stages : Passes(w, x, s) /\ Lets(w, x, s) /\ Rests(w, x, s)
    BY <2>4, AlikeSame, SamePasses
  <2>6. NotOver(x) /\ SettlingRun(w.run.status, x.run.status) BY <1>1, <2>2, <2>4 DEF NotOver, SettlingRun
  <2>7. x.run.status # "paused" BY <2>2, <2>4
  <2>8. Raced(w) => Raced(x) BY <2>4 DEF Alike, Raced, Begun
  <2> QED BY <1>2, <2>5, <2>6, <2>7, <2>8, LetsGrouped DEF Settles, Halted
<1>4. CASE w.run.over /\ x = PauseRun(w, "drain", "budget")
  <2>1. Q = {} BY <1>4 DEF NotOver
  <2>2. ASSUME NEW s \in Stages
        PROVE  /\ x.run.status = "paused" /\ ~Queued(x, s) /\ Passes(w, x, s) /\ Lets(w, x, s)
               /\ Begun(x, s) => Begun(w, s)
    BY <1>4, PauseRunGoes
  <2>3. x.run.status = "paused"
    <3>1. 1 \in Stages BY GraphAssumption DEF Stages
    <3> QED BY <2>2, <3>1
  <2>4. NotOver(x) /\ SettlingRun(w.run.status, x.run.status) BY <1>1, <2>3 DEF NotOver, SettlingRun
  <2>5. Raced(w) => Raced(x) BY <2>2, PassesRaced
  <2> QED BY <1>2, <2>1, <2>2, <2>4, <2>5, LetsGrouped DEF Settles, Halted
<1>5. CASE ~w.run.over /\ \E A \in Admissions(w) : x = Accounted(Launch(w, A))
  <2>1. PICK A \in Admissions(w) : x = Accounted(Launch(w, A)) BY <1>5
  <2>2. /\ x.run.status \in RunLive /\ x.run.over = w.run.over
        /\ \A s \in Stages : Passes(w, x, s) /\ Rests(w, x, s) /\ (Begun(x, s) => Begun(w, s))
        /\ Grouped(w) => Grouped(x)
    BY <2>1, LaunchPasses
  <2>3. NotOver(x) /\ SettlingRun(w.run.status, x.run.status) /\ x.run.status # "paused"
    BY <1>1, <1>5, <2>2 DEF NotOver, SettlingRun, RunLive
  <2>4. Raced(w) => Raced(x) BY <2>2, PassesRaced
  <2> QED BY <1>2, <2>2, <2>3, <2>4 DEF Settles, Halted
<1> QED BY <1>3, <1>4, <1>5 DEF Schedule

LEMMA StillSettles ==
  ASSUME NEW w \in WorldType, NEW x \in WorldType, NEW Q, \A s \in Stages : Matched(w, s),
         w.run.status \notin RunLive, Alike(w, x), x.run.status = w.run.status
  PROVE  Settles(w, x, Q)
<1>1. \A s \in Stages : Passes(w, x, s) /\ Lets(w, x, s) /\ Rests(w, x, s) BY AlikeSame, SamePasses
<1>2. Raced(w) => Raced(x) BY DEF Alike, Raced, Begun
<1> QED BY <1>1, <1>2, LetsGrouped, LetsHalted DEF Settles, NotOver, SettlingRun

LEMMA SettleSettles ==
  ASSUME NEW w \in WorldType, NEW Q, NEW x \in Settle(w), \A s \in Stages : Matched(w, s),
         Q = {} \/ NotOver(w)
  PROVE  Settles(w, x, Q)
<1>1. x \in WorldType BY SettleType
<1>2. CASE w.run.status \notin RunLive
  <2> DEFINE c == [w EXCEPT !.run.outcome = "cancelled"]
  <2>1. c \in WorldType /\ Alike(w, c) /\ c.run.status = w.run.status
    BY DEF WorldType, RunType, Outcome, Alike
  <2>2. x = w \/ x = Finalize(c) BY <1>2 DEF Settle
  <2> HIDE DEF c
  <2>3. Alike(c, Finalize(c)) /\ Finalize(c).run = c.run BY <2>1, FinalizeAlike
  <2>4. Alike(w, x) /\ x.run.status = w.run.status BY <2>1, <2>2, <2>3 DEF Alike
  <2> QED BY <1>1, <1>2, <2>4, StillSettles
<1>3. CASE w.run.status \in RunLive
  <2> DEFINE r == Rooted(w)
  <2>1. PICK res \in Resolutions(StatusOf(r), SkippedAs(w)) : x \in Schedule(Resolve(r, res))
    <3>1. w.run.status # "cancelling" BY <1>3 DEF RunLive
    <3> QED BY <1>3, <3>1 DEF Settle
  <2> DEFINE v == Resolve(r, res)
  <2>2. ASSUME NEW s \in Stages
        PROVE  r \in WorldType /\ r.run = w.run /\ Passes(w, r, s) /\ Lets(w, r, s) /\ Rests(w, r, s)
    BY RootedPasses
  <2> HIDE DEF r
  <2>3. 1 \in Stages BY GraphAssumption DEF Stages
  <2>4. r \in WorldType /\ r.run = w.run /\ \A s \in Stages : Matched(r, s)
    BY <2>2, <2>3 DEF Passes
  <2>5. ASSUME NEW s \in Stages
        PROVE  v \in WorldType /\ v.run = r.run /\ Passes(r, v, s) /\ Lets(r, v, s) /\ Rests(r, v, s)
    BY <2>4, ResolvedPasses
  <2> HIDE DEF v
  <2>6. v \in WorldType /\ v.run = w.run /\ \A s \in Stages : Matched(v, s)
    BY <2>3, <2>4, <2>5 DEF Passes
  <2>7. \A s \in Stages : Passes(w, v, s) /\ Lets(w, v, s) /\ Rests(w, v, s) BY <2>2, <2>5, PassesTrans
  <2>8. Q = {} \/ NotOver(v) BY <2>6 DEF NotOver
  <2>9. Settles(v, x, Q) BY <1>3, <2>1, <2>6, <2>8, ScheduleSettles DEF v
  <2>10. \A s \in Stages : Passes(w, x, s) /\ (s \in Q => Rests(w, x, s))
    BY <2>7, <2>9, PassesTrans DEF Settles
  <2>11. (Grouped(w) => Grouped(v)) /\ (Halted(w) => Halted(v)) BY <2>6, <2>7, LetsGrouped, LetsHalted
  <2>12. Raced(w) => Raced(r)
    <3>1. ASSUME NEW s \in Stages PROVE Begun(r, s) => Begun(w, s)
      <4>1. /\ w.inst[s].status # "absent" => Same(w, r, s)
            /\ w.inst[s].status = "absent" => Turned(w, r, s, "pending", w.inst[s].why)
        BY RootedAt DEF r
      <4> QED BY <4>1, BegunKept DEF Same, Turned, Begun
    <3> QED BY <2>2, <3>1, PassesRaced
  <2>13. Raced(r) => Raced(v) BY <2>1, <2>4, ResolvedRaces DEF v
  <2> QED BY <1>1, <2>6, <2>9, <2>10, <2>11, <2>12, <2>13 DEF Settles
<1> QED BY <1>2, <1>3

-----------------------------------------------------------------------------
(* What a step makes of the world.                                              *)

\* The stages recovery has not come to yet.
ToRecover == {s \in Stages : boot.phase = "recovering" /\ boot.at <= s /\ boot.snap[s].live}

\* The inductive invariant: every stage is matched and, but for those recovery has
\* not come to yet, manned; a process that is down holds nothing; and a run whose
\* budget is spent is not live.
Framed ==
  /\ boot.phase = "down" => launches = {} /\ \A s \in Stages : frames[s].at = None
  /\ \A s \in Stages :
       /\ Matched(World, s)
       /\ boot.phase # "down" =>
            IF s \in ToRecover THEN AtRest(World, s, boot.snap[s]) ELSE Manned(World, s)
  /\ NotOver(World)

Solid == Sound /\ Framed

LegalRun(from, to) == from = to \/ <<from, to>> \in RunRows

\* What a handler may make of the world, with Q still to recover.
Moves(v, Q) ==
  /\ v \in WorldType /\ LegalRun(run.status, v.run.status)
  /\ \A s \in Stages : IF s \in Q THEN Same(World, v, s) ELSE Goes(World, v, s)
  /\ IsUp /\ Halted(World) => Halted(v)

\* What a step makes of it.
Leads(x, Q) ==
  /\ x \in WorldType /\ NotOver(x) /\ (Raced(World) => Raced(x))
  /\ Legal(RunRows, "running", run.status, x.run.status)
  /\ \A s \in Stages :
       /\ Matched(x, s) /\ Starts(World, x, s)
       /\ IF s \in Q THEN Rests(World, x, s) ELSE Manned(x, s)
       /\ inst[s].status # "absent" =>
            Legal(StageRows, "ready", inst[s].status, x.inst[s].status)
       /\ IsUp /\ Remembered(World, s) => Remembered(x, s)
  /\ IsUp => (Grouped(World) => Grouped(x)) /\ (Halted(World) => Halted(x))

LEMMA LegalSettles ==
  ASSUME NEW a \in StageState, NEW m, NEW b, a # "absent", LegalStage(a, m), Settling(m, b)
  PROVE  Legal(StageRows, "ready", a, b)
<1>1. a \in {"pending", "ready", "awaiting_input", "retry_wait", "paused"} \cup Attempt \cup TerminalStage
  BY DEF StageState
<1>2. <<a, m>> \in StageRows => a \notin TerminalStage /\ m \notin {"absent", "pending"}
  BY DEF StageRows, Attempt, TerminalStage
<1>3. a \notin TerminalStage => LegalStage(a, "cancelled")
  BY <1>1 DEF LegalStage, StageRows
<1>4. CASE m = b BY <1>4 DEF LegalStage, Legal
<1>5. CASE m \in {"absent", "pending"}
              /\ b \in {"pending", "ready", "skipped", "failed", "cancelled", "paused"}
  <2>1. a = "pending" /\ m = "pending" BY <1>2, <1>5 DEF LegalStage
  <2> QED BY <1>5, <2>1 DEF Legal, StageRows
<1>6. CASE m \notin TerminalStage /\ b = "cancelled"
  <2>1. a \notin TerminalStage BY <1>2, <1>6 DEF LegalStage
  <2> QED BY <1>3, <1>6, <2>1 DEF LegalStage, Legal
<1>7. CASE m \in {"ready", "retry_wait"} /\ b = "paused"
  <2>1. <<a, m>> \in StageRows =>
          a \in {"pending", "awaiting_input", "retry_wait", "paused"} \cup Attempt
    BY <1>7 DEF StageRows, Attempt, TerminalStage
  <2>2. a = "pending" /\ <<a, m>> \in StageRows => m = "ready" BY <1>7 DEF StageRows, Attempt
  <2>3. a = "pending" /\ m = "ready" => Legal(StageRows, "ready", a, "paused")
    BY DEF Legal, StageRows
  <2>4. a \in {"ready", "awaiting_input", "retry_wait", "paused"} \cup Attempt =>
          Legal(StageRows, "ready", a, "paused")
    BY DEF Legal, StageRows
  <2> QED BY <1>7, <2>1, <2>2, <2>3, <2>4 DEF LegalStage
<1> QED BY <1>4, <1>5, <1>6, <1>7 DEF Settling

LEMMA LegalSettlesRun ==
  ASSUME NEW a \in RunState, NEW m, NEW b, LegalRun(a, m), SettlingRun(m, b)
  PROVE  Legal(RunRows, "running", a, b)
<1>1. CASE m = b BY <1>1 DEF LegalRun, Legal
<1>2. CASE m \in RunLive /\ b \in {"running", "waiting", "paused", "finalizing", "cancelling"}
  <2>1. CASE a \in RunLive BY <1>2, <2>1 DEF Legal, RunRows, RunLive
  <2>2. CASE a \notin RunLive
    <3>1. <<a, m>> \in RunRows BY <1>2, <2>2 DEF LegalRun
    <3>2. m = "running" BY <1>2, <2>2, <3>1 DEF RunRows, RunLive
    <3>3. b = "running" \/ <<"running", b>> \in RunRows BY <1>2 DEF RunRows, RunLive
    <3> QED BY <3>1, <3>2, <3>3 DEF Legal
  <2> QED BY <2>1, <2>2
<1> QED BY <1>1, <1>2 DEF SettlingRun

LEMMA MovesParts ==
  ASSUME Solid, NEW v, NEW Q, Moves(v, Q)
  PROVE  /\ World \in WorldType /\ World.run = run /\ World.inst = inst
         /\ \A s \in Stages : Matched(World, s) /\ Matched(v, s)
         /\ \A s \in Stages : Rests(World, v, s) \/ s \notin Q
         /\ \A s \in Stages : Starts(World, v, s) /\ LegalStage(inst[s].status, v.inst[s].status)
         /\ \A s \in Stages : IsUp /\ Remembered(World, s) => Remembered(v, s)
         /\ IsUp /\ Grouped(World) => Grouped(v)
         /\ Raced(World) => Raced(v)
<1>1. World \in WorldType /\ World.run = run /\ World.inst = inst
  BY WorldIsTyped DEF Solid, Sound
<1>2. \A s \in Stages : Matched(World, s) BY DEF Solid, Framed
<1>3. ASSUME NEW s \in Stages, s \in Q
      PROVE  /\ Matched(v, s) /\ Rests(World, v, s) /\ Starts(World, v, s)
             /\ LegalStage(inst[s].status, v.inst[s].status)
             /\ Remembered(World, s) => Remembered(v, s)
             /\ (Has(v, s) => Has(World, s)) /\ (Begun(v, s) => Begun(World, s))
  <2>1. Same(World, v, s) BY <1>3 DEF Moves
  <2>2. v.inst[s] = inst[s] BY <1>1, <2>1 DEF Same
  <2> QED BY <1>1, <1>2, <2>1, <2>2, SamePasses, SameParts DEF Starts, LegalStage, Begun
<1>4. ASSUME NEW s \in Stages, s \notin Q PROVE Goes(World, v, s) BY <1>4 DEF Moves
<1>5. \A s \in Stages : IsUp /\ Has(v, s) => Has(World, s) BY <1>3, <1>4 DEF Goes
<1>6. IsUp /\ Grouped(World) => Grouped(v) BY <1>5 DEF Grouped
<1>7. \A s \in Stages : Matched(v, s) /\ (Rests(World, v, s) \/ s \notin Q) BY <1>3, <1>4 DEF Goes
<1>8. \A s \in Stages : Starts(World, v, s) /\ LegalStage(inst[s].status, v.inst[s].status)
  BY <1>1, <1>3, <1>4 DEF Goes
<1>9. \A s \in Stages : IsUp /\ Remembered(World, s) => Remembered(v, s) BY <1>3, <1>4 DEF Goes
<1>10. \A s \in Stages : Begun(v, s) => Begun(World, s) BY <1>3, <1>4 DEF Goes
<1>11. \A s \in Stages : World.inst[s].status \in TerminalStage => v.inst[s].status \in TerminalStage
  BY <1>1, <1>8 DEF LegalStage, StageRows, TerminalStage, Attempt
<1>12. Raced(World) => Raced(v) BY <1>10, <1>11, BegunRaced
<1> QED BY <1>1, <1>2, <1>6, <1>7, <1>8, <1>9, <1>12

LEMMA SettledLead ==
  ASSUME Solid, NEW v, NEW Q, Moves(v, Q), NEW x, Settles(v, x, Q) PROVE Leads(x, Q)
<1>1. World.run = run /\ World.inst = inst /\ World \in WorldType BY MovesParts
<1>2. v \in WorldType /\ run.status \in RunState BY <1>1, RunMoves, WorldParts DEF Moves
<1>3. Legal(RunRows, "running", run.status, x.run.status)
  BY <1>2, LegalSettlesRun DEF Moves, Settles
<1>4. ASSUME NEW s \in Stages
      PROVE  /\ Matched(x, s) /\ Starts(World, x, s)
             /\ IF s \in Q THEN Rests(World, x, s) ELSE Manned(x, s)
             /\ inst[s].status # "absent" =>
                  Legal(StageRows, "ready", inst[s].status, x.inst[s].status)
             /\ IsUp /\ Remembered(World, s) => Remembered(x, s)
  <2>1. Passes(v, x, s) /\ (s \in Q => Rests(v, x, s)) BY DEF Settles
  <2>2. /\ Rests(World, v, s) \/ s \notin Q
        /\ Starts(World, v, s) /\ LegalStage(inst[s].status, v.inst[s].status)
        /\ IsUp /\ Remembered(World, s) => Remembered(v, s)
    BY MovesParts
  <2>3. s \notin Q => Manned(v, s) BY DEF Moves, Goes
  <2>4. inst[s].status \in StageState BY <1>1, StagePartTypes
  <2>5. inst[s].status # "absent" => Legal(StageRows, "ready", inst[s].status, x.inst[s].status)
    BY <2>1, <2>2, <2>4, LegalSettles DEF Passes
  <2>6. x.inst[s].status = "starting" => v.inst[s].status = "starting" BY <2>1 DEF Passes, Attempt
  <2>7. Starts(World, x, s) BY <2>2, <2>6 DEF Starts
  <2>8. IF s \in Q THEN Rests(World, x, s) ELSE Manned(x, s)
    BY <2>1, <2>2, <2>3 DEF Passes, Rests
  <2> QED BY <2>1, <2>2, <2>5, <2>7, <2>8 DEF Passes
<1>5. IsUp => (Grouped(World) => Grouped(x)) /\ (Halted(World) => Halted(x))
  BY MovesParts DEF Moves, Settles
<1>6. Raced(World) => Raced(x) BY MovesParts DEF Settles
<1> QED BY <1>3, <1>4, <1>5, <1>6 DEF Leads, Settles

LEMMA MovesLead ==
  ASSUME Solid, NEW v, NEW Q, Moves(v, Q), NotOver(v) PROVE Leads(v, Q)
<1>1. \A s \in Stages : Same(v, v, s) BY DEF Same
<1>2. \A s \in Stages : Passes(v, v, s) /\ Rests(v, v, s) BY <1>1, SamePasses, MovesParts
<1>3. Settles(v, v, Q) BY <1>2 DEF Settles, SettlingRun, Moves
<1> QED BY <1>3, SettledLead

\* A message: its handler makes v of the world w it comes to.
LEMMA PostLeads ==
  ASSUME Solid, NEW w, NEW v, NEW Q, Post(w, v), w.run.status = run.status,
         run.status \in TerminalRun => Moves(w, Q), run.status \notin TerminalRun => Moves(v, Q),
         Q = {} \/ NotOver(v)
  PROVE  Leads(World', Q)
<1>1. CASE run.status \in TerminalRun
  <2>1. Moves(w, Q) BY <1>1
  <2>2. Become(w) BY <1>1 DEF Post
  <2>3. World' = w BY <2>1, <2>2 DEF Become, World, Moves, WorldType
  <2>4. NotOver(w) BY <1>1, RunStateGroups DEF NotOver, RunLive, TerminalRun
  <2> QED BY <2>1, <2>3, <2>4, MovesLead
<1>2. CASE run.status \notin TerminalRun
  <2>1. Moves(v, Q) BY <1>2
  <2>2. PICK x \in Settle(v) : Become(x) BY <1>2 DEF Post
  <2>3. v \in WorldType /\ \A s \in Stages : Matched(v, s) BY <2>1, MovesParts DEF Moves
  <2>4. Settles(v, x, Q) BY <2>3, SettleSettles
  <2>5. World' = x BY <2>2, <2>4 DEF Become, World, Settles, WorldType
  <2> QED BY <2>1, <2>4, <2>5, SettledLead
<1> QED BY <1>1, <1>2

-----------------------------------------------------------------------------
(* What each action leads to.                                                   *)

LEMMA SolidParts ==
  ASSUME Solid
  PROVE  /\ World \in WorldType /\ World.run = run /\ World.inst = inst /\ World.timers = timers
         /\ World.launches = launches /\ World.frames = frames /\ World.tasks = tasks
         /\ World.owed = owed /\ NotOver(World) /\ run \in RunType /\ run.status \in RunState
         /\ \A s \in Stages : Matched(World, s)
         /\ \A s \in Stages : boot.phase # "down" =>
              IF s \in ToRecover THEN AtRest(World, s, boot.snap[s]) ELSE Manned(World, s)
         /\ IsUp => boot.phase # "down" /\ ToRecover = {} /\ \A s \in Stages : Manned(World, s)
         /\ \A s \in Stages : frames[s].at # None \/ LaunchesOf(World, s) # {} =>
              boot.phase # "down" /\ s \notin ToRecover /\ Manned(World, s)
<1>1. /\ World \in WorldType /\ World.run = run /\ World.inst = inst /\ World.timers = timers
      /\ World.launches = launches /\ World.frames = frames /\ World.tasks = tasks
      /\ World.owed = owed
  BY WorldIsTyped DEF Solid, Sound
<1>2. NotOver(World) /\ \A s \in Stages : Matched(World, s) BY DEF Solid, Framed
<1>3. run \in RunType /\ run.status \in RunState BY <1>1, WorldParts, RunMoves
<1>4. \A s \in Stages : boot.phase # "down" =>
        IF s \in ToRecover THEN AtRest(World, s, boot.snap[s]) ELSE Manned(World, s)
  BY DEF Solid, Framed
<1>5. IsUp => boot.phase # "down" /\ ToRecover = {} BY DEF IsUp, ToRecover
<1>6. boot.phase = "down" => launches = {} /\ \A s \in Stages : frames[s].at = None
  BY DEF Solid, Framed
<1>7. ASSUME NEW s \in Stages, frames[s].at # None \/ LaunchesOf(World, s) # {}
      PROVE  boot.phase # "down" /\ s \notin ToRecover /\ Manned(World, s)
  <2>1. boot.phase # "down" BY <1>1, <1>6, <1>7 DEF LaunchesOf
  <2>2. ~AtRest(World, s, boot.snap[s]) BY <1>1, <1>7 DEF AtRest
  <2> QED BY <1>4, <2>1, <2>2
<1> QED BY <1>1, <1>2, <1>3, <1>4, <1>5, <1>7

LEMMA MovesAll ==
  ASSUME Solid, NEW v \in WorldType, LegalRun(run.status, v.run.status),
         v.run.status = "paused" => run.status = "paused", NEW Q,
         \A s \in Stages : IF s \in Q THEN Same(World, v, s) ELSE Goes(World, v, s)
  PROVE  Moves(v, Q)
<1>1. ASSUME IsUp, NEW s \in Stages, Queued(v, s) PROVE Queued(World, s)
  BY <1>1, SameParts DEF Goes
<1>2. IsUp /\ Halted(World) => Halted(v) BY <1>1, SolidParts DEF Halted
<1> QED BY <1>2 DEF Moves

\* A step of one stage, in a world where the run is what it was.
LEMMA MovesOne ==
  ASSUME Solid, boot.phase # "down", NEW v \in WorldType, v.run.status = run.status,
         NEW s \in Stages, \A x \in Stages : x # s => Same(World, v, x), Goes(World, v, s)
  PROVE  Moves(v, ToRecover \ {s})
<1>1. LegalRun(run.status, v.run.status) BY DEF LegalRun
<1>2. ASSUME NEW x \in Stages, x # s, x \notin ToRecover PROVE Goes(World, v, x)
  BY <1>2, SolidParts, SameGoes
<1> QED BY <1>1, <1>2, MovesAll

LEMMA MovesAlike ==
  ASSUME Solid, boot.phase # "down", NEW v \in WorldType, Alike(World, v),
         LegalRun(run.status, v.run.status), v.run.status = "paused" => run.status = "paused"
  PROVE  Moves(v, ToRecover)
<1>1. \A s \in Stages : Same(World, v, s) BY AlikeSame
<1>2. ASSUME NEW s \in Stages, s \notin ToRecover PROVE Goes(World, v, s)
  BY <1>1, <1>2, SolidParts, SameGoes
<1> QED BY <1>1, <1>2, MovesAll

\* A message to a process that is up.
LEMMA UpPost ==
  ASSUME Solid, ToRecover = {}, boot.phase # "down", NEW w \in WorldType, Alike(World, w), w.run = run,
         NEW v, Post(w, v), run.status \notin TerminalRun => Moves(v, {})
  PROVE  Leads(World', {})
<1>1. Moves(w, {}) BY MovesAlike DEF LegalRun
<1> QED BY <1>1, PostLeads

-----------------------------------------------------------------------------
(* Lifecycle.                                                                   *)

LEMMA StartLeads == ASSUME Solid, Start PROVE Leads(World', {})
<1> DEFINE v == [World EXCEPT !.run.status = "starting", !.tasks.prepare = TRUE]
<1>1. Become(v) /\ IsUp /\ run.status = "created" BY DEF Start
<1>2. World' \in WorldType BY StartStep DEF Solid, Sound
<1>3. Alike(World, World') /\ World'.run.status = "starting"
  BY <1>1, SolidParts DEF Become, World, Alike, WorldType, RunType
<1>4. Moves(World', ToRecover) /\ ToRecover = {}
  <2>1. LegalRun(run.status, World'.run.status) BY <1>1, <1>3 DEF LegalRun, RunRows
  <2> QED BY <1>1, <1>2, <1>3, <2>1, SolidParts, MovesAlike
<1>5. NotOver(World') BY <1>3 DEF NotOver, RunLive
<1> QED BY <1>4, <1>5, MovesLead

LEMMA PrepareDoneLeads ==
  ASSUME Solid, NEW ok \in BOOLEAN, PrepareDone(ok) PROVE Leads(World', {})
<1> DEFINE w == [World EXCEPT !.tasks.prepare = FALSE]
           v == IF run.status # "starting" THEN w
                ELSE IF ok THEN [w EXCEPT !.run.status = "running"]
                ELSE Decide(w, "finalizing", "failed")
<1>1. Post(w, v) /\ IsUp BY DEF PrepareDone
<1>2. w \in WorldType BY NewPrepare, SolidParts
<1>3. Alike(World, w) /\ w.run = run BY SolidParts DEF WorldType, Alike
<1>4. v \in WorldType /\ Alike(w, v) /\ v.run.status \in {run.status, "running", "finalizing"}
      /\ (v.run.status = run.status \/ run.status = "starting")
  <2> HIDE DEF w
  <2>1. CASE run.status # "starting" BY <1>2, <1>3, <2>1 DEF Alike
  <2>2. CASE run.status = "starting" /\ ok
    <3>1. [w EXCEPT !.run.status = "running"] \in WorldType BY <1>2, NewRunParts, StatesOfRuns
    <3>2. /\ Alike(w, [w EXCEPT !.run.status = "running"])
          /\ [w EXCEPT !.run.status = "running"].run.status = "running"
      BY <1>2 DEF WorldType, RunType, Alike
    <3> QED BY <2>2, <3>1, <3>2
  <2>3. CASE run.status = "starting" /\ ~ok
    <3>1. "finalizing" \in RunState /\ "failed" \in Outcome BY StatesOfRuns DEF Outcome
    <3> QED BY <1>2, <2>3, <3>1, DecideType, DecideAlike
  <2> QED BY <2>1, <2>2, <2>3
<1> HIDE DEF w, v
<1>5. LegalRun(run.status, v.run.status) /\ (v.run.status = "paused" => run.status = "paused")
  BY <1>4 DEF LegalRun, RunRows
<1>6. Alike(World, v) BY <1>3, <1>4 DEF Alike
<1>7. Moves(v, {}) BY <1>1, <1>4, <1>5, <1>6, SolidParts, MovesAlike
<1> QED BY <1>1, <1>2, <1>3, <1>7, SolidParts, UpPost

LEMMA OnFinalizedAlike ==
  ASSUME NEW w \in WorldType, NEW ok, w.run.status \in RunState
  PROVE  LET v == OnFinalized(w, ok)
         IN  /\ Alike(w, v) /\ LegalRun(w.run.status, v.run.status)
             /\ v.run.status = "paused" => w.run.status = "paused"
<1> DEFINE v == OnFinalized(w, ok)
<1>1. CASE w.run.status = "finalizing"
  <2>1. Alike(w, v) /\ v.run.status \in {"completed", "failed"}
    BY <1>1 DEF OnFinalized, WorldType, RunType, Alike
  <2> QED BY <1>1, <2>1 DEF LegalRun, RunRows
<1>2. CASE w.run.status = "cancelling"
  <2>1. Alike(w, v) /\ v.run.status = "cancelled"
    BY <1>2 DEF OnFinalized, WorldType, RunType, Alike
  <2> QED BY <1>2, <2>1 DEF LegalRun, RunRows
<1>3. CASE w.run.status \notin {"finalizing", "cancelling"}
  BY <1>3 DEF OnFinalized, Alike, LegalRun
<1> QED BY <1>1, <1>2, <1>3

LEMMA FinalizeDoneLeads ==
  ASSUME Solid, NEW ok \in BOOLEAN, FinalizeDone(ok) PROVE Leads(World', {})
<1> DEFINE w == [World EXCEPT !.tasks.finals = Tail(tasks.finals)]
           v == OnFinalized(w, ok)
<1>1. IsUp /\ tasks.finals # <<>> /\ (Become(w) \/ Post(w, v)) BY DEF FinalizeDone
<1>2. w \in WorldType BY <1>1, NewLastFinal, SolidParts
<1>3. Alike(World, w) /\ w.run = run BY SolidParts DEF WorldType, Alike
<1> HIDE DEF w
<1>4. v \in WorldType BY <1>2, OnFinalizedType
<1>5. /\ Alike(w, v) /\ LegalRun(run.status, v.run.status)
      /\ v.run.status = "paused" => run.status = "paused"
  BY <1>2, <1>3, OnFinalizedAlike, SolidParts
<1> HIDE DEF v
<1>6. Alike(World, v) BY <1>3, <1>5 DEF Alike
<1>7. Moves(v, {}) BY <1>1, <1>4, <1>5, <1>6, SolidParts, MovesAlike
<1>8. CASE Post(w, v) BY <1>1, <1>2, <1>3, <1>7, <1>8, SolidParts, UpPost
<1>9. CASE Become(w)
  <2>1. World' = w BY <1>2, <1>9 DEF Become, World, WorldType
  <2>2. NotOver(w) BY <1>3, SolidParts DEF NotOver
  <2>3. Moves(w, {}) BY <1>1, <1>2, <1>3, SolidParts, MovesAlike DEF LegalRun
  <2> QED BY <2>1, <2>2, <2>3, MovesLead
<1> QED BY <1>1, <1>8, <1>9

-----------------------------------------------------------------------------
(* Launches and frames.                                                         *)

LEMMA BecomeLeads ==
  ASSUME Solid, NEW v, NEW Q, Moves(v, Q), Become(v), v.run = run PROVE Leads(World', Q)
<1>1. World' = v BY DEF Become, World, Moves, WorldType
<1>2. NotOver(v) BY SolidParts DEF NotOver
<1> QED BY <1>1, <1>2, MovesLead

\* What a stage remembers and has does not depend on its frame.
LEMMA FrameAside ==
  ASSUME NEW w, NEW v, NEW s, v.inst[s] = w.inst[s], v.owed[s] = w.owed[s],
         LaunchesOf(v, s) = LaunchesOf(w, s)
  PROVE  /\ Queued(v, s) = Queued(w, s) /\ Has(v, s) = Has(w, s)
         /\ Remembered(v, s) = Remembered(w, s)
<1>1. Queued(v, s) = Queued(w, s) BY DEF Queued
<1> QED BY <1>1 DEF Has, Remembered

LEMMA ClaimLeads == ASSUME Solid, NEW l \in launches, Claim(l) PROVE Leads(World', ToRecover)
<1> DEFINE s == l.st
           w == [World EXCEPT !.launches = launches \ {l}]
           f == IF inst[s].live THEN [no |-> inst[s].no, at |-> "work", stop |-> FALSE] ELSE NoFrame
           v == [w EXCEPT !.inst[s].status = "starting", !.owed[s] = None,
                          !.timers = timers \ {Timer(s, "queue_timeout")}, !.frames[s] = f]
<1>1. l \in LaunchType /\ s \in Stages /\ World \in WorldType /\ Matched(World, s)
  <2>1. l \in LaunchType /\ s \in Stages BY SolidParts, WorldParts DEF LaunchType
  <2> QED BY <2>1, SolidParts
<1>2. l \in LaunchesOf(World, s) BY SolidParts DEF LaunchesOf
<1>3. boot.phase # "down" /\ s \notin ToRecover /\ Manned(World, s) BY <1>1, <1>2, SolidParts
<1>4. l.tracked /\ (inst[s].status \in TerminalStage \/ Due(World, l, s))
  BY <1>1, <1>2, SolidParts DEF Matched
<1>5. CASE Become(w)
  <2>1. w \in WorldType /\ w.run = run /\ w.inst = inst /\ w.frames = frames /\ w.owed = owed
    BY SolidParts DEF WorldType
  <2>2. \A x \in Stages : x # s => Same(World, w, x) BY SolidParts DEF Same, LaunchesOf
  <2>3. LaunchesOf(w, s) \subseteq LaunchesOf(World, s) BY SolidParts DEF LaunchesOf
  <2> HIDE DEF w
  <2>4. \A k : Due(World, k, s) => Due(w, k, s) BY <2>1, SolidParts DEF Due
  <2>5. WorksIn(w, s) = WorksIn(World, s) BY <2>1, SolidParts DEF WorksIn
  <2>6. Matched(w, s) /\ Manned(w, s)
    BY <1>1, <1>3, <2>1, <2>3, <2>4, <2>5, SolidParts DEF Matched, Manned
  <2>7. Queued(w, s) => Queued(World, s) BY <2>1, <2>3, SolidParts DEF Queued
  <2>8. Goes(World, w, s)
    BY <2>1, <2>6, <2>7, SolidParts DEF Goes, LegalStage, Starts, Begun, Has, Remembered
  <2>9. Moves(w, ToRecover) BY <1>1, <1>3, <2>1, <2>2, <2>8, MovesOne
  <2> QED BY <1>5, <2>1, <2>9, BecomeLeads
<1>6. CASE Become(v) /\ frames[s].at = None /\ inst[s].status = "ready"
  <2>1. inst[s].live /\ l.no = inst[s].no
    BY <1>4, <1>6, SolidParts DEF Due, TerminalStage
  <2>2. World' \in WorldType BY ClaimStep DEF Solid, Sound
  <2>3. /\ World'.run = run /\ World'.owed[s] = None
        /\ \A x \in Stages : x # s => /\ World'.inst[x] = inst[x] /\ World'.frames[x] = frames[x]
                                      /\ World'.owed[x] = owed[x]
        /\ World'.launches = launches \ {l}
        /\ World'.frames[s] = [no |-> inst[s].no, at |-> "work", stop |-> FALSE]
        /\ World'.inst[s] = [inst[s] EXCEPT !.status = "starting"]
    BY <1>1, <1>6, <2>1, SolidParts DEF Become, World, WorldType
  <2>4. World'.inst[s].status = "starting" /\ World'.inst[s].live /\ World'.inst[s].no = inst[s].no
    <3>1. inst[s] \in InstanceType BY <1>1, SolidParts, WorldParts
    <3> QED BY <2>1, <2>3, <3>1 DEF InstanceType
  <2>5. LaunchesOf(World', s) = {}
    <3>1. ASSUME NEW k \in LaunchesOf(World, s) PROVE k = l
      <4>1. k \in LaunchType /\ k.st = s BY SolidParts, WorldParts DEF LaunchesOf
      <4>2. k.tracked /\ Due(World, k, s)
        BY <1>1, <1>6, SolidParts DEF Matched, TerminalStage
      <4>3. k.no = l.no /\ k.tracked = l.tracked BY <1>4, <2>1, <4>2, SolidParts, <1>1, <4>1 DEF Due, LaunchType
      <4> QED BY <1>1, <4>1, <4>3 DEF LaunchType
    <3> QED BY <2>3, <3>1, SolidParts DEF LaunchesOf
  <2>6. \A x \in Stages : x # s => Same(World, World', x)
    BY <2>3, SolidParts DEF Same, LaunchesOf
  <2>7. WorksIn(World', s) /\ World'.frames[s].no = inst[s].no /\ World'.frames[s].at = "work"
    BY <2>3 DEF WorksIn, None
  <2>8. inst[s].no \in Nat BY <1>1, SolidParts, StagePartTypes
  <2>9. Queued(World, s) BY <1>2, <1>6, SolidParts DEF Queued
  <2> DEFINE x == World'
  <2> HIDE DEF x
  <2>10. Matched(x, s) /\ Manned(x, s)
    BY <2>4, <2>5, <2>7, <2>8 DEF x, Matched, Manned, Attempt
  <2>11. LegalStage(World.inst[s].status, x.inst[s].status)
    BY <1>6, <2>4, SolidParts DEF x, LegalStage, StageRows
  <2>12. ~Queued(x, s) /\ Remembered(x, s) BY <2>3, <2>4 DEF x, Queued, Remembered
  <2>13. Has(World, s) /\ Starts(World, x, s) BY <2>9 DEF Has, Starts
  <2>14. Begun(World, s) BY <1>6, SolidParts DEF Begun, TerminalStage
  <2>15. Goes(World, x, s) BY <2>10, <2>11, <2>12, <2>13, <2>14 DEF Goes
  <2>16. Moves(World', ToRecover \ {s}) BY <1>1, <1>3, <2>2, <2>3, <2>6, <2>15, SolidParts, MovesOne DEF x
  <2>17. NotOver(World') BY <2>3, SolidParts DEF NotOver
  <2> QED BY <1>3, <2>16, <2>17, MovesLead
<1> QED BY <1>5, <1>6 DEF Claim

\* What a frame that works does to the row of its stage.
LEMMA WorkedMoves ==
  ASSUME Solid, NEW s \in Stages, frames[s].at # None,
         inst[s].status \in Attempt \/ (inst[s].status = "awaiting_input" /\ ~frames[s].stop),
         NEW v \in WorldType, v.run = run, \A x \in Stages : x # s => Same(World, v, x),
         LaunchesOf(v, s) = LaunchesOf(World, s), v.owed[s] = owed[s],
         v.inst[s].live = inst[s].live, v.inst[s].no = inst[s].no,
         v.frames[s].no = frames[s].no, v.frames[s].stop = frames[s].stop, v.frames[s].at # None,
         v.inst[s].status \in Attempt \cup {"awaiting_input"}, v.inst[s].status # "starting",
         v.frames[s].at # "work" => v.inst[s].status = "awaiting_input",
         LegalStage(inst[s].status, v.inst[s].status)
  PROVE  Moves(v, ToRecover) /\ NotOver(v)
<1>1. /\ boot.phase # "down" /\ s \notin ToRecover /\ Manned(World, s) /\ Matched(World, s)
      /\ World.inst = inst /\ World.frames = frames /\ World.owed = owed
  BY SolidParts
<1>2. WorksIn(World, s) BY <1>1 DEF Manned, WorksIn
<1>3. inst[s].live /\ frames[s].no = inst[s].no /\ inst[s].no \in Nat
  BY <1>1, <1>2, SolidParts, StagePartTypes DEF Matched
<1>4. LaunchesOf(World, s) = {}
  BY <1>1, SolidParts DEF Matched, Due, Attempt, TerminalStage
<1>5. WorksIn(v, s) BY <1>1, <1>2 DEF WorksIn
<1>6. Matched(v, s) /\ Manned(v, s) BY <1>3, <1>4, <1>5 DEF Matched, Manned, Attempt
<1>7. Remembered(World, s) => owed[s] = None
  BY <1>1 DEF Remembered, Attempt, TerminalStage
<1>8. Remembered(World, s) => Remembered(v, s) BY <1>7 DEF Remembered
<1>9. ~Queued(v, s) /\ Has(World, s) /\ Starts(World, v, s)
  BY <1>1, <1>4 DEF Queued, Has, Starts
<1>10. Begun(World, s) BY <1>1 DEF Begun, Attempt, TerminalStage
<1>11. Goes(World, v, s) BY <1>1, <1>6, <1>8, <1>9, <1>10 DEF Goes
<1>12. Moves(v, ToRecover \ {s}) BY <1>1, <1>11, MovesOne
<1> QED BY <1>1, <1>12, SolidParts DEF NotOver

LEMMA StepLeads ==
  ASSUME Solid, NEW s \in Stages,
         NEW from \in Attempt, NEW to \in Attempt \ {"starting"}, LegalStage(from, to), Step(s, from, to)
  PROVE  Leads(World', ToRecover)
<1>1. frames[s].at = "work" /\ inst[s].status = from /\ Become([World EXCEPT !.inst[s].status = to])
  BY DEF Step
<1>2. World' \in WorldType BY FrameSteps, StatesOfStages DEF Solid, Sound, Attempt
<1>3. /\ World'.run = run /\ World'.frames = frames /\ World'.owed = owed /\ World'.launches = launches
      /\ World'.inst = [inst EXCEPT ![s].status = to]
  BY <1>1, SolidParts DEF Become, World, WorldType
<1>4. inst[s] \in InstanceType /\ inst \in [Stages -> InstanceType] BY SolidParts, WorldParts
<1>5. /\ World'.inst[s].status = to /\ World'.inst[s].live = inst[s].live
      /\ World'.inst[s].no = inst[s].no /\ \A x \in Stages : x # s => World'.inst[x] = inst[x]
  BY <1>3, <1>4 DEF InstanceType
<1>6. /\ \A x \in Stages : x # s => Same(World, World', x)
      /\ LaunchesOf(World', s) = LaunchesOf(World, s)
  BY <1>3, <1>5, SolidParts DEF Same, LaunchesOf
<1> DEFINE v == World'
<1>7. frames[s].at # None BY <1>1 DEF None
<1>8. Moves(v, ToRecover) /\ NotOver(v)
  <2> HIDE DEF v
  <2> QED BY <1>1, <1>2, <1>3, <1>5, <1>6, <1>7, WorkedMoves DEF v
<1> QED BY <1>8, MovesLead

LEMMA FrameStepsLead ==
  ASSUME Solid, NEW s \in Stages, SessionReady(s) \/ ToValidating(s) \/ BackToRunning(s)
  PROVE  Leads(World', ToRecover)
<1>1. /\ LegalStage("starting", "running") /\ LegalStage("running", "validating")
      /\ LegalStage("validating", "running")
  BY DEF LegalStage, StageRows
<1>2. {"starting", "running", "validating"} = Attempt BY DEF Attempt
<1> QED BY <1>1, <1>2, StepLeads DEF SessionReady, ToValidating, BackToRunning

LEMMA ParkLeads ==
  ASSUME Solid, NEW s \in Stages, NEW gate \in {"turn", "review"}, Park(s, gate)
  PROVE  Leads(World', ToRecover)
<1>1. /\ frames[s].at = "work" /\ inst[s].status = "running"
      /\ Become([World EXCEPT !.inst[s] = [@ EXCEPT !.status = "awaiting_input", !.gate = gate],
                              !.frames[s].at = "parked"])
  BY DEF Park
<1>2. World' \in WorldType BY ParkStep DEF Solid, Sound
<1>3. /\ World'.run = run /\ World'.owed = owed /\ World'.launches = launches
      /\ World'.inst = [inst EXCEPT ![s] = [@ EXCEPT !.status = "awaiting_input", !.gate = gate]]
      /\ World'.frames = [frames EXCEPT ![s].at = "parked"]
  BY <1>1, SolidParts DEF Become, World, WorldType
<1>4. /\ inst[s] \in InstanceType /\ inst \in [Stages -> InstanceType]
      /\ frames[s] \in FrameType /\ frames \in [Stages -> FrameType]
  BY SolidParts, WorldParts
<1>5. /\ World'.inst[s].status = "awaiting_input" /\ World'.inst[s].live = inst[s].live
      /\ World'.inst[s].no = inst[s].no /\ \A x \in Stages : x # s => World'.inst[x] = inst[x]
  BY <1>3, <1>4 DEF InstanceType
<1>6. /\ World'.frames[s].at = "parked" /\ World'.frames[s].no = frames[s].no
      /\ World'.frames[s].stop = frames[s].stop
      /\ \A x \in Stages : x # s => World'.frames[x] = frames[x]
  BY <1>3, <1>4 DEF FrameType
<1>7. /\ \A x \in Stages : x # s => Same(World, World', x)
      /\ LaunchesOf(World', s) = LaunchesOf(World, s)
  BY <1>3, <1>5, <1>6, SolidParts DEF Same, LaunchesOf
<1> DEFINE v == World'
<1>8. frames[s].at # None /\ v.frames[s].at # None BY <1>1, <1>6 DEF None
<1>9. inst[s].status \in Attempt /\ LegalStage(inst[s].status, "awaiting_input")
  BY <1>1 DEF Attempt, LegalStage, StageRows
<1>10. Moves(v, ToRecover) /\ NotOver(v)
  <2> HIDE DEF v
  <2> QED BY <1>2, <1>3, <1>5, <1>6, <1>7, <1>8, <1>9, WorkedMoves DEF v
<1> QED BY <1>10, MovesLead

LEMMA ResumedLeads == ASSUME Solid, NEW s \in Stages, Resumed(s) PROVE Leads(World', ToRecover)
<1> DEFINE w == [World EXCEPT !.inst[s] = [@ EXCEPT !.status = "running", !.gate = None],
                              !.frames[s].at = "work"]
<1>1. /\ frames[s].at = "answered" /\ ~frames[s].stop /\ inst[s].status = "awaiting_input"
      /\ Post(w, w)
  BY DEF Resumed
<1>2. w \in WorldType
  <2>1. [World EXCEPT !.inst[s] = [@ EXCEPT !.status = "running", !.gate = None]] \in WorldType
    BY SolidParts, GateType, StatesOfStages
  <2> QED BY <2>1, FrameAtType
<1>3. /\ w.run = run /\ w.owed = owed /\ w.launches = launches
      /\ w.inst = [inst EXCEPT ![s] = [@ EXCEPT !.status = "running", !.gate = None]]
      /\ w.frames = [frames EXCEPT ![s].at = "work"]
  BY SolidParts DEF WorldType
<1> HIDE DEF w
<1>4. /\ inst[s] \in InstanceType /\ inst \in [Stages -> InstanceType]
      /\ frames[s] \in FrameType /\ frames \in [Stages -> FrameType]
  BY SolidParts, WorldParts
<1>5. /\ w.inst[s].status = "running" /\ w.inst[s].live = inst[s].live
      /\ w.inst[s].no = inst[s].no /\ \A x \in Stages : x # s => w.inst[x] = inst[x]
  BY <1>3, <1>4 DEF InstanceType
<1>6. /\ w.frames[s].at = "work" /\ w.frames[s].no = frames[s].no
      /\ w.frames[s].stop = frames[s].stop
      /\ \A x \in Stages : x # s => w.frames[x] = frames[x]
  BY <1>3, <1>4 DEF FrameType
<1>7. (\A x \in Stages : x # s => Same(World, w, x)) /\ LaunchesOf(w, s) = LaunchesOf(World, s)
  BY <1>3, <1>5, <1>6, SolidParts DEF Same, LaunchesOf
<1>8. frames[s].at # None /\ w.frames[s].at # None BY <1>1, <1>6 DEF None
<1>9. "running" \in Attempt /\ LegalStage(inst[s].status, "running")
  BY <1>1 DEF Attempt, LegalStage, StageRows
<1>10. Moves(w, ToRecover) /\ NotOver(w)
  BY <1>1, <1>2, <1>3, <1>5, <1>6, <1>7, <1>8, <1>9, WorkedMoves
<1> QED BY <1>1, <1>3, <1>10, PostLeads

\* The frame of a stage that no attempt state needs ends.
LEMMA FrameGone ==
  ASSUME Solid, NEW s \in Stages, inst[s].status \notin Attempt, NEW w,
         w.inst[s] = inst[s], w.owed[s] = owed[s], LaunchesOf(w, s) = LaunchesOf(World, s),
         w.frames[s] = NoFrame
  PROVE  Goes(World, w, s)
<1>1. Matched(World, s) /\ World.inst = inst /\ World.owed = owed BY SolidParts
<1>2. w.frames[s].at = None /\ ~WorksIn(w, s) BY DEF NoFrame, WorksIn
<1>3. \A l : Due(World, l, s) => Due(w, l, s) BY <1>1, <1>2 DEF Due
<1>4. Matched(w, s) /\ Manned(w, s) BY <1>1, <1>2, <1>3 DEF Matched, Manned
<1>5. w.inst[s].status # "starting" BY DEF Attempt
<1>6. /\ Queued(w, s) = Queued(World, s) /\ Has(w, s) = Has(World, s)
      /\ Remembered(w, s) = Remembered(World, s)
  BY <1>1, FrameAside
<1> QED BY <1>1, <1>4, <1>5, <1>6 DEF Goes, LegalStage, Starts, Begun

\* A run that is terminal has no stage at work.
LEMMA TerminalRests ==
  ASSUME Solid, run.status \in TerminalRun, NEW s \in Stages
  PROVE  inst[s].status \in TerminalStage \cup {"absent"} /\ inst[s].status \notin Attempt
<1>1. Ended(World) BY SolidParts DEF Solid, Sound, Decided, Closing
<1>2. inst[s].status \in TerminalStage \cup {"absent"} BY <1>1, SolidParts DEF Ended
<1> QED BY <1>2 DEF TerminalStage, Attempt

LEMMA EndLeads ==
  ASSUME Solid, NEW s \in Stages, NEW ending \in Ending, End(s, ending)
  PROVE  Leads(World', ToRecover)
<1> DEFINE w == [World EXCEPT !.frames[s] = NoFrame]
           no == frames[s].no
           v == OnAttemptSettled(w, s, no, ending)
<1>1. frames[s].at # None /\ Post(w, v) BY DEF End
<1>2. boot.phase # "down" /\ s \notin ToRecover /\ Manned(World, s) /\ Matched(World, s)
  BY <1>1, SolidParts
<1>3. w \in WorldType
  <2>1. NoFrame \in FrameType BY DEF NoFrame, FrameType
  <2> QED BY <2>1, SolidParts, NewFrameAt
<1>4. /\ w.run = run /\ w.owed = owed /\ w.launches = launches /\ w.inst = inst
      /\ w.frames[s] = NoFrame /\ \A x \in Stages : x # s => w.frames[x] = frames[x]
  BY SolidParts DEF WorldType
<1> HIDE DEF w
<1>5. (\A x \in Stages : x # s => Same(World, w, x)) /\ LaunchesOf(w, s) = LaunchesOf(World, s)
  BY <1>4, SolidParts DEF Same, LaunchesOf
<1>6. v \in WorldType BY <1>3, OnAttemptSettledType
<1>7. inst[s].status \in Attempt => inst[s].live /\ frames[s].no = inst[s].no
  BY <1>2, SolidParts DEF Manned, Matched
<1>8. ASSUME inst[s].status \notin Attempt PROVE Moves(w, ToRecover)
  <2>1. Goes(World, w, s) BY <1>4, <1>5, <1>8, FrameGone
  <2> QED BY <1>2, <1>3, <1>4, <1>5, <2>1, MovesOne
<1>9. CASE no # inst[s].no \/ ~inst[s].live
  <2>1. v = w BY <1>3, <1>4, <1>9, OnAttemptSettledAt
  <2>2. Moves(w, ToRecover) BY <1>7, <1>8, <1>9
  <2>3. NotOver(w) BY <1>4, SolidParts DEF NotOver
  <2> HIDE DEF v
  <2> QED BY <1>1, <1>4, <2>1, <2>2, <2>3, PostLeads
<1>10. CASE no = inst[s].no /\ inst[s].live
  <2>1. Reported(w, v, s) BY <1>3, <1>4, <1>10, OnAttemptSettledAt
  <2>2. \A l \in LaunchesOf(w, s) : l.tracked /\ w.inst[s].status \in TerminalStage
    BY <1>1, <1>2, <1>4, <1>5, <1>10, SolidParts, StagePartTypes DEF Matched, Due
  <2>3. w.frames[s].at = None BY <1>4 DEF NoFrame
  <2> HIDE DEF v
  <2>4. /\ Off(v, s) /\ LegalStage(w.inst[s].status, v.inst[s].status)
        /\ v.inst[s].status = "awaiting_input" => w.inst[s].status = "awaiting_input"
        /\ (Remembered(w, s) => Remembered(v, s)) /\ (Begun(v, s) => Begun(w, s))
    BY <1>3, <2>1, <2>2, <2>3, ReportedOff
  <2>5. Remembered(World, s) = Remembered(w, s) BY <1>4, <1>5, SolidParts, FrameAside
  <2>6. Begun(w, s) = Begun(World, s) BY <1>4, SolidParts DEF Begun
  <2>7. Goes(World, v, s) BY <1>4, <2>4, <2>5, <2>6, SolidParts, OffGoes
  <2>8. v.run = run /\ \A x \in Stages : x # s => Same(World, v, x)
    BY <1>4, <1>5, <2>1, SameTrans DEF Reported
  <2>9. Moves(v, ToRecover \ {s}) BY <1>2, <1>6, <2>7, <2>8, MovesOne
  <2>10. NotOver(v) BY <2>8, SolidParts DEF NotOver
  <2>11. run.status \in TerminalRun => Moves(w, ToRecover) BY <1>8, TerminalRests
  <2> QED BY <1>1, <1>2, <1>4, <2>9, <2>10, <2>11, PostLeads
<1> QED BY <1>9, <1>10

-----------------------------------------------------------------------------
(* Timers.                                                                      *)

\* A stage that waits for its backoff, or is paused, turns ready or fails.
LEMMA RestedGoes ==
  ASSUME NEW w \in WorldType, NEW v, NEW s \in Stages, Matched(w, s),
         w.inst[s].status \in {"retry_wait", "paused"},
         v.frames[s] = w.frames[s], LaunchesOf(v, s) = LaunchesOf(w, s),
         v.inst[s].live = w.inst[s].live, v.inst[s].no = w.inst[s].no,
         v.inst[s].status \in {"ready", "failed"},
         w.inst[s].status = "retry_wait" => v.inst[s].status = "ready",
         \/ v.inst[s].status = "failed"
         \/ v.owed[s] \in RetryMode /\ v.inst[s].why = RetryIn(v.owed[s])
         \/ /\ w.inst[s].status = "retry_wait"
            /\ v.inst[s].why = w.inst[s].why /\ v.owed[s] = w.owed[s]
  PROVE  Goes(w, v, s)
<1>1. Off(w, s) /\ LaunchesOf(w, s) = {} BY PausedOff
<1>2. Off(v, s) BY <1>1, RowOff
<1>3. LegalStage(w.inst[s].status, v.inst[s].status) BY DEF LegalStage, StageRows
<1>4. ~Queued(v, s) BY <1>1 DEF Queued
<1>5. Remembered(w, s) => Remembered(v, s)
  <2>1. CASE v.inst[s].status = "failed" BY <2>1 DEF Remembered, TerminalStage
  <2>2. CASE v.inst[s].status = "ready" /\ v.inst[s].why = RetryIn(v.owed[s])
    <3>1. v.inst[s].why.base = "retry" /\ v.inst[s].why.mode = v.owed[s] BY <2>2 DEF RetryIn
    <3> QED BY <1>4, <2>2, <3>1 DEF Remembered
  <2>3. CASE v.inst[s].status = "ready" /\ w.inst[s].status = "retry_wait"
             /\ v.inst[s].why = w.inst[s].why /\ v.owed[s] = w.owed[s]
    BY <1>4, <2>3 DEF Remembered, TerminalStage
  <2> QED BY <2>1, <2>2, <2>3
<1>6. Begun(w, s) BY DEF Begun, TerminalStage
<1> QED BY <1>2, <1>3, <1>5, <1>6, OffGoes

LEMMA GoesFrom ==
  ASSUME NEW u, NEW w, NEW v, NEW s, Same(u, w, s), Goes(w, v, s) PROVE Goes(u, v, s)
<1>1. w.inst[s] = u.inst[s] BY DEF Same
<1> QED BY <1>1, SameParts DEF Goes, Starts, Begun

LEMMA StopOne ==
  ASSUME NEW w \in WorldType, NEW s \in Stages, NEW to \in StageState, NEW why \in [Stages -> Reason]
  PROVE  LET v == Stop(w, {s}, to, why)
         IN  /\ v \in WorldType /\ v.run = w.run
             /\ \A x \in Stages : x # s => Same(w, v, x)
             /\ Stopped(w, v, s, to, why[s])
<1> DEFINE v == Stop(w, {s}, to, why)
<1>1. {s} \in SUBSET Stages OBVIOUS
<1>2. ASSUME NEW x \in Stages
      PROVE  /\ v.run = w.run
             /\ x \notin {s} => Same(w, v, x)
             /\ x \in {s} => Stopped(w, v, x, to, why[x])
  BY <1>1, StopAt
<1>3. v \in WorldType BY <1>1, StopType
<1> HIDE DEF v
<1> QED BY <1>2, <1>3 DEF v

LEMMA CancelledIsLegal ==
  ASSUME NEW status \in StageState, status \notin TerminalStage \cup {"absent"}
  PROVE  LegalStage(status, "cancelled")
BY DEF StageState, LegalStage, StageRows

LEMMA RunTimerMoves ==
  ASSUME Solid, ToRecover = {}, boot.phase # "down", NEW w \in WorldType, Alike(World, w), w.run = run,
         NEW t \in TimerType, t.st = 0
  PROVE  Moves(OnTimer(w, t), {})
<1> DEFINE c == Cancel(w, Open(w))
           v == OnTimer(w, t)
<1>1. v \in WorldType BY OnTimerType
<1>2. CASE run.status # "paused"
  <2>1. v = w BY <1>2 DEF OnTimer
  <2> QED BY <1>1, <2>1, MovesAlike DEF LegalRun
<1>3. CASE run.status = "paused"
  <2>1. v = Decide(c, "finalizing", "failed") BY <1>3 DEF OnTimer
  <2>2. Open(w) \in SUBSET Stages BY DEF Open
  <2>3. c \in WorldType BY <2>2, CancelType
  <2>4. \A s \in Stages : IF s \in Open(w) THEN Stopped(w, c, s, "cancelled", Because(None)) ELSE Same(w, c, s)
    BY <2>2, CancelAt
  <2>5. "finalizing" \in RunState /\ "failed" \in Outcome BY StatesOfRuns DEF Outcome
  <2> HIDE DEF c
  <2>6. Alike(c, v) /\ v.run.status = "finalizing" BY <2>1, <2>3, <2>5, DecideAlike
  <2> HIDE DEF v
  <2>7. ASSUME NEW s \in Stages PROVE Goes(World, v, s)
    <3>1. Same(World, w, s) /\ Matched(World, s) /\ Manned(World, s) BY AlikeSame, SolidParts
    <3>2. Matched(w, s) /\ Manned(w, s) BY <3>1, SameParts
    <3>3. CASE s \in Open(w)
      <4>1. Stopped(w, v, s, "cancelled", Because(None))
        BY <2>4, <2>6, <3>3 DEF Alike, Stopped, Aborted, LaunchesOf
      <4>2. LegalStage(w.inst[s].status, "cancelled")
        <5>1. w.inst[s].status \in StageState BY StagePartTypes
        <5> QED BY <3>3, <5>1, CancelledIsLegal DEF Open
      <4>3. "cancelled" \in TerminalStage BY DEF TerminalStage
      <4>4. Goes(w, v, s) BY <1>1, <3>2, <4>1, <4>2, <4>3, EndedGoes
      <4> QED BY <3>1, <4>4, GoesFrom
    <3>4. CASE s \notin Open(w)
      <4>1. Same(w, c, s) BY <2>4, <3>4
      <4>2. Same(c, v, s) BY <2>6, AlikeSame
      <4>3. Same(World, v, s) BY <3>1, <4>1, <4>2, SameTrans
      <4> QED BY <3>1, <4>3, SameGoes
    <3> QED BY <3>3, <3>4
  <2>8. LegalRun(run.status, v.run.status) BY <1>3, <2>6 DEF LegalRun, RunRows
  <2> QED BY <1>1, <2>6, <2>7, <2>8, MovesAll DEF v
<1> QED BY <1>2, <1>3

LEMMA StageTimerMoves ==
  ASSUME Solid, ToRecover = {}, boot.phase # "down", NEW w \in WorldType, Alike(World, w), w.run = run,
         NEW t \in TimerType, t.st # 0
  PROVE  Moves(OnTimer(w, t), {})
<1> DEFINE s == t.st
           v == OnTimer(w, t)
<1>1. v \in WorldType BY OnTimerType
<1>2. s \in Stages BY GraphAssumption DEF TimerType, Stages
<1>3. Same(World, w, s) /\ Matched(World, s) /\ Manned(World, s) BY <1>2, AlikeSame, SolidParts
<1>4. Matched(w, s) /\ Manned(w, s) BY <1>3, SameParts
<1>5. w.inst[s].status \in StageState /\ Stop(w, {s}, "failed", AllBecause(None)) \in WorldType
  BY <1>2, StagePartTypes, StopType, AllBecauseType, StatesOfStages
<1>6. SUFFICES v.run = w.run /\ (\A x \in Stages : x # s => Same(w, v, x)) /\ Goes(w, v, s)
  <2> HIDE DEF v
  <2>1. \A x \in Stages : x # s => Same(World, v, x) BY <1>6, AlikeSame, SameTrans
  <2>2. Goes(World, v, s) BY <1>3, <1>6, GoesFrom
  <2> QED BY <1>1, <1>2, <1>6, <2>1, <2>2, MovesOne DEF v
<1>7. CASE t.kind = "retry" /\ w.inst[s].status = "retry_wait"
  <2>1. v = [w EXCEPT !.inst[s].status = "ready"] BY <1>7 DEF OnTimer
  <2> HIDE DEF v
  <2>2. Row(w, v, s, "ready", w.inst[s].why, w.inst[s].live) BY <1>2, <2>1, StatusAt, StatesOfStages
  <2>3. RowOnly(w, v, s) BY <2>2 DEF Row
  <2>4. (\A x \in Stages : x # s => Same(w, v, x)) /\ v.frames[s] = w.frames[s]
        /\ LaunchesOf(v, s) = LaunchesOf(w, s)
    BY <2>3, RowOnlySame
  <2>5. Goes(w, v, s) BY <1>2, <1>4, <1>7, <2>2, <2>4, RestedGoes DEF Row
  <2> QED BY <2>2, <2>4, <2>5 DEF Row
<1>8. CASE t.kind = "queue_timeout" /\ w.inst[s].status = "ready" /\ w.inst[s].live
  <2>1. v = Stop(w, {s}, "failed", AllBecause(None)) BY <1>8 DEF OnTimer
  <2>2. "failed" \in StageState /\ "failed" \in TerminalStage BY StatesOfStages DEF TerminalStage
  <2>3. /\ v.run = w.run /\ \A x \in Stages : x # s => Same(w, v, x)
        /\ Stopped(w, v, s, "failed", AllBecause(None)[s])
    <3> HIDE DEF v, s
    <3>1. AllBecause(None) \in [Stages -> Reason] BY AllBecauseType
    <3> QED BY <1>2, <2>1, <2>2, <3>1, StopOne
  <2>4. LegalStage(w.inst[s].status, "failed") BY <1>8 DEF LegalStage, StageRows
  <2> HIDE DEF v
  <2>5. Goes(w, v, s) BY <1>1, <1>2, <1>4, <2>2, <2>3, <2>4, EndedGoes
  <2> QED BY <2>3, <2>5
<1>9. CASE t.kind = "pause_ttl" /\ w.inst[s].status = "paused"
  <2>1. v = Fail(w, s) BY <1>9 DEF OnTimer
  <2> HIDE DEF v
  <2>2. Row(w, v, s, "failed", Because(None), w.inst[s].live) BY <1>2, <2>1, RowAt
  <2>3. RowOnly(w, v, s) BY <2>2 DEF Row
  <2>4. (\A x \in Stages : x # s => Same(w, v, x)) /\ v.frames[s] = w.frames[s]
        /\ LaunchesOf(v, s) = LaunchesOf(w, s)
    BY <2>3, RowOnlySame
  <2>5. Goes(w, v, s) BY <1>2, <1>4, <1>9, <2>2, <2>4, RestedGoes DEF Row
  <2> QED BY <2>2, <2>4, <2>5 DEF Row
<1>10. CASE v = w
  <2>1. \A x \in Stages : Same(w, v, x) BY <1>10 DEF Same
  <2> HIDE DEF v
  <2> QED BY <1>2, <1>4, <1>10, <2>1, SameGoes
<1>11. \/ t.kind = "retry" /\ w.inst[s].status = "retry_wait"
       \/ t.kind = "queue_timeout" /\ w.inst[s].status = "ready" /\ w.inst[s].live
       \/ t.kind = "pause_ttl" /\ w.inst[s].status = "paused"
       \/ v = w
  BY DEF OnTimer
<1> QED BY <1>7, <1>8, <1>9, <1>10, <1>11

LEMMA FireTimerLeads == ASSUME Solid, NEW t \in timers, FireTimer(t) PROVE Leads(World', {})
<1> DEFINE w == [World EXCEPT !.timers = timers \ {t}]
<1>1. IsUp /\ Post(w, OnTimer(w, t)) BY DEF FireTimer
<1>2. t \in TimerType /\ timers \ {t} \in SUBSET TimerType BY SolidParts, WorldParts
<1>3. w \in WorldType BY <1>2, SolidParts, NewTimers
<1>4. Alike(World, w) /\ w.run = run BY SolidParts DEF WorldType, Alike
<1> HIDE DEF w
<1>5. ToRecover = {} /\ boot.phase # "down" BY <1>1, SolidParts
<1>6. Moves(OnTimer(w, t), {}) BY <1>2, <1>3, <1>4, <1>5, RunTimerMoves, StageTimerMoves
<1> QED BY <1>1, <1>3, <1>4, <1>5, <1>6, UpPost

LEMMA RecoverRetryLeads == ASSUME Solid, NEW s \in Stages, RecoverRetry(s) PROVE Leads(World', {})
<1> DEFINE t == Timer(s, "retry")
<1>1. /\ boot.phase = "recovering" /\ boot.at = N + s
      /\ Post(World, OnTimer(World, t)) \/ Become(World)
  BY DEF RecoverRetry, Recovering
<1>2. ToRecover = {} BY <1>1, GraphAssumption DEF ToRecover, Stages
<1>3. Alike(World, World) /\ boot.phase # "down" BY <1>1 DEF Alike
<1>4. t \in TimerType BY TimerInType
<1>5. CASE Post(World, OnTimer(World, t))
  <2>1. Moves(OnTimer(World, t), {})
    BY <1>2, <1>3, <1>4, SolidParts, RunTimerMoves, StageTimerMoves
  <2> QED BY <1>2, <1>3, <1>5, <2>1, SolidParts, UpPost
<1>6. CASE Become(World)
  <2>1. Moves(World, {}) BY <1>2, <1>3, SolidParts, MovesAlike DEF LegalRun
  <2> QED BY <1>6, <2>1, SolidParts, BecomeLeads
<1> QED BY <1>1, <1>5, <1>6

-----------------------------------------------------------------------------
(* Faults.                                                                      *)

\* A stage at work that failed, once its frame is stopped.
LEMMA FailedOff ==
  ASSUME NEW w \in WorldType, NEW u, NEW v, NEW s \in Stages, Failed(w, u, s),
         w.inst[s].status \in Attempt, v.inst[s] = u.inst[s], v.owed[s] = u.owed[s],
         LaunchesOf(v, s) = {}, v.frames[s].at # None => v.frames[s].stop /\ v.frames[s].no <= u.inst[s].no
  PROVE  /\ Off(v, s) /\ LegalStage(w.inst[s].status, v.inst[s].status)
         /\ v.inst[s].status # "awaiting_input" /\ (Remembered(w, s) => Remembered(v, s))
         /\ Begun(w, s)
<1>1. v.inst[s].status \in {"failed", "paused", "retry_wait"} /\ ~v.inst[s].live BY DEF Failed
<1>2. Off(v, s) BY <1>1 DEF Off, Attempt
<1>3. LegalStage(w.inst[s].status, v.inst[s].status) BY <1>1 DEF LegalStage, StageRows
<1>4. Remembered(w, s) => w.owed[s] = None BY DEF Remembered, Attempt, TerminalStage
<1>5. ~Queued(v, s) BY DEF Queued
<1>6. Begun(w, s) BY DEF Begun, Attempt, TerminalStage
<1>7. CASE v.owed[s] = w.owed[s] BY <1>2, <1>3, <1>1, <1>4, <1>7, <1>6 DEF Remembered
<1>8. CASE v.inst[s].status = "retry_wait" /\ v.inst[s].why = RetryIn(v.owed[s])
  <2>1. v.inst[s].why.base = "retry" /\ v.inst[s].why.mode = v.owed[s] BY <1>8 DEF RetryIn
  <2>2. Remembered(v, s) BY <1>5, <1>8, <2>1 DEF Remembered
  <2> QED BY <1>1, <1>2, <1>3, <1>6, <2>2
<1>9. CASE v.inst[s].status = "paused"
           /\ v.inst[s].why = [base |-> "run_paused", phase |-> "retry_wait", mode |-> v.owed[s]]
  <2>1. /\ v.inst[s].why.base = "run_paused" /\ v.inst[s].why.phase # None
        /\ v.inst[s].why.mode = v.owed[s]
    BY <1>9 DEF None
  <2>2. Remembered(v, s) BY <1>9, <2>1 DEF Remembered
  <2> QED BY <1>1, <1>2, <1>3, <1>6, <2>2
<1> QED BY <1>7, <1>8, <1>9 DEF Failed

\* A stage in an attempt state, while the process is up.
LEMMA AtWork ==
  ASSUME Solid, IsUp, NEW s \in Stages, inst[s].status \in Attempt
  PROVE  /\ WorksIn(World, s) /\ inst[s].live /\ frames[s].no = inst[s].no /\ inst[s].no \in Nat
         /\ frames[s].at # None /\ LaunchesOf(World, s) = {} /\ run.status \notin TerminalRun
         /\ inst[s].status # "ready"
<1>1. Manned(World, s) /\ Matched(World, s) BY SolidParts
<1>2. WorksIn(World, s) BY <1>1, SolidParts DEF Manned
<1>3. LaunchesOf(World, s) = {}
  BY <1>1, SolidParts DEF Matched, Due, Attempt, TerminalStage
<1>4. inst[s].live /\ frames[s].no = inst[s].no /\ frames[s].at # None
  BY <1>1, <1>2, SolidParts DEF Matched, WorksIn
<1>5. run.status \notin TerminalRun BY TerminalRests
<1>6. inst[s].no \in Nat BY SolidParts, StagePartTypes
<1> QED BY <1>2, <1>3, <1>4, <1>5, <1>6 DEF Attempt

LEMMA LeaseExpireLeads ==
  ASSUME Solid, NEW s \in Stages, NEW safe \in BOOLEAN, LeaseExpire(s, safe) PROVE Leads(World', {})
<1> DEFINE w == Abort(World, {s})
           class == IF safe THEN "interrupted" ELSE "unsafe"
           v == OnLeaseExpired(w, s, safe)
<1>1. IsUp /\ inst[s].status \in Attempt /\ Post(w, v) BY DEF LeaseExpire
<1>2. /\ WorksIn(World, s) /\ inst[s].live /\ frames[s].no = inst[s].no /\ inst[s].no \in Nat
      /\ frames[s].at # None /\ LaunchesOf(World, s) = {} /\ run.status \notin TerminalRun
      /\ inst[s].status # "ready"
  BY <1>1, AtWork
<1>3. w \in WorldType /\ v \in WorldType BY SolidParts, AbortType, OnLeaseExpiredType
<1>4. w.run = run /\ w.inst = inst /\ w.owed = owed /\ \A x \in Stages : x # s => Same(World, w, x)
  BY SolidParts, AbortAt
<1>5. Aborted(World, w, s) BY SolidParts, AbortAt
<1>6. /\ LaunchesOf(w, s) = {} /\ w.frames[s].stop /\ w.frames[s].no = inst[s].no
  BY <1>2, <1>5, SolidParts DEF Aborted
<1> HIDE DEF w
<1>7. Failed(w, v, s)
  <2>1. v = ApplyFailure(Settled(w, s, TRUE), s, class) BY <1>1, <1>2, <1>4 DEF OnLeaseExpired
  <2> HIDE DEF class, v
  <2> QED BY <1>2, <1>3, <1>4, <2>1, SettledFailureAt
<1> HIDE DEF v
<1>8. v.frames[s] = w.frames[s] /\ LaunchesOf(v, s) = {} /\ v.run = run
      /\ \A x \in Stages : x # s => Same(World, v, x)
  BY <1>4, <1>6, <1>7, SameTrans DEF Failed
<1>9. v.inst[s].no = inst[s].no BY <1>4, <1>7 DEF Failed
<1>10. /\ Off(v, s) /\ LegalStage(w.inst[s].status, v.inst[s].status)
       /\ v.inst[s].status # "awaiting_input" /\ (Remembered(w, s) => Remembered(v, s)) /\ Begun(w, s)
  BY <1>1, <1>2, <1>3, <1>4, <1>6, <1>7, <1>8, <1>9, FailedOff
<1>11. Remembered(World, s) = Remembered(w, s) BY <1>2, <1>4, <1>6, SolidParts, FrameAside
<1>12. Begun(w, s) = Begun(World, s) BY <1>4, SolidParts DEF Begun
<1>13. Goes(World, v, s) BY <1>4, <1>10, <1>11, <1>12, SolidParts, OffGoes
<1>14. Moves(v, {}) BY <1>1, <1>3, <1>8, <1>13, SolidParts, MovesOne
<1> QED BY <1>1, <1>2, <1>4, <1>14, PostLeads

LEMMA RunBudgetSpentLeads ==
  ASSUME Solid, NEW s \in Stages, RunBudgetSpent(s) PROVE Leads(World', {})
<1> DEFINE v == [World EXCEPT !.run.over = TRUE]
<1>1. IsUp /\ Post(World, v) BY DEF RunBudgetSpent
<1>2. v \in WorldType BY SolidParts, NewRunParts
<1>3. Alike(World, v) /\ v.run.status = run.status
  BY SolidParts DEF WorldType, RunType, Alike
<1> HIDE DEF v
<1>4. Moves(v, {}) BY <1>1, <1>2, <1>3, SolidParts, MovesAlike DEF LegalRun
<1>5. Alike(World, World) BY DEF Alike
<1> QED BY <1>1, <1>4, <1>5, SolidParts, UpPost

LEMMA StageBudgetSpentLeads ==
  ASSUME Solid, NEW s \in Stages, StageBudgetSpent(s) PROVE Leads(World', {})
<1> DEFINE u == ApplyFailure(Settled(World, s, TRUE), s, "fatal")
           v == Abort(u, {s})
<1>1. IsUp /\ inst[s].status \in Attempt /\ Post(World, v) BY DEF StageBudgetSpent
<1>2. /\ WorksIn(World, s) /\ inst[s].live /\ frames[s].no = inst[s].no /\ inst[s].no \in Nat
      /\ frames[s].at # None /\ LaunchesOf(World, s) = {} /\ inst[s].status # "ready"
  BY <1>1, AtWork
<1>3. Failed(World, u, s) BY <1>2, SolidParts, SettledFailureAt
<1>4. u \in WorldType BY SolidParts, SettledType, ApplyFailureType
<1> HIDE DEF u
<1>5. v \in WorldType BY <1>4, AbortType
<1>6. v.run = u.run /\ v.inst = u.inst /\ v.owed = u.owed /\ \A x \in Stages : x # s => Same(u, v, x)
  BY <1>4, AbortAt
<1>7. Aborted(u, v, s) BY <1>4, AbortAt
<1>8. u.frames[s] = frames[s] /\ LaunchesOf(u, s) = {} /\ u.run = run /\ u.inst[s].no = inst[s].no
      /\ \A x \in Stages : x # s => Same(World, u, x)
  BY <1>2, <1>3, SolidParts DEF Failed
<1> HIDE DEF v
<1>9. LaunchesOf(v, s) = {} /\ v.frames[s].stop /\ v.frames[s].no = u.inst[s].no
  BY <1>2, <1>7, <1>8 DEF Aborted
<1>10. \A x \in Stages : x # s => Same(World, v, x) BY <1>6, <1>8, SameTrans
<1>11. /\ Off(v, s) /\ LegalStage(inst[s].status, v.inst[s].status)
       /\ v.inst[s].status # "awaiting_input" /\ (Remembered(World, s) => Remembered(v, s))
       /\ Begun(World, s)
  BY <1>1, <1>2, <1>3, <1>6, <1>8, <1>9, SolidParts, FailedOff
<1>12. Goes(World, v, s) BY <1>11, SolidParts, OffGoes
<1>13. Moves(v, {}) BY <1>1, <1>5, <1>6, <1>8, <1>10, <1>12, SolidParts, MovesOne
<1>14. Alike(World, World) BY DEF Alike
<1> QED BY <1>1, <1>13, <1>14, SolidParts, UpPost

-----------------------------------------------------------------------------
(* Recovery.                                                                    *)

LEMMA RecoverAttemptLeads ==
  ASSUME Solid, NEW s \in Stages, NEW safe \in BOOLEAN, RecoverAttempt(s, safe)
  PROVE  Leads(World', ToRecover \ {s})
<1> DEFINE was == boot.snap[s]
           Q == ToRecover \ {s}
           relaunched == [World EXCEPT !.launches =
                            {IF l.st = s THEN [l EXCEPT !.tracked = FALSE] ELSE l : l \in launches}
                            \cup {[st |-> s, no |-> was.no, tracked |-> TRUE]}]
           lost == CASE was.status \in Attempt ->
                          OnAttemptSettled(World, s, was.no, IF safe THEN "interrupted" ELSE "unsafe")
                     [] was.status = "awaiting_input" -> OnFrameLost(World, s, was.no)
                     [] OTHER -> OnAttemptSettled(World, s, was.no, "aborted")
<1>1. /\ boot.phase = "recovering" /\ boot.at = s
      /\ IF ~was.live \/ frames[s].at # None THEN Become(World)
         ELSE IF was.status = "ready" THEN Become(relaunched) ELSE Post(World, lost)
  BY DEF RecoverAttempt, Recovering
<1>2. boot.phase # "down" /\ ~IsUp /\ s \in 1 .. N /\ s <= s
  BY <1>1, GraphAssumption DEF IsUp, Stages
<1>3. CASE ~was.live \/ frames[s].at # None
  <2>1. s \notin ToRecover BY <1>3, SolidParts DEF ToRecover
  <2>2. Alike(World, World) BY DEF Alike
  <2>3. Moves(World, ToRecover) BY <1>2, <2>2, SolidParts, MovesAlike DEF LegalRun
  <2>4. ToRecover \ {s} = ToRecover BY <2>1
  <2> QED BY <1>1, <1>3, <2>3, <2>4, SolidParts, BecomeLeads
<1>4. CASE was.live /\ frames[s].at = None
  <2>1. s \in ToRecover BY <1>1, <1>2, <1>4 DEF ToRecover
  <2>2. AtRest(World, s, was) /\ Matched(World, s) BY <1>2, <2>1, SolidParts
  <2>3. /\ frames[s].at = None /\ LaunchesOf(World, s) = {} /\ inst[s].no = was.no
        /\ (inst[s].status = was.status /\ inst[s].live) \/ inst[s].status = "cancelled"
    BY <2>2, SolidParts DEF AtRest
  <2>4. inst[s].no \in Nat /\ inst[s].status \in StageState BY SolidParts, StagePartTypes
  <2>5. CASE was.status = "ready"
    <3> DEFINE v == relaunched
    <3>1. Become(v) BY <1>1, <1>4, <2>5
    <3>2. World' \in WorldType BY RecoverAttemptStep DEF Solid, Sound
    <3>3. /\ World'.run = run /\ World'.inst = inst /\ World'.frames = frames /\ World'.owed = owed
          /\ World'.launches = {IF l.st = s THEN [l EXCEPT !.tracked = FALSE] ELSE l : l \in launches}
                                  \cup {[st |-> s, no |-> was.no, tracked |-> TRUE]}
      BY <3>1, SolidParts DEF Become, World, WorldType
    <3>4. \A l \in launches : l.st # s BY <2>3, SolidParts DEF LaunchesOf
    <3>5. World'.launches = launches \cup {[st |-> s, no |-> was.no, tracked |-> TRUE]}
      BY <3>3, <3>4
    <3> HIDE DEF v
    <3> DEFINE x == World'
    <3> HIDE DEF x
    <3>6. LaunchesOf(x, s) = {[st |-> s, no |-> was.no, tracked |-> TRUE]}
      BY <3>4, <3>5 DEF LaunchesOf, x
    <3>7. \A y \in Stages : y # s => Same(World, x, y)
      BY <3>3, <3>5, SolidParts DEF Same, LaunchesOf, x
    <3>8. \A l \in LaunchesOf(x, s) : l.tracked /\ (inst[s].status \in TerminalStage \/ Due(x, l, s))
      BY <2>3, <2>5, <3>3, <3>6 DEF Due, TerminalStage, x
    <3>9. inst[s].status \notin Attempt BY <2>3, <2>5 DEF Attempt
    <3>10. ~WorksIn(x, s) BY <2>3, <3>3 DEF WorksIn, x
    <3>11. Matched(x, s) /\ Manned(x, s)
      BY <2>2, <2>3, <3>3, <3>8, <3>9, <3>10, SolidParts DEF Matched, Manned, x
    <3>12. Goes(World, x, s)
      BY <1>2, <3>3, <3>9, <3>11, SolidParts DEF Goes, LegalStage, Starts, Begun, Attempt, x
    <3>13. Moves(x, ToRecover \ {s}) BY <1>2, <3>2, <3>3, <3>7, <3>12, SolidParts, MovesOne DEF x
    <3>14. NotOver(x) BY <3>3, SolidParts DEF NotOver, x
    <3> QED BY <3>13, <3>14, MovesLead DEF x
  <2>6. CASE was.status # "ready"
    <3>1. Post(World, lost) BY <1>1, <1>4, <2>6
    <3>2. inst[s].status \notin Attempt => Moves(World, Q)
      <4>1. SUFFICES ASSUME inst[s].status \notin Attempt PROVE Moves(World, Q) OBVIOUS
      <4>2. Same(World, World, s) /\ Manned(World, s) BY <4>1, SolidParts DEF Same, Manned
      <4>3. Goes(World, World, s) BY <2>2, <4>2, SameGoes
      <4>4. \A x \in Stages : x # s => Same(World, World, x) BY DEF Same
      <4> QED BY <1>2, <4>3, <4>4, SolidParts, MovesOne
    <3>3. \/ lost = World /\ inst[s].status \notin Attempt
          \/ Reported(World, lost, s)
      <4>1. CASE was.status \in Attempt
        <5>1. lost = OnAttemptSettled(World, s, was.no, IF safe THEN "interrupted" ELSE "unsafe")
          BY <4>1 DEF Attempt
        <5> HIDE DEF lost
        <5>2. IF was.no # inst[s].no \/ ~inst[s].live THEN lost = World ELSE Reported(World, lost, s)
          BY <5>1, SolidParts, OnAttemptSettledAt
        <5> QED BY <2>3, <5>2 DEF Attempt
      <4>2. CASE was.status = "awaiting_input"
        <5>1. lost = OnFrameLost(World, s, was.no) BY <4>2 DEF Attempt
        <5> HIDE DEF lost
        <5>2. IF was.no # inst[s].no \/ ~inst[s].live \/ inst[s].status # "awaiting_input"
                THEN lost = World ELSE Reported(World, lost, s)
          BY <5>1, SolidParts, OnFrameLostAt
        <5> QED BY <2>3, <4>2, <5>2 DEF Attempt
      <4>3. CASE was.status \notin Attempt \cup {"awaiting_input"}
        <5>1. lost = OnAttemptSettled(World, s, was.no, "aborted") BY <4>3
        <5> HIDE DEF lost
        <5>2. IF was.no # inst[s].no \/ ~inst[s].live THEN lost = World ELSE Reported(World, lost, s)
          BY <5>1, SolidParts, OnAttemptSettledAt
        <5> QED BY <2>3, <4>3, <5>2 DEF Attempt
      <4> QED BY <4>1, <4>2, <4>3
    <3>4. lost \in WorldType
      <4>1. /\ \A no, ending : OnAttemptSettled(World, s, no, ending) \in WorldType
            /\ OnFrameLost(World, s, was.no) \in WorldType
        BY SolidParts, OnAttemptSettledType, OnFrameLostType
      <4> QED BY <4>1
    <3> HIDE DEF lost, was
    <3>5. run.status \in TerminalRun => Moves(World, Q) BY <3>2, TerminalRests
    <3>6. CASE lost = World /\ inst[s].status \notin Attempt
      BY <3>1, <3>2, <3>5, <3>6, SolidParts, PostLeads
    <3>7. CASE Reported(World, lost, s)
      <4>1. /\ Off(lost, s) /\ LegalStage(inst[s].status, lost.inst[s].status)
            /\ lost.inst[s].status = "awaiting_input" => inst[s].status = "awaiting_input"
            /\ Remembered(World, s) => Remembered(lost, s)
            /\ Begun(lost, s) => Begun(World, s)
        BY <2>3, <3>7, SolidParts, ReportedOff
      <4>2. Goes(World, lost, s) BY <4>1, SolidParts, OffGoes
      <4>3. lost.run = run /\ \A x \in Stages : x # s => Same(World, lost, x)
        BY <3>7, SolidParts DEF Reported
      <4>4. Moves(lost, Q) BY <1>2, <3>4, <4>2, <4>3, MovesOne
      <4>5. NotOver(lost) BY <4>3, SolidParts DEF NotOver
      <4> QED BY <3>1, <3>5, <4>4, <4>5, SolidParts, PostLeads
    <3> QED BY <3>3, <3>6, <3>7
  <2> QED BY <2>5, <2>6
<1> QED BY <1>3, <1>4

LEMMA RecoverRunLeads == ASSUME Solid, RecoverRun PROVE Leads(World', {})
<1> DEFINE acked == \A s \in Stages : boot.snap[s].live => boot.snap[s].status = "ready"
           w == IF run.status = "starting" THEN [World EXCEPT !.tasks.prepare = TRUE]
                ELSE IF run.status \in {"finalizing", "cancelling"} /\ run.outcome # None /\ acked
                       THEN Finalize(World) ELSE World
<1>1. boot.phase = "recovering" /\ boot.at = 2 * N + 1 /\ Post(w, w)
  BY DEF RecoverRun, Recovering
<1>2. ToRecover = {} /\ boot.phase # "down" BY <1>1, GraphAssumption DEF ToRecover, Stages
<1>3. w \in WorldType /\ Alike(World, w) /\ w.run = run
  <2> HIDE DEF acked
  <2>1. CASE run.status = "starting"
    <3>1. [World EXCEPT !.tasks.prepare = TRUE] \in WorldType BY SolidParts, NewPrepare
    <3>2. /\ Alike(World, [World EXCEPT !.tasks.prepare = TRUE])
          /\ [World EXCEPT !.tasks.prepare = TRUE].run = run
      BY SolidParts DEF WorldType, Alike
    <3> QED BY <2>1, <3>1, <3>2
  <2>2. CASE run.status # "starting" /\ run.outcome # None /\ w = Finalize(World)
    <3>1. run.outcome \in Outcome BY <2>2, SolidParts, RunMoves
    <3>2. Finalize(World) \in WorldType BY <3>1, SolidParts, FinalizeType
    <3> QED BY <2>2, <3>2, SolidParts, FinalizeAlike
  <2>3. CASE w = World BY <2>3, SolidParts DEF Alike
  <2> QED BY <2>1, <2>2, <2>3
<1> HIDE DEF w
<1>4. Moves(w, {}) BY <1>2, <1>3, SolidParts, MovesAlike DEF LegalRun
<1> QED BY <1>1, <1>2, <1>3, <1>4, UpPost

-----------------------------------------------------------------------------
(* Operator commands.                                                           *)

LEMMA CommandLeads ==
  ASSUME Solid, IsUp, NEW v, Post(World, v), Moves(v, {}) PROVE Leads(World', {})
<1>1. Alike(World, World) BY DEF Alike
<1> QED BY <1>1, SolidParts, UpPost

LEMMA PauseTheRunLeads ==
  ASSUME Solid, NEW mode \in {"drain", "interrupt"}, PauseTheRun(mode) PROVE Leads(World', {})
<1> DEFINE v == PauseRun(World, mode, "user")
<1>1. IsUp /\ run.status \in RunLive /\ Post(World, v) BY DEF PauseTheRun, Operator, Command
<1>2. ASSUME NEW s \in Stages
      PROVE  v \in WorldType /\ v.run.status = "paused" /\ ~Queued(v, s) /\ Goes(World, v, s)
  <2>1. Matched(World, s) /\ Manned(World, s) BY <1>1, SolidParts
  <2> QED BY <2>1, SolidParts, PauseRunGoes
<1> HIDE DEF v
<1>3. 1 \in Stages BY GraphAssumption DEF Stages
<1>4. LegalRun(run.status, "paused") BY <1>1 DEF LegalRun, RunRows
<1>5. Moves(v, {}) BY <1>2, <1>3, <1>4 DEF Moves, Halted
<1> QED BY <1>1, <1>5, CommandLeads

LEMMA ResumedMoves ==
  ASSUME Solid, IsUp, NEW w \in WorldType, Alike(World, w), run.status = "paused"
  PROVE  Moves(ResumeRun(w), {})
<1> DEFINE v == ResumeRun(w)
<1>1. v \in WorldType BY ResumeRunType
<1>2. ASSUME NEW s \in Stages PROVE v.run.status = "running" /\ Goes(World, v, s)
  <2>1. Same(World, w, s) /\ Matched(World, s) /\ Manned(World, s) BY AlikeSame, SolidParts
  <2>2. Matched(w, s) /\ Manned(w, s) BY <2>1, SameParts
  <2>3. /\ v.run.status = "running"
        /\ \/ Same(w, v, s)
           \/ /\ w.inst[s].status = "paused" /\ w.inst[s].why.base = "run_paused"
              /\ Unpaused(w, v, s, "run_paused")
    BY ResumeRunAt
  <2> HIDE DEF v
  <2>4. Goes(w, v, s) BY <1>1, <2>2, <2>3, SameGoes, UnpausedGoes
  <2> QED BY <2>1, <2>3, <2>4, GoesFrom
<1> HIDE DEF v
<1>3. 1 \in Stages BY GraphAssumption DEF Stages
<1>4. LegalRun(run.status, v.run.status) /\ v.run.status # "paused"
  BY <1>2, <1>3 DEF LegalRun, RunRows
<1>5. Moves(v, {}) BY <1>1, <1>2, <1>4, MovesAll
<1> QED BY <1>5 DEF v

LEMMA ResumeTheRunLeads == ASSUME Solid, ResumeTheRun PROVE Leads(World', {})
<1>1. IsUp /\ run.status = "paused" /\ Post(World, ResumeRun(World))
  BY DEF ResumeTheRun, Operator, Command
<1>2. Alike(World, World) BY DEF Alike
<1>3. Moves(ResumeRun(World), {}) BY <1>1, <1>2, SolidParts, ResumedMoves
<1> QED BY <1>1, <1>3, CommandLeads

LEMMA RaiseBudgetLeads == ASSUME Solid, RaiseBudget PROVE Leads(World', {})
<1> DEFINE r == [World EXCEPT !.run.over = FALSE]
<1>1. IsUp /\ (Post(World, r) \/ (run.status = "paused" /\ Post(World, ResumeRun(r))))
  BY DEF RaiseBudget, Operator, Command
<1>2. r \in WorldType BY SolidParts, NewRunParts
<1>3. Alike(World, r) /\ r.run.status = run.status
  BY SolidParts DEF WorldType, RunType, Alike
<1> HIDE DEF r
<1>4. CASE Post(World, r)
  <2>1. Moves(r, {}) BY <1>1, <1>2, <1>3, SolidParts, MovesAlike DEF LegalRun
  <2> QED BY <1>1, <1>4, <2>1, CommandLeads
<1>5. CASE run.status = "paused" /\ Post(World, ResumeRun(r))
  <2>1. Moves(ResumeRun(r), {}) BY <1>1, <1>2, <1>3, <1>5, ResumedMoves
  <2> QED BY <1>1, <1>5, <2>1, CommandLeads
<1> QED BY <1>1, <1>4, <1>5

LEMMA CancelTheRunLeads == ASSUME Solid, CancelTheRun PROVE Leads(World', {})
<1> DEFINE v == CancelRun(World)
<1>1. IsUp /\ run.status \notin {"cancelling"} \cup TerminalRun /\ Post(World, v)
  BY DEF CancelTheRun, Operator, Command
<1>2. v \in WorldType BY SolidParts, CancelRunType
<1>3. ASSUME NEW s \in Stages PROVE v.run.status = "cancelling" /\ Goes(World, v, s)
  <2>1. Matched(World, s) /\ Manned(World, s) BY <1>1, SolidParts
  <2>2. /\ v.run.status = "cancelling"
        /\ \/ Same(World, v, s)
           \/ /\ inst[s].status \notin TerminalStage \cup {"absent"}
              /\ Stopped(World, v, s, "cancelled", Because(None))
    BY SolidParts, CancelRunAt
  <2> HIDE DEF v
  <2>3. CASE Same(World, v, s) BY <2>1, <2>2, <2>3, SameGoes
  <2>4. CASE inst[s].status \notin TerminalStage \cup {"absent"}
             /\ Stopped(World, v, s, "cancelled", Because(None))
    <3>1. "cancelled" \in TerminalStage BY DEF TerminalStage
    <3>2. LegalStage(inst[s].status, "cancelled")
      <4>1. inst[s].status \in StageState BY SolidParts, StagePartTypes
      <4> QED BY <2>4, <4>1, CancelledIsLegal
    <3> QED BY <1>2, <2>1, <2>2, <2>4, <3>1, <3>2, SolidParts, EndedGoes
  <2> QED BY <2>2, <2>3, <2>4
<1> HIDE DEF v
<1>4. 1 \in Stages BY GraphAssumption DEF Stages
<1>5. LegalRun(run.status, "cancelling")
  BY <1>1, SolidParts DEF RunState, RunLive, LegalRun, RunRows
<1>6. Moves(v, {}) BY <1>2, <1>3, <1>4, <1>5, MovesAll
<1> QED BY <1>1, <1>6, CommandLeads

\* A command to one stage.
LEMMA StageCommandLeads ==
  ASSUME Solid, IsUp, NEW v \in WorldType, Post(World, v), v.run = run, NEW s \in Stages,
         \A x \in Stages : x # s => Same(World, v, x), Goes(World, v, s)
  PROVE  Leads(World', {})
<1>1. Moves(v, {}) BY SolidParts, MovesOne
<1> QED BY <1>1, CommandLeads

LEMMA StopStage ==
  ASSUME Solid, NEW s \in Stages, NEW to \in StageState, NEW why \in [Stages -> Reason],
         NEW v, v = Stop(World, {s}, to, why)
  PROVE  /\ v \in WorldType /\ v.run = run /\ \A x \in Stages : x # s => Same(World, v, x)
         /\ Stopped(World, v, s, to, why[s])
<1>1. World \in WorldType /\ World.run = run BY SolidParts
<1> QED BY <1>1, StopOne

LEMMA PauseStageLeads == ASSUME Solid, NEW s \in Stages, PauseStage(s) PROVE Leads(World', {})
<1> DEFINE why == [x \in Stages |-> PauseReason(inst[x], "user_paused")]
           u == Stop(World, {s}, "paused", why)
           v == WithTtl(u, s)
<1>1. /\ IsUp /\ Post(World, v) /\ inst[s].status \in {"ready", "retry_wait"} \cup Attempt
  BY DEF PauseStage, On, Operator, Command
<1>2. why \in [Stages -> Reason]
  <2>1. \A x \in Stages : inst[x] \in InstanceType BY SolidParts, WorldParts
  <2> QED BY <2>1, PauseReasonType
<1>3. why[s] = PauseReason(World.inst[s], "user_paused") BY SolidParts
<1> HIDE DEF why
<1>4. /\ u \in WorldType /\ u.run = run /\ \A x \in Stages : x # s => Same(World, u, x)
      /\ Stopped(World, u, s, "paused", why[s])
  <2>1. u = Stop(World, {s}, "paused", why) /\ "paused" \in StageState BY StatesOfStages
  <2> HIDE DEF u
  <2> QED BY <1>2, <2>1, StopStage
<1> HIDE DEF u
<1>5. Alike(u, v) /\ v.run = u.run /\ v \in WorldType BY <1>4, WithTtlAlike, WithTtlType
<1> HIDE DEF v
<1>6. \A x \in Stages : x # s => Same(World, v, x) BY <1>4, <1>5, AlikeSame, SameTrans
<1>7. Stopped(World, v, s, "paused", PauseReason(World.inst[s], "user_paused"))
  BY <1>3, <1>4, <1>5 DEF Alike, Stopped, Aborted, LaunchesOf
<1>8. Goes(World, v, s) BY <1>1, <1>5, <1>7, SolidParts, PausedGoes
<1> QED BY <1>1, <1>4, <1>5, <1>6, <1>8, StageCommandLeads

LEMMA ResumeStageLeads == ASSUME Solid, NEW s \in Stages, ResumeStage(s) PROVE Leads(World', {})
<1> DEFINE base == IF inst[s].why.base = "run_paused" THEN "run_paused" ELSE "user_paused"
           v == Unpause(World, {s}, base)
<1>1. IsUp /\ Post(World, v) /\ inst[s].status = "paused"
  BY DEF ResumeStage, On, Operator, Command
<1>2. {s} \in SUBSET Stages OBVIOUS
<1>3. v \in WorldType BY <1>2, SolidParts, UnpauseType
<1>4. ASSUME NEW x \in Stages
      PROVE  /\ v.run = run
             /\ x \notin {s} => Same(World, v, x)
             /\ x \in {s} => Unpaused(World, v, x, base)
  <2> HIDE DEF base
  <2> QED BY <1>2, SolidParts, UnpauseAt
<1> HIDE DEF v
<1>5. v.run = run /\ (\A x \in Stages : x # s => Same(World, v, x)) /\ Unpaused(World, v, s, base)
  BY <1>4
<1>6. base = IF World.inst[s].why.base = "run_paused" THEN "run_paused" ELSE "user_paused" BY SolidParts
<1> HIDE DEF base
<1>7. Goes(World, v, s) BY <1>1, <1>3, <1>5, <1>6, SolidParts, UnpausedGoes
<1> QED BY <1>1, <1>3, <1>5, <1>7, StageCommandLeads

LEMMA RetryStageLeads ==
  ASSUME Solid, NEW s \in Stages, NEW mode \in RetryMode, RetryStage(s, mode) PROVE Leads(World', {})
<1> DEFINE T == timers \ {Timer(s, "pause_ttl")}
           v == [World EXCEPT !.inst[s] = [@ EXCEPT !.status = "ready", !.why = RetryIn(mode)],
                              !.owed[s] = mode, !.timers = T]
<1>1. IsUp /\ Post(World, v) /\ inst[s].status = "paused"
  BY DEF RetryStage, On, Operator, Command
<1>2. T \in SUBSET TimerType BY SolidParts, WorldParts
<1> HIDE DEF T
<1>3. v \in WorldType BY <1>2, SolidParts, RetriedType
<1>4. /\ v.run = run /\ v.frames = frames /\ v.launches = launches /\ v.owed[s] = mode
      /\ v.inst[s] = [inst[s] EXCEPT !.status = "ready", !.why = RetryIn(mode)]
      /\ \A x \in Stages : x # s => v.inst[x] = inst[x] /\ v.owed[x] = owed[x]
  BY SolidParts DEF WorldType
<1> HIDE DEF v
<1>5. inst[s] \in InstanceType BY SolidParts, WorldParts
<1>6. /\ v.inst[s].status = "ready" /\ v.inst[s].why = RetryIn(v.owed[s])
      /\ v.inst[s].live = inst[s].live /\ v.inst[s].no = inst[s].no
  BY <1>4, <1>5 DEF InstanceType
<1>7. /\ \A x \in Stages : x # s => Same(World, v, x)
      /\ v.frames[s] = frames[s] /\ LaunchesOf(v, s) = LaunchesOf(World, s)
  BY <1>4, SolidParts DEF Same, LaunchesOf
<1>8. Goes(World, v, s) BY <1>1, <1>4, <1>6, <1>7, SolidParts, RestedGoes
<1> QED BY <1>1, <1>3, <1>4, <1>7, <1>8, StageCommandLeads

LEMMA SkipStageLeads ==
  ASSUME Solid, NEW s \in Stages, NEW as \in {"completed", "skipped"}, SkipStage(s, as)
  PROVE  Leads(World', {})
<1> DEFINE u == Stop(World, {s}, "skipped", AllBecause(None))
           v == [u EXCEPT !.inst[s].as = as]
<1>1. IsUp /\ Post(World, v) /\ inst[s].status \in {"paused", "ready"}
  BY DEF SkipStage, On, Operator, Command
<1>2. v \in WorldType BY SolidParts, SkippedType
<1>3. /\ u \in WorldType /\ u.run = run /\ \A x \in Stages : x # s => Same(World, u, x)
      /\ Stopped(World, u, s, "skipped", AllBecause(None)[s])
  <2>1. u = Stop(World, {s}, "skipped", AllBecause(None)) /\ "skipped" \in StageState BY StatesOfStages
  <2>2. AllBecause(None) \in [Stages -> Reason] BY AllBecauseType
  <2> HIDE DEF u
  <2> QED BY <2>1, <2>2, StopStage
<1> HIDE DEF u
<1>4. /\ v.run = u.run /\ v.frames = u.frames /\ v.launches = u.launches /\ v.owed = u.owed
      /\ v.inst[s] = [u.inst[s] EXCEPT !.as = as]
      /\ \A x \in Stages : x # s => v.inst[x] = u.inst[x]
  BY <1>3 DEF WorldType
<1>5. u.inst[s] \in InstanceType BY <1>3, WorldParts
<1> HIDE DEF v
<1>6. /\ v.inst[s].status = u.inst[s].status /\ v.inst[s].why = u.inst[s].why
      /\ v.inst[s].live = u.inst[s].live /\ v.inst[s].no = u.inst[s].no /\ v.inst[s].mode = u.inst[s].mode
  BY <1>4, <1>5 DEF InstanceType
<1>7. Stopped(World, v, s, "skipped", AllBecause(None)[s])
  BY <1>3, <1>4, <1>6 DEF Stopped, Aborted, LaunchesOf
<1>8. \A x \in Stages : x # s => Same(World, v, x) BY <1>3, <1>4 DEF Same, LaunchesOf
<1>9. "skipped" \in TerminalStage /\ LegalStage(inst[s].status, "skipped")
  BY <1>1 DEF TerminalStage, LegalStage, StageRows
<1>10. Goes(World, v, s) BY <1>2, <1>7, <1>9, SolidParts, EndedGoes
<1> QED BY <1>1, <1>2, <1>3, <1>4, <1>8, <1>10, StageCommandLeads

LEMMA FailStageLeads == ASSUME Solid, NEW s \in Stages, FailStage(s) PROVE Leads(World', {})
<1> DEFINE v == Fail(World, s)
<1>1. IsUp /\ Post(World, v) /\ inst[s].status = "paused"
  BY DEF FailStage, On, Operator, Command
<1>2. Row(World, v, s, "failed", Because(None), inst[s].live) /\ v \in WorldType
  BY SolidParts, RowAt, FailType
<1> HIDE DEF v
<1>3. RowOnly(World, v, s) BY <1>2 DEF Row
<1>4. (\A x \in Stages : x # s => Same(World, v, x)) /\ v.frames[s] = frames[s]
      /\ LaunchesOf(v, s) = LaunchesOf(World, s)
  BY <1>3, SolidParts, RowOnlySame
<1>5. Goes(World, v, s) BY <1>1, <1>2, <1>4, SolidParts, RestedGoes DEF Row
<1> QED BY <1>1, <1>2, <1>4, <1>5, SolidParts, StageCommandLeads DEF Row

LEMMA CancelStageLeads == ASSUME Solid, NEW s \in Stages, CancelStage(s) PROVE Leads(World', {})
<1> DEFINE v == Stop(World, {s}, "cancelled", AllBecause(None))
<1>1. IsUp /\ Post(World, v) /\ inst[s].status \in StageState \ (TerminalStage \cup {"absent"})
  BY DEF CancelStage, On, Operator, Command, Cancel
<1>2. /\ v \in WorldType /\ v.run = run /\ \A x \in Stages : x # s => Same(World, v, x)
      /\ Stopped(World, v, s, "cancelled", AllBecause(None)[s])
  <2>1. v = Stop(World, {s}, "cancelled", AllBecause(None)) /\ "cancelled" \in StageState BY StatesOfStages
  <2>2. AllBecause(None) \in [Stages -> Reason] BY AllBecauseType
  <2> HIDE DEF v
  <2> QED BY <2>1, <2>2, StopStage
<1> HIDE DEF v
<1>3. "cancelled" \in TerminalStage /\ LegalStage(inst[s].status, "cancelled")
  BY <1>1, CancelledIsLegal DEF TerminalStage
<1>4. Goes(World, v, s) BY <1>2, <1>3, SolidParts, EndedGoes
<1> QED BY <1>1, <1>2, <1>4, StageCommandLeads

\* A stage that waits for a human.
LEMMA Waiting ==
  ASSUME Solid, NEW s \in Stages, inst[s].status = "awaiting_input"
  PROVE  /\ LaunchesOf(World, s) = {} /\ (Remembered(World, s) => owed[s] = None)
         /\ frames[s].at # None => frames[s].no <= inst[s].no
         /\ WorksIn(World, s) => inst[s].live /\ frames[s].no = inst[s].no
         /\ inst[s].no \in Nat
<1>1. Matched(World, s) BY SolidParts
<1>2. inst[s].no \in Nat BY SolidParts, StagePartTypes
<1> QED BY <1>1, <1>2, SolidParts DEF Matched, Due, TerminalStage, Remembered

LEMMA RejectLeads == ASSUME Solid, NEW s \in Stages, Reject(s) PROVE Leads(World', {})
<1> DEFINE u == Settled(World, s, TRUE)
           f == Fail(u, s)
           v == IF inst[s].live THEN Abort(f, {s}) ELSE f
<1>1. IsUp /\ Post(World, v) /\ inst[s].status = "awaiting_input"
  BY DEF Reject, On, Operator, Command
<1>2. u \in WorldType /\ f \in WorldType BY SolidParts, SettledType, FailType
<1>3. Row(World, f, s, "failed", Because(None), FALSE)
  <2>1. Row(World, u, s, inst[s].status, inst[s].why, FALSE) BY SolidParts, SettledAt
  <2>2. u.inst[s].live = FALSE BY <2>1 DEF Row
  <2>3. Row(u, f, s, "failed", Because(None), u.inst[s].live) BY <1>2, RowAt
  <2> HIDE DEF u, f
  <2>4. Row(u, f, s, "failed", Because(None), FALSE) BY <2>2, <2>3
  <2> QED BY <2>1, <2>4, RowTrans DEF Row, RowOnly
<1> HIDE DEF f
<1>4. RowOnly(World, f, s) /\ f.run = run /\ f.owed = owed /\ f.inst[s].status = "failed"
      /\ ~f.inst[s].live /\ f.inst[s].no = inst[s].no
  BY <1>3, SolidParts DEF Row
<1>5. (\A x \in Stages : x # s => Same(World, f, x)) /\ f.frames[s] = frames[s]
      /\ LaunchesOf(f, s) = LaunchesOf(World, s)
  BY <1>4, SolidParts, RowOnlySame
<1>6. /\ LaunchesOf(World, s) = {}
      /\ frames[s].at # None => frames[s].no <= inst[s].no
      /\ WorksIn(World, s) => inst[s].live /\ frames[s].no = inst[s].no
  BY <1>1, Waiting
<1>7. /\ v \in WorldType /\ v.run = run /\ \A x \in Stages : x # s => Same(World, v, x)
      /\ v.inst[s] = f.inst[s] /\ LaunchesOf(v, s) = {}
      /\ v.frames[s].at # None => v.frames[s].stop /\ v.frames[s].no <= inst[s].no
  <2>1. CASE ~inst[s].live
    BY <1>2, <1>4, <1>5, <1>6, <2>1, SolidParts DEF WorksIn
  <2>2. CASE inst[s].live
    <3>1. v = Abort(f, {s}) BY <2>2
    <3>2. v \in WorldType BY <1>2, <3>1, AbortType
    <3>3. v.run = f.run /\ v.inst = f.inst /\ Aborted(f, v, s)
          /\ \A x \in Stages : x # s => Same(f, v, x)
      BY <1>2, <3>1, AbortAt
    <3> HIDE DEF v
    <3>4. LaunchesOf(v, s) = {} /\ v.frames[s].at = frames[s].at /\ v.frames[s].no = frames[s].no
      BY <1>5, <1>6, <3>3 DEF Aborted
    <3>5. v.frames[s].at # None => v.frames[s].stop
      <4>1. frames[s].at # None /\ ~frames[s].stop => WorksIn(World, s) BY SolidParts DEF WorksIn
      <4> QED BY <1>4, <1>5, <1>6, <3>3, <4>1 DEF Aborted
    <3> QED BY <1>4, <1>5, <1>6, <3>2, <3>3, <3>4, <3>5, SameTrans
  <2> QED BY <2>1, <2>2
<1> HIDE DEF v
<1>8. Off(v, s) BY <1>4, <1>7 DEF Off, Attempt
<1>9. LegalStage(inst[s].status, "failed") BY <1>1 DEF LegalStage, StageRows
<1>10. Remembered(v, s) BY <1>4, <1>7 DEF Remembered, TerminalStage
<1>11. Begun(World, s) BY <1>1, SolidParts DEF Begun, TerminalStage
<1>12. Goes(World, v, s) BY <1>4, <1>7, <1>8, <1>9, <1>10, <1>11, SolidParts, OffGoes
<1> QED BY <1>1, <1>7, <1>12, StageCommandLeads

\* A stage that waited for a human and is made ready again, with nobody at work for it.
LEMMA AgainGoes ==
  ASSUME Solid, NEW s \in Stages, inst[s].status = "awaiting_input", ~WorksIn(World, s), NEW v,
         v.inst[s].status \in {"ready", "paused"}, v.inst[s].no = inst[s].no, v.owed[s] = owed[s],
         v.inst[s].status = "paused" => ~v.inst[s].live,
         v.frames[s] = frames[s], LaunchesOf(v, s) = LaunchesOf(World, s)
  PROVE  Goes(World, v, s)
<1>1. /\ LaunchesOf(World, s) = {} /\ (Remembered(World, s) => owed[s] = None)
      /\ frames[s].at # None => frames[s].no <= inst[s].no
  BY Waiting
<1>2. frames[s].at # None => frames[s].stop
  <2>1. frames[s] \in FrameType BY SolidParts, WorldParts
  <2> QED BY <2>1, SolidParts DEF WorksIn, FrameType
<1>3. Off(v, s) BY <1>1, <1>2 DEF Off, Attempt
<1>4. LegalStage(inst[s].status, v.inst[s].status) BY DEF LegalStage, StageRows
<1>5. Remembered(World, s) => Remembered(v, s) BY <1>1 DEF Remembered
<1>6. Begun(World, s) BY SolidParts DEF Begun, TerminalStage
<1> QED BY <1>3, <1>4, <1>5, <1>6, SolidParts, OffGoes

LEMMA AnsweredLeads ==
  ASSUME Solid, IsUp, NEW s \in Stages, inst[s].status = "awaiting_input", frames[s].at = "parked",
         Post(World, [World EXCEPT !.frames[s].at = "answered"])
  PROVE  Leads(World', {})
<1> DEFINE v == [World EXCEPT !.frames[s].at = "answered"]
<1>1. v \in WorldType BY SolidParts, FrameAtType
<1>2. /\ v.run = run /\ v.inst = inst /\ v.owed = owed /\ v.launches = launches
      /\ v.frames = [frames EXCEPT ![s].at = "answered"]
  BY SolidParts DEF WorldType
<1> HIDE DEF v
<1>3. frames \in [Stages -> FrameType] /\ frames[s] \in FrameType BY SolidParts, WorldParts
<1>4. /\ v.frames[s].at = "answered" /\ v.frames[s].no = frames[s].no /\ v.frames[s].stop = frames[s].stop
      /\ \A x \in Stages : x # s => v.frames[x] = frames[x]
  BY <1>2, <1>3 DEF FrameType
<1>5. (\A x \in Stages : x # s => Same(World, v, x)) /\ LaunchesOf(v, s) = LaunchesOf(World, s)
  BY <1>2, <1>4, SolidParts DEF Same, LaunchesOf
<1>6. Matched(World, s) /\ frames[s].at # None BY SolidParts DEF None
<1>7. LaunchesOf(v, s) = {} BY <1>5, Waiting
<1>8. WorksIn(v, s) = WorksIn(World, s) BY <1>4, <1>6, SolidParts DEF WorksIn, None
<1>9. Matched(v, s) /\ Manned(v, s)
  BY <1>2, <1>4, <1>6, <1>7, <1>8, SolidParts DEF Matched, Manned, Attempt
<1>10. /\ Queued(v, s) = Queued(World, s) /\ Has(v, s) = Has(World, s)
       /\ Remembered(v, s) = Remembered(World, s)
  BY <1>2, <1>5, SolidParts, FrameAside
<1>11. Goes(World, v, s) BY <1>2, <1>9, <1>10, SolidParts DEF Goes, LegalStage, Starts, Begun
<1>12. Post(World, v) BY DEF v
<1> QED BY <1>1, <1>2, <1>5, <1>11, <1>12, StageCommandLeads

LEMMA ApproveLeads == ASSUME Solid, NEW s \in Stages, Approve(s) PROVE Leads(World', {})
<1> DEFINE lost == OnFrameLost(World, s, inst[s].no)
           told == [World EXCEPT !.frames[s].at = "answered"]
           again == [lost EXCEPT !.inst[s] = [@ EXCEPT !.status = "ready", !.gate = None,
                                                       !.why = Because("resume")]]
<1>1. IsUp /\ inst[s].status = "awaiting_input" BY DEF Approve, On, Operator
<1>2. \/ frames[s].at = "parked" /\ Post(World, told)
      \/ Post(World, World)
      \/ ~(inst[s].live /\ frames[s].at # None) /\ lost.inst[s].status # "awaiting_input" /\ Post(World, lost)
      \/ ~(inst[s].live /\ frames[s].at # None) /\ Post(World, again)
  BY DEF Approve, Command
<1>3. CASE frames[s].at = "parked" /\ Post(World, told) BY <1>1, <1>3, AnsweredLeads
<1> HIDE DEF told
<1>4. CASE Post(World, World)
  <2>1. Alike(World, World) BY DEF Alike
  <2>2. Moves(World, {}) BY <1>1, <2>1, SolidParts, MovesAlike DEF LegalRun
  <2> QED BY <1>1, <1>4, <2>2, CommandLeads
<1>5. ASSUME ~(inst[s].live /\ frames[s].at # None)
      PROVE  /\ ~WorksIn(World, s) /\ lost \in WorldType /\ lost.run = run
             /\ \A x \in Stages : x # s => Same(World, lost, x)
             /\ lost.frames[s] = frames[s] /\ LaunchesOf(lost, s) = LaunchesOf(World, s)
             /\ lost.owed[s] = owed[s] /\ lost.inst[s].no = inst[s].no
             /\ lost.inst[s].status \in {"awaiting_input", "paused"}
             /\ lost.inst[s].status = "paused" => ~lost.inst[s].live
  <2>1. ~WorksIn(World, s) BY <1>1, <1>5, SolidParts, Waiting DEF WorksIn
  <2>2. lost \in WorldType BY SolidParts, OnFrameLostType
  <2>3. lost = World \/ Reported(World, lost, s) BY <1>1, SolidParts, OnFrameLostAt
  <2> HIDE DEF lost
  <2>4. CASE lost = World BY <1>1, <2>1, <2>2, <2>4, SolidParts DEF Same
  <2>5. CASE Reported(World, lost, s)
    BY <1>1, <2>1, <2>2, <2>5, SolidParts DEF Reported, Attempt
  <2> QED BY <2>3, <2>4, <2>5
<1> HIDE DEF lost
<1>6. CASE ~(inst[s].live /\ frames[s].at # None) /\ lost.inst[s].status # "awaiting_input"
           /\ Post(World, lost)
  <2>1. Goes(World, lost, s) BY <1>1, <1>5, <1>6, AgainGoes
  <2> QED BY <1>1, <1>5, <1>6, <2>1, StageCommandLeads
<1>7. CASE ~(inst[s].live /\ frames[s].at # None) /\ Post(World, again)
  <2>1. again \in WorldType BY <1>5, <1>7, ApprovedType
  <2>2. /\ again.run = lost.run /\ again.frames = lost.frames /\ again.launches = lost.launches
        /\ again.owed = lost.owed /\ \A x \in Stages : x # s => again.inst[x] = lost.inst[x]
        /\ again.inst[s] = [lost.inst[s] EXCEPT !.status = "ready", !.gate = None, !.why = Because("resume")]
    BY <1>5, <1>7 DEF WorldType
  <2>3. lost.inst[s] \in InstanceType BY <1>5, <1>7, WorldParts
  <2> HIDE DEF again
  <2>4. again.inst[s].status = "ready" /\ again.inst[s].no = inst[s].no
    BY <1>5, <1>7, <2>2, <2>3 DEF InstanceType
  <2>5. (\A x \in Stages : x # s => Same(World, again, x)) /\ LaunchesOf(again, s) = LaunchesOf(World, s)
    BY <1>5, <1>7, <2>2 DEF Same, LaunchesOf
  <2>6. again.owed[s] = owed[s] /\ again.frames[s] = frames[s] /\ again.inst[s].status # "paused"
    BY <1>5, <1>7, <2>2, <2>4
  <2>7. ~WorksIn(World, s) BY <1>5, <1>7
  <2> HIDE DEF again, lost
  <2>8. Goes(World, again, s) BY <1>1, <2>4, <2>5, <2>6, <2>7, AgainGoes
  <2> QED BY <1>1, <1>5, <1>7, <2>1, <2>2, <2>5, <2>8, StageCommandLeads
<1> QED BY <1>2, <1>3, <1>4, <1>6, <1>7

-----------------------------------------------------------------------------
(* The specification.                                                           *)

\* A step of a process that runs: what is left to recover is what the world it
\* leads to still leaves alone.
Leading ==
  /\ boot.phase # "down" /\ boot'.phase # "down" /\ ToRecover' \subseteq ToRecover
  /\ ToRecover' = {} \/ boot'.snap = boot.snap
  /\ Leads(World', ToRecover')

LEMMA QuietLeads ==
  ASSUME Solid, boot' = boot, boot.phase # "down", Leads(World', ToRecover) PROVE Leading
<1>1. ToRecover' = ToRecover BY DEF ToRecover
<1> QED BY <1>1 DEF Leading

LEMMA UpLeads == ASSUME Solid, boot' = boot, IsUp, Leads(World', {}) PROVE Leading
BY SolidParts, QuietLeads

LEMMA EngineLeads == ASSUME Solid, Engine, ~Boot PROVE Leading
<1>1. CASE Start BY <1>1, StartLeads, UpLeads DEF Start, Quiet
<1>2. CASE RecoverRun
  <2>1. boot.phase = "recovering" /\ boot' = Up BY <1>2 DEF RecoverRun, Recovering
  <2>2. ToRecover' = {} /\ boot'.phase # "down" BY <2>1 DEF ToRecover, Up
  <2> QED BY <1>2, <2>1, <2>2, RecoverRunLeads DEF Leading
<1>3. ASSUME NEW ok \in BOOLEAN, PrepareDone(ok) PROVE Leading
  BY <1>3, PrepareDoneLeads, UpLeads DEF PrepareDone, Quiet
<1>4. ASSUME NEW ok \in BOOLEAN, FinalizeDone(ok) PROVE Leading
  BY <1>4, FinalizeDoneLeads, UpLeads DEF FinalizeDone, Quiet
<1>5. ASSUME NEW l \in launches, Claim(l) PROVE Leading
  <2>1. l.st \in Stages /\ l \in LaunchesOf(World, l.st)
    BY SolidParts, WorldParts DEF LaunchType, LaunchesOf
  <2>2. boot.phase # "down" BY <2>1, SolidParts
  <2> QED BY <1>5, <2>2, ClaimLeads, QuietLeads DEF Claim, Quiet
<1>6. ASSUME NEW t \in timers, FireTimer(t) PROVE Leading
  BY <1>6, FireTimerLeads, UpLeads DEF FireTimer, Quiet
<1>7. ASSUME NEW s \in Stages, SessionReady(s) \/ ToValidating(s) \/ BackToRunning(s) PROVE Leading
  <2>1. frames[s].at = "work" /\ boot' = boot
    BY <1>7 DEF SessionReady, ToValidating, BackToRunning, Step, Quiet
  <2>2. boot.phase # "down" BY <2>1, SolidParts DEF None
  <2> QED BY <1>7, <2>1, <2>2, FrameStepsLead, QuietLeads
<1>8. ASSUME NEW s \in Stages, NEW gate \in {"turn", "review"}, Park(s, gate) PROVE Leading
  <2>1. frames[s].at = "work" /\ boot' = boot BY <1>8 DEF Park, Quiet
  <2>2. boot.phase # "down" BY <2>1, SolidParts DEF None
  <2> QED BY <1>8, <2>1, <2>2, ParkLeads, QuietLeads
<1>9. ASSUME NEW s \in Stages, Resumed(s) PROVE Leading
  <2>1. frames[s].at = "answered" /\ boot' = boot BY <1>9 DEF Resumed, Quiet
  <2>2. boot.phase # "down" BY <2>1, SolidParts DEF None
  <2> QED BY <1>9, <2>1, <2>2, ResumedLeads, QuietLeads
<1>10. ASSUME NEW s \in Stages, NEW ending \in Ending, End(s, ending) PROVE Leading
  <2>1. frames[s].at # None /\ boot' = boot BY <1>10 DEF End, Quiet
  <2>2. boot.phase # "down" BY <2>1, SolidParts
  <2> QED BY <1>10, <2>1, <2>2, EndLeads, QuietLeads
<1>11. ASSUME NEW s \in Stages, RecoverRetry(s) PROVE Leading
  <2>1. boot.phase = "recovering" /\ boot.at = N + s /\ boot' = [boot EXCEPT !.at = boot.at + 1]
    BY <1>11 DEF RecoverRetry, Recovering, NextStep
  <2>2. boot \in BootType BY DEF Solid, Sound, TypeOK
  <2>3. boot'.phase = "recovering" /\ boot'.at = N + s + 1 BY <2>1, <2>2 DEF BootType
  <2>4. ToRecover' = {} BY <2>3, GraphAssumption DEF ToRecover, Stages
  <2> QED BY <1>11, <2>1, <2>3, <2>4, RecoverRetryLeads DEF Leading
<1>12. ASSUME NEW s \in Stages, NEW safe \in BOOLEAN, RecoverAttempt(s, safe) PROVE Leading
  <2>1. boot.phase = "recovering" /\ boot.at = s /\ boot' = [boot EXCEPT !.at = boot.at + 1]
    BY <1>12 DEF RecoverAttempt, Recovering, NextStep
  <2>2. boot \in BootType BY DEF Solid, Sound, TypeOK
  <2>3. boot'.phase = "recovering" /\ boot'.at = s + 1 /\ boot'.snap = boot.snap
    BY <2>1, <2>2 DEF BootType
  <2>4. ToRecover' = ToRecover \ {s} BY <2>1, <2>3, GraphAssumption DEF ToRecover, Stages
  <2> QED BY <1>12, <2>1, <2>3, <2>4, RecoverAttemptLeads DEF Leading
<1> QED
  BY <1>1, <1>2, <1>3, <1>4, <1>5, <1>6, <1>7, <1>8, <1>9, <1>10, <1>11, <1>12 DEF Engine

LEMMA FaultsLead == ASSUME Solid, Faults, \A lost : ~Crash(lost) PROVE Leading
<1>1. ASSUME NEW s \in Stages, RunBudgetSpent(s) PROVE Leading
  BY <1>1, RunBudgetSpentLeads, UpLeads DEF RunBudgetSpent
<1>2. ASSUME NEW s \in Stages, StageBudgetSpent(s) PROVE Leading
  BY <1>2, StageBudgetSpentLeads, UpLeads DEF StageBudgetSpent
<1>3. ASSUME NEW s \in Stages, NEW safe \in BOOLEAN, LeaseExpire(s, safe) PROVE Leading
  BY <1>3, LeaseExpireLeads, UpLeads DEF LeaseExpire
<1> QED BY <1>1, <1>2, <1>3 DEF Faults

LEMMA OperatorsLead == ASSUME Solid, Operators PROVE Leading
<1>1. IsUp /\ boot' = boot
  BY DEF Operators, PauseTheRun, ResumeTheRun, CancelTheRun, RaiseBudget, PauseStage, ResumeStage,
         FailStage, CancelStage, Approve, Reject, RetryStage, SkipStage, On, Operator
<1>2. Leads(World', {})
  BY PauseTheRunLeads, ResumeTheRunLeads, CancelTheRunLeads, RaiseBudgetLeads, PauseStageLeads,
     ResumeStageLeads, FailStageLeads, CancelStageLeads, ApproveLeads, RejectLeads,
     RetryStageLeads, SkipStageLeads DEF Operators
<1> QED BY <1>1, <1>2, UpLeads

LEMMA NextLeads == ASSUME Solid, Next PROVE Leading \/ Boot \/ \E lost : Crash(lost)
BY EngineLeads, FaultsLead, OperatorsLead DEF Next

LEMMA LeadingFramed == ASSUME Solid, Leading PROVE Framed'
<1>1. Leads(World', ToRecover') BY DEF Leading
<1>2. ASSUME NEW s \in Stages
      PROVE  /\ Matched(World', s)
             /\ IF s \in ToRecover' THEN AtRest(World', s, boot'.snap[s]) ELSE Manned(World', s)
  <2>1. Matched(World', s) /\ (IF s \in ToRecover' THEN Rests(World, World', s) ELSE Manned(World', s))
    BY <1>1 DEF Leads
  <2>2. CASE s \in ToRecover'
    <3>1. s \in ToRecover /\ boot'.snap = boot.snap BY <2>2 DEF Leading
    <3>2. AtRest(World, s, boot.snap[s]) BY <3>1, SolidParts DEF Leading
    <3> QED BY <2>1, <2>2, <3>1, <3>2 DEF Rests
  <2> QED BY <2>1, <2>2
<1>3. NotOver(World') BY <1>1 DEF Leads
<1>4. boot'.phase # "down" BY DEF Leading
<1>5. /\ NotOver(World') <=> NotOver(World)'
      /\ \A s \in Stages : (Matched(World', s) <=> Matched(World, s)')
      /\ \A s \in Stages : (Manned(World', s) <=> Manned(World, s)')
      /\ \A s \in Stages : (AtRest(World', s, boot'.snap[s]) <=> AtRest(World, s, boot.snap[s])')
  OBVIOUS
<1> QED BY <1>2, <1>3, <1>4, <1>5 DEF Framed

\* A crash leaves rows only, and the boot reads them.
LEMMA CrashFramed == ASSUME Solid, NEW lost, Crash(lost) PROVE Framed' /\ boot'.phase = "down"
<1>1. /\ boot'.phase = "down" /\ launches' = {} /\ frames' = [s \in Stages |-> NoFrame]
      /\ run' = run /\ inst' = inst
  BY DEF Crash, Up
<1>2. ASSUME NEW s \in Stages PROVE Matched(World', s) /\ frames'[s].at = None
  <2>1. World'.inst[s] = World.inst[s] /\ World'.frames[s] = NoFrame /\ LaunchesOf(World', s) = {}
    BY <1>1 DEF World, LaunchesOf
  <2>2. World'.frames[s].at = None /\ ~WorksIn(World', s) BY <2>1 DEF NoFrame, WorksIn
  <2>3. Matched(World, s) BY SolidParts
  <2>4. frames'[s].at = None BY <1>1 DEF NoFrame
  <2> DEFINE x == World'
  <2> HIDE DEF x
  <2>5. Matched(x, s) BY <2>1, <2>2, <2>3 DEF Matched, x
  <2> QED BY <2>4, <2>5 DEF x
<1>3. NotOver(World') BY <1>1, SolidParts DEF NotOver, World
<1>4. /\ NotOver(World') <=> NotOver(World)'
      /\ \A s \in Stages : (Matched(World', s) <=> Matched(World, s)')
  OBVIOUS
<1> QED BY <1>1, <1>2, <1>3, <1>4 DEF Framed

LEMMA BootFramed == ASSUME Solid, Boot PROVE Framed'
<1>1. /\ boot.phase = "down" /\ World' = World
      /\ boot' = IF run.status \in TerminalRun THEN Up
                 ELSE [phase |-> "recovering", at |-> 1, snap |-> inst]
  BY DEF Boot, World
<1>2. launches = {} /\ \A s \in Stages : frames[s].at = None BY <1>1 DEF Solid, Framed
<1>3. boot'.phase # "down" BY <1>1 DEF Up
<1>4. ASSUME NEW s \in Stages
      PROVE  IF s \in ToRecover' THEN AtRest(World, s, boot'.snap[s]) ELSE Manned(World, s)
  <2>1. CASE run.status \in TerminalRun
    <3>1. s \notin ToRecover' BY <1>1, <2>1 DEF ToRecover, Up
    <3>2. Manned(World, s) BY <2>1, TerminalRests, SolidParts DEF Manned
    <3> QED BY <3>1, <3>2
  <2>2. CASE run.status \notin TerminalRun
    <3>1. s \in ToRecover' <=> inst[s].live
      BY <1>1, <2>2, GraphAssumption DEF ToRecover, Stages
    <3>2. boot'.snap[s] = inst[s] BY <1>1, <2>2
    <3>3. inst[s].live => AtRest(World, s, inst[s])
      BY <1>2, SolidParts DEF AtRest, LaunchesOf
    <3>4. ~inst[s].live => Manned(World, s) BY SolidParts DEF Matched, Manned
    <3> QED BY <3>1, <3>2, <3>3, <3>4
  <2> QED BY <2>1, <2>2
<1>5. /\ NotOver(World') <=> NotOver(World)'
      /\ \A s \in Stages : (Matched(World', s) <=> Matched(World, s)')
      /\ \A s \in Stages : (Manned(World', s) <=> Manned(World, s)')
      /\ \A s \in Stages : (AtRest(World', s, boot'.snap[s]) <=> AtRest(World, s, boot.snap[s])')
  OBVIOUS
<1>6. /\ NotOver(World') /\ \A s \in Stages : Matched(World', s)
      /\ \A s \in Stages : IF s \in ToRecover' THEN AtRest(World', s, boot'.snap[s])
                           ELSE Manned(World', s)
  BY <1>1, <1>4, SolidParts
<1> HIDE DEF World
<1> QED BY <1>3, <1>5, <1>6 DEF Framed

LEMMA InitFramed == Init => Framed
<1> SUFFICES ASSUME Init PROVE Framed OBVIOUS
<1>1. /\ boot.phase = "up" /\ ToRecover = {} /\ ~World.run.over /\ launches = {}
  BY DEF Init, Up, ToRecover, World
<1>2. ASSUME NEW s \in Stages
      PROVE  /\ World.inst[s].status = "absent" /\ ~World.inst[s].live /\ World.inst[s].no = 0
             /\ World.frames[s].at = None /\ LaunchesOf(World, s) = {} /\ World.owed[s] = None
  BY DEF Init, Idle, NoInstance, NoFrame, World, LaunchesOf
<1>3. \A s \in Stages : Matched(World, s) /\ Manned(World, s)
  BY <1>2 DEF Matched, Manned, WorksIn, Attempt
<1> QED BY <1>1, <1>3 DEF Framed, NotOver

LEMMA FramedStep == Solid /\ [Next]_vars => Framed'
<1> SUFFICES ASSUME Solid, [Next]_vars PROVE Framed' OBVIOUS
<1>1. CASE UNCHANGED vars
  <2>1. /\ World' = World /\ boot' = boot /\ launches' = launches /\ frames' = frames
        /\ ToRecover' = ToRecover
    BY <1>1 DEF vars, World, ToRecover
  <2>2. /\ NotOver(World') <=> NotOver(World)'
        /\ \A s \in Stages : (Matched(World', s) <=> Matched(World, s)')
        /\ \A s \in Stages : (Manned(World', s) <=> Manned(World, s)')
        /\ \A s \in Stages : (AtRest(World', s, boot'.snap[s]) <=> AtRest(World, s, boot.snap[s])')
    OBVIOUS
  <2> QED BY <2>1, <2>2 DEF Solid, Framed
<1>2. CASE Next BY <1>2, NextLeads, LeadingFramed, CrashFramed, BootFramed
<1> QED BY <1>1, <1>2

LEMMA SolidAlways == Spec => []Solid
<1>1. Init => Framed BY InitFramed
<1>2. Sound /\ Framed /\ [Next]_vars => Framed' BY FramedStep DEF Solid
<1>3. Sound /\ Framed => Solid BY DEF Solid
<1> QED BY <1>1, <1>2, <1>3, SoundAlways, PTL DEF Spec

\* No agent works for a stage that was paused, cancelled, failed or skipped, nor
\* for an attempt that was replaced: stopInstance and failInstance abort what they
\* overtake, a launch that lost its stage is refused by start, and recovery runs
\* an attempt again only when no frame has it.
THEOREM NoStrayFrames == Spec => []NoStrayFrame
<1>1. Solid => NoStrayFrame
  <2> SUFFICES ASSUME Solid, NEW s \in Stages, Works(s)
      PROVE  /\ inst[s].live /\ frames[s].no = inst[s].no
             /\ inst[s].status \in Attempt \cup {"awaiting_input"}
             /\ frames[s].at # "work" => inst[s].status = "awaiting_input"
    BY DEF NoStrayFrame
  <2>1. WorksIn(World, s) BY SolidParts DEF Works, WorksIn
  <2> QED BY <2>1, SolidParts DEF Matched
<1> QED BY <1>1, SolidAlways, PTL

\* A stage in an attempt state is worked on, once recovery is over: every report,
\* lease that ends, budget that is spent and boot after a crash moves the row of
\* the stage with the frame it loses.
THEOREM NoOrphanAttempts == Spec => []NoOrphanAttempt
<1>1. Solid => NoOrphanAttempt
  <2> SUFFICES ASSUME Solid, IsUp, NEW s \in Stages, inst[s].status \in Attempt
      PROVE  inst[s].live /\ Works(s) /\ frames[s].no = inst[s].no
    BY DEF NoOrphanAttempt
  <2> QED BY AtWork, SolidParts DEF WorksIn, Works
<1> QED BY <1>1, SolidAlways, PTL

\* No message makes the stores refuse a transition (StateTransitionError): every
\* handler of decide.ts with the settle that closes it, every frame's
\* compare-and-set and every step of recovery moves a row along the tables.
THEOREM MovesAreLegal == Spec => LegalMoves
<1> DEFINE Lawful ==
             /\ Legal(RunRows, "running", run.status, run'.status)
             /\ \A s \in Stages : inst[s].status # "absent" =>
                  Legal(StageRows, "ready", inst[s].status, inst'[s].status)
<1>1. Solid /\ [Next]_vars => [Lawful]_vars
  <2> SUFFICES ASSUME Solid, Next PROVE Lawful OBVIOUS
  <2>1. CASE Leading
    <3>1. Leads(World', ToRecover') BY <2>1 DEF Leading
    <3>2. World'.run = run' /\ World'.inst = inst' BY DEF World
    <3>3. World'.run.status = run'.status /\ \A s \in Stages : World'.inst[s].status = inst'[s].status
      BY <3>2
    <3> DEFINE x == World'
    <3> HIDE DEF x
    <3>4. Leads(x, ToRecover') /\ x.run.status = run'.status
          /\ \A s \in Stages : x.inst[s].status = inst'[s].status
      BY <3>1, <3>3 DEF x
    <3> QED BY <3>4 DEF Leads
  <2>2. CASE Boot \/ \E lost : Crash(lost) BY <2>2 DEF Boot, Crash, Legal
  <2> QED BY <2>1, <2>2, NextLeads
<1> QED BY <1>1, SolidAlways, PTL DEF Spec, LegalMoves

LEMMA InitRaced == Init => Raced(World)
<1> SUFFICES ASSUME Init PROVE Raced(World) OBVIOUS
<1>1. \A s \in Stages : World.inst[s].no = 0 /\ World.inst[s].status = "absent"
  BY DEF Init, Idle, NoInstance, World
<1> QED BY <1>1 DEF Raced, Begun

LEMMA RacedStep == Solid /\ Raced(World) /\ [Next]_vars => Raced(World)'
<1> SUFFICES ASSUME Solid, Raced(World), [Next]_vars PROVE Raced(World)' OBVIOUS
<1>1. Raced(World') <=> Raced(World)' OBVIOUS
<1>2. ASSUME inst' = inst PROVE Raced(World)'
  <2>1. World'.inst = World.inst BY <1>2 DEF World
  <2> DEFINE x == World'
  <2> HIDE DEF x
  <2>2. Raced(x) BY <2>1 DEF x, Raced, Begun
  <2> QED BY <1>1, <2>2 DEF x
<1>3. CASE Leading
  <2> DEFINE x == World'
  <2>1. Leads(x, ToRecover') BY <1>3 DEF Leading
  <2> HIDE DEF x
  <2>2. Raced(x) BY <2>1 DEF Leads
  <2> QED BY <1>1, <2>2 DEF x
<1>4. CASE Boot \/ (\E lost : Crash(lost)) \/ UNCHANGED vars
  <2>1. inst' = inst BY <1>4 DEF Boot, Crash, vars
  <2> QED BY <1>2, <2>1
<1> QED BY <1>3, <1>4, NextLeads

\* Once a join that cancels the rest is launched, every stage that leads only into it
\* has ended: the pass that makes the join ready ends the losers (cancelLosers), and
\* no message and no recovery makes an ended stage start again.
THEOREM LosersHaveEnded == Spec => []LosersEnded
<1>1. Solid /\ Raced(World) => LosersEnded
  <2> SUFFICES ASSUME Solid, Raced(World), NEW j \in Stages, CancelsRest(j), inst[j].no > 0,
                      NEW s \in ExclusiveLosers(j)
               PROVE  inst[s].status \in TerminalStage
    BY DEF LosersEnded
  <2>1. Begun(World, j) BY SolidParts DEF Begun
  <2> QED BY <2>1, SolidParts DEF Raced
<1>2. Init => Raced(World) BY InitRaced
<1>3. Solid /\ Raced(World) /\ [Next]_vars => Raced(World)' BY RacedStep
<1> QED BY <1>1, <1>2, <1>3, SolidAlways, PTL DEF Spec

-----------------------------------------------------------------------------
(* While no process dies.                                                       *)

\* A process that stays up: the stages of a session group take turns, nothing is
\* queued in a paused run, and every granted retry is known.
Steady ==
  /\ IsUp /\ Grouped(World) /\ Halted(World)
  /\ \A s \in Stages : Remembered(World, s)

LEMMA InitSteady == Init => Steady
<1> SUFFICES ASSUME Init PROVE Steady OBVIOUS
<1>1. IsUp BY DEF Init, Up, IsUp
<1>2. ASSUME NEW s \in Stages PROVE ~Has(World, s) /\ ~Queued(World, s) /\ Remembered(World, s)
  <2>1. World.inst[s].status = "absent" /\ World.owed[s] = None
    BY DEF Init, Idle, NoInstance, World
  <2> QED BY <2>1 DEF Has, Queued, Remembered, Attempt
<1> QED BY <1>1, <1>2 DEF Steady, Grouped, Halted

LEMMA SteadyLeads ==
  ASSUME Solid, Steady, Next, "crash" \notin Kinds
  PROVE  IsUp' /\ Leads(World', {})
<1>1. ~Boot /\ \A lost : ~Crash(lost) BY DEF Steady, IsUp, Boot, Crash, Fault
<1>2. Leading BY <1>1, NextLeads
<1>3. ToRecover' = {} /\ Leads(World', {}) BY <1>2, SolidParts DEF Leading, Steady
<1>4. IsUp'
  <2>1. CASE Engine
    <3>1. ~RecoverRun /\ \A s \in Stages : ~RecoverRetry(s) /\ \A safe : ~RecoverAttempt(s, safe)
      BY DEF Steady, IsUp, Recovering, RecoverRun, RecoverRetry, RecoverAttempt
    <3>2. boot' = boot
      BY <1>1, <2>1, <3>1
      DEF Engine, Start, PrepareDone, FinalizeDone, Claim, FireTimer, SessionReady, ToValidating,
          BackToRunning, Step, Resumed, Park, End, Quiet
    <3> QED BY <3>2 DEF Steady, IsUp
  <2>2. CASE Faults
    <3>1. boot' = boot
      BY <1>1, <2>2 DEF Faults, RunBudgetSpent, StageBudgetSpent, LeaseExpire
    <3> QED BY <3>1 DEF Steady, IsUp
  <2>3. CASE Operators
    <3>1. boot' = boot
      BY <2>3
      DEF Operators, PauseTheRun, ResumeTheRun, CancelTheRun, RaiseBudget, PauseStage, ResumeStage,
          FailStage, CancelStage, Approve, Reject, RetryStage, SkipStage, On, Operator
    <3> QED BY <3>1 DEF Steady, IsUp
  <2> QED BY <2>1, <2>2, <2>3 DEF Next
<1> QED BY <1>3, <1>4

LEMMA SteadyStep ==
  ASSUME "crash" \notin Kinds PROVE Solid /\ Steady /\ [Next]_vars => Steady'
<1> SUFFICES ASSUME Solid, Steady, [Next]_vars PROVE Steady' OBVIOUS
<1>1. /\ Grouped(World') <=> Grouped(World)'
      /\ Halted(World') <=> Halted(World)'
      /\ \A s \in Stages : (Remembered(World', s) <=> Remembered(World, s)')
  OBVIOUS
<1>2. CASE UNCHANGED vars
  <2>1. World' = World /\ (IsUp' <=> IsUp) BY <1>2 DEF vars, World, IsUp
  <2> QED BY <1>1, <2>1 DEF Steady
<1>3. CASE Next
  <2>1. IsUp' /\ Leads(World', {}) BY <1>3, SteadyLeads
  <2>2. Grouped(World') /\ Halted(World') /\ \A s \in Stages : Remembered(World', s)
    <3> DEFINE x == World'
    <3>1. Leads(x, {}) BY <2>1
    <3> HIDE DEF x
    <3>2. Grouped(x) /\ Halted(x) /\ \A s \in Stages : Remembered(x, s) BY <3>1 DEF Leads, Steady
    <3> QED BY <3>2 DEF x
  <2> QED BY <1>1, <2>1, <2>2 DEF Steady
<1> QED BY <1>2, <1>3

LEMMA SteadyAlways == ASSUME "crash" \notin Kinds PROVE Spec => []Steady
<1>1. Init => Steady BY InitSteady
<1>2. Solid /\ Steady /\ [Next]_vars => Steady' BY SteadyStep
<1> QED BY <1>1, <1>2, SolidAlways, PTL DEF Spec

\* Stages of a session group never work at the same time in a process that lives:
\* admit counts a stage that waits for a human, or whose launch is still queued, as
\* one that has the conversation.
THEOREM SessionsAreExclusive == ASSUME "crash" \notin Kinds PROVE Spec => []SessionExclusive
<1>1. Solid /\ Steady => SessionExclusive
  <2> SUFFICES ASSUME Solid, Steady, NEW s \in Stages, NEW t \in Stages,
                      s # t, Group[s] = Group[t], Group[s] # None, Works(s), Works(t)
               PROVE  FALSE
    BY DEF SessionExclusive
  <2>1. ASSUME NEW x \in Stages, Works(x) PROVE Has(World, x)
    <3>1. WorksIn(World, x) BY <2>1, SolidParts DEF Works, WorksIn
    <3> QED BY <3>1, SolidParts DEF Matched, Has
  <2> QED BY <2>1 DEF Steady, Grouped
<1> QED BY <1>1, SolidAlways, SteadyAlways, PTL

\* Nothing starts in a paused run of a process that lives: pauseRun withdraws what
\* is queued and a retry granted meanwhile is kept until the resume.
THEOREM PausedRunsStartNothing == ASSUME "crash" \notin Kinds PROVE Spec => PausedStartsNothing
<1> DEFINE Starting ==
             run.status = "paused" =>
               \A s \in Stages : inst[s].status = "ready" => inst'[s].status # "starting"
<1>1. Solid /\ Steady /\ [Next]_vars => [Starting]_vars
  <2> SUFFICES ASSUME Solid, Steady, Next, run.status = "paused", NEW s \in Stages,
                      inst[s].status = "ready", inst'[s].status = "starting"
               PROVE  FALSE
    OBVIOUS
  <2>1. Starts(World, World', s) BY SteadyLeads DEF Leads
  <2>2. World.inst[s].status = "ready" /\ World'.inst[s].status = "starting" BY DEF World
  <2>3. Queued(World, s) BY <2>1, <2>2 DEF Starts
  <2> QED BY <2>3, SolidParts DEF Steady, Halted
<1> QED BY <1>1, SolidAlways, SteadyAlways, PTL DEF Spec, PausedStartsNothing

\* A granted retry starts in its mode in a process that lives: the reason carries
\* the mode through pauses and resumes (PauseReason, Unpause), and the attempt that
\* is created for it takes it over (ModeFor).
THEOREM RetryModesAreKept == ASSUME "crash" \notin Kinds PROVE Spec => RetryModeKept
<1> DEFINE Kept ==
             \A s \in Stages : inst[s].status = "ready" /\ inst'[s].status = "starting" /\ owed[s] # None
               => inst[s].mode = owed[s]
<1>1. Solid /\ Steady /\ [Next]_vars => [Kept]_vars
  <2> SUFFICES ASSUME Solid, Steady, Next, NEW s \in Stages, inst[s].status = "ready",
                      inst'[s].status = "starting", owed[s] # None
               PROVE  inst[s].mode = owed[s]
    OBVIOUS
  <2>1. Starts(World, World', s) BY SteadyLeads DEF Leads
  <2>2. World.inst[s].status = "ready" /\ World'.inst[s].status = "starting" BY DEF World
  <2>3. Queued(World, s) BY <2>1, <2>2 DEF Starts
  <2> QED BY <2>3, SolidParts DEF Steady, Remembered, TerminalStage
<1> QED BY <1>1, SolidAlways, SteadyAlways, PTL DEF Spec, RetryModeKept

=============================================================================
