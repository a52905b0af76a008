---------------------------- MODULE RunScheduler ----------------------------
(* One workflow run in one engine process: the actor that decides (decide.ts), *)
(* the effects it dispatches (EffectsDispatcher.ts), the executor frames that  *)
(* run attempts (StageExecutor.ts), the run's prepare and finalize             *)
(* (RunLifecycle.ts), its persisted timers, and the crash and recovery of the  *)
(* process (RunSupervisor.ts).                                                 *)
(*                                                                             *)
(* A message is decided and applied in one synchronous step (RunActor.ts), so  *)
(* posting a message and deciding it is one action.  What runs on its own is   *)
(* an action of its own: a queued launch, a frame, a lifecycle task, a timer,  *)
(* the reaper, recovery, an operator.                                          *)
(*                                                                             *)
(* A handler maps a world (a record of the variables the actor and its effects *)
(* write) to the world after the message; Settle then closes it.               *)
EXTENDS WorkflowGraph, Sequences

CONSTANTS
  Group,        \* per stage: its sessionGroup, "-" for none
  Policy,       \* per stage: attempts (retry.maxAttempts), mode (retry.mode),
                \* restart (repair.restartOnExhausted), exhausted (onExhausted)
  MaxParallel,  \* workflow.maxParallel
  Unattended,   \* a pause of the run expires
  Endings,      \* the ways a live attempt may end
  Commands,     \* the operator commands given
  Kinds,        \* the faults that happen: "crash", "lease", "budget"
  MaxOps,       \* bound: operator commands
  MaxFaults     \* bound: faults

Outcome == {"completed", "failed", "cancelled"}
RetryMode == {"restart", "resume"}
None == "-"

\* The classes of applyFailure ("unsafe": interrupted and not safe to replay;
\* "fatal": no retry, by class, code or deadline) and the other ends of a frame.
Failure == {"transient", "repairable", "interrupted", "unsafe", "fatal"}
Ending == Failure \cup {"succeeded", "aborted", "budget"}

ASSUME PolicyAssumption ==
  /\ Group \in [Stages -> STRING]
  /\ Policy \in [Stages -> [attempts : Nat, mode : RetryMode, restart : BOOLEAN,
                            exhausted : {"pause", "fail"}]]
  /\ MaxParallel \in Nat \ {0}
  /\ Unattended \in BOOLEAN
  /\ Endings \subseteq Failure \cup {"succeeded"}
  /\ MaxOps \in Nat /\ MaxFaults \in Nat

VARIABLES
  run,       \* the run row: status, outcome, why it is paused, budget exhausted
  inst,      \* the stage_runs rows with their current attempt
  timers,    \* the live rows of workflow_timers
  launches,  \* launches queued for admission
  frames,    \* the executor's frame of each stage
  tasks,     \* lifecycle work in flight: prepare, and the finalizes in order
  owed,      \* history: the mode a granted retry has not been started in yet
  boot,      \* the process: up, down, or recovering with the snapshot it read
  ops, faults

vars == <<run, inst, timers, launches, frames, tasks, owed, boot, ops, faults>>

-----------------------------------------------------------------------------
(* Rows.                                                                        *)

\* status_reason, as far as it decides anything: what an instance is ready for,
\* or why it is paused and the retry that pause keeps.
Reason == [base : {None, "resume", "retry", "run_paused", "user_paused", "stopped"},
           phase : {None, "retry", "retry_wait"}, mode : RetryMode \cup {None}]

Because(base) == [base |-> base, phase |-> None, mode |-> None]
RetryIn(mode) == [base |-> "retry", phase |-> None, mode |-> mode]

InstanceType ==
  [status : StageState, why : Reason, no : Nat, live : BOOLEAN, fails : Nat,
   mode : RetryMode \cup {"fresh", None}, as : {None, "completed", "skipped"},
   loser : BOOLEAN, gate : {None, "turn", "review"}]

NoInstance ==
  [status |-> "absent", why |-> Because(None), no |-> 0, live |-> FALSE, fails |-> 0,
   mode |-> None, as |-> None, loser |-> FALSE, gate |-> None]

RunType == [status : RunState, outcome : Outcome \cup {None},
            why : {None, "user", "budget"}, over : BOOLEAN]

\* st = 0 is a timer of the run itself.
TimerType == [st : 0 .. N, kind : {"retry", "queue_timeout", "pause_ttl"}]
Timer(s, kind) == [st |-> s, kind |-> kind]

\* tracked: the dispatcher's entry of the stage, the one an abort can withdraw.
LaunchType == [st : Stages, no : Nat, tracked : BOOLEAN]

FrameType == [no : Nat, at : {None, "work", "parked", "answered"}, stop : BOOLEAN]
NoFrame == [no |-> 0, at |-> None, stop |-> FALSE]

TaskType == [prepare : BOOLEAN, finals : Seq(Outcome)]

BootType == [phase : {"up", "down", "recovering"}, at : Nat,
             snap : [Stages -> InstanceType]]

Idle == [s \in Stages |-> NoInstance]
Up == [phase |-> "up", at |-> 0, snap |-> Idle]

World == [run |-> run, inst |-> inst, timers |-> timers, launches |-> launches,
          frames |-> frames, tasks |-> tasks, owed |-> owed]

StatusOf(w) == [s \in Stages |-> w.inst[s].status]
SkippedAs(w) == [s \in Stages |-> w.inst[s].as]

\* admitted: claimed, or launched and not claimed yet.
Admitted(i) == i.live /\ i.status \in Attempt \cup {"ready"}

-----------------------------------------------------------------------------
(* Building blocks (working.ts).                                                *)

\* Mutant: an abort only withdraws queued launches.
AbortQueuedOnly(w, S) ==
  [w EXCEPT !.launches = {l \in w.launches : ~(l.tracked /\ l.st \in S /\ l.no = w.inst[l.st].no)}]

\* The abort effects: a launch still queued is withdrawn, else the frame of
\* that attempt is told to stop.
Abort(w, S) ==
  LET Hit(l) == l.tracked /\ l.st \in S /\ l.no = w.inst[l.st].no
  IN  [w EXCEPT
         !.launches = {l \in w.launches : ~Hit(l)},
         !.frames = [s \in Stages |->
                       IF /\ s \in S /\ \A l \in w.launches : Hit(l) => l.st # s
                          /\ w.frames[s].at # None /\ w.frames[s].no = w.inst[s].no
                         THEN [w.frames[s] EXCEPT !.stop = TRUE] ELSE w.frames[s]]]

\* stopInstance on each of S: the desired state is written, its timers end, an
\* unclaimed launch is settled with it, and a live attempt is aborted.
Stop(w, S, to, why) ==
  Abort([w EXCEPT
           !.inst = [s \in Stages |->
                       IF s \in S
                         THEN [w.inst[s] EXCEPT !.status = to, !.why = why[s], !.gate = None,
                                 !.live = w.inst[s].live /\ w.inst[s].status # "ready"]
                         ELSE w.inst[s]],
           !.timers = {t \in w.timers : t.st \notin S}],
        {s \in S : w.inst[s].live})

AllBecause(base) == [s \in Stages |-> Because(base)]

Cancel(w, S) == Stop(w, S, "cancelled", AllBecause(None))

\* Mutant: a paused stage does not keep the run open.
OpenButPaused(w) == {s \in Stages : w.inst[s].status \notin TerminalStage \cup {"absent", "paused"}}

Open(w) == {s \in Stages : w.inst[s].status \notin TerminalStage \cup {"absent"}}

\* failInstance: neither the attempt nor the frame is touched.
Fail(w, s) ==
  [w EXCEPT !.inst[s] = [@ EXCEPT !.status = "failed", !.why = Because(None), !.gate = None],
            !.timers = {t \in w.timers : t.st # s}]

WithTtl(w, s) ==
  IF Unattended THEN [w EXCEPT !.timers = w.timers \cup {Timer(s, "pause_ttl")}] ELSE w

\* A stage paused where it stood: nothing queued for it is withdrawn.
Halt(w, s) ==
  [w EXCEPT !.inst[s] = [@ EXCEPT !.status = "paused", !.why = Because("stopped"), !.gate = None]]

\* settleAttempt: counted when it failed or was interrupted.
Settled(w, s, counted) ==
  LET n == IF w.inst[s].live /\ counted THEN w.inst[s].fails + 1 ELSE w.inst[s].fails
  IN  [w EXCEPT !.inst[s] = [@ EXCEPT !.live = FALSE, !.fails = n]]

\* Mutants: the pause forgets the retry; it keeps the status for the phase.
PauseForgets(i, base) == Because(base)

PauseKeepsStatus(i, base) ==
  IF i.status \in {"ready", "retry_wait"} /\ i.why.base = "retry"
    THEN [base |-> base, mode |-> i.why.mode, phase |-> i.status] ELSE Because(base)

\* A pause of an instance that waits to retry keeps the retry (ENGINE-R5).
PauseReason(i, base) ==
  IF i.status \in {"ready", "retry_wait"} /\ i.why.base = "retry"
    THEN [base |-> base, mode |-> i.why.mode,
          phase |-> IF i.status = "retry_wait" THEN "retry_wait" ELSE "retry"]
    ELSE Because(base)

\* ... and the resume gives it back: the backoff again, or ready in that mode.
Unpause(w, S, base) ==
  LET Kept(s) == IF w.inst[s].why.base = base THEN w.inst[s].why.phase ELSE None
  IN  [w EXCEPT
         !.inst = [s \in Stages |->
                     IF s \notin S THEN w.inst[s]
                     ELSE [w.inst[s] EXCEPT
                             !.status = IF Kept(s) = "retry_wait" THEN "retry_wait" ELSE "ready",
                             !.why = IF Kept(s) = None THEN Because("resume") ELSE RetryIn(w.inst[s].why.mode)]],
         !.timers = {t \in w.timers : ~(t.st \in S /\ t.kind = "pause_ttl")}
                    \cup {Timer(s, "retry") : s \in {x \in S : Kept(x) = "retry_wait"}}]

-----------------------------------------------------------------------------
(* Failure: RETRY, then an interruption waits for an operator, then ROUTE,      *)
(* then onExhausted (applyFailure).                                             *)

RetryModeOf(s, class) ==
  CASE class = "repairable" -> "restart" [] class = "interrupted" -> "resume" [] OTHER -> Policy[s].mode

Retries(w, s, class) ==
  /\ \/ class \in {"transient", "interrupted"}
     \/ class = "repairable" /\ Policy[s].restart
  /\ w.inst[s].fails < Policy[s].attempts
  /\ ~w.run.over
  /\ w.run.status \in RunLive \cup {"paused"}

\* Mutant: no timer is armed.
RetryUntimed(w, s, mode) ==
  [w EXCEPT !.inst[s] = [@ EXCEPT !.status = "retry_wait", !.why = RetryIn(mode)], !.owed[s] = mode]

Retry(w, s, mode) ==
  LET o == [w EXCEPT !.owed[s] = mode]
  IN  IF w.run.status = "paused"
        THEN Stop(o, {s}, "paused",
                  [x \in Stages |-> [base |-> "run_paused", phase |-> "retry_wait", mode |-> mode]])
        ELSE [o EXCEPT !.inst[s] = [@ EXCEPT !.status = "retry_wait", !.why = RetryIn(mode)],
                       !.timers = w.timers \cup {Timer(s, "retry")}]

ApplyFailure(w, s, class) ==
  IF Retries(w, s, class) THEN Retry(w, s, RetryModeOf(s, class))
  ELSE IF class \in {"interrupted", "unsafe"} THEN WithTtl(Halt(w, s), s)
  ELSE IF HasFailureRoute(s) \/ Policy[s].exhausted = "fail" THEN Fail(w, s)
  ELSE WithTtl(Halt(w, s), s)

-----------------------------------------------------------------------------
(* The run as a whole.                                                          *)

\* Mutant: a drain pause leaves the queued launches alone.
PauseRunKeepsQueue(w, mode, why) ==
  LET S == {s \in Stages : w.inst[s].status \in
              {"retry_wait"} \cup (IF mode = "interrupt" THEN Attempt ELSE {})}
  IN  WithTtl(Stop([w EXCEPT !.run.status = "paused", !.run.why = why], S, "paused",
                   [s \in Stages |-> PauseReason(w.inst[s], "run_paused")]), 0)

PauseRun(w, mode, why) ==
  LET S == {s \in Stages : w.inst[s].status \in
              {"ready", "retry_wait"} \cup (IF mode = "interrupt" THEN Attempt ELSE {})}
  IN  WithTtl(Stop([w EXCEPT !.run.status = "paused", !.run.why = why], S, "paused",
                   [s \in Stages |-> PauseReason(w.inst[s], "run_paused")]), 0)

ResumeRun(w) ==
  LET S == {s \in Stages : w.inst[s].status = "paused" /\ w.inst[s].why.base = "run_paused"}
      r == Unpause(w, S, "run_paused")
  IN  [r EXCEPT !.run.status = "running", !.run.why = None,
                !.timers = r.timers \ {Timer(0, "pause_ttl")}]

\* The finalize effect: it runs after those already in flight.
Finalize(w) == [w EXCEPT !.tasks.finals = Append(w.tasks.finals, w.run.outcome)]

\* The run is decided: no timer of it is left, and it finalizes.
Decide(w, status, outcome) ==
  Finalize([w EXCEPT !.run.status = status, !.run.outcome = outcome, !.timers = {}])

\* Mutant: a run that is finalizing is not finalized again.
CancelRunOnce(w) ==
  IF w.run.status = "finalizing"
    THEN [w EXCEPT !.run.status = "cancelling", !.run.outcome = "cancelled"]
    ELSE [Cancel([w EXCEPT !.run.status = "cancelling"], Open(w)) EXCEPT !.timers = {}]

CancelRun(w) ==
  IF w.run.status = "finalizing"
    THEN Finalize([w EXCEPT !.run.status = "cancelling", !.run.outcome = "cancelled"])
    ELSE [Cancel([w EXCEPT !.run.status = "cancelling"], Open(w)) EXCEPT !.timers = {}]

-----------------------------------------------------------------------------
(* Settle: what every accepted message ends with.                               *)

\* ensureRootInstances
Rooted(w) ==
  [w EXCEPT !.inst = [s \in Stages |->
     IF w.inst[s].status = "absent" THEN [w.inst[s] EXCEPT !.status = "pending"] ELSE w.inst[s]]]

\* Mutant: a loser that is already working is left alone.
ResolveQueuedLosers(w, res) ==
  LET lost == {s \in Stages : res[s] = "cancelled" /\ w.inst[s].status = "pending"}
      p == [w EXCEPT !.inst = [s \in Stages |->
              IF w.inst[s].status = "pending" /\ res[s] # "cancelled"
                THEN [w.inst[s] EXCEPT !.status = res[s], !.why = Because(None)] ELSE w.inst[s]]]
  IN  Cancel(p, lost)

\* The readiness pass ended with the statuses res.
Resolve(w, res) ==
  LET lost == {s \in Stages : res[s] = "cancelled" /\ w.inst[s].status # "cancelled"}
      p == [w EXCEPT !.inst = [s \in Stages |->
              IF w.inst[s].status = "pending" /\ res[s] # "cancelled"
                THEN [w.inst[s] EXCEPT !.status = res[s], !.why = Because(None)] ELSE w.inst[s]]]
      q == Cancel(p, lost)
  IN  [q EXCEPT !.inst = [s \in Stages |->
         [q.inst[s] EXCEPT !.loser = q.inst[s].loser \/ s \in lost]]]

ModeFor(i) ==
  IF i.why.base = "retry" THEN i.why.mode ELSE IF i.no = 0 THEN "fresh" ELSE "resume"

\* Mutant: a stage that waits for a human does not hold its session group.
AdmissionsForgetWaiting(w) ==
  LET Ready == {s \in Stages : w.inst[s].status = "ready" /\ ~w.inst[s].live}
      Used == {s \in Stages : Admitted(w.inst[s])}
      Fits(s, A) == Cardinality(Used) + Cardinality({t \in A : t < s}) < MaxParallel
      Alone(s, A) == Group[s] = None \/ \A t \in Stages : Group[t] = Group[s] =>
                                           t \notin Used /\ ~(t \in A /\ t < s)
  IN  {A \in SUBSET Ready : \A s \in Ready : s \in A <=> Fits(s, A) /\ Alone(s, A)}

\* admit: in order, while there is capacity, one stage of a session group at a time.
Admissions(w) ==
  LET Ready == {s \in Stages : w.inst[s].status = "ready" /\ ~w.inst[s].live}
      Used == {s \in Stages : Admitted(w.inst[s])}
      Holds(s) == s \in Used \/ w.inst[s].status = "awaiting_input"
      Fits(s, A) == Cardinality(Used) + Cardinality({t \in A : t < s}) < MaxParallel
      Alone(s, A) == Group[s] = None \/ \A t \in Stages : Group[t] = Group[s] =>
                                           ~Holds(t) /\ ~(t \in A /\ t < s)
  IN  {A \in SUBSET Ready : \A s \in Ready : s \in A <=> Fits(s, A) /\ Alone(s, A)}

\* createAttempt, the launch and its queue timeout.
Launch(w, A) ==
  [w EXCEPT
     !.inst = [s \in Stages |->
                 IF s \in A THEN [w.inst[s] EXCEPT !.no = w.inst[s].no + 1, !.live = TRUE,
                                                   !.mode = ModeFor(w.inst[s])]
                 ELSE w.inst[s]],
     !.launches = {IF l.st \in A THEN [l EXCEPT !.tracked = FALSE] ELSE l : l \in w.launches}
                  \cup {[st |-> s, no |-> w.inst[s].no + 1, tracked |-> TRUE] : s \in A},
     !.timers = w.timers \cup {Timer(s, "queue_timeout") : s \in A}]

\* running while a stage works or waits for a slot, else waiting.
Accounted(w) ==
  [w EXCEPT !.run.status =
     IF \E s \in Stages : w.inst[s].status \in Attempt \cup {"ready"} THEN "running" ELSE "waiting"]

Conclude(w) ==
  LET outcome == ScopeOutcome(StatusOf(w), SkippedAs(w), [s \in Stages |-> w.inst[s].loser])
  IN  Decide(w, IF outcome = "cancelled" THEN "cancelling" ELSE "finalizing", outcome)

Schedule(w) ==
  IF Open(w) = {} THEN {Conclude(w)}
  ELSE IF w.run.over THEN {PauseRun(w, "drain", "budget")}
  ELSE {Accounted(Launch(w, A)) : A \in Admissions(w)}

\* The worlds a message may leave once it is settled.
Settle(w) ==
  IF w.run.status = "cancelling"
    THEN {IF w.run.outcome = None /\ \A s \in Stages : ~w.inst[s].live
            THEN Finalize([w EXCEPT !.run.outcome = "cancelled"]) ELSE w}
  ELSE IF w.run.status \notin RunLive THEN {w}
  ELSE UNION {Schedule(Resolve(Rooted(w), res)) :
                res \in Resolutions(StatusOf(Rooted(w)), SkippedAs(w))}

-----------------------------------------------------------------------------
(* Message handlers.                                                            *)

\* The stage completes; its output was written by its frame.
Completes(w, s) ==
  [w EXCEPT !.inst[s] = [@ EXCEPT !.status = "completed", !.why = Because(None)],
            !.timers = {t \in w.timers : t.st # s}]

\* Mutants: a report is taken for the current attempt's; a report that comes
\* after a pause or a cancel is dropped.
OnAnyAttemptSettled(w, s, no, ending) ==
  IF ~w.inst[s].live THEN w
  ELSE IF w.inst[s].status \notin Attempt THEN Settled(w, s, FALSE)
  ELSE Halt(Settled(w, s, FALSE), s)

OnWantedAttemptSettled(w, s, no, ending) ==
  LET i == w.inst[s]
  IN  IF no # i.no \/ ~i.live \/ i.status \notin Attempt THEN w
      ELSE IF ending = "succeeded" /\ i.status = "validating"
             THEN Completes(Settled(w, s, FALSE), s)
      ELSE ApplyFailure(Settled(w, s, TRUE), s, IF ending \in Failure THEN ending ELSE "fatal")

OnAttemptSettled(w, s, no, ending) ==
  LET i == w.inst[s]
  IN  IF no # i.no \/ ~i.live THEN w                        \* stale or duplicate
      ELSE IF i.status \notin Attempt THEN Settled(w, s, FALSE) \* a cancel or pause won
      ELSE CASE ending = "succeeded" /\ i.status = "validating" ->
                  Completes(Settled(w, s, FALSE), s)
             [] ending = "succeeded" /\ i.status # "validating" ->
                  ApplyFailure(Settled(w, s, TRUE), s, "repairable")
             [] ending = "aborted" -> Halt(Settled(w, s, FALSE), s)
             [] ending = "budget" -> ApplyFailure(Settled(w, s, FALSE), s, "fatal")
             [] OTHER -> ApplyFailure(Settled(w, s, TRUE), s, ending)

OnFrameLost(w, s, no) ==
  LET i == w.inst[s]
  IN  IF no # i.no \/ ~i.live \/ i.status # "awaiting_input" THEN w
      ELSE IF i.gate = "turn" THEN Halt(Settled(w, s, FALSE), s)
      ELSE Settled(w, s, FALSE)

OnLeaseExpired(w, s, safe) ==
  IF w.inst[s].live /\ w.inst[s].status \in Attempt
    THEN ApplyFailure(Settled(w, s, TRUE), s, IF safe THEN "interrupted" ELSE "unsafe")
    ELSE w

OnTimer(w, t) ==
  IF t.st = 0
    THEN IF w.run.status # "paused" THEN w
         ELSE Decide(Cancel(w, Open(w)), "finalizing", "failed")
  ELSE CASE t.kind = "retry" /\ w.inst[t.st].status = "retry_wait" ->
              [w EXCEPT !.inst[t.st].status = "ready"]
         [] t.kind = "queue_timeout" /\ w.inst[t.st].status = "ready" /\ w.inst[t.st].live ->
              Stop(w, {t.st}, "failed", AllBecause(None))
         [] t.kind = "pause_ttl" /\ w.inst[t.st].status = "paused" -> Fail(w, t.st)
         [] OTHER -> w

\* Mutant: the end follows the post-processing, not the verdict.
OnFinalizedOk(w, ok) ==
  CASE w.run.status = "finalizing" ->
         [w EXCEPT !.run.status = IF ok THEN "completed" ELSE "failed",
                   !.run.outcome = IF ok THEN "completed" ELSE "failed", !.timers = {}]
    [] w.run.status = "cancelling" -> [w EXCEPT !.run.status = "cancelled", !.timers = {}]
    [] OTHER -> w

OnFinalized(w, ok) ==
  CASE w.run.status = "finalizing" ->
         LET done == w.run.outcome = "completed" /\ ok
         IN  [w EXCEPT !.run.status = IF done THEN "completed" ELSE "failed",
                       !.run.outcome = IF done THEN "completed" ELSE "failed", !.timers = {}]
    [] w.run.status = "cancelling" -> [w EXCEPT !.run.status = "cancelled", !.timers = {}]
    [] OTHER -> w

-----------------------------------------------------------------------------
(* Actions.                                                                     *)

Become(w) ==
  /\ run' = w.run /\ inst' = w.inst /\ timers' = w.timers /\ launches' = w.launches
  /\ frames' = w.frames /\ tasks' = w.tasks /\ owed' = w.owed

\* A message comes to the world w, and its handler makes v of it; the actor of a
\* terminal run is gone.  (y has TLC compute v once.)
Post(w, v) ==
  IF w.run.status \in TerminalRun THEN Become(w)
  ELSE \E y \in {v} : \E x \in Settle(y) : Become(x)

IsUp == boot.phase = "up"
Quiet == UNCHANGED <<boot, ops, faults>>

Init ==
  /\ run = [status |-> "created", outcome |-> None, why |-> None, over |-> FALSE]
  /\ inst = Idle
  /\ timers = {} /\ launches = {}
  /\ frames = [s \in Stages |-> NoFrame]
  /\ tasks = [prepare |-> FALSE, finals |-> <<>>]
  /\ owed = [s \in Stages |-> None]
  /\ boot = Up
  /\ ops = 0 /\ faults = 0

\* startRun, and the prepare effect it dispatches.
Start ==
  /\ IsUp /\ run.status = "created"
  /\ Become([World EXCEPT !.run.status = "starting", !.tasks.prepare = TRUE])
  /\ Quiet

PrepareDone(ok) ==
  /\ IsUp /\ tasks.prepare
  /\ LET w == [World EXCEPT !.tasks.prepare = FALSE]
     IN  Post(w, IF run.status # "starting" THEN w
                 ELSE IF ok THEN [w EXCEPT !.run.status = "running"]
                 ELSE Decide(w, "finalizing", "failed"))
  /\ Quiet

\* Mutant: a finalize that a cancel superseded reports too.
FinalizeDoneAnyway(ok) ==
  /\ IsUp /\ tasks.finals # <<>> /\ ~tasks.prepare
  /\ LET w == [World EXCEPT !.tasks.finals = Tail(tasks.finals)]
     IN  Post(w, OnFinalized(w, ok))
  /\ Quiet

\* The oldest finalize ends, once the prepare has stopped; one that a cancel
\* superseded reports nothing (finalizeNow).
FinalizeDone(ok) ==
  /\ IsUp /\ tasks.finals # <<>> /\ ~tasks.prepare
  /\ LET w == [World EXCEPT !.tasks.finals = Tail(tasks.finals)]
     IN  IF Head(tasks.finals) # "cancelled" /\ run.status = "cancelling"
           THEN Become(w) ELSE Post(w, OnFinalized(w, ok))
  /\ Quiet

\* An admitted launch reaches the executor (start): refused while the stage has
\* a frame, lost if the stage is not ready; else the stage is claimed, by the
\* attempt it has now.  A settled attempt gets no frame: attempt() ends at once.
Claim(l) ==
  /\ l \in launches
  /\ LET s == l.st
         w == [World EXCEPT !.launches = launches \ {l}]
     IN  IF frames[s].at # None \/ inst[s].status # "ready" THEN Become(w)
         ELSE Become([w EXCEPT
                !.inst[s].status = "starting",
                !.owed[s] = None,
                !.timers = timers \ {Timer(s, "queue_timeout")},
                !.frames[s] = IF inst[s].live
                                THEN [no |-> inst[s].no, at |-> "work", stop |-> FALSE] ELSE NoFrame])
  /\ Quiet

\* The compare-and-sets of a working frame, on the status only.
Step(s, from, to) ==
  /\ frames[s].at = "work" /\ inst[s].status = from
  /\ Become([World EXCEPT !.inst[s].status = to])
  /\ Quiet

SessionReady(s) == Step(s, "starting", "running")
ToValidating(s) == Step(s, "running", "validating")
BackToRunning(s) == Step(s, "validating", "running")

\* parkFrame: a gate inside a turn, or the review of the output.
Park(s, gate) ==
  /\ frames[s].at = "work" /\ inst[s].status = "running"
  /\ Become([World EXCEPT !.inst[s] = [@ EXCEPT !.status = "awaiting_input", !.gate = gate],
                          !.frames[s].at = "parked"])
  /\ Quiet

\* The answered frame has its admission slot again and goes on; the actor is told.
Resumed(s) ==
  /\ frames[s].at = "answered" /\ ~frames[s].stop
  /\ inst[s].status = "awaiting_input"
  /\ LET w == [World EXCEPT !.inst[s] = [@ EXCEPT !.status = "running", !.gate = None],
                            !.frames[s].at = "work"]
     IN  Post(w, w)
  /\ Quiet

\* A frame ends and reports.  A stopped one reports its stop; a success is
\* reported from validating.
End(s, ending) ==
  /\ frames[s].at # None
  /\ IF frames[s].stop THEN ending = "aborted"
     ELSE /\ frames[s].at = "work" /\ ending \in Endings
          /\ ending = "succeeded" => inst[s].status = "validating"
  /\ LET w == [World EXCEPT !.frames[s] = NoFrame]
     IN  Post(w, OnAttemptSettled(w, s, frames[s].no, ending))
  /\ Quiet

\* A live timer is marked fired and posted.
FireTimer(t) ==
  /\ IsUp /\ t \in timers
  /\ LET w == [World EXCEPT !.timers = timers \ {t}] IN Post(w, OnTimer(w, t))
  /\ Quiet

-----------------------------------------------------------------------------
(* Faults.                                                                      *)

Fault(kind) ==
  kind \in Kinds /\ faults < MaxFaults /\ faults' = faults + 1 /\ UNCHANGED ops

\* Mutant: the frame is not stopped.
LeaseExpireOnly(s, safe) ==
  /\ IsUp /\ Fault("lease")
  /\ inst[s].status \in Attempt
  /\ Post(World, OnLeaseExpired(World, s, safe))
  /\ UNCHANGED boot

\* The reaper finds the lease of a stage expired; its frame is stopped too.
LeaseExpire(s, safe) ==
  /\ IsUp /\ Fault("lease")
  /\ inst[s].status \in Attempt
  /\ LET w == Abort(World, {s}) IN Post(w, OnLeaseExpired(w, s, safe))
  /\ UNCHANGED boot

\* A usage tick of the live attempt of s exhausts the budget of the run, or its own.
RunBudgetSpent(s) ==
  /\ IsUp /\ frames[s].at = "work" /\ Fault("budget") /\ ~run.over
  /\ Post(World, [World EXCEPT !.run.over = TRUE])
  /\ UNCHANGED boot

StageBudgetSpent(s) ==
  /\ IsUp /\ frames[s].at = "work" /\ Fault("budget")
  /\ inst[s].live /\ frames[s].no = inst[s].no /\ inst[s].status \in Attempt
  /\ Post(World, Abort(ApplyFailure(Settled(World, s, TRUE), s, "fatal"), {s}))
  /\ UNCHANGED boot

\* The process dies: only rows are left.  A timer marked fired a moment ago
\* (lost) dies with its message.
Crash(lost) ==
  /\ boot.phase # "down" /\ Fault("crash") /\ lost \subseteq timers /\ Cardinality(lost) <= 1
  /\ boot' = [Up EXCEPT !.phase = "down"]
  /\ launches' = {} /\ frames' = [s \in Stages |-> NoFrame]
  /\ tasks' = [prepare |-> FALSE, finals |-> <<>>]
  /\ timers' = timers \ lost
  /\ UNCHANGED <<run, inst, owed>>

-----------------------------------------------------------------------------
(* Boot and recovery (start, recover).  Recovery only awaits what the process    *)
(* answers itself, so no command, timer or lifecycle task gets in between its    *)
(* steps; a relaunched attempt may.                                              *)

\* The new process reads the rows: the snapshot every step of recovery works from.
Boot ==
  /\ boot.phase = "down"
  /\ boot' = IF run.status \in TerminalRun THEN Up
             ELSE [phase |-> "recovering", at |-> 1, snap |-> inst]
  /\ UNCHANGED <<run, inst, timers, launches, frames, tasks, owed, ops, faults>>

Recovering(step) == boot.phase = "recovering" /\ boot.at = step
NextStep == boot' = [boot EXCEPT !.at = boot.at + 1] /\ UNCHANGED <<ops, faults>>

\* Mutant: only attempts in a turn are recovered.
RecoverTurn(s, safe) ==
  /\ Recovering(s)
  /\ LET was == boot.snap[s]
         lost == OnAttemptSettled(World, s, was.no, IF safe THEN "interrupted" ELSE "unsafe")
     IN  IF was.live /\ was.status = "running" THEN Post(World, lost) ELSE Become(World)
  /\ NextStep

\* The attempt the snapshot left running.
RecoverAttempt(s, safe) ==
  /\ Recovering(s)
  /\ LET was == boot.snap[s]
         lost ==
           CASE was.status \in Attempt ->
                  OnAttemptSettled(World, s, was.no, IF safe THEN "interrupted" ELSE "unsafe")
             [] was.status = "awaiting_input" -> OnFrameLost(World, s, was.no)
             [] OTHER -> OnAttemptSettled(World, s, was.no, "aborted")
     IN  IF ~was.live \/ frames[s].at # None THEN Become(World)
         ELSE IF was.status = "ready"
           THEN Become([World EXCEPT !.launches =
                          {IF l.st = s THEN [l EXCEPT !.tracked = FALSE] ELSE l : l \in launches}
                          \cup {[st |-> s, no |-> was.no, tracked |-> TRUE]}])
         ELSE Post(World, lost)
  /\ NextStep

\* A retry timer marked fired whose message died: the retry is due now.
RecoverRetry(s) ==
  /\ Recovering(N + s)
  /\ IF boot.snap[s].status = "retry_wait" /\ Timer(s, "retry") \notin timers
       THEN Post(World, OnTimer(World, Timer(s, "retry"))) ELSE Become(World)
  /\ NextStep

\* The lifecycle work the run is in, then the closing tick.
RecoverRun ==
  /\ Recovering(2 * N + 1)
  /\ LET acked == \A s \in Stages : boot.snap[s].live => boot.snap[s].status = "ready"
         w == IF run.status = "starting" THEN [World EXCEPT !.tasks.prepare = TRUE]
              ELSE IF run.status \in {"finalizing", "cancelling"} /\ run.outcome # None /\ acked
                     THEN Finalize(World) ELSE World
     IN  Post(w, w)
  /\ boot' = Up /\ UNCHANGED <<ops, faults>>

-----------------------------------------------------------------------------
(* Operator commands (onCommand); a refused one changes nothing.                *)

Operator(name) ==
  /\ IsUp /\ name \in Commands /\ ops < MaxOps
  /\ ops' = ops + 1
  /\ UNCHANGED <<boot, faults>>

Command(v) == Post(World, v)

PauseTheRun(mode) ==
  /\ Operator("pause_run") /\ run.status \in RunLive
  /\ Command(PauseRun(World, mode, "user"))

ResumeTheRun ==
  /\ Operator("resume_run") /\ run.status = "paused"
  /\ Command(ResumeRun(World))

CancelTheRun ==
  /\ Operator("cancel_run")
  /\ run.status \notin {"cancelling"} \cup TerminalRun
  /\ Command(CancelRun(World))

\* A raise that covers what was spent.
RaiseBudget ==
  /\ Operator("raise_budget") /\ run.status \in RunLive \cup {"paused"}
  /\ LET r == [World EXCEPT !.run.over = FALSE]
     IN  Command(IF run.status = "paused" /\ run.why = "budget" THEN ResumeRun(r) ELSE r)

\* A command to an instance; its rows exist once the run has been running.
On(name, s, from) ==
  /\ Operator(name) /\ run.status \in RunLive \cup {"paused"}
  /\ inst[s].status \in from

PauseStage(s) ==
  /\ On("pause", s, {"ready", "retry_wait"} \cup Attempt)
  /\ Command(WithTtl(Stop(World, {s}, "paused",
                          [x \in Stages |-> PauseReason(inst[x], "user_paused")]), s))

ResumeStage(s) ==
  /\ On("resume", s, {"paused"})
  /\ Command(Unpause(World, {s},
                     IF inst[s].why.base = "run_paused" THEN "run_paused" ELSE "user_paused"))

RetryStage(s, mode) ==
  /\ On("retry", s, {"paused"})
  /\ Command([World EXCEPT !.inst[s] = [@ EXCEPT !.status = "ready", !.why = RetryIn(mode)],
                           !.owed[s] = mode, !.timers = timers \ {Timer(s, "pause_ttl")}])

\* Mutant: a stage at work may be skipped.
SkipWorkingStage(s, as) ==
  /\ On("skip", s, {"paused", "ready"} \cup Attempt)
  /\ Command([Stop(World, {s}, "skipped", AllBecause(None)) EXCEPT !.inst[s].as = as])

SkipStage(s, as) ==
  /\ On("skip", s, {"paused", "ready"})
  /\ Command([Stop(World, {s}, "skipped", AllBecause(None)) EXCEPT !.inst[s].as = as])

FailStage(s) ==
  /\ On("fail", s, {"paused"})
  /\ Command(Fail(World, s))

CancelStage(s) ==
  /\ On("cancel", s, StageState \ (TerminalStage \cup {"absent"}))
  /\ Command(Cancel(World, {s}))

\* approve: an alive frame gets the verdict; without one a new attempt carries it.
Approve(s) ==
  /\ On("approve", s, {"awaiting_input"})
  /\ LET lost == OnFrameLost(World, s, inst[s].no)
     IN  Command(
           IF inst[s].live /\ frames[s].at # None
             THEN IF frames[s].at = "parked" THEN [World EXCEPT !.frames[s].at = "answered"] ELSE World
           ELSE IF lost.inst[s].status # "awaiting_input" THEN lost
           ELSE [lost EXCEPT !.inst[s] = [@ EXCEPT !.status = "ready", !.gate = None,
                                                   !.why = Because("resume")]])

Reject(s) ==
  /\ On("reject", s, {"awaiting_input"})
  /\ LET f == Fail(Settled(World, s, TRUE), s)
     IN  Command(IF inst[s].live THEN Abort(f, {s}) ELSE f)

-----------------------------------------------------------------------------
Engine ==
  \/ Start \/ Boot \/ RecoverRun
  \/ \E ok \in BOOLEAN : PrepareDone(ok) \/ FinalizeDone(ok)
  \/ \E l \in launches : Claim(l)
  \/ \E t \in timers : FireTimer(t)
  \/ \E s \in Stages :
       \/ SessionReady(s) \/ ToValidating(s) \/ BackToRunning(s) \/ Resumed(s) \/ RecoverRetry(s)
       \/ \E gate \in {"turn", "review"} : Park(s, gate)
       \/ \E ending \in Ending : End(s, ending)
       \/ \E safe \in BOOLEAN : RecoverAttempt(s, safe)

Faults ==
  \/ \E lost \in SUBSET timers : Crash(lost)
  \/ \E s \in Stages :
       \/ RunBudgetSpent(s) \/ StageBudgetSpent(s)
       \/ \E safe \in BOOLEAN : LeaseExpire(s, safe)

Operators ==
  \/ \E mode \in {"drain", "interrupt"} : PauseTheRun(mode)
  \/ ResumeTheRun \/ CancelTheRun \/ RaiseBudget
  \/ \E s \in Stages :
       \/ PauseStage(s) \/ ResumeStage(s) \/ FailStage(s) \/ CancelStage(s)
       \/ Approve(s) \/ Reject(s)
       \/ \E mode \in RetryMode : RetryStage(s, mode)
       \/ \E as \in {"completed", "skipped"} : SkipStage(s, as)

Next == Engine \/ Faults \/ Operators

Spec == Init /\ [][Next]_vars

\* One sequence of steps: at any time at most one of them can be taken.
Recovery ==
  \/ Boot \/ RecoverRun
  \/ \E s \in Stages : RecoverRetry(s) \/ \E safe \in BOOLEAN : RecoverAttempt(s, safe)

\* The process is restarted when it is down, its tasks, frames and queued
\* launches end, and its timers fire; nobody owes the run a command, and
\* nothing makes a frame take a particular step before it ends.
Fairness ==
  /\ WF_vars(Start) /\ WF_vars(Recovery)
  /\ WF_vars(\E ok \in BOOLEAN : PrepareDone(ok))
  /\ WF_vars(\E ok \in BOOLEAN : FinalizeDone(ok))
  /\ WF_vars(\E t \in timers : FireTimer(t))
  /\ \A s \in Stages :
       /\ WF_vars(\E l \in launches : l.st = s /\ Claim(l))
       /\ WF_vars(Resumed(s))
       /\ WF_vars(\E ending \in Ending : End(s, ending))

FairSpec == Spec /\ Fairness

-----------------------------------------------------------------------------
(* Properties.                                                                  *)

TypeOK ==
  /\ run \in RunType
  /\ inst \in [Stages -> InstanceType]
  /\ timers \subseteq TimerType
  /\ launches \subseteq LaunchType
  /\ frames \in [Stages -> FrameType]
  /\ tasks \in TaskType
  /\ owed \in [Stages -> RetryMode \cup {None}]
  /\ boot \in BootType
  /\ ops \in Nat /\ faults \in Nat

Works(s) == frames[s].at # None /\ ~frames[s].stop

\* No agent works for a stage that was stopped: a frame nobody told to stop runs
\* the attempt its stage has now, and the stage says so.
NoStrayFrame ==
  \A s \in Stages : Works(s) =>
    /\ inst[s].live /\ frames[s].no = inst[s].no
    /\ inst[s].status \in Attempt \cup {"awaiting_input"}
    /\ frames[s].at # "work" => inst[s].status = "awaiting_input"

\* Once recovery is over, a stage in an attempt state is being worked on: it has
\* a live attempt and the frame of that attempt.
NoOrphanAttempt ==
  IsUp => \A s \in Stages :
    inst[s].status \in Attempt => inst[s].live /\ Works(s) /\ frames[s].no = inst[s].no

\* A decided run is over for its stages: none may start again, no timer is left.
DecidedIsDecided ==
  run.outcome # None =>
    timers = {} /\ \A s \in Stages : inst[s].status \in TerminalStage \cup {"absent"}

\* Stages of a session group share one conversation: at most one of them is at
\* work on it, where the process does not crash.
SessionExclusive ==
  \A s, t \in Stages : s # t /\ Group[s] = Group[t] /\ Group[s] # None => ~(Works(s) /\ Works(t))

\* A race is over for its losers: once a join that cancels the rest is launched,
\* every stage that leads only into it has ended.
LosersEnded ==
  \A j \in Stages : CancelsRest(j) /\ inst[j].no > 0 =>
    \A s \in ExclusiveLosers(j) : inst[s].status \in TerminalStage

\* A granted retry starts in the mode it was granted in, whatever pauses, resumes
\* and withdrawn launches come between, where the process does not crash:
\* recovery launches the attempt left behind in its own mode (RunSupervisor.ts:642).
RetryModeKept ==
  [][\A s \in Stages : inst[s].status = "ready" /\ inst'[s].status = "starting" /\ owed[s] # None
       => inst[s].mode = owed[s]]_vars

\* Nothing starts in a paused run: a pause withdraws the launches, and a retry
\* granted meanwhile waits for the resume -- where the process does not crash:
\* recovery launches what a paused run has queued (RunSupervisor.ts:641-643).
PausedStartsNothing ==
  [][run.status = "paused" =>
       \A s \in Stages : inst[s].status = "ready" => inst'[s].status # "starting"]_vars

Legal(rows, via, from, to) ==
  from = to \/ <<from, to>> \in rows \/ {<<from, via>>, <<via, to>>} \subseteq rows

\* No message asks the stores for a transition their tables refuse (they would
\* throw, and the message would be lost).  One message may make a stage ready, or
\* the run running, on the way.
LegalMoves ==
  [][/\ Legal(RunRows, "running", run.status, run'.status)
     /\ \A s \in Stages : inst[s].status # "absent" =>
          Legal(StageRows, "ready", inst[s].status, inst'[s].status)]_vars

\* A run becomes terminal only by the finalize of its own outcome: a cancel that
\* overtakes a finalize waits for the cancel's.
FinalizedByItsOwn ==
  [][run'.status \in TerminalRun /\ run.status \notin TerminalRun =>
       tasks.finals # <<>> /\ Head(tasks.finals) = run.outcome]_vars

\* The state RunOutcome speaks of.
Phase ==
  IF run.status \in TerminalRun THEN run.status
  ELSE IF run.status \in {"finalizing", "cancelling"} THEN "closing" ELSE "open"

Busy == {s \in Stages : inst[s].status \notin TerminalStage \cup {"absent"}}

Promise == INSTANCE RunOutcome WITH Stage <- Stages, phase <- Phase, verdict <- run.outcome, busy <- Busy

\* The run keeps what RunOutcome promises: it closes with no stage left at work, a
\* verdict is changed by nothing but a cancel or a failed post-processing, and a
\* terminal run is final.
KeepsPromise == Promise!Spec

\* A stage never hangs: whatever works, waits for a slot or waits to retry moves
\* on, unless the run is paused or a stage of its session group waits for a human.
StageMoves ==
  \A s \in Stages :
    []<>(\/ inst[s].status \notin Attempt \cup {"ready", "retry_wait"}
         \/ run.status = "paused"
         \/ \E t \in Stages : Group[t] = Group[s] /\ Group[s] # None /\ inst[t].status = "awaiting_input")

\* A decided run is finalized.
DecidedEnds == (run.outcome # None) ~> (run.status \in TerminalRun)

\* A cancel reaches the end, whatever was at work when it came.
CancelEnds == (run.status = "cancelling") ~> (run.status = "cancelled")

=============================================================================
