------------------------ MODULE RunScheduler_proofs ------------------------
(* Type correctness of RunScheduler, for every workflow and every bound: each   *)
(* operator maps a well-typed world to a well-typed world, so every handler and *)
(* Settle do, and every action keeps TypeOK.  Then, that a run ends as it was   *)
(* decided, and the promise of RunOutcome.                                      *)
EXTENDS RunScheduler, TLAPS

WorldType ==
  [run : RunType, inst : [Stages -> InstanceType], timers : SUBSET TimerType,
   launches : SUBSET LaunchType, frames : [Stages -> FrameType], tasks : TaskType,
   owed : [Stages -> RetryMode \cup {None}]]

-----------------------------------------------------------------------------
(* Updates of one part of a world.                                              *)

LEMMA WorldParts ==
  ASSUME NEW w \in WorldType
  PROVE  /\ w.run \in RunType /\ w.inst \in [Stages -> InstanceType]
         /\ w.timers \in SUBSET TimerType /\ w.launches \in SUBSET LaunchType
         /\ w.frames \in [Stages -> FrameType] /\ w.tasks \in TaskType
         /\ w.owed \in [Stages -> RetryMode \cup {None}]
         /\ w = [run |-> w.run, inst |-> w.inst, timers |-> w.timers, launches |-> w.launches,
                 frames |-> w.frames, tasks |-> w.tasks, owed |-> w.owed]
BY DEF WorldType

LEMMA NewInst ==
  ASSUME NEW w \in WorldType, NEW f \in [Stages -> InstanceType]
  PROVE  [w EXCEPT !.inst = f] \in WorldType
BY DEF WorldType

LEMMA NewInstAt ==
  ASSUME NEW w \in WorldType, NEW s \in Stages, NEW i \in InstanceType
  PROVE  [w EXCEPT !.inst[s] = i] \in WorldType
BY DEF WorldType

LEMMA NewTimers ==
  ASSUME NEW w \in WorldType, NEW T \in SUBSET TimerType
  PROVE  [w EXCEPT !.timers = T] \in WorldType
BY DEF WorldType

LEMMA NewLaunches ==
  ASSUME NEW w \in WorldType, NEW L \in SUBSET LaunchType
  PROVE  [w EXCEPT !.launches = L] \in WorldType
BY DEF WorldType

LEMMA NewFrames ==
  ASSUME NEW w \in WorldType, NEW F \in [Stages -> FrameType]
  PROVE  [w EXCEPT !.frames = F] \in WorldType
BY DEF WorldType

LEMMA NewRun ==
  ASSUME NEW w \in WorldType, NEW r \in RunType
  PROVE  [w EXCEPT !.run = r] \in WorldType
BY DEF WorldType

LEMMA InstanceParts ==
  ASSUME NEW i \in InstanceType
  PROVE  /\ i.status \in StageState /\ i.why \in Reason /\ i.no \in Nat /\ i.live \in BOOLEAN
         /\ i.fails \in Nat /\ i.mode \in RetryMode \cup {"fresh", None}
         /\ i.as \in {None, "completed", "skipped"} /\ i.loser \in BOOLEAN
         /\ i.gate \in {None, "turn", "review"}
BY DEF InstanceType

\* The moves of one instance the operators make.
LEMMA InstanceMoves ==
  ASSUME NEW i \in InstanceType
  PROVE  /\ \A to \in StageState, why \in Reason :
              /\ [i EXCEPT !.status = to, !.why = why] \in InstanceType
              /\ [i EXCEPT !.status = to, !.why = why, !.gate = None] \in InstanceType
              /\ \A l \in BOOLEAN :
                   [i EXCEPT !.status = to, !.why = why, !.gate = None, !.live = l] \in InstanceType
         /\ \A to \in StageState, gate \in {None, "turn", "review"} :
              /\ [i EXCEPT !.status = to] \in InstanceType
              /\ [i EXCEPT !.status = to, !.gate = gate] \in InstanceType
         /\ \A n \in Nat : [i EXCEPT !.live = FALSE, !.fails = n] \in InstanceType
BY DEF InstanceType

LEMMA Reasons ==
  /\ \A base \in {None, "resume", "retry", "run_paused", "user_paused", "stopped"} :
       Because(base) \in Reason
  /\ \A mode \in RetryMode \cup {None} : RetryIn(mode) \in Reason
BY DEF Because, RetryIn, Reason, None

LEMMA StatesOfStages ==
  /\ {"absent", "pending", "ready", "awaiting_input", "retry_wait", "paused", "starting", "running",
      "validating", "completed", "failed", "skipped", "cancelled"} = StageState
BY DEF StageState, Attempt, TerminalStage

LEMMA TimerInType ==
  /\ \A s \in Stages, kind \in {"retry", "queue_timeout", "pause_ttl"} : Timer(s, kind) \in TimerType
  /\ Timer(0, "pause_ttl") \in TimerType
BY GraphAssumption DEF Timer, TimerType, Stages

-----------------------------------------------------------------------------
(* The building blocks.                                                         *)

LEMMA AbortType ==
  ASSUME NEW w \in WorldType, NEW S
  PROVE  Abort(w, S) \in WorldType
<1> DEFINE Hit(l) == l.tracked /\ l.st \in S /\ l.no = w.inst[l.st].no
           F == [s \in Stages |->
                   IF /\ s \in S /\ \A l \in w.launches : Hit(l) => l.st # s
                      /\ w.frames[s].at # None /\ w.frames[s].no = w.inst[s].no
                     THEN [w.frames[s] EXCEPT !.stop = TRUE] ELSE w.frames[s]]
           L == {l \in w.launches : ~Hit(l)}
<1>1. F \in [Stages -> FrameType]
  <2>1. \A s \in Stages : w.frames[s] \in FrameType BY WorldParts
  <2>2. \A f \in FrameType : [f EXCEPT !.stop = TRUE] \in FrameType BY DEF FrameType
  <2> HIDE DEF Hit
  <2> QED BY <2>1, <2>2
<1>2. L \in SUBSET LaunchType BY WorldParts
<1>3. Abort(w, S) = [[w EXCEPT !.launches = L] EXCEPT !.frames = F] BY DEF Abort
<1> HIDE DEF F, L
<1>4. [w EXCEPT !.launches = L] \in WorldType BY <1>2, NewLaunches
<1> QED BY <1>1, <1>3, <1>4, NewFrames

LEMMA StopType ==
  ASSUME NEW w \in WorldType, NEW S \in SUBSET Stages, NEW to \in StageState,
         NEW why \in [Stages -> Reason]
  PROVE  Stop(w, S, to, why) \in WorldType
<1> DEFINE I == [s \in Stages |->
                   IF s \in S
                     THEN [w.inst[s] EXCEPT !.status = to, !.why = why[s], !.gate = None,
                             !.live = w.inst[s].live /\ w.inst[s].status # "ready"]
                     ELSE w.inst[s]]
           T == {t \in w.timers : t.st \notin S}
<1>1. I \in [Stages -> InstanceType]
  <2>1. \A s \in Stages : w.inst[s] \in InstanceType BY WorldParts
  <2>2. \A s \in Stages : I[s] \in InstanceType
    <3> TAKE s \in Stages
    <3>1. why[s] \in Reason OBVIOUS
    <3>2. (w.inst[s].live /\ w.inst[s].status # "ready") \in BOOLEAN OBVIOUS
    <3> QED BY <2>1, <3>1, <3>2, InstanceMoves
  <2> QED BY <2>2
<1>2. T \in SUBSET TimerType BY WorldParts
<1>3. [[w EXCEPT !.inst = I] EXCEPT !.timers = T] \in WorldType
  <2> HIDE DEF I, T
  <2> QED BY <1>1, <1>2, NewInst, NewTimers
<1>4. Stop(w, S, to, why)
        = Abort([[w EXCEPT !.inst = I] EXCEPT !.timers = T], {s \in S : w.inst[s].live})
  BY DEF Stop
<1> QED BY <1>3, <1>4, AbortType

LEMMA AllBecauseType ==
  ASSUME NEW base \in {None, "resume", "retry", "run_paused", "user_paused", "stopped"}
  PROVE  AllBecause(base) \in [Stages -> Reason]
BY Reasons DEF AllBecause

LEMMA CancelType ==
  ASSUME NEW w \in WorldType, NEW S \in SUBSET Stages
  PROVE  Cancel(w, S) \in WorldType
BY StopType, AllBecauseType, StatesOfStages DEF Cancel

LEMMA FailType ==
  ASSUME NEW w \in WorldType, NEW s \in Stages
  PROVE  Fail(w, s) \in WorldType
<1> DEFINE i == [w.inst[s] EXCEPT !.status = "failed", !.why = Because(None), !.gate = None]
           T == {t \in w.timers : t.st # s}
<1>1. i \in InstanceType
  <2>1. w.inst[s] \in InstanceType BY WorldParts
  <2>2. "failed" \in StageState /\ Because(None) \in Reason BY Reasons, StatesOfStages
  <2> QED BY <2>1, <2>2, InstanceMoves
<1>2. T \in SUBSET TimerType BY WorldParts
<1>3. Fail(w, s) = [[w EXCEPT !.inst[s] = i] EXCEPT !.timers = T] BY DEF Fail, WorldType
<1> HIDE DEF i, T
<1>4. [w EXCEPT !.inst[s] = i] \in WorldType BY <1>1, NewInstAt
<1> QED BY <1>2, <1>3, <1>4, NewTimers

LEMMA WithTtlType ==
  ASSUME NEW w \in WorldType, NEW s \in Stages \cup {0}
  PROVE  WithTtl(w, s) \in WorldType
<1>1. w.timers \cup {Timer(s, "pause_ttl")} \in SUBSET TimerType BY WorldParts, TimerInType
<1> QED BY <1>1, NewTimers DEF WithTtl

LEMMA HaltType ==
  ASSUME NEW w \in WorldType, NEW s \in Stages
  PROVE  Halt(w, s) \in WorldType
<1> DEFINE i == [w.inst[s] EXCEPT !.status = "paused", !.why = Because("stopped"), !.gate = None]
<1>1. i \in InstanceType
  <2>1. w.inst[s] \in InstanceType BY WorldParts
  <2>2. "paused" \in StageState /\ Because("stopped") \in Reason BY Reasons, StatesOfStages
  <2> QED BY <2>1, <2>2, InstanceMoves
<1>2. Halt(w, s) = [w EXCEPT !.inst[s] = i] BY DEF Halt, WorldType
<1> HIDE DEF i
<1> QED BY <1>1, <1>2, NewInstAt

LEMMA SettledType ==
  ASSUME NEW w \in WorldType, NEW s \in Stages, NEW counted \in BOOLEAN
  PROVE  Settled(w, s, counted) \in WorldType
<1> DEFINE n == IF w.inst[s].live /\ counted THEN w.inst[s].fails + 1 ELSE w.inst[s].fails
           i == [w.inst[s] EXCEPT !.live = FALSE, !.fails = n]
<1>1. w.inst[s] \in InstanceType /\ w.inst[s].fails \in Nat BY WorldParts, InstanceParts
<1>2. n \in Nat BY <1>1
<1>3. i \in InstanceType
  <2> HIDE DEF n
  <2> QED BY <1>1, <1>2, InstanceMoves
<1>4. Settled(w, s, counted) = [w EXCEPT !.inst[s] = i] BY DEF Settled, WorldType
<1> HIDE DEF i
<1> QED BY <1>3, <1>4, NewInstAt

LEMMA PauseReasonType ==
  ASSUME NEW i \in InstanceType, NEW base \in {"run_paused", "user_paused"}
  PROVE  PauseReason(i, base) \in Reason
BY InstanceParts, Reasons DEF PauseReason, Reason, None

LEMMA UnpauseType ==
  ASSUME NEW w \in WorldType, NEW S \in SUBSET Stages, NEW base
  PROVE  Unpause(w, S, base) \in WorldType
<1> DEFINE Kept(s) == IF w.inst[s].why.base = base THEN w.inst[s].why.phase ELSE None
           status(s) == IF Kept(s) = "retry_wait" THEN "retry_wait" ELSE "ready"
           why(s) == IF Kept(s) = None THEN Because("resume") ELSE RetryIn(w.inst[s].why.mode)
           I == [s \in Stages |-> IF s \notin S THEN w.inst[s]
                                  ELSE [w.inst[s] EXCEPT !.status = status(s), !.why = why(s)]]
           T == {t \in w.timers : ~(t.st \in S /\ t.kind = "pause_ttl")}
                    \cup {Timer(s, "retry") : s \in {x \in S : Kept(x) = "retry_wait"}}
<1>1. ASSUME NEW s \in Stages PROVE I[s] \in InstanceType
  <2>1. w.inst[s] \in InstanceType BY WorldParts
  <2>2. w.inst[s].why \in Reason BY <2>1, InstanceParts
  <2>3. w.inst[s].why.mode \in RetryMode \cup {None} BY <2>2 DEF Reason
  <2>4. why(s) \in Reason
    <3>1. Because("resume") \in Reason /\ RetryIn(w.inst[s].why.mode) \in Reason BY <2>3, Reasons
    <3> HIDE DEF Kept
    <3> QED BY <3>1
  <2>5. status(s) \in StageState BY StatesOfStages
  <2>6. I[s] = IF s \notin S THEN w.inst[s]
               ELSE [w.inst[s] EXCEPT !.status = status(s), !.why = why(s)] OBVIOUS
  <2> HIDE DEF status, why, I
  <2>7. [w.inst[s] EXCEPT !.status = status(s), !.why = why(s)] \in InstanceType
    BY <2>1, <2>4, <2>5, InstanceMoves
  <2> QED BY <2>1, <2>6, <2>7
<1>2. T \in SUBSET TimerType
  <2>1. \A s \in Stages : Timer(s, "retry") \in TimerType BY TimerInType
  <2> HIDE DEF Kept
  <2> QED BY <2>1, WorldParts
<1>3. I \in [Stages -> InstanceType]
  <2> HIDE DEF Kept, status, why
  <2> QED BY <1>1
<1>4. Unpause(w, S, base) = [[w EXCEPT !.inst = I] EXCEPT !.timers = T] BY DEF Unpause
<1> HIDE DEF I, T
<1>5. [w EXCEPT !.inst = I] \in WorldType BY <1>3, NewInst
<1> QED BY <1>2, <1>4, <1>5, NewTimers

LEMMA NewOwed ==
  ASSUME NEW w \in WorldType, NEW s \in Stages, NEW mode \in RetryMode \cup {None}
  PROVE  [w EXCEPT !.owed[s] = mode] \in WorldType
BY DEF WorldType

LEMMA RetryModeOfType ==
  ASSUME NEW s \in Stages, NEW class
  PROVE  RetryModeOf(s, class) \in RetryMode
BY PolicyAssumption DEF RetryModeOf, RetryMode

LEMMA RetryType ==
  ASSUME NEW w \in WorldType, NEW s \in Stages, NEW mode \in RetryMode
  PROVE  Retry(w, s, mode) \in WorldType
<1> DEFINE o == [w EXCEPT !.owed[s] = mode]
           i == [w.inst[s] EXCEPT !.status = "retry_wait", !.why = RetryIn(mode)]
           T == w.timers \cup {Timer(s, "retry")}
           kept == [base |-> "run_paused", phase |-> "retry_wait", mode |-> mode]
<1>1. o \in WorldType BY NewOwed
<1>2. CASE w.run.status = "paused"
  <2>1. kept \in Reason BY DEF Reason
  <2>2. [x \in Stages |-> kept] \in [Stages -> Reason] BY <2>1
  <2>3. Retry(w, s, mode) = Stop(o, {s}, "paused", [x \in Stages |-> kept]) BY <1>2 DEF Retry
  <2> HIDE DEF o, kept
  <2> QED BY <1>1, <2>2, <2>3, StopType, StatesOfStages
<1>3. CASE w.run.status # "paused"
  <2>1. i \in InstanceType
    <3>1. w.inst[s] \in InstanceType BY WorldParts
    <3>2. "retry_wait" \in StageState /\ RetryIn(mode) \in Reason BY Reasons, StatesOfStages
    <3> QED BY <3>1, <3>2, InstanceMoves
  <2>2. T \in SUBSET TimerType BY WorldParts, TimerInType
  <2>3. Retry(w, s, mode) = [[o EXCEPT !.inst[s] = i] EXCEPT !.timers = T]
    BY <1>3 DEF Retry, WorldType
  <2> HIDE DEF o, i, T
  <2>4. [o EXCEPT !.inst[s] = i] \in WorldType BY <1>1, <2>1, NewInstAt
  <2> QED BY <2>2, <2>3, <2>4, NewTimers
<1> QED BY <1>2, <1>3

LEMMA ApplyFailureType ==
  ASSUME NEW w \in WorldType, NEW s \in Stages, NEW class
  PROVE  ApplyFailure(w, s, class) \in WorldType
<1>1. Retry(w, s, RetryModeOf(s, class)) \in WorldType BY RetryModeOfType, RetryType
<1>2. WithTtl(Halt(w, s), s) \in WorldType BY HaltType, WithTtlType
<1>3. Fail(w, s) \in WorldType BY FailType
<1> QED BY <1>1, <1>2, <1>3 DEF ApplyFailure

-----------------------------------------------------------------------------
(* The run as a whole.                                                          *)

LEMMA RunMoves ==
  ASSUME NEW r \in RunType
  PROVE  /\ r.status \in RunState /\ r.outcome \in Outcome \cup {None} /\ r.over \in BOOLEAN
         /\ \A status \in RunState :
              /\ [r EXCEPT !.status = status] \in RunType
              /\ \A why \in {None, "user", "budget"} :
                   [r EXCEPT !.status = status, !.why = why] \in RunType
              /\ \A outcome \in Outcome \cup {None} :
                   [r EXCEPT !.status = status, !.outcome = outcome] \in RunType
         /\ \A over \in BOOLEAN : [r EXCEPT !.over = over] \in RunType
BY DEF RunType

LEMMA StatesOfRuns ==
  {"created", "starting", "running", "waiting", "paused", "finalizing", "cancelling",
   "completed", "failed", "cancelled"} = RunState
BY DEF RunState, RunLive, TerminalRun

LEMMA NewRunParts ==
  ASSUME NEW w \in WorldType, NEW status \in RunState
  PROVE  /\ [w EXCEPT !.run.status = status] \in WorldType
         /\ \A why \in {None, "user", "budget"} :
              [w EXCEPT !.run.status = status, !.run.why = why] \in WorldType
         /\ \A outcome \in Outcome \cup {None} :
              [w EXCEPT !.run.status = status, !.run.outcome = outcome] \in WorldType
         /\ \A over \in BOOLEAN : [w EXCEPT !.run.over = over] \in WorldType
BY DEF WorldType, RunType

LEMMA PauseRunType ==
  ASSUME NEW w \in WorldType, NEW mode, NEW why \in {"user", "budget"}
  PROVE  PauseRun(w, mode, why) \in WorldType
<1> DEFINE S == {s \in Stages : w.inst[s].status \in
                   {"ready", "retry_wait"} \cup (IF mode = "interrupt" THEN Attempt ELSE {})}
           p == [w EXCEPT !.run.status = "paused", !.run.why = why]
           reasons == [s \in Stages |-> PauseReason(w.inst[s], "run_paused")]
<1>1. p \in WorldType BY NewRunParts, StatesOfRuns
<1>2. reasons \in [Stages -> Reason]
  <2>1. \A s \in Stages : w.inst[s] \in InstanceType BY WorldParts
  <2>2. \A s \in Stages : PauseReason(w.inst[s], "run_paused") \in Reason BY <2>1, PauseReasonType
  <2> QED BY <2>2
<1>3. S \in SUBSET Stages OBVIOUS
<1>4. PauseRun(w, mode, why) = WithTtl(Stop(p, S, "paused", reasons), 0) BY DEF PauseRun
<1> HIDE DEF S, p, reasons
<1>5. Stop(p, S, "paused", reasons) \in WorldType BY <1>1, <1>2, <1>3, StopType, StatesOfStages
<1> QED BY <1>4, <1>5, WithTtlType

LEMMA ResumeRunType ==
  ASSUME NEW w \in WorldType
  PROVE  ResumeRun(w) \in WorldType
<1> DEFINE S == {s \in Stages : w.inst[s].status = "paused" /\ w.inst[s].why.base = "run_paused"}
           r == Unpause(w, S, "run_paused")
           T == r.timers \ {Timer(0, "pause_ttl")}
           q == [r EXCEPT !.run.status = "running", !.run.why = None]
<1>1. r \in WorldType BY UnpauseType
<1>2. T \in SUBSET TimerType
  <2> HIDE DEF r
  <2> QED BY <1>1, WorldParts
<1>3. ResumeRun(w) = [q EXCEPT !.timers = T] BY DEF ResumeRun
<1> HIDE DEF r, T
<1>4. q \in WorldType BY <1>1, NewRunParts, StatesOfRuns
<1> HIDE DEF q
<1> QED BY <1>2, <1>3, <1>4, NewTimers

LEMMA FinalizeType ==
  ASSUME NEW w \in WorldType, w.run.outcome \in Outcome
  PROVE  Finalize(w) \in WorldType
<1>1. w.tasks.finals \in Seq(Outcome) BY DEF WorldType, TaskType
<1>2. Append(w.tasks.finals, w.run.outcome) \in Seq(Outcome) BY <1>1
<1> QED BY <1>2 DEF Finalize, WorldType, TaskType

LEMMA DecideType ==
  ASSUME NEW w \in WorldType, NEW status \in RunState, NEW outcome \in Outcome
  PROVE  Decide(w, status, outcome) \in WorldType
<1> DEFINE p == [w EXCEPT !.run.status = status, !.run.outcome = outcome]
           q == [p EXCEPT !.timers = {}]
<1>1. p \in WorldType BY NewRunParts
<1>2. q.run.outcome = outcome BY DEF WorldType, RunType
<1>3. Decide(w, status, outcome) = Finalize(q) BY DEF Decide
<1> HIDE DEF p
<1>4. q \in WorldType BY <1>1, NewTimers
<1> HIDE DEF q
<1> QED BY <1>2, <1>3, <1>4, FinalizeType

LEMMA CancelRunType ==
  ASSUME NEW w \in WorldType
  PROVE  CancelRun(w) \in WorldType
<1> DEFINE p == [w EXCEPT !.run.status = "cancelling", !.run.outcome = "cancelled"]
           q == [w EXCEPT !.run.status = "cancelling"]
           c == Cancel(q, Open(w))
<1>1. Finalize(p) \in WorldType
  <2>1. p \in WorldType BY NewRunParts, StatesOfRuns DEF Outcome
  <2>2. p.run.outcome \in Outcome BY DEF WorldType, RunType, Outcome
  <2> HIDE DEF p
  <2> QED BY <2>1, <2>2, FinalizeType
<1>2. [c EXCEPT !.timers = {}] \in WorldType
  <2>1. q \in WorldType BY NewRunParts, StatesOfRuns
  <2>2. Open(w) \in SUBSET Stages BY DEF Open
  <2> HIDE DEF q
  <2>3. c \in WorldType BY <2>1, <2>2, CancelType
  <2> HIDE DEF c
  <2> QED BY <2>3, NewTimers
<1>3. CancelRun(w) = IF w.run.status = "finalizing" THEN Finalize(p) ELSE [c EXCEPT !.timers = {}]
  BY DEF CancelRun
<1> QED BY <1>1, <1>2, <1>3

-----------------------------------------------------------------------------
(* Settle.                                                                      *)

LEMMA RootedType ==
  ASSUME NEW w \in WorldType
  PROVE  Rooted(w) \in WorldType
<1> DEFINE I == [s \in Stages |->
                   IF w.inst[s].status = "absent" THEN [w.inst[s] EXCEPT !.status = "pending"]
                   ELSE w.inst[s]]
<1>1. I \in [Stages -> InstanceType]
  <2>1. \A s \in Stages : w.inst[s] \in InstanceType BY WorldParts
  <2>2. \A s \in Stages : [w.inst[s] EXCEPT !.status = "pending"] \in InstanceType
    BY <2>1, InstanceMoves, StatesOfStages
  <2> QED BY <2>1, <2>2
<1> QED BY <1>1, NewInst DEF Rooted

\* A pass gives every pending stage a state of a stage.
LEMMA ResolutionStates ==
  ASSUME NEW st \in [Stages -> StageState], NEW as, NEW res \in Resolutions(st, as)
  PROVE  res \in [Stages -> StageState]
<1>1. PICK d \in [{s \in Stages : st[s] = "pending"}
                    -> {"pending", "ready", "skipped", "failed", "cancelled"}] :
        res = [s \in Stages |->
           IF s \in {x \in Stages : st[x] = "pending"} THEN d[s]
           ELSE IF /\ st[s] \notin TerminalStage
                   /\ \E j \in {x \in Stages : st[x] = "pending"} :
                        d[j] = "ready" /\ CancelsRest(j) /\ s \in ExclusiveLosers(j)
                  THEN "cancelled" ELSE st[s]]
  BY DEF Resolutions
<1>2. ASSUME NEW s \in Stages PROVE res[s] \in StageState
  <2>1. CASE st[s] = "pending" BY <1>1, <2>1, StatesOfStages
  <2>2. CASE st[s] # "pending" BY <1>1, <2>2, StatesOfStages
  <2> QED BY <2>1, <2>2
<1> QED BY <1>1, <1>2

LEMMA ResolveType ==
  ASSUME NEW w \in WorldType, NEW res \in [Stages -> StageState]
  PROVE  Resolve(w, res) \in WorldType
<1> DEFINE lost == {s \in Stages : res[s] = "cancelled" /\ w.inst[s].status # "cancelled"}
           I == [s \in Stages |->
                   IF w.inst[s].status = "pending" /\ res[s] # "cancelled"
                     THEN [w.inst[s] EXCEPT !.status = res[s], !.why = Because(None)] ELSE w.inst[s]]
           p == [w EXCEPT !.inst = I]
           q == Cancel(p, lost)
           L == [s \in Stages |-> [q.inst[s] EXCEPT !.loser = q.inst[s].loser \/ s \in lost]]
<1>1. I \in [Stages -> InstanceType]
  <2>1. \A s \in Stages : w.inst[s] \in InstanceType BY WorldParts
  <2>2. \A s \in Stages : [w.inst[s] EXCEPT !.status = res[s], !.why = Because(None)] \in InstanceType
    <3> TAKE s \in Stages
    <3>1. res[s] \in StageState /\ Because(None) \in Reason BY Reasons
    <3> QED BY <2>1, <3>1, InstanceMoves
  <2> QED BY <2>1, <2>2
<1>2. Resolve(w, res) = [q EXCEPT !.inst = L] BY DEF Resolve
<1>3. lost \in SUBSET Stages OBVIOUS
<1> HIDE DEF lost, I
<1>4. p \in WorldType BY <1>1, NewInst
<1> HIDE DEF p
<1>5. q \in WorldType BY <1>3, <1>4, CancelType
<1> HIDE DEF q
<1>6. L \in [Stages -> InstanceType]
  <2>1. \A s \in Stages : q.inst[s] \in InstanceType BY <1>5, WorldParts
  <2>2. \A i \in InstanceType, b \in BOOLEAN : [i EXCEPT !.loser = b] \in InstanceType
    BY DEF InstanceType
  <2>3. ASSUME NEW s \in Stages PROVE L[s] \in InstanceType
    <3>1. (q.inst[s].loser \/ s \in lost) \in BOOLEAN OBVIOUS
    <3>2. L[s] = [q.inst[s] EXCEPT !.loser = q.inst[s].loser \/ s \in lost] OBVIOUS
    <3> QED BY <2>1, <2>2, <3>1, <3>2
  <2> QED BY <2>3
<1> HIDE DEF L
<1> QED BY <1>2, <1>5, <1>6, NewInst

LEMMA ModeForType ==
  ASSUME NEW i \in InstanceType
  PROVE  ModeFor(i) \in RetryMode \cup {"fresh", None}
BY InstanceParts DEF ModeFor, Reason, RetryMode, None

LEMMA LaunchIsTyped ==
  ASSUME NEW w \in WorldType, NEW A \in SUBSET Stages
  PROVE  Launch(w, A) \in WorldType
<1> DEFINE I == [s \in Stages |->
                   IF s \in A THEN [w.inst[s] EXCEPT !.no = w.inst[s].no + 1, !.live = TRUE,
                                                     !.mode = ModeFor(w.inst[s])]
                   ELSE w.inst[s]]
           L == {IF l.st \in A THEN [l EXCEPT !.tracked = FALSE] ELSE l : l \in w.launches}
                  \cup {[st |-> s, no |-> w.inst[s].no + 1, tracked |-> TRUE] : s \in A}
           T == w.timers \cup {Timer(s, "queue_timeout") : s \in A}
<1>1. \A s \in Stages : w.inst[s] \in InstanceType BY WorldParts
<1>2. \A s \in Stages : w.inst[s].no + 1 \in Nat BY <1>1, InstanceParts
<1>3. I \in [Stages -> InstanceType]
  <2>1. \A s \in Stages : ModeFor(w.inst[s]) \in RetryMode \cup {"fresh", None} BY <1>1, ModeForType
  <2>2. \A i \in InstanceType, n \in Nat, m \in RetryMode \cup {"fresh", None} :
          [i EXCEPT !.no = n, !.live = TRUE, !.mode = m] \in InstanceType
    BY DEF InstanceType
  <2>3. ASSUME NEW s \in Stages PROVE I[s] \in InstanceType
    <3>1. [w.inst[s] EXCEPT !.no = w.inst[s].no + 1, !.live = TRUE, !.mode = ModeFor(w.inst[s])]
            \in InstanceType
      BY <1>1, <1>2, <2>1, <2>2
    <3> QED BY <1>1, <3>1
  <2> QED BY <2>3
<1>4. L \in SUBSET LaunchType
  <2>1. \A l \in w.launches : l \in LaunchType BY WorldParts
  <2>2. \A l \in LaunchType : [l EXCEPT !.tracked = FALSE] \in LaunchType BY DEF LaunchType
  <2>3. \A s \in A : [st |-> s, no |-> w.inst[s].no + 1, tracked |-> TRUE] \in LaunchType
    BY <1>2 DEF LaunchType
  <2> QED BY <2>1, <2>2, <2>3
<1>5. T \in SUBSET TimerType
  <2>1. \A s \in A : Timer(s, "queue_timeout") \in TimerType BY TimerInType
  <2> QED BY <2>1, WorldParts
<1>6. Launch(w, A) = [[[w EXCEPT !.inst = I] EXCEPT !.launches = L] EXCEPT !.timers = T]
  BY DEF Launch
<1> HIDE DEF I, L, T
<1>7. [w EXCEPT !.inst = I] \in WorldType BY <1>3, NewInst
<1>8. [[w EXCEPT !.inst = I] EXCEPT !.launches = L] \in WorldType BY <1>4, <1>7, NewLaunches
<1> QED BY <1>5, <1>6, <1>8, NewTimers

LEMMA AccountedType ==
  ASSUME NEW w \in WorldType
  PROVE  Accounted(w) \in WorldType
<1>1. "running" \in RunState /\ "waiting" \in RunState BY StatesOfRuns
<1> QED BY <1>1, NewRunParts DEF Accounted

LEMMA ConcludeType ==
  ASSUME NEW w \in WorldType
  PROVE  Conclude(w) \in WorldType
<1> DEFINE outcome == ScopeOutcome(StatusOf(w), SkippedAs(w), [s \in Stages |-> w.inst[s].loser])
<1>1. outcome \in Outcome BY DEF ScopeOutcome, Outcome
<1>2. (IF outcome = "cancelled" THEN "cancelling" ELSE "finalizing") \in RunState BY StatesOfRuns
<1>3. Conclude(w) = Decide(w, IF outcome = "cancelled" THEN "cancelling" ELSE "finalizing", outcome)
  BY DEF Conclude
<1> HIDE DEF outcome
<1> QED BY <1>1, <1>2, <1>3, DecideType

LEMMA ScheduleType ==
  ASSUME NEW w \in WorldType
  PROVE  Schedule(w) \subseteq WorldType
<1>1. Conclude(w) \in WorldType BY ConcludeType
<1>2. PauseRun(w, "drain", "budget") \in WorldType BY PauseRunType
<1>3. \A A \in Admissions(w) : Accounted(Launch(w, A)) \in WorldType
  <2>1. \A A \in Admissions(w) : A \in SUBSET Stages BY DEF Admissions
  <2> QED BY <2>1, LaunchIsTyped, AccountedType
<1> QED BY <1>1, <1>2, <1>3 DEF Schedule

LEMMA SettleType ==
  ASSUME NEW w \in WorldType
  PROVE  Settle(w) \subseteq WorldType
<1> DEFINE p == [w EXCEPT !.run.outcome = "cancelled"]
           r == Rooted(w)
<1>1. Finalize(p) \in WorldType
  <2>1. p \in WorldType BY DEF WorldType, RunType, Outcome
  <2>2. p.run.outcome \in Outcome BY DEF WorldType, RunType, Outcome
  <2> HIDE DEF p
  <2> QED BY <2>1, <2>2, FinalizeType
<1>2. ASSUME NEW res \in Resolutions(StatusOf(r), SkippedAs(w))
      PROVE  Schedule(Resolve(r, res)) \subseteq WorldType
  <2>1. r \in WorldType BY RootedType
  <2>2. StatusOf(r) \in [Stages -> StageState]
    <3> HIDE DEF r
    <3>1. \A s \in Stages : r.inst[s].status \in StageState BY <2>1, WorldParts, InstanceParts
    <3> QED BY <3>1 DEF StatusOf
  <2> HIDE DEF r
  <2>3. res \in [Stages -> StageState] BY <2>2, ResolutionStates
  <2>4. Resolve(r, res) \in WorldType BY <2>1, <2>3, ResolveType
  <2> QED BY <2>4, ScheduleType
<1>3. CASE w.run.status = "cancelling" BY <1>1, <1>3 DEF Settle
<1>4. CASE w.run.status # "cancelling" /\ w.run.status \notin RunLive BY <1>4 DEF Settle
<1>5. CASE w.run.status # "cancelling" /\ w.run.status \in RunLive
  <2> SUFFICES ASSUME NEW x \in Settle(w) PROVE x \in WorldType OBVIOUS
  <2>1. x \in UNION {Schedule(Resolve(Rooted(w), res)) :
                       res \in Resolutions(StatusOf(Rooted(w)), SkippedAs(w))}
    BY <1>5 DEF Settle
  <2> HIDE DEF r
  <2> QED BY <1>2, <2>1 DEF r
<1> QED BY <1>3, <1>4, <1>5

-----------------------------------------------------------------------------
(* The handlers.                                                                *)

LEMMA CompletesType ==
  ASSUME NEW w \in WorldType, NEW s \in Stages
  PROVE  Completes(w, s) \in WorldType
<1> DEFINE i == [w.inst[s] EXCEPT !.status = "completed", !.why = Because(None)]
           T == {t \in w.timers : t.st # s}
<1>1. i \in InstanceType
  <2>1. w.inst[s] \in InstanceType BY WorldParts
  <2>2. "completed" \in StageState /\ Because(None) \in Reason BY Reasons, StatesOfStages
  <2> QED BY <2>1, <2>2, InstanceMoves
<1>2. T \in SUBSET TimerType BY WorldParts
<1>3. Completes(w, s) = [[w EXCEPT !.inst[s] = i] EXCEPT !.timers = T] BY DEF Completes, WorldType
<1> HIDE DEF i, T
<1>4. [w EXCEPT !.inst[s] = i] \in WorldType BY <1>1, NewInstAt
<1> QED BY <1>2, <1>3, <1>4, NewTimers

LEMMA OnAttemptSettledType ==
  ASSUME NEW w \in WorldType, NEW s \in Stages, NEW no, NEW ending
  PROVE  OnAttemptSettled(w, s, no, ending) \in WorldType
<1>1. Settled(w, s, FALSE) \in WorldType /\ Settled(w, s, TRUE) \in WorldType BY SettledType
<1>2. Completes(Settled(w, s, FALSE), s) \in WorldType BY <1>1, CompletesType
<1>3. Halt(Settled(w, s, FALSE), s) \in WorldType BY <1>1, HaltType
<1>4. /\ ApplyFailure(Settled(w, s, TRUE), s, "repairable") \in WorldType
      /\ ApplyFailure(Settled(w, s, FALSE), s, "fatal") \in WorldType
      /\ ApplyFailure(Settled(w, s, TRUE), s, ending) \in WorldType
  BY <1>1, ApplyFailureType
<1> QED BY <1>1, <1>2, <1>3, <1>4 DEF OnAttemptSettled

LEMMA OnFrameLostType ==
  ASSUME NEW w \in WorldType, NEW s \in Stages, NEW no
  PROVE  OnFrameLost(w, s, no) \in WorldType
<1>1. Settled(w, s, FALSE) \in WorldType BY SettledType
<1>2. Halt(Settled(w, s, FALSE), s) \in WorldType BY <1>1, HaltType
<1> QED BY <1>1, <1>2 DEF OnFrameLost

LEMMA OnLeaseExpiredType ==
  ASSUME NEW w \in WorldType, NEW s \in Stages, NEW safe
  PROVE  OnLeaseExpired(w, s, safe) \in WorldType
<1>1. Settled(w, s, TRUE) \in WorldType BY SettledType
<1>2. ApplyFailure(Settled(w, s, TRUE), s, IF safe THEN "interrupted" ELSE "unsafe") \in WorldType
  BY <1>1, ApplyFailureType
<1> QED BY <1>2 DEF OnLeaseExpired

LEMMA StageStatusType ==
  ASSUME NEW w \in WorldType, NEW s \in Stages, NEW status \in StageState
  PROVE  [w EXCEPT !.inst[s].status = status] \in WorldType
<1> DEFINE i == [w.inst[s] EXCEPT !.status = status]
<1>1. i \in InstanceType
  <2>1. w.inst[s] \in InstanceType BY WorldParts
  <2> QED BY <2>1, InstanceMoves
<1>2. [w EXCEPT !.inst[s].status = status] = [w EXCEPT !.inst[s] = i] BY DEF WorldType
<1> HIDE DEF i
<1> QED BY <1>1, <1>2, NewInstAt

LEMMA OnTimerType ==
  ASSUME NEW w \in WorldType, NEW t \in TimerType
  PROVE  OnTimer(w, t) \in WorldType
<1>1. CASE t.st = 0
  <2>1. Open(w) \in SUBSET Stages BY DEF Open
  <2>2. Cancel(w, Open(w)) \in WorldType BY <2>1, CancelType
  <2>3. "finalizing" \in RunState /\ "failed" \in Outcome BY StatesOfRuns DEF Outcome
  <2>4. Decide(Cancel(w, Open(w)), "finalizing", "failed") \in WorldType BY <2>2, <2>3, DecideType
  <2> QED BY <1>1, <2>4 DEF OnTimer
<1>2. CASE t.st # 0
  <2>1. t.st \in Stages BY <1>2, GraphAssumption DEF TimerType, Stages
  <2>2. [w EXCEPT !.inst[t.st].status = "ready"] \in WorldType
    BY <2>1, StageStatusType, StatesOfStages
  <2>3. Stop(w, {t.st}, "failed", AllBecause(None)) \in WorldType
    <3>1. {t.st} \in SUBSET Stages BY <2>1
    <3>2. AllBecause(None) \in [Stages -> Reason] BY AllBecauseType
    <3> QED BY <3>1, <3>2, StopType, StatesOfStages
  <2>4. Fail(w, t.st) \in WorldType BY <2>1, FailType
  <2> QED BY <1>2, <2>2, <2>3, <2>4 DEF OnTimer
<1> QED BY <1>1, <1>2

LEMMA OnFinalizedType ==
  ASSUME NEW w \in WorldType, NEW ok
  PROVE  OnFinalized(w, ok) \in WorldType
<1> DEFINE done == w.run.outcome = "completed" /\ ok
           ending == IF done THEN "completed" ELSE "failed"
           p == [w EXCEPT !.run.status = ending, !.run.outcome = ending]
           q == [w EXCEPT !.run.status = "cancelled"]
<1>1. [p EXCEPT !.timers = {}] \in WorldType
  <2>1. ending \in RunState /\ ending \in Outcome BY StatesOfRuns DEF Outcome
  <2> HIDE DEF ending
  <2>2. p \in WorldType BY <2>1, NewRunParts
  <2> HIDE DEF p
  <2> QED BY <2>2, NewTimers
<1>2. [q EXCEPT !.timers = {}] \in WorldType
  <2>1. q \in WorldType BY NewRunParts, StatesOfRuns
  <2> HIDE DEF q
  <2> QED BY <2>1, NewTimers
<1>3. OnFinalized(w, ok) = IF w.run.status = "finalizing" THEN [p EXCEPT !.timers = {}]
                           ELSE IF w.run.status = "cancelling" THEN [q EXCEPT !.timers = {}] ELSE w
  BY DEF OnFinalized
<1> HIDE DEF p, q
<1> QED BY <1>1, <1>2, <1>3

-----------------------------------------------------------------------------
(* The actions: each becomes a typed world, or one Settle makes of it.          *)

LEMMA NewFrameAt ==
  ASSUME NEW w \in WorldType, NEW s \in Stages, NEW f \in FrameType
  PROVE  [w EXCEPT !.frames[s] = f] \in WorldType
BY DEF WorldType

LEMMA NewTasks ==
  ASSUME NEW w \in WorldType, NEW k \in TaskType
  PROVE  [w EXCEPT !.tasks = k] \in WorldType
BY DEF WorldType

LEMMA BecomeType ==
  ASSUME NEW x \in WorldType, Become(x)
  PROVE  World' \in WorldType
BY DEF Become, World, WorldType

LEMMA WorldIsTyped ==
  ASSUME TypeOK
  PROVE  /\ World \in WorldType
         /\ World.run = run /\ World.inst = inst /\ World.timers = timers
         /\ World.launches = launches /\ World.frames = frames /\ World.tasks = tasks
         /\ World.owed = owed
BY DEF TypeOK, World, WorldType

\* A message is handled within the types.
LEMMA PostType ==
  ASSUME NEW w \in WorldType, NEW v \in WorldType, Post(w, v)
  PROVE  World' \in WorldType
<1>1. CASE Become(w) BY <1>1, BecomeType
<1>2. CASE \E x \in Settle(v) : Become(x) BY <1>2, SettleType, BecomeType
<1> QED BY <1>1, <1>2 DEF Post

LEMMA NewLastFinal ==
  ASSUME NEW w \in WorldType, w.tasks.finals # <<>>
  PROVE  [w EXCEPT !.tasks.finals = Tail(w.tasks.finals)] \in WorldType
<1>1. w.tasks \in TaskType BY WorldParts
<1>2. Tail(w.tasks.finals) \in Seq(Outcome) BY <1>1 DEF TaskType
<1>3. [w.tasks EXCEPT !.finals = Tail(w.tasks.finals)] \in TaskType BY <1>1, <1>2 DEF TaskType
<1>4. [w EXCEPT !.tasks.finals = Tail(w.tasks.finals)]
        = [w EXCEPT !.tasks = [w.tasks EXCEPT !.finals = Tail(w.tasks.finals)]]
  BY DEF WorldType
<1> QED BY <1>3, <1>4, NewTasks

LEMMA NewPrepare ==
  ASSUME NEW w \in WorldType, NEW b \in BOOLEAN
  PROVE  [w EXCEPT !.tasks.prepare = b] \in WorldType
<1>1. w.tasks \in TaskType BY WorldParts
<1>2. [w.tasks EXCEPT !.prepare = b] \in TaskType BY <1>1 DEF TaskType
<1>3. [w EXCEPT !.tasks.prepare = b] = [w EXCEPT !.tasks = [w.tasks EXCEPT !.prepare = b]]
  BY DEF WorldType
<1> QED BY <1>2, <1>3, NewTasks

LEMMA StartStep ==
  ASSUME TypeOK, Start PROVE World' \in WorldType
<1> DEFINE p == [World EXCEPT !.run.status = "starting"]
<1>1. p \in WorldType BY WorldIsTyped, NewRunParts, StatesOfRuns
<1>2. Become([p EXCEPT !.tasks.prepare = TRUE]) BY DEF Start
<1> HIDE DEF p
<1> QED BY <1>1, <1>2, NewPrepare, BecomeType

LEMMA PrepareDoneStep ==
  ASSUME TypeOK, NEW ok \in BOOLEAN, PrepareDone(ok) PROVE World' \in WorldType
<1> DEFINE w == [World EXCEPT !.tasks.prepare = FALSE]
           v == IF run.status # "starting" THEN w
                ELSE IF ok THEN [w EXCEPT !.run.status = "running"]
                ELSE Decide(w, "finalizing", "failed")
<1>1. w \in WorldType BY WorldIsTyped, NewPrepare
<1>2. Post(w, v) BY DEF PrepareDone
<1> HIDE DEF w
<1>3. v \in WorldType
  <2>1. [w EXCEPT !.run.status = "running"] \in WorldType BY <1>1, NewRunParts, StatesOfRuns
  <2>2. Decide(w, "finalizing", "failed") \in WorldType
    BY <1>1, DecideType, StatesOfRuns DEF Outcome
  <2> QED BY <1>1, <2>1, <2>2
<1> QED BY <1>1, <1>2, <1>3, PostType

LEMMA FinalizeDoneStep ==
  ASSUME TypeOK, NEW ok \in BOOLEAN, FinalizeDone(ok) PROVE World' \in WorldType
<1> DEFINE w == [World EXCEPT !.tasks.finals = Tail(tasks.finals)]
<1>1. w \in WorldType
  <2>1. World.tasks.finals # <<>> BY WorldIsTyped DEF FinalizeDone
  <2> QED BY <2>1, WorldIsTyped, NewLastFinal
<1>2. Become(w) \/ Post(w, OnFinalized(w, ok)) BY DEF FinalizeDone
<1> HIDE DEF w
<1>3. OnFinalized(w, ok) \in WorldType BY <1>1, OnFinalizedType
<1> QED BY <1>1, <1>2, <1>3, BecomeType, PostType

LEMMA ClaimStep ==
  ASSUME TypeOK, NEW l \in launches, Claim(l) PROVE World' \in WorldType
<1> DEFINE s == l.st
           w == [World EXCEPT !.launches = launches \ {l}]
           f == IF inst[s].live THEN [no |-> inst[s].no, at |-> "work", stop |-> FALSE] ELSE NoFrame
           a == [w EXCEPT !.inst[s].status = "starting"]
           b == [a EXCEPT !.owed[s] = None]
           c == [b EXCEPT !.timers = timers \ {Timer(s, "queue_timeout")}]
           d == [c EXCEPT !.frames[s] = f]
<1>1. s \in Stages BY DEF TypeOK, LaunchType
<1>2. launches \ {l} \in SUBSET LaunchType BY DEF TypeOK
<1>3. timers \ {Timer(s, "queue_timeout")} \in SUBSET TimerType BY DEF TypeOK
<1>4. f \in FrameType
  <2>1. inst[s].no \in Nat BY <1>1, InstanceParts DEF TypeOK
  <2> QED BY <2>1 DEF FrameType, NoFrame, None
<1>5. Become(w) \/ Become(d) BY DEF Claim
<1> HIDE DEF s, f
<1>6. w \in WorldType BY <1>2, WorldIsTyped, NewLaunches
<1> HIDE DEF w
<1>7. a \in WorldType BY <1>1, <1>6, StageStatusType, StatesOfStages
<1> HIDE DEF a
<1>8. b \in WorldType BY <1>1, <1>7, NewOwed
<1> HIDE DEF b
<1>9. c \in WorldType BY <1>3, <1>8, NewTimers
<1> HIDE DEF c
<1>10. d \in WorldType BY <1>1, <1>4, <1>9, NewFrameAt
<1> HIDE DEF d
<1> QED BY <1>5, <1>6, <1>10, BecomeType

LEMMA FrameSteps ==
  ASSUME TypeOK, NEW s \in Stages, NEW from \in StageState, NEW to \in StageState, Step(s, from, to)
  PROVE  World' \in WorldType
<1>1. Become([World EXCEPT !.inst[s].status = to]) BY DEF Step
<1>2. [World EXCEPT !.inst[s].status = to] \in WorldType BY WorldIsTyped, StageStatusType
<1> QED BY <1>1, <1>2, BecomeType

LEMMA FrameAtType ==
  ASSUME NEW w \in WorldType, NEW s \in Stages, NEW at \in {None, "work", "parked", "answered"}
  PROVE  [w EXCEPT !.frames[s].at = at] \in WorldType
<1>1. w.frames[s] \in FrameType BY WorldParts
<1>2. [w.frames[s] EXCEPT !.at = at] \in FrameType BY <1>1 DEF FrameType
<1>3. [w EXCEPT !.frames[s].at = at] = [w EXCEPT !.frames[s] = [w.frames[s] EXCEPT !.at = at]]
  BY DEF WorldType
<1> QED BY <1>2, <1>3, NewFrameAt

LEMMA GateType ==
  ASSUME NEW w \in WorldType, NEW s \in Stages, NEW status \in StageState,
         NEW gate \in {None, "turn", "review"}
  PROVE  [w EXCEPT !.inst[s] = [@ EXCEPT !.status = status, !.gate = gate]] \in WorldType
<1> DEFINE i == [w.inst[s] EXCEPT !.status = status, !.gate = gate]
<1>0. w.inst[s] \in InstanceType
  <2>1. w.inst \in [Stages -> InstanceType] BY WorldParts
  <2> QED BY <2>1
<1>1. i \in InstanceType BY <1>0 DEF InstanceType
<1>2. [w EXCEPT !.inst[s] = [@ EXCEPT !.status = status, !.gate = gate]] = [w EXCEPT !.inst[s] = i]
  BY DEF WorldType
<1> HIDE DEF i
<1> QED BY <1>1, <1>2, NewInstAt

LEMMA ParkStep ==
  ASSUME TypeOK, NEW s \in Stages, NEW gate \in {"turn", "review"}, Park(s, gate)
  PROVE  World' \in WorldType
<1> DEFINE p == [World EXCEPT !.inst[s] = [@ EXCEPT !.status = "awaiting_input", !.gate = gate]]
<1>1. p \in WorldType BY WorldIsTyped, GateType, StatesOfStages
<1>2. Become([p EXCEPT !.frames[s].at = "parked"]) BY DEF Park
<1> HIDE DEF p
<1>3. [p EXCEPT !.frames[s].at = "parked"] \in WorldType BY <1>1, FrameAtType
<1> QED BY <1>2, <1>3, BecomeType

LEMMA ResumedStep ==
  ASSUME TypeOK, NEW s \in Stages, Resumed(s) PROVE World' \in WorldType
<1> DEFINE p == [World EXCEPT !.inst[s] = [@ EXCEPT !.status = "running", !.gate = None]]
           q == [p EXCEPT !.frames[s].at = "work"]
<1>1. p \in WorldType BY WorldIsTyped, GateType, StatesOfStages
<1>2. Post(q, q) BY DEF Resumed
<1> HIDE DEF p
<1>3. q \in WorldType BY <1>1, FrameAtType
<1> HIDE DEF q
<1> QED BY <1>2, <1>3, PostType

LEMMA EndStep ==
  ASSUME TypeOK, NEW s \in Stages, NEW ending \in Ending, End(s, ending)
  PROVE  World' \in WorldType
<1> DEFINE w == [World EXCEPT !.frames[s] = NoFrame]
           v == OnAttemptSettled(w, s, frames[s].no, ending)
<1>1. w \in WorldType
  <2>1. NoFrame \in FrameType BY DEF NoFrame, FrameType, None
  <2> QED BY <2>1, WorldIsTyped, NewFrameAt
<1>2. Post(w, v) BY DEF End
<1> HIDE DEF w
<1>3. v \in WorldType BY <1>1, OnAttemptSettledType
<1> HIDE DEF v
<1> QED BY <1>1, <1>2, <1>3, PostType

LEMMA FireTimerStep ==
  ASSUME TypeOK, NEW t \in timers, FireTimer(t) PROVE World' \in WorldType
<1> DEFINE w == [World EXCEPT !.timers = timers \ {t}]
<1>1. w \in WorldType
  <2>1. timers \ {t} \in SUBSET TimerType BY DEF TypeOK
  <2> QED BY <2>1, WorldIsTyped, NewTimers
<1>2. Post(w, OnTimer(w, t)) BY DEF FireTimer
<1>3. t \in TimerType BY DEF TypeOK
<1> HIDE DEF w
<1>4. OnTimer(w, t) \in WorldType BY <1>1, <1>3, OnTimerType
<1> QED BY <1>1, <1>2, <1>4, PostType

LEMMA LeaseExpireStep ==
  ASSUME TypeOK, NEW s \in Stages, NEW safe \in BOOLEAN, LeaseExpire(s, safe)
  PROVE  World' \in WorldType
<1> DEFINE w == Abort(World, {s})
<1>1. w \in WorldType BY WorldIsTyped, AbortType
<1>2. Post(w, OnLeaseExpired(w, s, safe)) BY DEF LeaseExpire
<1> HIDE DEF w
<1>3. OnLeaseExpired(w, s, safe) \in WorldType BY <1>1, OnLeaseExpiredType
<1> QED BY <1>1, <1>2, <1>3, PostType

LEMMA BudgetSteps ==
  ASSUME TypeOK, NEW s \in Stages, RunBudgetSpent(s) \/ StageBudgetSpent(s)
  PROVE  World' \in WorldType
<1> DEFINE over == [World EXCEPT !.run.over = TRUE]
           spent == Abort(ApplyFailure(Settled(World, s, TRUE), s, "fatal"), {s})
<1>1. World \in WorldType BY WorldIsTyped
<1>2. over \in WorldType BY <1>1, NewRunParts, StatesOfRuns
<1>3. spent \in WorldType BY <1>1, SettledType, ApplyFailureType, AbortType
<1>4. Post(World, over) \/ Post(World, spent)
  BY DEF RunBudgetSpent, StageBudgetSpent
<1> HIDE DEF over, spent
<1> QED BY <1>1, <1>2, <1>3, <1>4, PostType

LEMMA CrashStep ==
  ASSUME TypeOK, NEW lost, Crash(lost) PROVE World' \in WorldType
<1>1. [s \in Stages |-> NoFrame] \in [Stages -> FrameType] BY DEF NoFrame, FrameType, None
<1>2. [prepare |-> FALSE, finals |-> <<>>] \in TaskType BY DEF TaskType
<1>3. timers \ lost \in SUBSET TimerType BY DEF TypeOK
<1> QED BY <1>1, <1>2, <1>3 DEF Crash, TypeOK, World, WorldType

LEMMA RecoverAttemptStep ==
  ASSUME TypeOK, NEW s \in Stages, NEW safe \in BOOLEAN, RecoverAttempt(s, safe)
  PROVE  World' \in WorldType
<1> DEFINE was == boot.snap[s]
           L == {IF l.st = s THEN [l EXCEPT !.tracked = FALSE] ELSE l : l \in launches}
                  \cup {[st |-> s, no |-> was.no, tracked |-> TRUE]}
           relaunched == [World EXCEPT !.launches = L]
           ended == OnAttemptSettled(World, s, was.no, IF safe THEN "interrupted" ELSE "unsafe")
           aborted == OnAttemptSettled(World, s, was.no, "aborted")
           lost == OnFrameLost(World, s, was.no)
<1>1. World \in WorldType BY WorldIsTyped
<1>2. relaunched \in WorldType
  <2>1. \A l \in LaunchType : [l EXCEPT !.tracked = FALSE] \in LaunchType BY DEF LaunchType
  <2>2. was \in InstanceType BY DEF TypeOK, BootType
  <2>3. [st |-> s, no |-> was.no, tracked |-> TRUE] \in LaunchType
    BY <2>2, InstanceParts DEF LaunchType
  <2> HIDE DEF was
  <2>4. L \in SUBSET LaunchType BY <2>1, <2>3 DEF TypeOK
  <2> HIDE DEF L
  <2> QED BY <1>1, <2>4, NewLaunches
<1>3. ended \in WorldType /\ aborted \in WorldType /\ lost \in WorldType
  BY <1>1, OnAttemptSettledType, OnFrameLostType
<1>4. \/ Become(World) \/ Become(relaunched)
      \/ Post(World, ended) \/ Post(World, aborted) \/ Post(World, lost)
  BY DEF RecoverAttempt
<1> HIDE DEF relaunched, ended, aborted, lost
<1> QED BY <1>1, <1>2, <1>3, <1>4, BecomeType, PostType

LEMMA RecoverRetryStep ==
  ASSUME TypeOK, NEW s \in Stages, RecoverRetry(s) PROVE World' \in WorldType
<1>1. World \in WorldType BY WorldIsTyped
<1>2. Become(World) \/ Post(World, OnTimer(World, Timer(s, "retry")))
  BY DEF RecoverRetry
<1>3. OnTimer(World, Timer(s, "retry")) \in WorldType BY <1>1, TimerInType, OnTimerType
<1> QED BY <1>1, <1>2, <1>3, BecomeType, PostType

LEMMA RecoverRunStep ==
  ASSUME TypeOK, RecoverRun PROVE World' \in WorldType
<1> DEFINE p == [World EXCEPT !.tasks.prepare = TRUE]
           f == Finalize(World)
<1>1. World \in WorldType BY WorldIsTyped
<1>2. p \in WorldType BY <1>1, NewPrepare
<1>3. run.outcome # None => f \in WorldType
  <2>1. run.outcome # None => World.run.outcome \in Outcome
    BY WorldIsTyped DEF TypeOK, RunType
  <2> QED BY <1>1, <2>1, FinalizeType
<1>4. Post(p, p) \/ Post(World, World) \/ (run.outcome # None /\ Post(f, f))
  BY DEF RecoverRun
<1> HIDE DEF p, f
<1> QED BY <1>1, <1>2, <1>3, <1>4, PostType

-----------------------------------------------------------------------------
(* The operator's commands.                                                     *)

LEMMA RunCommandSteps ==
  ASSUME TypeOK,
         \/ \E mode \in {"drain", "interrupt"} : PauseTheRun(mode)
         \/ ResumeTheRun \/ CancelTheRun \/ RaiseBudget
  PROVE  World' \in WorldType
<1> DEFINE r == [World EXCEPT !.run.over = FALSE]
<1>1. World \in WorldType BY WorldIsTyped
<1>2. ASSUME NEW mode \in {"drain", "interrupt"}, PauseTheRun(mode) PROVE World' \in WorldType
  <2>1. Post(World, PauseRun(World, mode, "user"))
    BY <1>2 DEF PauseTheRun, Command
  <2>2. PauseRun(World, mode, "user") \in WorldType BY <1>1, PauseRunType
  <2> QED BY <1>1, <2>1, <2>2, PostType
<1>3. ASSUME ResumeTheRun PROVE World' \in WorldType
  <2>1. Post(World, ResumeRun(World)) BY <1>3 DEF ResumeTheRun, Command
  <2> QED BY <1>1, <2>1, ResumeRunType, PostType
<1>4. ASSUME CancelTheRun PROVE World' \in WorldType
  <2>1. Post(World, CancelRun(World)) BY <1>4 DEF CancelTheRun, Command
  <2> QED BY <1>1, <2>1, CancelRunType, PostType
<1>5. ASSUME RaiseBudget PROVE World' \in WorldType
  <2>1. Post(World, r) \/ Post(World, ResumeRun(r))
    BY <1>5 DEF RaiseBudget, Command
  <2>2. r \in WorldType BY <1>1, NewRunParts, StatesOfRuns
  <2> HIDE DEF r
  <2> QED BY <1>1, <2>1, <2>2, ResumeRunType, PostType
<1> QED BY <1>2, <1>3, <1>4, <1>5

LEMMA PauseStageStep ==
  ASSUME TypeOK, NEW s \in Stages, PauseStage(s) PROVE World' \in WorldType
<1> DEFINE reasons == [x \in Stages |-> PauseReason(inst[x], "user_paused")]
           v == WithTtl(Stop(World, {s}, "paused", reasons), s)
<1>1. World \in WorldType BY WorldIsTyped
<1>2. reasons \in [Stages -> Reason]
  <2>1. \A x \in Stages : inst[x] \in InstanceType BY DEF TypeOK
  <2>2. \A x \in Stages : PauseReason(inst[x], "user_paused") \in Reason
    BY <2>1, PauseReasonType
  <2> QED BY <2>2
<1>3. Post(World, v) BY DEF PauseStage, Command
<1>4. {s} \in SUBSET Stages OBVIOUS
<1> HIDE DEF reasons
<1>5. Stop(World, {s}, "paused", reasons) \in WorldType
  BY <1>1, <1>2, <1>4, StopType, StatesOfStages
<1>6. v \in WorldType BY <1>5, WithTtlType
<1> HIDE DEF v
<1> QED BY <1>1, <1>3, <1>6, PostType

LEMMA ResumeStageStep ==
  ASSUME TypeOK, NEW s \in Stages, ResumeStage(s) PROVE World' \in WorldType
<1> DEFINE v == Unpause(World, {s}, IF inst[s].why.base = "run_paused" THEN "run_paused"
                                    ELSE "user_paused")
<1>1. World \in WorldType BY WorldIsTyped
<1>2. Post(World, v) BY DEF ResumeStage, Command
<1>3. v \in WorldType
  <2>1. {s} \in SUBSET Stages OBVIOUS
  <2> QED BY <1>1, <2>1, UnpauseType
<1> HIDE DEF v
<1> QED BY <1>1, <1>2, <1>3, PostType

\* What a granted retry, a skip and an approval make of a world.
LEMMA RetriedType ==
  ASSUME NEW w \in WorldType, NEW s \in Stages, NEW mode \in RetryMode, NEW T \in SUBSET TimerType
  PROVE  [w EXCEPT !.inst[s] = [@ EXCEPT !.status = "ready", !.why = RetryIn(mode)],
                   !.owed[s] = mode, !.timers = T] \in WorldType
<1> DEFINE i == [w.inst[s] EXCEPT !.status = "ready", !.why = RetryIn(mode)]
           a == [w EXCEPT !.inst[s] = i]
           b == [a EXCEPT !.owed[s] = mode]
           v == [b EXCEPT !.timers = T]
<1>1. i \in InstanceType
  <2>1. w.inst[s] \in InstanceType BY WorldParts
  <2>2. "ready" \in StageState /\ RetryIn(mode) \in Reason BY Reasons, StatesOfStages
  <2> QED BY <2>1, <2>2, InstanceMoves
<1>2. [w EXCEPT !.inst[s] = [@ EXCEPT !.status = "ready", !.why = RetryIn(mode)],
                !.owed[s] = mode, !.timers = T] = v
  BY DEF WorldType
<1> HIDE DEF i
<1>3. a \in WorldType BY <1>1, NewInstAt
<1> HIDE DEF a
<1>4. b \in WorldType BY <1>3, NewOwed
<1> HIDE DEF b
<1>5. v \in WorldType BY <1>4, NewTimers
<1> HIDE DEF v
<1> QED BY <1>2, <1>5

LEMMA SkippedType ==
  ASSUME NEW w \in WorldType, NEW s \in Stages, NEW as \in {"completed", "skipped"}
  PROVE  [Stop(w, {s}, "skipped", AllBecause(None)) EXCEPT !.inst[s].as = as] \in WorldType
<1> DEFINE p == Stop(w, {s}, "skipped", AllBecause(None))
           i == [p.inst[s] EXCEPT !.as = as]
           v == [p EXCEPT !.inst[s].as = as]
<1>1. p \in WorldType
  <2>1. AllBecause(None) \in [Stages -> Reason] BY AllBecauseType
  <2>2. {s} \in SUBSET Stages OBVIOUS
  <2> QED BY <2>1, <2>2, StopType, StatesOfStages
<1> HIDE DEF p
<1>2. i \in InstanceType
  <2>1. p.inst[s] \in InstanceType BY <1>1, WorldParts
  <2> QED BY <2>1 DEF InstanceType
<1>3. v = [p EXCEPT !.inst[s] = i] BY <1>1 DEF WorldType
<1> HIDE DEF i, v
<1>4. v \in WorldType BY <1>1, <1>2, <1>3, NewInstAt
<1> QED BY <1>4 DEF v, p

LEMMA ApprovedType ==
  ASSUME NEW w \in WorldType, NEW s \in Stages
  PROVE  [w EXCEPT !.inst[s] = [@ EXCEPT !.status = "ready", !.gate = None,
                                         !.why = Because("resume")]] \in WorldType
<1> DEFINE i == [w.inst[s] EXCEPT !.status = "ready", !.gate = None, !.why = Because("resume")]
<1>1. i \in InstanceType
  <2>1. w.inst[s] \in InstanceType BY WorldParts
  <2>2. "ready" \in StageState /\ Because("resume") \in Reason BY Reasons, StatesOfStages
  <2> QED BY <2>1, <2>2 DEF InstanceType
<1>2. [w EXCEPT !.inst[s] = [@ EXCEPT !.status = "ready", !.gate = None,
                                      !.why = Because("resume")]] = [w EXCEPT !.inst[s] = i]
  BY DEF WorldType
<1> HIDE DEF i
<1> QED BY <1>1, <1>2, NewInstAt

LEMMA RetryStageStep ==
  ASSUME TypeOK, NEW s \in Stages, NEW mode \in RetryMode, RetryStage(s, mode)
  PROVE  World' \in WorldType
<1> DEFINE T == timers \ {Timer(s, "pause_ttl")}
           v == [World EXCEPT !.inst[s] = [@ EXCEPT !.status = "ready", !.why = RetryIn(mode)],
                              !.owed[s] = mode, !.timers = T]
<1>1. World \in WorldType BY WorldIsTyped
<1>2. T \in SUBSET TimerType BY DEF TypeOK
<1>3. Post(World, v) BY DEF RetryStage, Command
<1> HIDE DEF T
<1>4. v \in WorldType BY <1>1, <1>2, RetriedType
<1> HIDE DEF v
<1> QED BY <1>1, <1>3, <1>4, PostType

LEMMA SkipStageStep ==
  ASSUME TypeOK, NEW s \in Stages, NEW as \in {"completed", "skipped"}, SkipStage(s, as)
  PROVE  World' \in WorldType
<1> DEFINE v == [Stop(World, {s}, "skipped", AllBecause(None)) EXCEPT !.inst[s].as = as]
<1>1. Post(World, v) BY DEF SkipStage, Command
<1>2. World \in WorldType BY WorldIsTyped
<1>3. v \in WorldType BY <1>2, SkippedType
<1> HIDE DEF v
<1> QED BY <1>1, <1>2, <1>3, PostType

LEMMA EndingCommandSteps ==
  ASSUME TypeOK, NEW s \in Stages, FailStage(s) \/ CancelStage(s) \/ Reject(s)
  PROVE  World' \in WorldType
<1> DEFINE rejected == Fail(Settled(World, s, TRUE), s)
<1>1. World \in WorldType BY WorldIsTyped
<1>2. Fail(World, s) \in WorldType BY <1>1, FailType
<1>3. Cancel(World, {s}) \in WorldType
  <2>1. {s} \in SUBSET Stages OBVIOUS
  <2> QED BY <1>1, <2>1, CancelType
<1>4. rejected \in WorldType BY <1>1, SettledType, FailType
<1>5. \/ Post(World, Fail(World, s)) \/ Post(World, Cancel(World, {s}))
      \/ Post(World, rejected) \/ Post(World, Abort(rejected, {s}))
  BY DEF FailStage, CancelStage, Reject, Command
<1> HIDE DEF rejected
<1>6. Abort(rejected, {s}) \in WorldType BY <1>4, AbortType
<1> QED BY <1>1, <1>2, <1>3, <1>4, <1>5, <1>6, PostType

LEMMA ApproveStep ==
  ASSUME TypeOK, NEW s \in Stages, Approve(s) PROVE World' \in WorldType
<1> DEFINE told == [World EXCEPT !.frames[s].at = "answered"]
           lost == OnFrameLost(World, s, inst[s].no)
           again == [lost EXCEPT !.inst[s] = [@ EXCEPT !.status = "ready", !.gate = None,
                                                       !.why = Because("resume")]]
<1>1. World \in WorldType BY WorldIsTyped
<1>2. told \in WorldType BY <1>1, FrameAtType
<1>3. lost \in WorldType BY <1>1, OnFrameLostType
<1>4. Post(World, told) \/ Post(World, World) \/ Post(World, lost) \/ Post(World, again)
  BY DEF Approve, Command
<1> HIDE DEF lost, told
<1>5. again \in WorldType BY <1>3, ApprovedType
<1> HIDE DEF again
<1> QED BY <1>1, <1>2, <1>3, <1>4, <1>5, PostType

-----------------------------------------------------------------------------
(* The specification.                                                           *)

LEMMA WorldStep ==
  ASSUME TypeOK, Next PROVE World' \in WorldType
<1>1. CASE Engine
  <2>1. ASSUME Boot PROVE World' \in WorldType
    BY <2>1, WorldIsTyped DEF Boot, World, WorldType
  <2>2. ASSUME NEW s \in Stages, SessionReady(s) \/ ToValidating(s) \/ BackToRunning(s)
        PROVE  World' \in WorldType
    BY <2>2, FrameSteps, StatesOfStages DEF SessionReady, ToValidating, BackToRunning
  <2> QED BY <1>1, <2>1, <2>2, StartStep, RecoverRunStep, PrepareDoneStep, FinalizeDoneStep, ClaimStep,
             FireTimerStep, ResumedStep, RecoverRetryStep, ParkStep, EndStep, RecoverAttemptStep
          DEF Engine
<1>2. CASE Faults BY <1>2, CrashStep, BudgetSteps, LeaseExpireStep DEF Faults
<1>3. CASE Operators
  BY <1>3, RunCommandSteps, PauseStageStep, ResumeStageStep, EndingCommandSteps, ApproveStep,
     RetryStageStep, SkipStageStep DEF Operators
<1> QED BY <1>1, <1>2, <1>3 DEF Next

LEMMA BootTypes ==
  /\ Up \in BootType /\ [Up EXCEPT !.phase = "down"] \in BootType
  /\ \A b \in BootType : [b EXCEPT !.at = b.at + 1] \in BootType
<1>1. Because(None) \in Reason BY Reasons
<1>2. "absent" \in StageState BY StatesOfStages
<1>3. NoInstance \in InstanceType BY <1>1, <1>2 DEF NoInstance, InstanceType, None
<1>4. Idle \in [Stages -> InstanceType] BY <1>3 DEF Idle
<1>5. Up \in BootType BY <1>4 DEF Up, BootType
<1> QED BY <1>5 DEF BootType

\* The process, and the two bounded counters.
LEMMA ProcessStep ==
  ASSUME TypeOK, Next PROVE boot' \in BootType /\ ops' \in Nat /\ faults' \in Nat
<1> USE DEF TypeOK
<1>1. CASE Engine
  <2>1. ASSUME Boot PROVE boot' \in BootType /\ ops' \in Nat /\ faults' \in Nat
    BY <2>1, BootTypes DEF Boot, BootType
  <2>2. ASSUME RecoverRun PROVE boot' \in BootType /\ ops' \in Nat /\ faults' \in Nat
    BY <2>2, BootTypes DEF RecoverRun
  <2>3. ASSUME NEW s \in Stages, RecoverRetry(s)
        PROVE  boot' \in BootType /\ ops' \in Nat /\ faults' \in Nat
    BY <2>3, BootTypes DEF RecoverRetry, NextStep
  <2>4. ASSUME NEW s \in Stages, NEW safe \in BOOLEAN, RecoverAttempt(s, safe)
        PROVE  boot' \in BootType /\ ops' \in Nat /\ faults' \in Nat
    BY <2>4, BootTypes DEF RecoverAttempt, NextStep
  <2>5. ASSUME Quiet PROVE boot' \in BootType /\ ops' \in Nat /\ faults' \in Nat
    BY <2>5 DEF Quiet
  <2>6. ASSUME \/ Start
               \/ \E ok \in BOOLEAN : PrepareDone(ok) \/ FinalizeDone(ok)
               \/ \E l \in launches : Claim(l)
               \/ \E t \in timers : FireTimer(t)
        PROVE  Quiet
    BY <2>6 DEF Start, PrepareDone, FinalizeDone, Claim, FireTimer
  <2>7. ASSUME NEW s \in Stages,
               \/ SessionReady(s) \/ ToValidating(s) \/ BackToRunning(s) \/ Resumed(s)
               \/ \E gate \in {"turn", "review"} : Park(s, gate)
               \/ \E ending \in Ending : End(s, ending)
        PROVE  Quiet
    BY <2>7 DEF SessionReady, ToValidating, BackToRunning, Step, Resumed, Park, End
  <2> QED BY <1>1, <2>1, <2>2, <2>3, <2>4, <2>5, <2>6, <2>7 DEF Engine
<1>2. CASE Faults
  <2>1. ASSUME NEW kind, Fault(kind) PROVE ops' \in Nat /\ faults' \in Nat BY <2>1 DEF Fault
  <2>2. ASSUME NEW lost, Crash(lost) PROVE boot' \in BootType /\ Fault("crash")
    BY <2>2, BootTypes DEF Crash
  <2>3. ASSUME NEW s \in Stages, NEW safe \in BOOLEAN, LeaseExpire(s, safe)
        PROVE  boot' \in BootType /\ Fault("lease")
    BY <2>3 DEF LeaseExpire
  <2>4. ASSUME NEW s \in Stages, RunBudgetSpent(s) \/ StageBudgetSpent(s)
        PROVE  boot' \in BootType /\ Fault("budget")
    BY <2>4 DEF RunBudgetSpent, StageBudgetSpent
  <2> QED BY <1>2, <2>1, <2>2, <2>3, <2>4 DEF Faults
<1>3. CASE Operators
  <2>1. ASSUME NEW name, Operator(name)
        PROVE  boot' \in BootType /\ ops' \in Nat /\ faults' \in Nat
    BY <2>1 DEF Operator
  <2>2. ASSUME \/ \E mode \in {"drain", "interrupt"} : PauseTheRun(mode)
               \/ ResumeTheRun \/ CancelTheRun \/ RaiseBudget
        PROVE  \E name : Operator(name)
    BY <2>2 DEF PauseTheRun, ResumeTheRun, CancelTheRun, RaiseBudget
  <2>3. ASSUME NEW s \in Stages,
               \/ PauseStage(s) \/ ResumeStage(s) \/ FailStage(s) \/ CancelStage(s)
               \/ Approve(s) \/ Reject(s)
               \/ \E mode \in RetryMode : RetryStage(s, mode)
               \/ \E as \in {"completed", "skipped"} : SkipStage(s, as)
        PROVE  \E name : Operator(name)
    BY <2>3 DEF PauseStage, ResumeStage, FailStage, CancelStage, Approve, Reject, RetryStage,
                SkipStage, On
  <2> QED BY <1>3, <2>1, <2>2, <2>3 DEF Operators
<1> QED BY <1>1, <1>2, <1>3 DEF Next

\* Whatever the workflow, the policies, the commands and the faults, every row,
\* timer, launch, frame and lifecycle task keeps its type: no handler leaves an
\* instance or a run in a state the tables do not know, and no finalize is
\* dispatched for a run without an outcome.
THEOREM TypeCorrect == Spec => []TypeOK
<1>1. Init => TypeOK
  BY BootTypes DEF Init, TypeOK, RunType, RunState, Idle, NoInstance, InstanceType, StageState,
     Because, Reason, NoFrame, FrameType, TaskType, None
<1>2. TypeOK /\ [Next]_vars => TypeOK'
  <2> SUFFICES ASSUME TypeOK, [Next]_vars PROVE TypeOK' OBVIOUS
  <2>1. CASE Next
    <3>1. World' \in WorldType BY <2>1, WorldStep
    <3>2. boot' \in BootType /\ ops' \in Nat /\ faults' \in Nat BY <2>1, ProcessStep
    <3> QED BY <3>1, <3>2 DEF TypeOK, World, WorldType
  <2>2. CASE UNCHANGED vars BY <2>2 DEF vars, TypeOK
  <2> QED BY <2>1, <2>2
<1> QED BY <1>1, <1>2, PTL DEF Spec

-----------------------------------------------------------------------------
(* Once a run is decided it is over for its stages, and it becomes terminal    *)
(* only by the finalize of its own outcome: for every workflow, policy,        *)
(* command and fault.                                                           *)
(*                                                                             *)
(* A run that is closing (finalizing, cancelling, terminal) has no stage left   *)
(* that a message could move, so a handler that moves a stage finds the run     *)
(* open: undecided, with no finalize in flight.  What is left are the handlers  *)
(* of the run itself.                                                           *)

Closing == {"finalizing", "cancelling"} \cup TerminalRun

Ended(w) == \A s \in Stages : w.inst[s].status \in TerminalStage \cup {"absent"}

\* The finalizes in flight are of the outcome, but for those a cancel superseded.
FinalsOf(w) ==
  /\ w.run.status = "finalizing" =>
       /\ w.run.outcome \in {"completed", "failed"}
       /\ \A i \in 1 .. Len(w.tasks.finals) : w.tasks.finals[i] = w.run.outcome
  /\ w.run.status = "cancelling" =>
       /\ w.run.outcome \in {None, "cancelled"}
       /\ (\E i \in 1 .. Len(w.tasks.finals) : w.tasks.finals[i] = "cancelled")
            => w.run.outcome = "cancelled"

\* The inductive strengthening of DecidedIsDecided.
Decided(w) ==
  /\ w.run.status \in Closing => Ended(w) /\ w.timers = {}
  /\ w.run.status \notin Closing => w.run.outcome = None /\ w.tasks.finals = <<>>
  /\ w.run.status \in {"created", "starting"} =>
       w.timers = {} /\ \A s \in Stages : w.inst[s].status = "absent"
  /\ FinalsOf(w)

\* The run can still go on in w, and could before.
Undecided(w) ==
  /\ w.run.status \in RunLive \cup {"paused"} /\ w.run.outcome = None /\ w.tasks.finals = <<>>
  /\ run.status \notin Closing

\* What x may make of the run: one that closes stays closing, and only a cancel
\* changes its outcome; none becomes terminal, and a terminal one is final.
Follows(x) ==
  /\ x.run.status \in TerminalRun => run.status \in TerminalRun
  /\ run.status \in TerminalRun => x.run.status = run.status /\ x.run.outcome = run.outcome
  /\ run.status \in {"finalizing", "cancelling"} =>
       /\ x.run.status \in {"finalizing", "cancelling"}
       /\ x.run.outcome \in {run.outcome, "cancelled"}

\* What an action but the end of a finalize leaves: a sound world that follows.
Fine(x) == x \in WorldType /\ Decided(x) /\ Follows(x)

\* What the end of a finalize makes of the run.
Concludes ==
  /\ run.status \in {"finalizing", "cancelling"}
  /\ tasks.finals # <<>> /\ Head(tasks.finals) = run.outcome
  /\ run.outcome \in Outcome /\ run'.status = run'.outcome
  /\ run'.outcome \in {run.outcome} \cup (IF run.outcome = "completed" THEN {"failed"} ELSE {})

\* v has the run and the finalizes of w.
Keeps(w, v) ==
  v.run.status = w.run.status /\ v.run.outcome = w.run.outcome /\ v.tasks.finals = w.tasks.finals

-----------------------------------------------------------------------------
(* Sound worlds.                                                                *)

LEMMA RunStateGroups ==
  /\ Closing \cap (RunLive \cup {"paused"}) = {}
  /\ {"created", "starting"} \cap (Closing \cup RunLive \cup {"paused"}) = {}
  /\ TerminalRun \cap (RunLive \cup {"paused"}) = {}
  /\ RunState = {"created", "starting", "paused"} \cup RunLive \cup Closing
BY DEF Closing, RunLive, TerminalRun, RunState

LEMMA UndecidedIsFine ==
  ASSUME NEW x \in WorldType, Undecided(x) PROVE Fine(x)
BY DEF Undecided, Fine, Decided, Follows, FinalsOf, Closing, RunLive, TerminalRun

\* A run that is open was open.
LEMMA OpenBefore ==
  ASSUME NEW x, Fine(x), x.run.status \notin Closing PROVE run.status \notin Closing
BY DEF Fine, Follows, Closing

\* A run with a stage that can still move is undecided.
LEMMA OpenStage ==
  ASSUME NEW w \in WorldType, Fine(w), NEW s \in Stages,
         w.inst[s].status \notin TerminalStage \cup {"absent"}
  PROVE  Undecided(w)
<1>1. w.run.status \notin Closing BY DEF Fine, Decided, Ended
<1>2. w.run.status \notin {"created", "starting"} BY DEF Fine, Decided
<1>3. w.run.status \in RunState BY WorldParts, RunMoves
<1>4. run.status \notin Closing BY <1>1, OpenBefore
<1> QED BY <1>1, <1>2, <1>3, <1>4, RunStateGroups DEF Fine, Decided, Undecided

LEMMA LiveIsUndecided ==
  ASSUME NEW w \in WorldType, Fine(w), w.run.status \in RunLive \cup {"paused"}
  PROVE  Undecided(w)
BY OpenBefore, RunStateGroups DEF Fine, Decided, Undecided

LEMMA KeepsUndecided ==
  ASSUME NEW w, NEW v, Undecided(w), Keeps(w, v) PROVE Undecided(v)
BY DEF Undecided, Keeps

\* A step that moves no stage and arms no timer leaves a sound world sound.
LEMMA Still ==
  ASSUME NEW w, NEW v \in WorldType, Fine(w), Keeps(w, v), v.timers \subseteq w.timers,
         \A s \in Stages : v.inst[s].status = w.inst[s].status
  PROVE  Fine(v)
<1>1. Ended(w) => Ended(v) BY DEF Ended
<1>2. FinalsOf(v) BY DEF FinalsOf, Keeps, Fine, Decided
<1> QED BY <1>1, <1>2 DEF Fine, Decided, Follows, Keeps

LEMMA KeepsTrans ==
  ASSUME NEW u, NEW v, NEW w, Keeps(u, v), Keeps(v, w) PROVE Keeps(u, w)
BY DEF Keeps

-----------------------------------------------------------------------------
(* The building blocks leave the run and its finalizes alone.                   *)

LEMMA AbortKeeps ==
  ASSUME NEW w \in WorldType, NEW S
  PROVE  /\ Keeps(w, Abort(w, S))
         /\ Abort(w, S).inst = w.inst /\ Abort(w, S).timers = w.timers
BY DEF Abort, WorldType, Keeps

LEMMA StopKeeps ==
  ASSUME NEW w \in WorldType, NEW S \in SUBSET Stages, NEW to \in StageState,
         NEW why \in [Stages -> Reason]
  PROVE  /\ Keeps(w, Stop(w, S, to, why)) /\ Stop(w, S, to, why).timers \subseteq w.timers
         /\ \A s \in Stages : Stop(w, S, to, why).inst[s].status
                                = IF s \in S THEN to ELSE w.inst[s].status
<1> DEFINE I == [s \in Stages |->
                   IF s \in S
                     THEN [w.inst[s] EXCEPT !.status = to, !.why = why[s], !.gate = None,
                             !.live = w.inst[s].live /\ w.inst[s].status # "ready"]
                     ELSE w.inst[s]]
           T == {t \in w.timers : t.st \notin S}
           p == [[w EXCEPT !.inst = I] EXCEPT !.timers = T]
<1>1. I \in [Stages -> InstanceType]
  <2>1. \A s \in Stages : w.inst[s] \in InstanceType BY WorldParts
  <2>2. ASSUME NEW s \in Stages PROVE I[s] \in InstanceType
    <3>1. why[s] \in Reason OBVIOUS
    <3>2. (w.inst[s].live /\ w.inst[s].status # "ready") \in BOOLEAN OBVIOUS
    <3> QED BY <2>1, <3>1, <3>2, InstanceMoves
  <2> QED BY <2>2
<1>2. \A s \in Stages : I[s].status = IF s \in S THEN to ELSE w.inst[s].status
  BY WorldParts DEF InstanceType
<1>3. Stop(w, S, to, why) = Abort(p, {s \in S : w.inst[s].live}) BY DEF Stop
<1>4. T \subseteq w.timers /\ T \in SUBSET TimerType BY WorldParts
<1> HIDE DEF I, T
<1>5. p \in WorldType BY <1>1, <1>4, NewInst, NewTimers
<1>6. Keeps(w, p) /\ p.inst = I /\ p.timers = T BY DEF WorldType, Keeps
<1> HIDE DEF p
<1> QED BY <1>2, <1>3, <1>4, <1>5, <1>6, AbortKeeps, KeepsTrans

LEMMA CancelKeeps ==
  ASSUME NEW w \in WorldType, NEW S \in SUBSET Stages
  PROVE  /\ Keeps(w, Cancel(w, S)) /\ Cancel(w, S) \in WorldType
         /\ \A s \in Stages : Cancel(w, S).inst[s].status
                                = IF s \in S THEN "cancelled" ELSE w.inst[s].status
<1>1. "cancelled" \in StageState BY StatesOfStages
<1>2. AllBecause(None) \in [Stages -> Reason] BY AllBecauseType
<1>3. Cancel(w, S) = Stop(w, S, "cancelled", AllBecause(None)) BY DEF Cancel
<1>4. Cancel(w, S) \in WorldType BY CancelType
<1> QED BY <1>1, <1>2, <1>3, <1>4, StopKeeps

\* Once every open stage is cancelled, all have ended.
LEMMA CancelEnded ==
  ASSUME NEW w \in WorldType, NEW v \in WorldType, v.inst = w.inst
  PROVE  /\ Cancel(v, Open(w)) \in WorldType /\ Keeps(v, Cancel(v, Open(w)))
         /\ Ended(Cancel(v, Open(w)))
<1>1. Open(w) \in SUBSET Stages BY DEF Open
<1> QED BY <1>1, CancelKeeps DEF Ended, Open, TerminalStage

LEMMA StageKeeps ==
  ASSUME NEW w \in WorldType, NEW s \in Stages
  PROVE  /\ Keeps(w, Fail(w, s)) /\ Keeps(w, Halt(w, s)) /\ Keeps(w, Completes(w, s))
         /\ \A status : Keeps(w, [w EXCEPT !.inst[s].status = status])
BY DEF Fail, Halt, Completes, WorldType, Keeps

LEMMA WithTtlKeeps ==
  ASSUME NEW w \in WorldType, NEW s PROVE Keeps(w, WithTtl(w, s))
BY DEF WithTtl, WorldType, Keeps

LEMMA SettledKeeps ==
  ASSUME NEW w \in WorldType, NEW s \in Stages, NEW counted \in BOOLEAN
  PROVE  /\ Keeps(w, Settled(w, s, counted)) /\ Settled(w, s, counted).timers = w.timers
         /\ \A x \in Stages : Settled(w, s, counted).inst[x].status = w.inst[x].status
BY DEF Settled, WorldType, Keeps, InstanceType

LEMMA UnpauseKeeps ==
  ASSUME NEW w \in WorldType, NEW S, NEW base PROVE Keeps(w, Unpause(w, S, base))
BY DEF Unpause, WorldType, Keeps

LEMMA RetryKeeps ==
  ASSUME NEW w \in WorldType, NEW s \in Stages, NEW mode \in RetryMode
  PROVE  Keeps(w, Retry(w, s, mode))
<1> DEFINE o == [w EXCEPT !.owed[s] = mode]
           kept == [base |-> "run_paused", phase |-> "retry_wait", mode |-> mode]
<1>1. o \in WorldType BY NewOwed
<1>2. Keeps(w, o) BY DEF WorldType, Keeps
<1>3. Keeps(o, Stop(o, {s}, "paused", [x \in Stages |-> kept]))
  <2>1. [x \in Stages |-> kept] \in [Stages -> Reason] BY DEF Reason
  <2>2. {s} \in SUBSET Stages /\ "paused" \in StageState BY StatesOfStages
  <2> DEFINE reasons == [x \in Stages |-> kept]
  <2> HIDE DEF o, reasons
  <2>3. Keeps(o, Stop(o, {s}, "paused", reasons)) BY <1>1, <2>1, <2>2, StopKeeps DEF reasons
  <2> QED BY <2>3 DEF reasons
<1>4. CASE w.run.status = "paused"
  <2>1. Retry(w, s, mode) = Stop(o, {s}, "paused", [x \in Stages |-> kept]) BY <1>4 DEF Retry
  <2> HIDE DEF o, kept
  <2> QED BY <1>2, <1>3, <2>1, KeepsTrans
<1>5. CASE w.run.status # "paused" BY <1>5 DEF Retry, WorldType, Keeps
<1> QED BY <1>4, <1>5

LEMMA ApplyFailureKeeps ==
  ASSUME NEW w \in WorldType, NEW s \in Stages, NEW class
  PROVE  Keeps(w, ApplyFailure(w, s, class))
<1>1. Keeps(w, Retry(w, s, RetryModeOf(s, class))) BY RetryModeOfType, RetryKeeps
<1>2. Keeps(w, WithTtl(Halt(w, s), s)) BY HaltType, StageKeeps, WithTtlKeeps, KeepsTrans
<1> QED BY <1>1, <1>2, StageKeeps DEF ApplyFailure

-----------------------------------------------------------------------------
(* Deciding, pausing, resuming and cancelling a run.                            *)

LEMMA DecideFine ==
  ASSUME NEW w \in WorldType, w.tasks.finals = <<>>, Ended(w), run.status \notin Closing, NEW outcome \in Outcome,
         NEW status, status = IF outcome = "cancelled" THEN "cancelling" ELSE "finalizing"
  PROVE  Fine(Decide(w, status, outcome))
<1> DEFINE d == Decide(w, status, outcome)
<1>1. status \in RunState BY StatesOfRuns
<1>2. d \in WorldType BY <1>1, DecideType
<1>3. /\ d.run.status = status /\ d.run.outcome = outcome /\ d.inst = w.inst /\ d.timers = {}
      /\ d.tasks.finals = Append(w.tasks.finals, outcome)
  BY DEF Decide, Finalize, WorldType, RunType, TaskType
<1>4. d.tasks.finals = <<outcome>> BY <1>3
<1> HIDE DEF d
<1>5. Ended(d) BY <1>3 DEF Ended
<1>6. FinalsOf(d) BY <1>3, <1>4 DEF FinalsOf, Outcome
<1>7. d.run.status \in {"finalizing", "cancelling"} BY <1>3
<1>8. Fine(d) BY <1>2, <1>3, <1>5, <1>6, <1>7 DEF Fine, Decided, Follows, Closing, TerminalRun
<1> QED BY <1>8 DEF d

LEMMA PauseRunUndecided ==
  ASSUME NEW w \in WorldType, Undecided(w), NEW mode, NEW why \in {"user", "budget"}
  PROVE  Undecided(PauseRun(w, mode, why))
<1> DEFINE S == {s \in Stages : w.inst[s].status \in
                   {"ready", "retry_wait"} \cup (IF mode = "interrupt" THEN Attempt ELSE {})}
           p == [w EXCEPT !.run.status = "paused", !.run.why = why]
           reasons == [s \in Stages |-> PauseReason(w.inst[s], "run_paused")]
           q == Stop(p, S, "paused", reasons)
<1>1. p \in WorldType BY NewRunParts, StatesOfRuns
<1>2. Undecided(p) BY DEF Undecided, WorldType, RunType
<1>3. reasons \in [Stages -> Reason]
  <2>1. \A s \in Stages : w.inst[s] \in InstanceType BY WorldParts
  <2>2. \A s \in Stages : PauseReason(w.inst[s], "run_paused") \in Reason BY <2>1, PauseReasonType
  <2> QED BY <2>2
<1>4. S \in SUBSET Stages /\ "paused" \in StageState BY StatesOfStages
<1>5. PauseRun(w, mode, why) = WithTtl(q, 0) BY DEF PauseRun
<1> HIDE DEF S, p, reasons
<1>6. Keeps(p, q) /\ q \in WorldType BY <1>1, <1>3, <1>4, StopKeeps, StopType
<1> HIDE DEF q
<1>7. Keeps(q, WithTtl(q, 0)) BY <1>6, WithTtlKeeps
<1> QED BY <1>2, <1>5, <1>6, <1>7, KeepsUndecided

LEMMA ResumeRunUndecided ==
  ASSUME NEW w \in WorldType, Undecided(w) PROVE Undecided(ResumeRun(w))
<1> DEFINE S == {s \in Stages : w.inst[s].status = "paused" /\ w.inst[s].why.base = "run_paused"}
           r == Unpause(w, S, "run_paused")
<1>1. r \in WorldType BY UnpauseType
<1>2. Undecided(r) BY UnpauseKeeps, KeepsUndecided
<1> DEFINE q == [r EXCEPT !.run.status = "running", !.run.why = None]
           z == [q EXCEPT !.timers = r.timers \ {Timer(0, "pause_ttl")}]
<1>3. ResumeRun(w) = z BY DEF ResumeRun
<1> HIDE DEF r
<1>4. Undecided(q) BY <1>1, <1>2 DEF Undecided, WorldType, RunType, RunLive
<1>5. q \in WorldType BY <1>1, NewRunParts, StatesOfRuns
<1> HIDE DEF q
<1>6. Keeps(q, z) BY <1>5 DEF Keeps, WorldType
<1> HIDE DEF z
<1> QED BY <1>3, <1>4, <1>6, KeepsUndecided

\* A cancel of a run that is closing already is refused, but for one that is finalizing.
LEMMA CancelRunFine ==
  ASSUME NEW w \in WorldType, Fine(w), w.run.status \notin {"cancelling"} \cup TerminalRun
  PROVE  Fine(CancelRun(w))
<1>1. CancelRun(w) \in WorldType BY CancelRunType
<1>2. CASE w.run.status = "finalizing"
  <2> DEFINE p == [w EXCEPT !.run.status = "cancelling", !.run.outcome = "cancelled"]
             c == Finalize(p)
  <2>1. c.run.status = "cancelling" /\ c.run.outcome = "cancelled" /\ c.inst = w.inst /\ c.timers = w.timers
    BY DEF Finalize, WorldType, RunType, TaskType
  <2>2. CancelRun(w) = c BY <1>2 DEF CancelRun
  <2> HIDE DEF c
  <2>3. Ended(c) /\ c.timers = {} BY <1>2, <2>1 DEF Fine, Decided, Ended, Closing
  <2>4. FinalsOf(c) BY <2>1 DEF FinalsOf
  <2>5. Follows(c) BY <1>2, <2>1 DEF Fine, Follows, TerminalRun
  <2> QED BY <1>1, <2>1, <2>2, <2>3, <2>4, <2>5 DEF Fine, Decided, Closing, TerminalRun
<1>3. CASE w.run.status # "finalizing"
  <2> DEFINE q == [w EXCEPT !.run.status = "cancelling"]
             k == Cancel(q, Open(w))
             c == [k EXCEPT !.timers = {}]
  <2>1. q \in WorldType /\ q.inst = w.inst
    BY NewRunParts, StatesOfRuns DEF WorldType
  <2>2. q.run.status = "cancelling" /\ q.run.outcome = w.run.outcome /\ q.tasks.finals = w.tasks.finals
    BY DEF WorldType, RunType
  <2>3. CancelRun(w) = c BY <1>3 DEF CancelRun
  <2>4. w.run.outcome = None /\ w.tasks.finals = <<>>
    BY <1>3 DEF Fine, Decided, Closing
  <2> HIDE DEF q
  <2>5. k \in WorldType /\ Keeps(q, k) /\ Ended(k) BY <2>1, CancelEnded
  <2> HIDE DEF k
  <2>6. c.run = k.run /\ c.inst = k.inst /\ c.tasks = k.tasks /\ c.timers = {} BY <2>5 DEF WorldType
  <2> HIDE DEF c
  <2>7. c.run.status = "cancelling" /\ c.run.outcome = None /\ c.tasks.finals = <<>>
    BY <2>2, <2>4, <2>5, <2>6 DEF Keeps
  <2>8. Ended(c) BY <2>5, <2>6 DEF Ended
  <2>9. FinalsOf(c) BY <2>7 DEF FinalsOf
  <2>10. run.status \notin Closing BY <1>3, OpenBefore DEF Closing
  <2>11. Follows(c) BY <2>7, <2>10 DEF Follows, Closing, TerminalRun
  <2> QED BY <1>1, <2>3, <2>6, <2>7, <2>8, <2>9, <2>11 DEF Fine, Decided, Closing, TerminalRun
<1> QED BY <1>2, <1>3

-----------------------------------------------------------------------------
(* Settle.                                                                      *)

LEMMA ResolveKeeps ==
  ASSUME NEW w \in WorldType, NEW res \in [Stages -> StageState]
  PROVE  Keeps(w, Resolve(w, res))
<1> DEFINE lost == {s \in Stages : res[s] = "cancelled" /\ w.inst[s].status # "cancelled"}
           I == [s \in Stages |->
                   IF w.inst[s].status = "pending" /\ res[s] # "cancelled"
                     THEN [w.inst[s] EXCEPT !.status = res[s], !.why = Because(None)] ELSE w.inst[s]]
           p == [w EXCEPT !.inst = I]
           q == Cancel(p, lost)
           L == [s \in Stages |-> [q.inst[s] EXCEPT !.loser = q.inst[s].loser \/ s \in lost]]
<1>1. I \in [Stages -> InstanceType]
  <2>1. \A s \in Stages : w.inst[s] \in InstanceType BY WorldParts
  <2>2. \A s \in Stages : [w.inst[s] EXCEPT !.status = res[s], !.why = Because(None)] \in InstanceType
    <3> TAKE s \in Stages
    <3>1. res[s] \in StageState /\ Because(None) \in Reason BY Reasons
    <3> QED BY <2>1, <3>1, InstanceMoves
  <2> QED BY <2>1, <2>2
<1>2. Resolve(w, res) = [q EXCEPT !.inst = L] BY DEF Resolve
<1>3. lost \in SUBSET Stages OBVIOUS
<1> HIDE DEF lost, I
<1>4. p \in WorldType /\ Keeps(w, p) BY <1>1, NewInst DEF WorldType, Keeps
<1> HIDE DEF p
<1>5. q \in WorldType /\ Keeps(p, q) BY <1>3, <1>4, CancelKeeps
<1> HIDE DEF q, L
<1>6. Keeps(q, [q EXCEPT !.inst = L]) BY <1>5 DEF WorldType, Keeps
<1> QED BY <1>2, <1>4, <1>5, <1>6, KeepsTrans

LEMMA ScheduleFine ==
  ASSUME NEW w \in WorldType, Undecided(w), NEW x \in Schedule(w)
  PROVE  Fine(x)
<1>1. CASE Open(w) = {}
  <2> DEFINE outcome == ScopeOutcome(StatusOf(w), SkippedAs(w), [s \in Stages |-> w.inst[s].loser])
             status == IF outcome = "cancelled" THEN "cancelling" ELSE "finalizing"
  <2>1. outcome \in Outcome BY DEF ScopeOutcome, Outcome
  <2>2. x = Decide(w, status, outcome) BY <1>1 DEF Schedule, Conclude
  <2>3. Ended(w) BY <1>1 DEF Open, Ended
  <2>4. w.tasks.finals = <<>> /\ run.status \notin Closing BY DEF Undecided
  <2>5. status = IF outcome = "cancelled" THEN "cancelling" ELSE "finalizing" OBVIOUS
  <2> HIDE DEF outcome, status
  <2> QED BY <2>1, <2>2, <2>3, <2>4, <2>5, DecideFine
<1>2. CASE x = PauseRun(w, "drain", "budget")
  BY <1>2, PauseRunUndecided, PauseRunType, UndecidedIsFine
<1>3. CASE \E A \in Admissions(w) : x = Accounted(Launch(w, A))
  <2>1. PICK A \in Admissions(w) : x = Accounted(Launch(w, A)) BY <1>3
  <2> DEFINE l == Launch(w, A)
  <2>2. A \in SUBSET Stages BY DEF Admissions
  <2>3. l \in WorldType BY <2>2, LaunchIsTyped
  <2>4. Keeps(w, l) BY DEF Launch, WorldType, Keeps
  <2> HIDE DEF l
  <2>5. Undecided(l) BY <2>4, KeepsUndecided
  <2>6. Accounted(l) \in WorldType BY <2>3, AccountedType
  <2>7. Undecided(Accounted(l)) BY <2>3, <2>5 DEF Undecided, Accounted, WorldType, RunType, RunLive
  <2> QED BY <2>1, <2>6, <2>7, UndecidedIsFine DEF l
<1> QED BY <1>1, <1>2, <1>3 DEF Schedule

\* Settling a sound world leaves a sound one: it decides a run only when every
\* stage has ended, and a cancelling run gets the outcome it is to finalize.
LEMMA SettleFine ==
  ASSUME NEW w \in WorldType, Fine(w), NEW x \in Settle(w)
  PROVE  Fine(x)
<1>1. CASE w.run.status = "cancelling"
  <2> DEFINE p == [w EXCEPT !.run.outcome = "cancelled"]
             f == Finalize(p)
  <2>1. x = w \/ x = f BY <1>1 DEF Settle
  <2>2. f.run.status = "cancelling" /\ f.run.outcome = "cancelled" /\ f.inst = w.inst /\ f.timers = w.timers
    BY <1>1 DEF Finalize, WorldType, RunType, TaskType
  <2>3. f \in WorldType
    <3>1. p \in WorldType BY DEF WorldType, RunType, Outcome
    <3>2. p.run.outcome \in Outcome BY DEF WorldType, RunType, Outcome
    <3> HIDE DEF p
    <3> QED BY <3>1, <3>2, FinalizeType
  <2> HIDE DEF f
  <2>4. Ended(f) /\ f.timers = {} BY <1>1, <2>2 DEF Fine, Decided, Ended, Closing
  <2>5. FinalsOf(f) BY <2>2 DEF FinalsOf
  <2>6. Follows(f) BY <1>1, <2>2 DEF Fine, Follows, TerminalRun
  <2>7. Fine(f) BY <2>2, <2>3, <2>4, <2>5, <2>6 DEF Fine, Decided, Closing, TerminalRun
  <2> QED BY <2>1, <2>7
<1>2. CASE w.run.status # "cancelling" /\ w.run.status \notin RunLive BY <1>2 DEF Settle
<1>3. CASE w.run.status # "cancelling" /\ w.run.status \in RunLive
  <2> DEFINE r == Rooted(w)
  <2>1. PICK res \in Resolutions(StatusOf(r), SkippedAs(w)) : x \in Schedule(Resolve(r, res))
    BY <1>3 DEF Settle
  <2>2. r \in WorldType /\ Keeps(w, r) BY RootedType DEF Rooted, WorldType, Keeps
  <2>3. Undecided(r) BY <1>3, <2>2, LiveIsUndecided, KeepsUndecided
  <2> HIDE DEF r
  <2>4. StatusOf(r) \in [Stages -> StageState]
    <3>1. \A s \in Stages : r.inst[s].status \in StageState BY <2>2, WorldParts, InstanceParts
    <3> QED BY <3>1 DEF StatusOf
  <2>5. res \in [Stages -> StageState] BY <2>4, ResolutionStates
  <2> DEFINE v == Resolve(r, res)
  <2>6. v \in WorldType /\ Undecided(v)
    BY <2>2, <2>3, <2>5, ResolveType, ResolveKeeps, KeepsUndecided
  <2> HIDE DEF v
  <2>7. x \in Schedule(v) BY <2>1 DEF v
  <2> QED BY <2>6, <2>7, ScheduleFine
<1> QED BY <1>1, <1>2, <1>3

-----------------------------------------------------------------------------
(* The handlers: a stage that moves was open, so its run is undecided.           *)

LEMMA Undone ==
  ASSUME NEW w \in WorldType, NEW v \in WorldType, Undecided(w), Keeps(w, v)
  PROVE  Fine(v)
BY KeepsUndecided, UndecidedIsFine

LEMMA SettledFine ==
  ASSUME NEW w \in WorldType, Fine(w), NEW s \in Stages, NEW counted \in BOOLEAN
  PROVE  Fine(Settled(w, s, counted))
BY SettledType, SettledKeeps, Still

LEMMA MovedFine ==
  ASSUME NEW w \in WorldType, NEW s \in Stages, Undecided(w)
  PROVE  /\ Fine(Fail(w, s)) /\ Fine(Halt(w, s)) /\ Fine(Completes(w, s))
         /\ \A class : Fine(ApplyFailure(w, s, class))
<1>1. Fine(Fail(w, s)) BY FailType, StageKeeps, Undone
<1>2. Fine(Halt(w, s)) BY HaltType, StageKeeps, Undone
<1>3. Fine(Completes(w, s)) BY CompletesType, StageKeeps, Undone
<1>4. ASSUME NEW class PROVE Fine(ApplyFailure(w, s, class))
  BY ApplyFailureType, ApplyFailureKeeps, Undone
<1> QED BY <1>1, <1>2, <1>3, <1>4

LEMMA SettledUndecided ==
  ASSUME NEW w \in WorldType, NEW s \in Stages, NEW counted \in BOOLEAN, Undecided(w)
  PROVE  Undecided(Settled(w, s, counted)) /\ Settled(w, s, counted) \in WorldType
BY SettledType, SettledKeeps, KeepsUndecided

LEMMA OnAttemptSettledFine ==
  ASSUME NEW w \in WorldType, Fine(w), NEW s \in Stages, NEW no, NEW ending
  PROVE  Fine(OnAttemptSettled(w, s, no, ending))
<1>1. CASE w.inst[s].status \in Attempt
  <2>1. Undecided(w) BY <1>1, OpenStage DEF Attempt, TerminalStage
  <2>2. ASSUME NEW c \in BOOLEAN
        PROVE  /\ Fine(Completes(Settled(w, s, c), s)) /\ Fine(Halt(Settled(w, s, c), s))
               /\ \A class : Fine(ApplyFailure(Settled(w, s, c), s, class))
    BY <2>1, SettledUndecided, MovedFine
  <2>3. /\ Fine(Completes(Settled(w, s, FALSE), s)) /\ Fine(Halt(Settled(w, s, FALSE), s))
        /\ Fine(ApplyFailure(Settled(w, s, TRUE), s, "repairable"))
        /\ Fine(ApplyFailure(Settled(w, s, FALSE), s, "fatal"))
        /\ Fine(ApplyFailure(Settled(w, s, TRUE), s, ending))
    BY <2>2
  <2> QED BY <1>1, <2>3 DEF OnAttemptSettled
<1>2. CASE w.inst[s].status \notin Attempt
  BY <1>2, SettledFine DEF OnAttemptSettled
<1> QED BY <1>1, <1>2

LEMMA OnFrameLostFine ==
  ASSUME NEW w \in WorldType, Fine(w), NEW s \in Stages, NEW no
  PROVE  Fine(OnFrameLost(w, s, no))
<1>1. CASE w.inst[s].status = "awaiting_input"
  <2>1. Undecided(w) BY <1>1, OpenStage DEF TerminalStage
  <2>2. Fine(Halt(Settled(w, s, FALSE), s)) BY <2>1, SettledUndecided, MovedFine
  <2> QED BY <2>2, SettledFine DEF OnFrameLost
<1>2. CASE w.inst[s].status # "awaiting_input" BY <1>2 DEF OnFrameLost
<1> QED BY <1>1, <1>2

LEMMA OnLeaseExpiredFine ==
  ASSUME NEW w \in WorldType, Fine(w), NEW s \in Stages, NEW safe
  PROVE  Fine(OnLeaseExpired(w, s, safe))
<1>1. CASE w.inst[s].status \in Attempt
  <2>1. Undecided(w) BY <1>1, OpenStage DEF Attempt, TerminalStage
  <2>2. Fine(ApplyFailure(Settled(w, s, TRUE), s, IF safe THEN "interrupted" ELSE "unsafe"))
    BY <2>1, SettledUndecided, MovedFine
  <2> QED BY <2>2 DEF OnLeaseExpired
<1>2. CASE w.inst[s].status \notin Attempt BY <1>2 DEF OnLeaseExpired
<1> QED BY <1>1, <1>2

LEMMA OnTimerFine ==
  ASSUME NEW w \in WorldType, Fine(w), NEW t \in TimerType
  PROVE  Fine(OnTimer(w, t))
<1>1. CASE t.st = 0
  <2> DEFINE c == Cancel(w, Open(w))
  <2>1. CASE w.run.status = "paused"
    <3>1. Undecided(w) BY <2>1, LiveIsUndecided
    <3>2. c \in WorldType /\ Keeps(w, c) /\ Ended(c) BY CancelEnded
    <3> HIDE DEF c
    <3>3. c.tasks.finals = <<>> /\ run.status \notin Closing BY <3>1, <3>2 DEF Undecided, Keeps
    <3>4. "failed" \in Outcome BY DEF Outcome
    <3>5. Fine(Decide(c, "finalizing", "failed")) BY <3>2, <3>3, <3>4, DecideFine
    <3> QED BY <1>1, <2>1, <3>5 DEF OnTimer, c
  <2>2. CASE w.run.status # "paused" BY <1>1, <2>2 DEF OnTimer
  <2> QED BY <2>1, <2>2
<1>2. CASE t.st # 0
  <2> DEFINE s == t.st
  <2>1. s \in Stages BY <1>2, GraphAssumption DEF TimerType, Stages
  <2>2. w.inst[s].status \in {"retry_wait", "ready", "paused"} => Undecided(w)
    BY <2>1, OpenStage DEF TerminalStage
  <2>3. Undecided(w) => Fine([w EXCEPT !.inst[s].status = "ready"])
    BY <2>1, StageStatusType, StatesOfStages, StageKeeps, Undone
  <2>4. Undecided(w) => Fine(Stop(w, {s}, "failed", AllBecause(None)))
    <3>1. {s} \in SUBSET Stages /\ "failed" \in StageState BY <2>1, StatesOfStages
    <3>2. AllBecause(None) \in [Stages -> Reason] BY AllBecauseType
    <3> QED BY <3>1, <3>2, StopType, StopKeeps, Undone
  <2>5. Undecided(w) => Fine(Fail(w, s)) BY <2>1, MovedFine
  <2> QED BY <1>2, <2>2, <2>3, <2>4, <2>5 DEF OnTimer
<1> QED BY <1>1, <1>2

-----------------------------------------------------------------------------
(* The actions.  Sound is the inductive invariant.                              *)

Sound == TypeOK /\ Decided(World)

LEMMA WorldIsFine ==
  ASSUME Sound PROVE World \in WorldType /\ Fine(World)
<1>1. World \in WorldType /\ Decided(World) /\ World.run = run BY WorldIsTyped DEF Sound
<1>2. Follows(World) BY <1>1 DEF Follows
<1> QED BY <1>1, <1>2 DEF Fine

LEMMA BecomeFine ==
  ASSUME NEW x, Fine(x), Become(x) PROVE Fine(World')
<1>1. x \in WorldType BY DEF Fine
<1>2. World' = x BY <1>1 DEF Become, World, WorldType
<1> QED BY <1>2

LEMMA PostFine ==
  ASSUME NEW w, NEW v, Fine(w), Fine(v), Post(w, v) PROVE Fine(World')
<1>1. v \in WorldType BY DEF Fine
<1>2. CASE Become(w) BY <1>2, BecomeFine
<1>3. CASE \E x \in Settle(v) : Become(x) BY <1>1, <1>3, SettleFine, BecomeFine
<1> QED BY <1>2, <1>3 DEF Post

\* A step of a stage that can still move, which leaves the run's row and tasks alone.
LEMMA Worked ==
  ASSUME Sound, World' \in WorldType, NEW s \in Stages,
         inst[s].status \notin TerminalStage \cup {"absent"}, run' = run, tasks' = tasks
  PROVE  Fine(World')
<1>1. World \in WorldType /\ Fine(World) /\ World.inst = inst BY WorldIsFine, WorldIsTyped DEF Sound
<1>2. Undecided(World) BY <1>1, OpenStage
<1>3. Undecided(World') BY <1>2 DEF Undecided, World
<1> QED BY <1>3, UndecidedIsFine

LEMMA StartFine == ASSUME Sound, Start PROVE Fine(World')
<1> DEFINE p == [World EXCEPT !.run.status = "starting"]
           x == [p EXCEPT !.tasks.prepare = TRUE]
<1>1. World \in WorldType /\ Decided(World) /\ World.run = run /\ run.status = "created"
  BY WorldIsTyped DEF Sound, Start
<1>2. p \in WorldType BY <1>1, NewRunParts, StatesOfRuns
<1>3. p.run.status = "starting" /\ p.run.outcome = World.run.outcome /\ p.tasks = World.tasks
      /\ p.inst = World.inst /\ p.timers = World.timers
  BY <1>1 DEF WorldType, RunType
<1>4. Become(x) BY DEF Start
<1> HIDE DEF p
<1>5. x \in WorldType BY <1>2, NewPrepare
<1>6. x.run = p.run /\ x.tasks.finals = p.tasks.finals /\ x.inst = p.inst /\ x.timers = p.timers
  BY <1>2 DEF WorldType, TaskType
<1> HIDE DEF x
<1>7. Fine(x)
  BY <1>1, <1>3, <1>5, <1>6 DEF Fine, Decided, Follows, FinalsOf, Closing, TerminalRun
<1> QED BY <1>4, <1>7, BecomeFine

LEMMA PrepareDoneFine == ASSUME Sound, NEW ok \in BOOLEAN, PrepareDone(ok) PROVE Fine(World')
<1> DEFINE w == [World EXCEPT !.tasks.prepare = FALSE]
           up == [w EXCEPT !.run.status = "running"]
           v == IF run.status # "starting" THEN w ELSE IF ok THEN up ELSE Decide(w, "finalizing", "failed")
<1>1. World \in WorldType /\ Fine(World) /\ World.run = run BY WorldIsFine, WorldIsTyped DEF Sound
<1>2. w \in WorldType BY <1>1, NewPrepare
<1>3. w.run = World.run /\ w.tasks.finals = World.tasks.finals /\ w.inst = World.inst /\ w.timers = World.timers
  BY <1>1 DEF WorldType, TaskType
<1>4. Post(w, v) BY DEF PrepareDone
<1> HIDE DEF w
<1>5. Fine(w) BY <1>1, <1>2, <1>3, Still DEF Keeps
<1>6. run.status = "starting" => Fine(up)
  <2> SUFFICES ASSUME run.status = "starting" PROVE Fine(up) OBVIOUS
  <2>1. up \in WorldType BY <1>2, NewRunParts, StatesOfRuns
  <2>2. w.run.outcome = None /\ w.tasks.finals = <<>>
    BY <1>1, <1>3, <1>5 DEF Fine, Decided, Closing, TerminalRun
  <2>3. Undecided(up) BY <1>2, <2>2 DEF Undecided, WorldType, RunType, RunLive, Closing, TerminalRun
  <2> QED BY <2>1, <2>3, UndecidedIsFine
<1>7. run.status = "starting" => Fine(Decide(w, "finalizing", "failed"))
  <2> SUFFICES ASSUME run.status = "starting" PROVE Fine(Decide(w, "finalizing", "failed")) OBVIOUS
  <2>1. w.tasks.finals = <<>> /\ Ended(w)
    BY <1>1, <1>3, <1>5 DEF Fine, Decided, Ended, Closing, TerminalRun
  <2>2. "failed" \in Outcome /\ run.status \notin Closing BY DEF Outcome, Closing, TerminalRun
  <2> QED BY <1>2, <2>1, <2>2, DecideFine
<1> HIDE DEF up
<1>8. Fine(v) BY <1>5, <1>6, <1>7
<1> HIDE DEF v
<1> QED BY <1>4, <1>5, <1>8, PostFine

\* Only the finalize of the run's own outcome makes it terminal.
LEMMA FinalizeDoneFine ==
  ASSUME Sound, NEW ok \in BOOLEAN, FinalizeDone(ok)
  PROVE  World' \in WorldType /\ Decided(World') /\ (Follows(World') \/ Concludes)
<1> DEFINE w == [World EXCEPT !.tasks.finals = Tail(tasks.finals)]
           v == OnFinalized(w, ok)
<1>1. World \in WorldType /\ Fine(World) /\ World.run = run /\ World.tasks = tasks
  BY WorldIsFine, WorldIsTyped DEF Sound
<1>2. tasks.finals # <<>> /\ tasks.finals \in Seq(Outcome) BY <1>1 DEF FinalizeDone, WorldType, TaskType
<1>3. w \in WorldType BY <1>1, <1>2, NewLastFinal
<1>4. w.run = run /\ w.inst = World.inst /\ w.timers = World.timers /\ w.tasks.finals = Tail(tasks.finals)
  BY <1>1 DEF WorldType, TaskType
<1>5. \/ run.status = "cancelling" /\ Head(tasks.finals) # "cancelled" /\ Become(w)
      \/ ~(run.status = "cancelling" /\ Head(tasks.finals) # "cancelled") /\ Post(w, v)
  BY DEF FinalizeDone
<1> HIDE DEF w
<1>6. /\ \A i \in 1 .. Len(w.tasks.finals) : \E j \in 1 .. Len(tasks.finals) :
            w.tasks.finals[i] = tasks.finals[j]
      /\ Head(tasks.finals) = tasks.finals[1] /\ 1 \in 1 .. Len(tasks.finals)
  BY <1>2, <1>4
<1>7. FinalsOf(w)
  BY <1>1, <1>4, <1>6 DEF FinalsOf, Fine, Decided
<1>8. run.status \notin Closing => w.tasks.finals = <<>>
  BY <1>1, <1>2 DEF Fine, Decided
<1>9. Fine(w)
  <2>1. Ended(World) => Ended(w) BY <1>4 DEF Ended
  <2> QED BY <1>1, <1>3, <1>4, <1>7, <1>8, <2>1 DEF Fine, Decided, Follows
<1>10. CASE run.status = "cancelling" /\ Head(tasks.finals) # "cancelled"
  <2>1. Fine(World') BY <1>5, <1>9, <1>10, BecomeFine
  <2> QED BY <2>1 DEF Fine
<1>11. CASE run.status \notin {"finalizing", "cancelling"}
  <2>1. v = w BY <1>4, <1>11 DEF OnFinalized
  <2> HIDE DEF v
  <2>2. Fine(World') BY <1>5, <1>9, <1>11, <2>1, PostFine
  <2> QED BY <2>2 DEF Fine
<1>12. CASE /\ run.status \in {"finalizing", "cancelling"}
            /\ ~(run.status = "cancelling" /\ Head(tasks.finals) # "cancelled")
  <2>1. Head(tasks.finals) = run.outcome
    BY <1>1, <1>6, <1>12 DEF Fine, Decided, FinalsOf
  <2>2. v \in WorldType BY <1>3, OnFinalizedType
  <2>3. v.run.status \in TerminalRun /\ v.inst = w.inst /\ v.timers = {}
    BY <1>3, <1>4, <1>12 DEF OnFinalized, WorldType, RunType, TerminalRun
  <2>9. run.outcome \in Outcome BY <1>2, <2>1
  <2>10. /\ v.run.status = v.run.outcome
         /\ v.run.outcome \in {run.outcome} \cup (IF run.outcome = "completed" THEN {"failed"} ELSE {})
    <3>1. CASE run.status = "cancelling"
      BY <1>3, <1>4, <1>12, <2>1, <3>1 DEF OnFinalized, WorldType, RunType
    <3>2. CASE run.status = "finalizing"
      <4>1. run.outcome \in {"completed", "failed"} BY <1>1, <3>2 DEF Fine, Decided, FinalsOf
      <4> QED BY <1>3, <1>4, <3>2, <4>1 DEF OnFinalized, WorldType, RunType
    <3> QED BY <1>12, <3>1, <3>2
  <2> HIDE DEF v
  <2>4. Ended(v) BY <1>9, <1>4, <1>12, <2>3 DEF Fine, Decided, Ended, Closing
  <2>5. Decided(v)
    BY <2>3, <2>4 DEF Decided, FinalsOf, Closing, TerminalRun
  <2>6. Settle(v) = {v} BY <2>3 DEF Settle, TerminalRun, RunLive
  <2>7. Become(v) BY <1>4, <1>5, <1>12, <2>6 DEF Post, TerminalRun
  <2>8. World' = v BY <2>2, <2>7 DEF Become, World, WorldType
  <2>11. Concludes BY <1>2, <1>12, <2>1, <2>7, <2>9, <2>10 DEF Concludes, Become
  <2> QED BY <2>2, <2>5, <2>8, <2>11
<1> QED BY <1>10, <1>11, <1>12

LEMMA ClaimFine == ASSUME Sound, NEW l \in launches, Claim(l) PROVE Fine(World')
<1> DEFINE s == l.st
           w == [World EXCEPT !.launches = launches \ {l}]
<1>1. World \in WorldType /\ Fine(World) BY WorldIsFine
<1>2. s \in Stages BY DEF Sound, TypeOK, LaunchType
<1>3. World' \in WorldType BY ClaimStep DEF Sound
<1>4. CASE inst[s].status = "ready"
  <2>1. run' = run /\ tasks' = tasks BY DEF Claim, Become, World
  <2> QED BY <1>2, <1>3, <1>4, <2>1, Worked DEF TerminalStage
<1>5. CASE inst[s].status # "ready"
  <2>1. w \in WorldType
    <3>1. launches \ {l} \in SUBSET LaunchType BY DEF Sound, TypeOK
    <3> QED BY <1>1, <3>1, NewLaunches
  <2>2. Become(w) BY <1>5 DEF Claim
  <2>3. Keeps(World, w) /\ w.inst = World.inst /\ w.timers = World.timers BY <1>1 DEF WorldType, Keeps
  <2> HIDE DEF w
  <2> QED BY <1>1, <2>1, <2>2, <2>3, Still, BecomeFine
<1> QED BY <1>4, <1>5

LEMMA FrameStepsFine ==
  ASSUME Sound, NEW s \in Stages,
         \/ SessionReady(s) \/ ToValidating(s) \/ BackToRunning(s)
         \/ \E gate \in {"turn", "review"} : Park(s, gate)
  PROVE  Fine(World')
<1>1. World' \in WorldType
  BY FrameSteps, ParkStep, StatesOfStages DEF Sound, SessionReady, ToValidating, BackToRunning
<1>2. run' = run /\ tasks' = tasks
  BY DEF SessionReady, ToValidating, BackToRunning, Step, Park, Become, World
<1>3. inst[s].status \in Attempt
  BY DEF SessionReady, ToValidating, BackToRunning, Step, Park, Attempt
<1> QED BY <1>1, <1>2, <1>3, Worked DEF Attempt, TerminalStage

LEMMA ResumedFine == ASSUME Sound, NEW s \in Stages, Resumed(s) PROVE Fine(World')
<1> DEFINE p == [World EXCEPT !.inst[s] = [@ EXCEPT !.status = "running", !.gate = None]]
           q == [p EXCEPT !.frames[s].at = "work"]
<1>1. World \in WorldType /\ Fine(World) /\ World.inst = inst BY WorldIsFine, WorldIsTyped DEF Sound
<1>2. Post(q, q) BY DEF Resumed
<1>3. p \in WorldType BY <1>1, GateType, StatesOfStages
<1>4. Keeps(World, q) BY <1>1 DEF WorldType, Keeps
<1>5. inst[s].status = "awaiting_input" BY DEF Resumed
<1>6. Undecided(World) BY <1>1, <1>5, OpenStage DEF TerminalStage
<1> HIDE DEF p
<1>7. q \in WorldType BY <1>3, FrameAtType
<1> HIDE DEF q
<1>8. Fine(q) BY <1>1, <1>4, <1>6, <1>7, Undone
<1> QED BY <1>2, <1>8, PostFine

LEMMA EndFine == ASSUME Sound, NEW s \in Stages, NEW ending \in Ending, End(s, ending) PROVE Fine(World')
<1> DEFINE w == [World EXCEPT !.frames[s] = NoFrame]
           v == OnAttemptSettled(w, s, frames[s].no, ending)
<1>1. World \in WorldType /\ Fine(World) BY WorldIsFine
<1>2. w \in WorldType
  <2>1. NoFrame \in FrameType BY DEF NoFrame, FrameType, None
  <2> QED BY <1>1, <2>1, NewFrameAt
<1>3. Keeps(World, w) /\ w.inst = World.inst /\ w.timers = World.timers BY <1>1 DEF WorldType, Keeps
<1>4. Post(w, v) BY DEF End
<1> HIDE DEF w
<1>5. Fine(w) BY <1>1, <1>2, <1>3, Still
<1>6. Fine(v) BY <1>2, <1>5, OnAttemptSettledFine
<1> HIDE DEF v
<1> QED BY <1>4, <1>5, <1>6, PostFine

LEMMA FireTimerFine == ASSUME Sound, NEW t \in timers, FireTimer(t) PROVE Fine(World')
<1> DEFINE w == [World EXCEPT !.timers = timers \ {t}]
<1>1. World \in WorldType /\ Fine(World) /\ World.timers = timers
  BY WorldIsFine, WorldIsTyped DEF Sound
<1>2. t \in TimerType /\ timers \ {t} \in SUBSET TimerType BY DEF Sound, TypeOK
<1>3. w \in WorldType BY <1>1, <1>2, NewTimers
<1>4. Keeps(World, w) /\ w.inst = World.inst /\ w.timers \subseteq World.timers
  BY <1>1 DEF WorldType, Keeps
<1>5. Post(w, OnTimer(w, t)) BY DEF FireTimer
<1> HIDE DEF w
<1>6. Fine(w) BY <1>1, <1>3, <1>4, Still
<1> QED BY <1>2, <1>3, <1>5, <1>6, OnTimerFine, PostFine

LEMMA LeaseExpireFine ==
  ASSUME Sound, NEW s \in Stages, NEW safe \in BOOLEAN, LeaseExpire(s, safe) PROVE Fine(World')
<1> DEFINE w == Abort(World, {s})
<1>1. World \in WorldType /\ Fine(World) BY WorldIsFine
<1>2. w \in WorldType BY <1>1, AbortType
<1>3. Keeps(World, w) /\ w.inst = World.inst /\ w.timers = World.timers BY <1>1, AbortKeeps
<1>4. Post(w, OnLeaseExpired(w, s, safe)) BY DEF LeaseExpire
<1> HIDE DEF w
<1>5. Fine(w) BY <1>1, <1>2, <1>3, Still
<1> QED BY <1>2, <1>4, <1>5, OnLeaseExpiredFine, PostFine

\* What a budget costs a run and a stage.
LEMMA OverFine ==
  ASSUME Sound, NEW b \in BOOLEAN PROVE Fine([World EXCEPT !.run.over = b])
<1> DEFINE r == [World EXCEPT !.run.over = b]
<1>1. World \in WorldType /\ Fine(World) BY WorldIsFine
<1>2. r \in WorldType BY <1>1, NewRunParts, StatesOfRuns
<1>3. Keeps(World, r) /\ r.inst = World.inst /\ r.timers = World.timers
  BY <1>1 DEF WorldType, RunType, Keeps
<1> HIDE DEF r
<1>4. Fine(r) BY <1>1, <1>2, <1>3, Still
<1> QED BY <1>4 DEF r

LEMMA BudgetFine ==
  ASSUME Sound, NEW s \in Stages, RunBudgetSpent(s) \/ StageBudgetSpent(s) PROVE Fine(World')
<1> DEFINE over == [World EXCEPT !.run.over = TRUE]
           a == ApplyFailure(Settled(World, s, TRUE), s, "fatal")
<1>1. World \in WorldType /\ Fine(World) /\ World.inst = inst BY WorldIsFine, WorldIsTyped DEF Sound
<1>2. CASE RunBudgetSpent(s)
  <2>1. Post(World, over) BY <1>2 DEF RunBudgetSpent
  <2> HIDE DEF over
  <2> QED BY <1>1, <2>1, OverFine, PostFine DEF over
<1>3. CASE StageBudgetSpent(s)
  <2>1. inst[s].status \in Attempt /\ Post(World, Abort(a, {s})) BY <1>3 DEF StageBudgetSpent
  <2>2. Undecided(World) BY <1>1, <2>1, OpenStage DEF Attempt, TerminalStage
  <2>3. Fine(a) BY <1>1, <2>2, SettledUndecided, MovedFine
  <2> HIDE DEF a
  <2>4. a \in WorldType BY <2>3 DEF Fine
  <2>5. Fine(Abort(a, {s})) BY <2>3, <2>4, AbortType, AbortKeeps, Still
  <2> QED BY <1>1, <2>1, <2>5, PostFine
<1> QED BY <1>2, <1>3

LEMMA CrashFine == ASSUME Sound, NEW lost, Crash(lost) PROVE Fine(World')
<1>1. World' \in WorldType BY CrashStep DEF Sound
<1>2. Fine(World) BY WorldIsFine
<1>3. /\ World'.run = run /\ World'.inst = inst /\ World'.timers \subseteq timers
      /\ World'.tasks.finals = <<>>
  BY DEF Crash, World
<1>4. World.run = run /\ World.inst = inst /\ World.timers = timers BY DEF World
<1> HIDE DEF World
<1> DEFINE v == World'
<1>5. v \in WorldType /\ v.run = World.run /\ v.inst = World.inst /\ v.timers \subseteq World.timers
      /\ v.tasks.finals = <<>> /\ run = World.run
  BY <1>1, <1>3, <1>4
<1> HIDE DEF v
<1>6. FinalsOf(v)
  <2>1. 1 .. Len(v.tasks.finals) = {} BY <1>5
  <2> QED BY <1>2, <1>5, <2>1 DEF FinalsOf, Fine, Decided
<1>7. Ended(World) => Ended(v) BY <1>5 DEF Ended
<1>8. Fine(v) BY <1>2, <1>5, <1>6, <1>7 DEF Fine, Decided, Follows
<1> QED BY <1>8 DEF v

LEMMA BootFine == ASSUME Sound, Boot PROVE Fine(World')
<1>1. Fine(World) /\ World' = World BY WorldIsFine DEF Boot, World
<1> QED BY <1>1

LEMMA RecoverAttemptFine ==
  ASSUME Sound, NEW s \in Stages, NEW safe \in BOOLEAN, RecoverAttempt(s, safe) PROVE Fine(World')
<1> DEFINE was == boot.snap[s]
           L == {IF l.st = s THEN [l EXCEPT !.tracked = FALSE] ELSE l : l \in launches}
                  \cup {[st |-> s, no |-> was.no, tracked |-> TRUE]}
           relaunched == [World EXCEPT !.launches = L]
           ended == OnAttemptSettled(World, s, was.no, IF safe THEN "interrupted" ELSE "unsafe")
           aborted == OnAttemptSettled(World, s, was.no, "aborted")
           lost == OnFrameLost(World, s, was.no)
<1>1. World \in WorldType /\ Fine(World) /\ World.launches = launches
  BY WorldIsFine, WorldIsTyped DEF Sound
<1>2. Fine(relaunched)
  <2>1. \A l \in LaunchType : [l EXCEPT !.tracked = FALSE] \in LaunchType BY DEF LaunchType
  <2>2. was \in InstanceType BY DEF Sound, TypeOK, BootType
  <2>3. [st |-> s, no |-> was.no, tracked |-> TRUE] \in LaunchType
    BY <2>2, InstanceParts DEF LaunchType
  <2> HIDE DEF was
  <2>4. L \in SUBSET LaunchType BY <2>1, <2>3 DEF Sound, TypeOK
  <2> HIDE DEF L
  <2>5. relaunched \in WorldType BY <1>1, <2>4, NewLaunches
  <2>6. Keeps(World, relaunched) /\ relaunched.inst = World.inst /\ relaunched.timers = World.timers
    BY <1>1 DEF WorldType, Keeps
  <2> HIDE DEF relaunched
  <2> QED BY <1>1, <2>5, <2>6, Still
<1>3. Fine(ended) /\ Fine(aborted) /\ Fine(lost)
  BY <1>1, OnAttemptSettledFine, OnFrameLostFine
<1>4. \/ Become(World) \/ Become(relaunched)
      \/ Post(World, ended) \/ Post(World, aborted) \/ Post(World, lost)
  BY DEF RecoverAttempt
<1> HIDE DEF relaunched, ended, aborted, lost
<1> QED BY <1>1, <1>2, <1>3, <1>4, BecomeFine, PostFine

LEMMA RecoverRetryFine == ASSUME Sound, NEW s \in Stages, RecoverRetry(s) PROVE Fine(World')
<1>1. World \in WorldType /\ Fine(World) BY WorldIsFine
<1>2. Become(World) \/ Post(World, OnTimer(World, Timer(s, "retry"))) BY DEF RecoverRetry
<1>3. Fine(OnTimer(World, Timer(s, "retry"))) BY <1>1, TimerInType, OnTimerFine
<1> QED BY <1>1, <1>2, <1>3, BecomeFine, PostFine

LEMMA RecoverRunFine == ASSUME Sound, RecoverRun PROVE Fine(World')
<1> DEFINE p == [World EXCEPT !.tasks.prepare = TRUE]
           f == Finalize(World)
<1>1. World \in WorldType /\ Fine(World) /\ World.run = run /\ World.tasks = tasks
  BY WorldIsFine, WorldIsTyped DEF Sound
<1>2. Fine(p)
  <2>1. p \in WorldType BY <1>1, NewPrepare
  <2>2. Keeps(World, p) /\ p.inst = World.inst /\ p.timers = World.timers
    BY <1>1 DEF WorldType, TaskType, Keeps
  <2> HIDE DEF p
  <2> QED BY <1>1, <2>1, <2>2, Still
<1>3. run.outcome # None /\ run.status \in {"finalizing", "cancelling"} => Fine(f)
  <2> SUFFICES ASSUME run.outcome # None, run.status \in {"finalizing", "cancelling"} PROVE Fine(f)
    OBVIOUS
  <2>1. run.outcome \in Outcome /\ tasks.finals \in Seq(Outcome) BY <1>1 DEF WorldType, RunType, TaskType
  <2>2. f \in WorldType BY <1>1, <2>1, FinalizeType
  <2>3. f.run = run /\ f.inst = World.inst /\ f.timers = World.timers
        /\ f.tasks.finals = Append(tasks.finals, run.outcome)
    BY <1>1 DEF Finalize, WorldType, TaskType
  <2> HIDE DEF f
  <2>4. \A i \in 1 .. Len(f.tasks.finals) :
          \/ f.tasks.finals[i] = run.outcome
          \/ \E j \in 1 .. Len(tasks.finals) : f.tasks.finals[i] = tasks.finals[j]
    BY <2>1, <2>3
  <2>5. FinalsOf(f) BY <1>1, <2>3, <2>4 DEF FinalsOf, Fine, Decided
  <2>6. Ended(f) /\ f.timers = {} BY <1>1, <2>3 DEF Fine, Decided, Ended, Closing
  <2>7. Follows(f) BY <2>3 DEF Follows, TerminalRun
  <2> QED BY <2>2, <2>3, <2>5, <2>6, <2>7 DEF Fine, Decided, Closing
<1>4. \/ Post(p, p) \/ Post(World, World)
      \/ run.outcome # None /\ run.status \in {"finalizing", "cancelling"} /\ Post(f, f)
  BY DEF RecoverRun
<1> HIDE DEF p, f
<1> QED BY <1>1, <1>2, <1>3, <1>4, PostFine

-----------------------------------------------------------------------------
(* The operator's commands.                                                     *)

LEMMA RunCommandsFine ==
  ASSUME Sound,
         \/ \E mode \in {"drain", "interrupt"} : PauseTheRun(mode)
         \/ ResumeTheRun \/ CancelTheRun \/ RaiseBudget
  PROVE  Fine(World')
<1> DEFINE r == [World EXCEPT !.run.over = FALSE]
<1>1. World \in WorldType /\ Fine(World) /\ Decided(World) /\ World.run = run
  BY WorldIsFine, WorldIsTyped DEF Sound
<1>2. run.status \in RunLive \cup {"paused"} => Undecided(World) BY <1>1, LiveIsUndecided
<1>3. ASSUME NEW mode \in {"drain", "interrupt"}, PauseTheRun(mode) PROVE Fine(World')
  <2>1. run.status \in RunLive /\ Post(World, PauseRun(World, mode, "user"))
    BY <1>3 DEF PauseTheRun, Command
  <2>2. Fine(PauseRun(World, mode, "user"))
    BY <1>1, <1>2, <2>1, PauseRunType, PauseRunUndecided, UndecidedIsFine
  <2> QED BY <1>1, <2>1, <2>2, PostFine
<1>4. ASSUME ResumeTheRun PROVE Fine(World')
  <2>1. run.status = "paused" /\ Post(World, ResumeRun(World)) BY <1>4 DEF ResumeTheRun, Command
  <2>2. Fine(ResumeRun(World)) BY <1>1, <1>2, <2>1, ResumeRunType, ResumeRunUndecided, UndecidedIsFine
  <2> QED BY <1>1, <2>1, <2>2, PostFine
<1>5. ASSUME CancelTheRun PROVE Fine(World')
  <2>1. run.status \notin {"cancelling"} \cup TerminalRun /\ Post(World, CancelRun(World))
    BY <1>5 DEF CancelTheRun, Command
  <2>2. Fine(CancelRun(World)) BY <1>1, <2>1, CancelRunFine
  <2> QED BY <1>1, <2>1, <2>2, PostFine
<1>6. ASSUME RaiseBudget PROVE Fine(World')
  <2>1. Post(World, r) \/ (run.status = "paused" /\ Post(World, ResumeRun(r)))
    BY <1>6 DEF RaiseBudget, Command
  <2>2. Fine(r) BY OverFine
  <2>3. Keeps(World, r) BY <1>1 DEF WorldType, RunType, Keeps
  <2> HIDE DEF r
  <2>4. run.status = "paused" => Fine(ResumeRun(r))
    <3>1. r \in WorldType BY <2>2 DEF Fine
    <3> QED BY <1>2, <2>3, <3>1, KeepsUndecided, ResumeRunType, ResumeRunUndecided, UndecidedIsFine
  <2> QED BY <1>1, <2>1, <2>2, <2>4, PostFine
<1> QED BY <1>3, <1>4, <1>5, <1>6

\* A command to an instance is refused once it ended: the run is undecided.
LEMMA OnUndecided ==
  ASSUME Sound, NEW s \in Stages, NEW name, NEW from, On(name, s, from),
         from \cap (TerminalStage \cup {"absent"}) = {}
  PROVE  Undecided(World) /\ World \in WorldType /\ Fine(World) /\ World.inst = inst
<1>1. World \in WorldType /\ Fine(World) /\ World.inst = inst BY WorldIsFine, WorldIsTyped DEF Sound
<1>2. inst[s].status \in from BY DEF On
<1> QED BY <1>1, <1>2, OpenStage

LEMMA PauseStageFine == ASSUME Sound, NEW s \in Stages, PauseStage(s) PROVE Fine(World')
<1> DEFINE reasons == [x \in Stages |-> PauseReason(inst[x], "user_paused")]
           p == Stop(World, {s}, "paused", reasons)
           v == WithTtl(p, s)
<1>1. Undecided(World) /\ World \in WorldType /\ Fine(World) /\ World.inst = inst
  BY OnUndecided DEF PauseStage, Attempt, TerminalStage
<1>2. reasons \in [Stages -> Reason]
  <2>1. \A x \in Stages : inst[x] \in InstanceType BY DEF Sound, TypeOK
  <2>2. \A x \in Stages : PauseReason(inst[x], "user_paused") \in Reason BY <2>1, PauseReasonType
  <2> QED BY <2>2
<1>3. Post(World, v) BY DEF PauseStage, Command
<1>4. {s} \in SUBSET Stages /\ "paused" \in StageState BY StatesOfStages
<1> HIDE DEF reasons
<1>5. p \in WorldType /\ Keeps(World, p) BY <1>1, <1>2, <1>4, StopType, StopKeeps
<1> HIDE DEF p
<1>6. v \in WorldType /\ Keeps(p, v) BY <1>5, WithTtlType, WithTtlKeeps
<1> HIDE DEF v
<1>7. Fine(v) BY <1>1, <1>5, <1>6, KeepsTrans, Undone
<1> QED BY <1>1, <1>3, <1>7, PostFine

LEMMA ResumeStageFine == ASSUME Sound, NEW s \in Stages, ResumeStage(s) PROVE Fine(World')
<1> DEFINE v == Unpause(World, {s}, IF inst[s].why.base = "run_paused" THEN "run_paused"
                                    ELSE "user_paused")
<1>1. Undecided(World) /\ World \in WorldType /\ Fine(World)
  BY OnUndecided DEF ResumeStage, TerminalStage
<1>2. Post(World, v) BY DEF ResumeStage, Command
<1>3. {s} \in SUBSET Stages OBVIOUS
<1>4. v \in WorldType /\ Keeps(World, v) BY <1>1, <1>3, UnpauseType, UnpauseKeeps
<1> HIDE DEF v
<1> QED BY <1>1, <1>2, <1>4, Undone, PostFine

LEMMA RetryStageFine ==
  ASSUME Sound, NEW s \in Stages, NEW mode \in RetryMode, RetryStage(s, mode) PROVE Fine(World')
<1> DEFINE T == timers \ {Timer(s, "pause_ttl")}
           v == [World EXCEPT !.inst[s] = [@ EXCEPT !.status = "ready", !.why = RetryIn(mode)],
                              !.owed[s] = mode, !.timers = T]
<1>1. Undecided(World) /\ World \in WorldType /\ Fine(World)
  BY OnUndecided DEF RetryStage, TerminalStage
<1>2. T \in SUBSET TimerType BY DEF Sound, TypeOK
<1>3. Post(World, v) BY DEF RetryStage, Command
<1> HIDE DEF T
<1>4. v \in WorldType BY <1>1, <1>2, RetriedType
<1>5. Keeps(World, v) BY <1>1 DEF WorldType, Keeps
<1> HIDE DEF v
<1> QED BY <1>1, <1>3, <1>4, <1>5, Undone, PostFine

LEMMA SkipStageFine ==
  ASSUME Sound, NEW s \in Stages, NEW as \in {"completed", "skipped"}, SkipStage(s, as)
  PROVE  Fine(World')
<1> DEFINE p == Stop(World, {s}, "skipped", AllBecause(None))
           v == [p EXCEPT !.inst[s].as = as]
<1>1. Undecided(World) /\ World \in WorldType /\ Fine(World)
  BY OnUndecided DEF SkipStage, TerminalStage
<1>2. Post(World, v) BY DEF SkipStage, Command
<1>3. v \in WorldType BY <1>1, SkippedType
<1>4. p \in WorldType /\ Keeps(World, p)
  <2>1. {s} \in SUBSET Stages /\ "skipped" \in StageState BY StatesOfStages
  <2>2. AllBecause(None) \in [Stages -> Reason] BY AllBecauseType
  <2> QED BY <1>1, <2>1, <2>2, StopType, StopKeeps
<1> HIDE DEF p
<1>5. Keeps(p, v) BY <1>4 DEF WorldType, Keeps
<1> HIDE DEF v
<1> QED BY <1>1, <1>2, <1>3, <1>4, <1>5, KeepsTrans, Undone, PostFine

LEMMA EndingCommandsFine ==
  ASSUME Sound, NEW s \in Stages, FailStage(s) \/ CancelStage(s) \/ Reject(s)
  PROVE  Fine(World')
<1> DEFINE a == Settled(World, s, TRUE)
           rejected == Fail(a, s)
<1>1. Undecided(World) /\ World \in WorldType /\ Fine(World)
  BY OnUndecided DEF FailStage, CancelStage, Reject, TerminalStage
<1>2. Fine(Fail(World, s)) BY <1>1, MovedFine
<1>3. Fine(Cancel(World, {s}))
  <2>1. {s} \in SUBSET Stages OBVIOUS
  <2> QED BY <1>1, <2>1, CancelKeeps, Undone
<1>4. a \in WorldType /\ Undecided(a) BY <1>1, SettledUndecided
<1> HIDE DEF a
<1>5. Fine(rejected) BY <1>4, MovedFine
<1>6. \/ Post(World, Fail(World, s)) \/ Post(World, Cancel(World, {s}))
      \/ Post(World, rejected) \/ Post(World, Abort(rejected, {s}))
  BY DEF FailStage, CancelStage, Reject, Command, a
<1> HIDE DEF rejected
<1>7. rejected \in WorldType BY <1>5 DEF Fine
<1>8. Fine(Abort(rejected, {s})) BY <1>5, <1>7, AbortType, AbortKeeps, Still
<1> QED BY <1>1, <1>2, <1>3, <1>5, <1>6, <1>8, PostFine

LEMMA ApproveFine == ASSUME Sound, NEW s \in Stages, Approve(s) PROVE Fine(World')
<1> DEFINE told == [World EXCEPT !.frames[s].at = "answered"]
           lost == OnFrameLost(World, s, inst[s].no)
           again == [lost EXCEPT !.inst[s] = [@ EXCEPT !.status = "ready", !.gate = None,
                                                       !.why = Because("resume")]]
<1>1. Undecided(World) /\ World \in WorldType /\ Fine(World) BY OnUndecided DEF Approve, TerminalStage
<1>2. Fine(told)
  <2>1. told \in WorldType BY <1>1, FrameAtType
  <2>2. Keeps(World, told) BY <1>1 DEF WorldType, Keeps
  <2> HIDE DEF told
  <2> QED BY <1>1, <2>1, <2>2, Undone
<1>3. Fine(lost) BY <1>1, OnFrameLostFine
<1>4. Keeps(World, lost)
  <2>1. Settled(World, s, FALSE) \in WorldType /\ Keeps(World, Settled(World, s, FALSE))
    BY <1>1, SettledType, SettledKeeps
  <2>2. Keeps(World, Halt(Settled(World, s, FALSE), s)) BY <2>1, StageKeeps, KeepsTrans
  <2>3. Keeps(World, World) BY DEF Keeps
  <2> QED BY <2>1, <2>2, <2>3 DEF OnFrameLost
<1>5. Post(World, told) \/ Post(World, World) \/ Post(World, lost) \/ Post(World, again)
  BY DEF Approve, Command
<1> HIDE DEF lost, told
<1>6. Fine(again)
  <2>1. lost \in WorldType BY <1>3 DEF Fine
  <2>2. again \in WorldType BY <2>1, ApprovedType
  <2>3. Keeps(lost, again) BY <2>1 DEF WorldType, Keeps
  <2>4. Undecided(lost) BY <1>1, <1>4, KeepsUndecided
  <2> HIDE DEF again
  <2> QED BY <2>1, <2>2, <2>3, <2>4, Undone
<1> HIDE DEF again
<1> QED BY <1>1, <1>2, <1>3, <1>5, <1>6, PostFine

-----------------------------------------------------------------------------
(* The specification.                                                           *)

\* Every step but the end of a finalize leaves a sound world that follows.
LEMMA StepFine ==
  ASSUME Sound, Next, \A ok \in BOOLEAN : ~FinalizeDone(ok) PROVE Fine(World')
<1>1. CASE Engine
  BY <1>1, StartFine, BootFine, RecoverRunFine, PrepareDoneFine, ClaimFine, FireTimerFine,
     FrameStepsFine, ResumedFine, RecoverRetryFine, EndFine, RecoverAttemptFine DEF Engine
<1>2. CASE Faults BY <1>2, CrashFine, BudgetFine, LeaseExpireFine DEF Faults
<1>3. CASE Operators
  BY <1>3, RunCommandsFine, PauseStageFine, ResumeStageFine, RetryStageFine, SkipStageFine,
     EndingCommandsFine, ApproveFine DEF Operators
<1> QED BY <1>1, <1>2, <1>3 DEF Next

LEMMA InitSound == Init => Sound
<1>1. Init => TypeOK
  BY BootTypes DEF Init, TypeOK, RunType, RunState, Idle, NoInstance, InstanceType, StageState,
     Because, Reason, NoFrame, FrameType, TaskType, None
<1>2. Init => Decided(World)
  BY DEF Init, Decided, FinalsOf, World, Closing, TerminalRun, Idle, NoInstance
<1> QED BY <1>1, <1>2 DEF Sound

LEMMA DecidedStep == Sound /\ [Next]_vars => Decided(World')
<1> SUFFICES ASSUME Sound, [Next]_vars PROVE Decided(World') OBVIOUS
<1>1. CASE UNCHANGED vars
  <2>1. World' = World BY <1>1 DEF vars, World
  <2> QED BY <2>1 DEF Sound
<1>2. CASE Next /\ \A ok \in BOOLEAN : ~FinalizeDone(ok) BY <1>2, StepFine DEF Fine
<1>3. CASE \E ok \in BOOLEAN : FinalizeDone(ok) BY <1>3, FinalizeDoneFine
<1> QED BY <1>1, <1>2, <1>3

LEMMA SoundAlways == Spec => []Sound
<1>1. TypeOK /\ TypeOK' /\ Sound /\ [Next]_vars => Sound'
  <2>1. Decided(World') <=> Decided(World)' OBVIOUS
  <2> QED BY <2>1, DecidedStep DEF Sound
<1>2. Spec => [][Next]_vars /\ Init BY DEF Spec
<1> QED BY <1>1, <1>2, InitSound, TypeCorrect, PTL

\* A decided run is over for its stages (settle, cancelWholeRun): every one has
\* ended, and no timer is left that could wake one.
THEOREM DecidedStays == Spec => []DecidedIsDecided
<1>1. Sound => DecidedIsDecided
  BY WorldIsTyped DEF Sound, Decided, Ended, DecidedIsDecided
<1> QED BY <1>1, SoundAlways, PTL

\* A run becomes terminal by the finalize of its own outcome (finalizeNow,
\* onFinalized), however cancels and crashes come between.
THEOREM EndsByItsOwn == Spec => FinalizedByItsOwn
<1> DEFINE Own == run'.status \in TerminalRun /\ run.status \notin TerminalRun =>
                    tasks.finals # <<>> /\ Head(tasks.finals) = run.outcome
<1>1. Sound /\ [Next]_vars => [Own]_vars
  <2> SUFFICES ASSUME Sound, Next PROVE Own OBVIOUS
  <2>1. CASE \A ok \in BOOLEAN : ~FinalizeDone(ok)
    <3>1. Fine(World') BY <2>1, StepFine
    <3> QED BY <3>1 DEF Fine, Follows, World
  <2>2. CASE \E ok \in BOOLEAN : FinalizeDone(ok)
    <3>1. Follows(World') \/ Concludes BY <2>2, FinalizeDoneFine
    <3> QED BY <3>1 DEF Follows, Concludes, World
  <2> QED BY <2>1, <2>2
<1> QED BY <1>1, SoundAlways, PTL DEF Spec, FinalizedByItsOwn

-----------------------------------------------------------------------------
(* The scheduler implements RunOutcome: the steps of a sound world, read in the *)
(* abstract state.                                                              *)

\* What a sound world says of the abstract state.
Readable ==
  /\ run.outcome \in Outcome \cup {None}
  /\ run.status \in Closing => Busy = {}
  /\ run.status \notin Closing => run.outcome = None

LEMMA SoundIsReadable == Sound => Readable
<1> SUFFICES ASSUME Sound PROVE Readable OBVIOUS
<1>1. run.outcome \in Outcome \cup {None} BY DEF Sound, TypeOK, RunType
<1>2. Decided(World) /\ World.run = run /\ World.inst = inst BY WorldIsTyped DEF Sound
<1> QED BY <1>1, <1>2 DEF Decided, Ended, Busy, Readable

LEMMA Reads == Sound /\ Sound' => Readable /\ Readable'
BY SoundIsReadable, PTL

\* A step that leaves a sound world which follows is a Work, a Close, a Cancel or
\* a stutter.
LEMMA FollowingStep ==
  ASSUME Sound, Sound', Follows(World') PROVE [Promise!Next]_(Promise!vars)
<1>1. Busy' \in SUBSET Stages BY DEF Busy
<1>2. run'.outcome \in Outcome \cup {None} /\ run.outcome \in Outcome \cup {None}
  BY Reads DEF Readable
<1>3. run'.status \in Closing => Busy' = {} BY Reads DEF Readable
<1>4. run.status \in Closing => Busy = {} BY Reads DEF Readable
<1>5. /\ run'.status \in TerminalRun => run.status \in TerminalRun
      /\ run.status \in TerminalRun => run'.status = run.status /\ run'.outcome = run.outcome
      /\ run.status \in {"finalizing", "cancelling"} =>
           run'.status \in {"finalizing", "cancelling"} /\ run'.outcome \in {run.outcome, "cancelled"}
  BY DEF Follows, World
<1>6. CASE run.status \in TerminalRun
  <2>1. Phase' = Phase /\ run'.outcome = run.outcome /\ Busy' = Busy
    BY <1>3, <1>4, <1>5, <1>6 DEF Phase, Closing
  <2> QED BY <2>1 DEF Promise!vars, Phase, Busy
<1>7. CASE run.status \in {"finalizing", "cancelling"}
  <2>1. Phase = "closing" /\ Phase' = "closing" /\ Busy' = Busy
    BY <1>3, <1>4, <1>5, <1>7 DEF Phase, Closing, TerminalRun
  <2>2. CASE run'.outcome = run.outcome
    BY <2>1, <2>2 DEF Promise!vars, Phase, Busy
  <2>3. CASE run'.outcome = "cancelled"
    BY <2>1, <2>3 DEF Promise!Next, Promise!Cancel, Phase, Busy
  <2> QED BY <1>5, <1>7, <2>2, <2>3
<1>8. CASE run.status \notin Closing
  <2>1. Phase = "open" /\ run.outcome = None
    BY <1>8, Reads DEF Readable, Phase, Closing
  <2>2. CASE run'.status \notin Closing
    <3>1. Phase' = "open" /\ run'.outcome = None
      BY <2>2, Reads DEF Readable, Phase, Closing
    <3> QED BY <1>1, <2>1, <3>1 DEF Promise!Next, Promise!Work, Phase, Busy
  <2>3. CASE run'.status \in Closing
    <3>1. Phase' = "closing" /\ Busy' = {}
      BY <1>3, <1>5, <1>8, <2>3 DEF Phase, Closing
    <3>2. run'.outcome \in Promise!Verdict \cup {Promise!Unknown}
      BY <1>2 DEF Promise!Verdict, Promise!Unknown, Outcome, None
    <3> QED BY <2>1, <3>1, <3>2 DEF Promise!Next, Promise!Close, Phase, Busy
  <2> QED BY <2>2, <2>3
<1> QED BY <1>6, <1>7, <1>8 DEF Closing

\* The end of a finalize is the End of the run.
LEMMA ConcludingStep ==
  ASSUME Sound, Sound', Concludes PROVE Promise!Next
<1>1. run'.status \in TerminalRun BY DEF Concludes, Outcome, TerminalRun
<1>2. Phase = "closing" /\ Phase' = run'.outcome
  BY <1>1 DEF Concludes, Phase, TerminalRun
<1>3. Busy' = Busy BY <1>1, Reads DEF Readable, Concludes, Closing
<1>4. run.outcome # Promise!Unknown BY DEF Concludes, Outcome, Promise!Unknown
<1> QED BY <1>2, <1>3, <1>4 DEF Concludes, Promise!Next, Promise!End, Phase, Busy

\* The run keeps its promise (settle, cancelWholeRun, onFinalized): it closes with
\* no stage left at work, its verdict is changed by nothing but a cancel or a failed
\* post-processing, and the end is final.
THEOREM PromiseKept == Spec => KeepsPromise
<1>1. Init => Promise!Init
  BY DEF Init, Phase, Busy, Idle, NoInstance, TerminalRun, None, Promise!Init, Promise!Unknown
<1>2. Sound /\ Sound' /\ [Next]_vars => [Promise!Next]_(Promise!vars)
  <2> SUFFICES ASSUME Sound, Sound', [Next]_vars PROVE [Promise!Next]_(Promise!vars) OBVIOUS
  <2>1. CASE UNCHANGED vars BY <2>1 DEF vars, Phase, Busy, Promise!vars
  <2>2. CASE Next /\ \A ok \in BOOLEAN : ~FinalizeDone(ok)
    <3>1. Follows(World') BY <2>2, StepFine DEF Fine
    <3> QED BY <3>1, FollowingStep
  <2>3. CASE \E ok \in BOOLEAN : FinalizeDone(ok)
    <3>1. Follows(World') \/ Concludes BY <2>3, FinalizeDoneFine
    <3> QED BY <3>1, FollowingStep, ConcludingStep
  <2> QED BY <2>1, <2>2, <2>3
<1> QED BY <1>1, <1>2, SoundAlways, PTL DEF Spec, KeepsPromise, Promise!Spec

=============================================================================
