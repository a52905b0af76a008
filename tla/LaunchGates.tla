---------------------------- MODULE LaunchGates ----------------------------
(* Who takes the leases of a run's mounts and the flow keys of the process, in *)
(* which order, and gives them back: launches (EffectsDispatcher), the frames   *)
(* they start (StageExecutor), the merges of isolated stages (StageIsolation),  *)
(* maps (MapEffects), stages whose child run writes their mounts                *)
(* (SubworkflowEffects) and the turns of chats.  The run around them is reduced *)
(* to what starts and stops a stage; RunScheduler has the rest.                 *)
EXTENDS WorktreeLeases, FlowKeys

CONSTANTS
  Stages,     \* stages that are launched
  Maps,       \* maps whose items work in worktrees of their own
  Chats,      \* callers of one turn: persons
  Style,      \* of each stage: "writer", "isolated" (it merges at its end), "inherit"
  Mounts,     \* the mounts of each stage and map
  FlowsOf,    \* the flow keys of each stage and chat
  Kept,       \* the flow keys a frame keeps while a gate inside a turn waits
  MaxNo,      \* attempts of a stage
  MaxOps,     \* pauses, and changes of the limits
  MaxCrashes

None == "none"
Launch == Stages \X (1..MaxNo)
WriteOf(l) == <<"write", l>>
MergeOf(a) == <<"exclusive", a>>
SnapshotOf(m) == <<"shared", m>>
Owners == Stages \cup Maps

ASSUME GatesAssumption ==
  /\ Stages \cap Maps = {} /\ None \notin Stages
  /\ Style \in [Stages -> {"writer", "isolated", "inherit"}]
  /\ Mounts \in [Owners -> SUBSET Mount]
  /\ FlowsOf \in [Stages \cup Chats -> SUBSET Flow] /\ Kept \subseteq Flow
  /\ MaxNo \in Nat /\ MaxOps \in Nat /\ MaxCrashes \in Nat
  /\ Holder = Owners /\ Caller = Launch \cup Chats /\ Launch \cap Chats = {}
  /\ Request = {WriteOf(l) : l \in Launch} \cup {MergeOf(a) : a \in Owners}
                 \cup {SnapshotOf(m) : m \in Maps}

VARIABLES
  stage,      \* status, attempt number and whether the attempt is not settled
  timers,     \* the stages whose queue_timeout is armed
  queued,     \* the dispatcher's entry of a stage: the number of its launch, or 0
  dropped,    \* launches whose entry was dropped
  at,         \* where each launch is
  held,       \* the flow keys of its ticket
  stopped,    \* frames that were told to stop
  map,        \* the phase of each map
  snap,       \* its snapshot effect
  merge,      \* its merge effect
  chat,       \* the turn of each chat
  ops, crashes

runVars == <<stage, timers, ops, crashes>>
launchVars == <<queued, dropped, at, held, stopped>>
mapVars == <<map, snap, merge>>
vars == <<leaseVars, flowVars, runVars, launchVars, mapVars, chat>>

InFrame == {"regaining", "working", "parked", "resuming", "merging", "applying", "merged"}

Init ==
  /\ LeasesInit /\ FlowsInit
  /\ stage = [s \in Stages |-> [status |-> "ready", no |-> 0, live |-> FALSE]]
  /\ timers = {} /\ ops = 0 /\ crashes = 0
  /\ queued = [s \in Stages |-> 0] /\ dropped = {} /\ stopped = {}
  /\ at = [l \in Launch |-> None] /\ held = [l \in Launch |-> {}]
  /\ map = [m \in Maps |-> "pending"]
  /\ snap = [m \in Maps |-> None] /\ merge = [m \in Maps |-> None]
  /\ chat = [c \in Chats |-> "idle"]

FramesOf(s) == {l \in Launch : l[1] = s /\ at[l] \in InFrame}
Writes(s) == Style[s] # "isolated"
Entry(l) == queued[l[1]] = l[2]
Forget(l) == IF Entry(l) THEN [queued EXCEPT ![l[1]] = 0] ELSE queued
GoesTo(l, where) == at' = [at EXCEPT ![l] = where]

-----------------------------------------------------------------------------
(* A launch (EffectsDispatcher.launch, StageExecutor.start).                    *)

\* Mutant: the launch is entered under the number of the next attempt.
AdmitAhead(s) ==
  LET l == <<s, stage[s].no + 1>>
  IN /\ stage[s].status = "ready" /\ ~stage[s].live /\ l \in Launch
     /\ stage' = [stage EXCEPT ![s].no = @ + 1, ![s].live = TRUE]
     /\ timers' = timers \cup {s} /\ queued' = [queued EXCEPT ![s] = l[2] + 1]
     /\ GoesTo(l, "launched")
     /\ UNCHANGED <<leaseVars, flowVars, dropped, held, stopped, mapVars, chat, ops, crashes>>

\* The actor admits a ready stage: an attempt, its queue timeout, its launch.
Admit(s) ==
  LET l == <<s, stage[s].no + 1>>
  IN /\ stage[s].status = "ready" /\ ~stage[s].live /\ l \in Launch
     /\ stage' = [stage EXCEPT ![s].no = @ + 1, ![s].live = TRUE]
     /\ timers' = IF Style[s] = "inherit" THEN timers ELSE timers \cup {s}
     /\ queued' = IF Style[s] = "inherit" THEN queued ELSE [queued EXCEPT ![s] = l[2]]
     /\ GoesTo(l, "launched")
     /\ UNCHANGED <<leaseVars, flowVars, dropped, held, stopped, mapVars, chat, ops, crashes>>

\* The lease is asked for before the flow keys: only who may write waits for one.
AskLease(l) ==
  LET s == l[1]
  IN /\ at[l] = "launched"
     /\ \/ /\ l \notin dropped /\ Writes(s) /\ Mounts[s] # {}
           /\ Acquire(WriteOf(l), s, "write", Mounts[s]) /\ GoesTo(l, "leasing")
           /\ UNCHANGED <<queued, dropped>>
        \/ /\ l \notin dropped /\ ~(Writes(s) /\ Mounts[s] # {})
           /\ GoesTo(l, "admitting") /\ UNCHANGED <<leaseVars, queued, dropped>>
        \/ /\ l \in dropped /\ dropped' = dropped \ {l} /\ queued' = Forget(l)
           /\ GoesTo(l, "over") /\ UNCHANGED leaseVars
     /\ UNCHANGED <<flowVars, runVars, held, stopped, mapVars, chat>>

\* Mutant: nobody waits for the lease.
HasLeaseUnawaited(l) ==
  /\ at[l] = "leasing" /\ lease[WriteOf(l)] \in {"waiting", "granted"}
  /\ GoesTo(l, "admitting") /\ UNCHANGED leaseVars
  /\ UNCHANGED <<flowVars, runVars, queued, dropped, held, stopped, mapVars, chat>>

HasLease(l) ==
  /\ at[l] = "leasing" /\ LeaseSettled(WriteOf(l), "granted")
  /\ GoesTo(l, "admitting")
  /\ UNCHANGED <<flowVars, runVars, queued, dropped, held, stopped, mapVars, chat>>

\* The request was withdrawn: by its abort, or by a release of its stage's lease.
LeaseRefused(l) ==
  /\ at[l] = "leasing" /\ LeaseSettled(WriteOf(l), "rejected")
  /\ queued' = Forget(l) /\ dropped' = dropped \ {l} /\ GoesTo(l, "over")
  /\ UNCHANGED <<flowVars, runVars, held, stopped, mapVars, chat>>

\* An inherit stage has no frame: it starts its child run, which writes the
\* stage's mounts until it settles.
StartChild(l) ==
  /\ at[l] = "admitting" /\ Style[l[1]] = "inherit"
  /\ stage' = [stage EXCEPT ![l[1]].status = "running"] /\ GoesTo(l, "working")
  /\ UNCHANGED <<leaseVars, flowVars, timers, ops, crashes, queued, dropped, held, stopped,
                 mapVars, chat>>

\* After a restart the child works on, and its stage asks for the lease again:
\* nobody waits for it.  The child settles only after longer awaits than these.
Reacquire(l) ==
  /\ at[l] = "regaining"
  /\ Acquire(WriteOf(l), l[1], "write", Mounts[l[1]]) /\ GoesTo(l, "working")
  /\ UNCHANGED <<flowVars, runVars, queued, dropped, held, stopped, mapVars, chat>>

AskPermit(l) ==
  /\ at[l] = "admitting" /\ Style[l[1]] # "inherit" /\ l \notin dropped
  /\ WaitFlows(l, FlowsOf[l[1]], FALSE) /\ GoesTo(l, "queued")
  /\ UNCHANGED <<leaseVars, runVars, queued, dropped, held, stopped, mapVars, chat>>

\* Mutant: a launch that ends without a frame keeps its stage's lease.
GivesKeysBack(l, keys) ==
  /\ Untake(l, keys, None) /\ UNCHANGED leaseVars
  /\ held' = [held EXCEPT ![l] = {}] /\ stopped' = stopped \ {l} /\ dropped' = dropped \ {l}
  /\ GoesTo(l, "over")

\* What the end of a launch gives back: its flow keys, then its stage's lease.
GivesBack(l, keys) ==
  /\ Untake(l, keys, None)
  /\ IF Writes(l[1]) THEN Release(l[1], "write", Mounts[l[1]]) ELSE UNCHANGED leaseVars
  /\ held' = [held EXCEPT ![l] = {}] /\ stopped' = stopped \ {l} /\ dropped' = dropped \ {l}
  /\ GoesTo(l, "over")

\* The executor takes the launch: nobody works on the stage, and it is ready.
Claims(l) == l \notin dropped /\ FramesOf(l[1]) = {} /\ stage[l[1]].status = "ready"

Claim(l) ==
  /\ at[l] = "queued" /\ PermitSettled(l, "granted") /\ Claims(l)
  /\ stage' = [stage EXCEPT ![l[1]].status = "running"]
  /\ timers' = timers \ {l[1]} /\ queued' = Forget(l)
  /\ held' = [held EXCEPT ![l] = FlowsOf[l[1]]] /\ GoesTo(l, "working")
  /\ UNCHANGED <<leaseVars, ops, crashes, dropped, stopped, mapVars, chat>>

\* It was dropped, withdrawn, a duplicate, or its stage is not ready any more.
NotClaimed(l) ==
  /\ \/ at[l] = "admitting" /\ l \in dropped /\ GivesBack(l, {})
     \/ at[l] = "queued" /\ permit[l] = "withdrawn" /\ GivesBack(l, {})
     \/ at[l] = "queued" /\ permit[l] = "granted" /\ ~Claims(l) /\ GivesBack(l, FlowsOf[l[1]])
  /\ queued' = Forget(l)
  /\ UNCHANGED <<runVars, mapVars, chat>>

-----------------------------------------------------------------------------
(* A frame (StageExecutor): it holds its keys and its lease while it works.     *)

\* parkFrame: a gate inside a turn keeps the provider's key.
Park(l) ==
  /\ at[l] = "working" /\ Style[l[1]] # "inherit" /\ l \notin stopped
  /\ \E keep \in {{}, Kept} :
       /\ Untake(l, held[l] \ keep, None)
       /\ held' = [held EXCEPT ![l] = @ \cap keep]
  /\ GoesTo(l, "parked")
  /\ UNCHANGED <<leaseVars, runVars, queued, dropped, stopped, mapVars, chat>>

\* The answer comes: the frame asks for the keys it gave away.
Answer(l) ==
  /\ at[l] = "parked" /\ l \notin stopped
  /\ WaitFlows(l, FlowsOf[l[1]] \ held[l], FALSE) /\ GoesTo(l, "resuming")
  /\ UNCHANGED <<leaseVars, runVars, queued, dropped, held, stopped, mapVars, chat>>

Resumed(l) ==
  /\ at[l] = "resuming" /\ PermitSettled(l, "granted")
  /\ held' = [held EXCEPT ![l] = FlowsOf[l[1]]] /\ GoesTo(l, "working")
  /\ UNCHANGED <<leaseVars, runVars, queued, dropped, stopped, mapVars, chat>>

\* mergeIsolated: the mounts are asked for with the flow keys still held.
AskMerge(l) ==
  /\ at[l] = "working" /\ Style[l[1]] = "isolated" /\ l \notin stopped
  /\ Acquire(MergeOf(l[1]), l[1], "exclusive", Mounts[l[1]]) /\ GoesTo(l, "merging")
  /\ UNCHANGED <<flowVars, runVars, queued, dropped, held, stopped, mapVars, chat>>

Merge(l) ==
  /\ at[l] = "merging" /\ LeaseSettled(MergeOf(l[1]), "granted") /\ GoesTo(l, "applying")
  /\ UNCHANGED <<flowVars, runVars, queued, dropped, held, stopped, mapVars, chat>>

\* A conflict is the agent's next turn.
Merged(l) ==
  /\ at[l] = "applying" /\ Release(l[1], "exclusive", Mounts[l[1]])
  /\ \E next \in {"merged", "working"} : GoesTo(l, next)
  /\ UNCHANGED <<flowVars, runVars, queued, dropped, held, stopped, mapVars, chat>>

\* The frame ends and reports.  The launch the report may cause asks for its
\* lease only after awaits of its own, so what this one gives back is one step.
Ends(l) ==
  \/ at[l] \in {"working", "merged"}
  \/ at[l] = "parked" /\ l \in stopped
  \/ at[l] = "resuming" /\ permit[l] = "withdrawn"

End(l) ==
  LET s == l[1]
      mine == stage[s].no = l[2]
  IN /\ Ends(l) /\ GivesBack(l, held[l])
     /\ stage' = [stage EXCEPT ![s].live = @ /\ ~mine,
                               ![s].status = IF mine /\ @ = "running" THEN "done" ELSE @]
     /\ UNCHANGED <<timers, ops, crashes, queued, mapVars, chat>>

-----------------------------------------------------------------------------
(* What stops a stage.                                                          *)

\* The abort effect: a queued launch is dropped and leaves both queues, else
\* the frame is told to stop.
Abort(s) ==
  LET l == <<s, stage[s].no>>
      Dropped == IF queued[s] = stage[s].no THEN {l} ELSE {}
      Told == IF Dropped = {} THEN FramesOf(s) ELSE {}
  IN IF ~stage[s].live THEN UNCHANGED <<leaseVars, flowVars, dropped, stopped>>
     ELSE /\ dropped' = dropped \cup Dropped
          /\ stopped' = stopped \cup Told
          /\ IF Dropped # {} THEN Withdraw(WriteOf(l)) ELSE UNCHANGED leaseVars
          /\ IF Dropped # {} THEN WithdrawFlow(l)
             ELSE IF \E f \in Told : permit[f] = "waiting"
               THEN \E f \in Told : permit[f] = "waiting" /\ WithdrawFlow(f)
             ELSE UNCHANGED flowVars

\* stopInstance: an attempt nobody has claimed is settled with the stage.
StopStage(s, to) ==
  /\ Abort(s)
  /\ stage' = [stage EXCEPT ![s].status = to, ![s].live = @ /\ stage[s].status # "ready"]
  /\ timers' = timers \ {s}

Pause(s) ==
  /\ ops < MaxOps /\ ops' = ops + 1
  /\ stage[s].status \in {"ready", "running"} /\ Style[s] # "inherit"
  /\ StopStage(s, "paused")
  /\ UNCHANGED <<crashes, queued, at, held, mapVars, chat>>

Resume(s) ==
  /\ stage[s].status = "paused"
  /\ stage' = [stage EXCEPT ![s].status = "ready"]
  /\ UNCHANGED <<leaseVars, flowVars, timers, ops, crashes, launchVars, mapVars, chat>>

\* queue_timeout: dropped for good while a launch of the stage waits for a lease.
Timeout(s) ==
  /\ s \in timers
  /\ IF stage[s].status = "ready" /\ stage[s].live /\ \A n \in 1..MaxNo : lease[WriteOf(<<s, n>>)] # "waiting"
       THEN StopStage(s, "done")
       ELSE timers' = timers \ {s} /\ UNCHANGED <<leaseVars, flowVars, stage, dropped, stopped>>
  /\ UNCHANGED <<ops, crashes, queued, at, held, mapVars, chat>>

-----------------------------------------------------------------------------
(* Maps (MapEffects; startMap, onMapSnapshotTaken).                             *)

MapStart(m) ==
  /\ map[m] = "pending"
  /\ map' = [map EXCEPT ![m] = "snapshotting"] /\ snap' = [snap EXCEPT ![m] = "asked"]
  /\ UNCHANGED <<leaseVars, flowVars, runVars, launchVars, merge, chat>>

AskSnapshot(m) ==
  /\ snap[m] = "asked"
  /\ Acquire(SnapshotOf(m), m, "shared", Mounts[m]) /\ snap' = [snap EXCEPT ![m] = "waiting"]
  /\ UNCHANGED <<flowVars, runVars, launchVars, map, merge, chat>>

TakeSnapshot(m) ==
  /\ snap[m] = "waiting"
  /\ \/ LeaseSettled(SnapshotOf(m), "granted") /\ snap' = [snap EXCEPT ![m] = "taking"]
     \/ LeaseSettled(SnapshotOf(m), "rejected") /\ snap' = [snap EXCEPT ![m] = None]
  /\ UNCHANGED <<flowVars, runVars, launchVars, map, merge, chat>>

\* It is reported, or failed: the lease goes unless the map runs on it.
SnapshotTaken(m) ==
  /\ snap[m] = "taking" /\ snap' = [snap EXCEPT ![m] = None]
  /\ \/ /\ map[m] = "snapshotting" /\ map' = [map EXCEPT ![m] = "running"]
        /\ UNCHANGED leaseVars
     \/ /\ map' = [map EXCEPT ![m] = "settled"]
        /\ Release(m, "shared", Mounts[m])
  /\ UNCHANGED <<flowVars, runVars, launchVars, merge, chat>>

\* An item of a running map ended, or recovery asks again.
AskMapMerge(m) ==
  /\ merge[m] = "asked" \/ (map[m] = "running" /\ merge[m] = None)
  /\ Acquire(MergeOf(m), m, "exclusive", Mounts[m]) /\ merge' = [merge EXCEPT ![m] = "waiting"]
  /\ UNCHANGED <<flowVars, runVars, launchVars, map, snap, chat>>

MapMerge(m) ==
  /\ merge[m] = "waiting" /\ LeaseSettled(MergeOf(m), "granted")
  /\ merge' = [merge EXCEPT ![m] = "applying"]
  /\ UNCHANGED <<flowVars, runVars, launchVars, map, snap, chat>>

\* Mutant: a merge that ends after its map settled keeps its lease.
MapMergeKept(m) ==
  /\ merge[m] = "applying" /\ merge' = [merge EXCEPT ![m] = None]
  /\ IF map[m] = "settled" THEN UNCHANGED leaseVars ELSE Release(m, "exclusive", Mounts[m])
  /\ UNCHANGED <<flowVars, runVars, launchVars, map, snap, chat>>

MapMerged(m) ==
  /\ merge[m] = "applying" /\ merge' = [merge EXCEPT ![m] = None]
  /\ Release(m, "exclusive", Mounts[m])
  /\ UNCHANGED <<flowVars, runVars, launchVars, map, snap, chat>>

\* It completes, fails or is cancelled: the shared lease goes at once; a merge
\* in flight keeps its own until it ends.
MapSettle(m) ==
  /\ map[m] \in {"snapshotting", "running"} /\ map' = [map EXCEPT ![m] = "settled"]
  /\ Release(m, "shared", Mounts[m])
  /\ UNCHANGED <<flowVars, runVars, launchVars, snap, merge, chat>>

-----------------------------------------------------------------------------
(* Turns of chats: a person waits ahead of every stage (flowGate).              *)

AskTurn(c) ==
  /\ chat[c] = "idle" /\ chat' = [chat EXCEPT ![c] = "waiting"]
  /\ WaitFlows(c, FlowsOf[c], TRUE)
  /\ UNCHANGED <<leaseVars, runVars, launchVars, mapVars>>

TryTurn(c) ==
  /\ chat[c] = "idle" /\ chat' = [chat EXCEPT ![c] = "turn"]
  /\ TryAcquire(FlowsOf[c])
  /\ UNCHANGED <<leaseVars, runVars, launchVars, mapVars>>

Turn(c) ==
  /\ chat[c] = "waiting" /\ PermitSettled(c, "granted")
  /\ chat' = [chat EXCEPT ![c] = "turn"]
  /\ UNCHANGED <<leaseVars, runVars, launchVars, mapVars>>

GiveUp(c) ==
  /\ chat[c] = "waiting" /\ permit[c] = "waiting" /\ WithdrawFlow(c)
  /\ UNCHANGED <<leaseVars, runVars, launchVars, mapVars, chat>>

GivenUp(c) ==
  /\ chat[c] = "waiting" /\ PermitSettled(c, "withdrawn")
  /\ chat' = [chat EXCEPT ![c] = "idle"]
  /\ UNCHANGED <<leaseVars, runVars, launchVars, mapVars>>

TurnEnds(c) ==
  /\ chat[c] = "turn" /\ Untake(c, FlowsOf[c], None)
  /\ chat' = [chat EXCEPT ![c] = "idle"]
  /\ UNCHANGED <<leaseVars, runVars, launchVars, mapVars>>

\* The operator sets other limits.
SetLimits(new) ==
  /\ new # limit /\ ops < MaxOps /\ ops' = ops + 1
  /\ SetFlowLimits(new)
  /\ UNCHANGED <<leaseVars, stage, timers, crashes, launchVars, mapVars, chat>>

-----------------------------------------------------------------------------
(* Restart.  Leases and keys die with the process; recovery re-takes the leases *)
(* of the running maps before anything else asks, then starts again what its    *)
(* rows say was started: queued launches, children, snapshots and merges.       *)

\* What the rows make of an attempt the process left: its frame was lost.
Lost(s, to) ==
  IF Style[s] = "inherit" \/ stage[s].status = "ready" THEN stage[s]
  ELSE [stage[s] EXCEPT !.live = FALSE, !.status = IF @ = "running" THEN to ELSE @]

Restarted(s) == stage[s].live /\ (Style[s] = "inherit" \/ stage[s].status = "ready")

\* A queued launch or a child that was not started is started again.
Again(s) == IF stage[s].status = "running" THEN "regaining" ELSE "launched"

Crash ==
  /\ crashes < MaxCrashes /\ crashes' = crashes + 1
  /\ holders' = UNION {{[key |-> k, owner |-> m, mode |-> "shared"] : k \in Mounts[m]} :
                        m \in {m \in Maps : map[m] = "running"}}
  /\ queue' = <<>> /\ lease' = [id \in Request |-> None]
  /\ flowRunning' = [k \in Flow |-> 0] /\ flowWaiters' = <<>>
  /\ permit' = [c \in Caller |-> None]
  /\ \E to \in {"ready", "paused"} : stage' = [s \in Stages |-> Lost(s, to)]
  /\ at' = [l \in Launch |-> IF at[l] = None THEN None
                             ELSE IF Restarted(l[1]) /\ stage[l[1]].no = l[2] THEN Again(l[1])
                             ELSE "over"]
  /\ queued' = [s \in Stages |-> IF Restarted(s) /\ Style[s] # "inherit" THEN stage[s].no ELSE 0]
  /\ dropped' = {} /\ stopped' = {} /\ held' = [l \in Launch |-> {}]
  /\ snap' = [m \in Maps |-> IF map[m] = "snapshotting" THEN "asked" ELSE None]
  /\ merge' = [m \in Maps |-> IF map[m] = "running" /\ merge[m] # None THEN "asked" ELSE None]
  /\ chat' = [c \in Chats |-> "idle"]
  /\ UNCHANGED <<limit, timers, ops, map>>

-----------------------------------------------------------------------------

LaunchSteps(l) ==
  \/ AskLease(l) \/ HasLease(l) \/ LeaseRefused(l) \/ StartChild(l) \/ Reacquire(l)
  \/ AskPermit(l) \/ Claim(l) \/ NotClaimed(l)
FrameSteps(l) ==
  \/ Resumed(l) \/ Merge(l) \/ Merged(l) \/ End(l)
MapSteps(m) ==
  \/ AskSnapshot(m) \/ TakeSnapshot(m) \/ SnapshotTaken(m)
  \/ merge[m] = "asked" /\ AskMapMerge(m)
  \/ MapMerge(m) \/ MapMerged(m)
Completes(m) == map[m] = "running" /\ merge[m] = None /\ MapSettle(m)
ChatSteps(c) == Turn(c) \/ GivenUp(c) \/ TurnEnds(c)

Next ==
  \/ \E s \in Stages : Admit(s) \/ Pause(s) \/ Resume(s) \/ Timeout(s)
  \/ \E l \in Launch : LaunchSteps(l) \/ FrameSteps(l) \/ Park(l) \/ Answer(l) \/ AskMerge(l)
  \/ \E m \in Maps : MapStart(m) \/ MapSteps(m) \/ AskMapMerge(m) \/ MapSettle(m)
  \/ \E c \in Chats : AskTurn(c) \/ TryTurn(c) \/ ChatSteps(c) \/ GiveUp(c)
  \/ \E new \in Limits : SetLimits(new)
  \/ Crash

Spec == Init /\ [][Next]_vars

\* Promises go on, frames end, timers fire, and a running map with no merge under
\* way completes in the end; a person answers, or does not.
Fairness ==
  /\ \A s \in Stages : WF_vars(Admit(s)) /\ WF_vars(Timeout(s))
  /\ \A l \in Launch : WF_vars(LaunchSteps(l)) /\ SF_vars(FrameSteps(l))
  /\ \A m \in Maps : WF_vars(MapSteps(m)) /\ SF_vars(Completes(m))
  /\ \A c \in Chats : WF_vars(ChatSteps(c))

FairSpec == Spec /\ Fairness

-----------------------------------------------------------------------------
TypeOK ==
  /\ holders \subseteq Holding /\ queue \in Seq(Waiting)
  /\ lease \in [Request -> {"none", "waiting", "granted", "rejected"}]
  /\ limit \in Limits /\ flowRunning \in [Flow -> Nat] /\ flowWaiters \in Seq(Waiter)
  /\ permit \in [Caller -> {"none", "waiting", "granted", "withdrawn"}]
  /\ stage \in [Stages -> [status : {"ready", "running", "paused", "done"},
                          no : 0..MaxNo, live : BOOLEAN]]
  /\ timers \subseteq Stages /\ ops \in 0..MaxOps /\ crashes \in 0..MaxCrashes
  /\ queued \in [Stages -> 0..MaxNo] /\ dropped \subseteq Launch /\ stopped \subseteq Launch
  /\ at \in [Launch -> {None, "launched", "leasing", "admitting", "queued", "over"} \cup InFrame]
  /\ held \in [Launch -> SUBSET Flow]
  /\ map \in [Maps -> {"pending", "snapshotting", "running", "settled"}]
  /\ snap \in [Maps -> {None, "asked", "waiting", "taking"}]
  /\ merge \in [Maps -> {None, "asked", "waiting", "applying"}]
  /\ chat \in [Chats -> {"idle", "waiting", "turn"}]

\* Every key that counts as taken is with somebody: a ticket, a turn, or a wait
\* that was granted and has not gone on (admitFlows, flowGate).
PermitsConserved ==
  \A k \in Flow :
    flowRunning[k] =
      Cardinality({l \in Launch : k \in held[l]})
      + Cardinality({c \in Chats : chat[c] = "turn" /\ k \in FlowsOf[c]})
      + Cardinality({c \in Launch \cup Chats : permit[c] = "granted" /\
                       k \in IF c \in Chats THEN FlowsOf[c] ELSE FlowsOf[c[1]] \ held[c]})

\* No lease outlives what it was taken for (what would wait for it waits for ever):
\* a write lease its launch, a map's its snapshot or its run, a merge's the merge.
LeasesGivenBack ==
  \A h \in holders :
    CASE h.mode = "write" -> \E l \in Launch : l[1] = h.owner /\ at[l] \notin {None, "over"}
      [] h.mode = "shared" -> map[h.owner] \in {"snapshotting", "running"} \/ snap[h.owner] # None
      [] OTHER -> IF h.owner \in Maps THEN merge[h.owner] # None
                  ELSE \E l \in FramesOf(h.owner) : at[l] \in {"merging", "applying"}

Disturbs(s, m) == Style[s] = "writer" /\ Mounts[s] \cap Mounts[m] # {} /\ FramesOf(s) # {}

\* While a map runs on its mounts no frame outside it writes them: "nothing
\* outside the map may write the mount until the map settles" (WorktreeLeases.ts:1)
\* -- of a stage that was launched once, whose lease is its launch's own.  One
\* that was paused and resumed may lose its lease to the end of the launch before.
FirstLaunchExcluded ==
  \A m \in Maps, s \in Stages : map[m] = "running" /\ stage[s].no = 1 => ~Disturbs(s, m)

\* An admitted attempt is on its way, or its queue timeout will decide about it
\* (EffectsDispatcher.ts:232: "The instance stays `ready`: its queue_timeout
\* timer decides").
LaunchDecided ==
  \A s \in Stages :
    stage[s].status = "ready" /\ stage[s].live =>
      at[<<s, stage[s].no>>] # "over" \/ s \in timers

Parked == \E l \in Launch : at[l] = "parked"

\* A map that asked for its snapshot gets it, is settled, or a person keeps a writer waiting.
SnapshotServed ==
  \A m \in Maps : snap[m] = "waiting" ~> snap[m] # "waiting" \/ Parked

\* The merge of a map's item is applied, or a person keeps somebody waiting, also
\* where two maps run on a mount and both merge: neither waits for what the other
\* holds until it settles (docs/workflow-overhaul/DEVIATIONS.md:169, "A map's merge
\* no longer waits for another map's shared lease ... Removes the merge deadlock").
MapMergeServed ==
  \A m \in Maps : merge[m] = "waiting" ~> merge[m] # "waiting" \/ Parked

\* An isolated stage that finished its work gets to merge it, where nobody waits
\* for a flow key with a lease in hand.
MergeServed ==
  \A l \in {l \in Launch : ~Writes(l[1])} : at[l] = "merging" ~> at[l] # "merging" \/ Parked

=============================================================================
