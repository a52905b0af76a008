# A verification of the workflow engine of generatorAI

generatorAI runs coding agents. Its hardest part is the durable workflow engine
("engine v2"): workflow runs are rows in a SQLite database, each run is driven by
an actor that decides on one message at a time, agents work in *frames* that
outlive the decisions about them, and a process may die between any two steps
and must take up what it finds. Around it are the queues that decide when an agent
may start, and the streams that tell people what agents do. This directory models
them in TLA+, checks the models with TLC and proves part of them with TLAPS.

All paths below are relative to the repository (`src/` is its root); the engine
is `src/packages/core/src/{domain/scheduler,services/engine}` with its stores in
`src/packages/db/src/repositories` and its state tables in
`src/packages/workflow-spec/src/state`.

## 1. Inventory

| Component | State it keeps | Operations | Interacts with |
|---|---|---|---|
| Run scheduler (`domain/scheduler/decide.ts`, `working.ts`) | none: a pure function of the run's snapshot and a message | `decide` on every `RunMessage`: commands of the run and of a stage, attempt reports, timers, prepare/finalize reports, aborts | returns writes, timers and effects |
| Readiness and scope outcome (`readiness.ts`, `joins.ts`, `scopes.ts`, `edges.ts`) | none | resolve pending instances; the outcome of a finished scope | run scheduler |
| State tables (`workflow-spec/src/state`) | the legal moves of runs, stage runs, loops, maps | `transition` | every compare-and-set |
| Run actor and effect dispatch (`RunActor.ts`, `EffectsDispatcher.ts`) | mailbox; launches queued for admission | post, drain, dispatch of effects (launch, abort, deliver_input, prepare, finalize) | store, executor, lifecycle, admission |
| Stage executor (`StageExecutor.ts`) | one frame per stage, keyed by instance; lease heartbeat | start (claim), the turns of an attempt, gates, finish, abort | actor (reports), sessions, worktree leases |
| Run lifecycle (`RunLifecycle.ts`) | a chain of finalizes per run | prepare, finalize (compensation, onExit, post-processing) | actor (reports), worktrees |
| Timers and reaper (`TimerService.ts`, `LeaseReaper.ts`) | armed timers of the persisted rows | fire, cancel; expire leases | actor |
| Run supervisor (`RunSupervisor.ts`) | the actors it owns; engine lock | start, recover, renew ownership, route a command to an actor | everything |
| Engine stores (`RunStore.ts`, `engineCas.ts`, `EngineStores.ts`) | the tables | apply a decision atomically; claim/settle compare-and-sets; ownership epoch | everything |
| Loops, maps, sub-workflows, waits (in `decide.ts` and their services) | bodies, items, child runs, waits | capture/restore, prepare/merge an item, start/settle a child, deliver an event | run scheduler |
| Outbox (`OutboxDispatcher.ts`) | undispatched rows; one chain per run | kick, drain | event publication |
| Worktree leases (`WorktreeLeases.ts`) | holders and a FIFO of waiters per worktree | acquire, release, withdraw | executor, items, steps |
| Admission (`AdmissionController.ts`) | how many hold each flow key, waiters, tickets | acquire, release, pause/resume a ticket, set limits | effect dispatch, executor, chats |
| Streams (`StreamWriteBatcher`, `StreamBroker`, `SseConnection`, retention) | rows waiting to be written, the stored rows, the subscribers of a scope, what a congested connection holds | write in batches, broadcast, resume, drop and announce, sweep | outbox, event bus, clients |
| Idempotency | keys with their responses | begin, complete, replay | HTTP routes |
| Automations, chat agents, process hosts, definitions and authoring, harness providers, applications | — | see `PROJECT.json` | the engine's surroundings |

What is hard here: a desired state is written before what runs agrees with it (a
pause writes *paused* while the attempt is still working, and a resume may arrive
before it stopped); the report of an attempt may come after its stage was paused,
cancelled, skipped or resumed; a launch waits for admission while its attempt is
settled; the frame reads its row, awaits, and writes under a compare-and-set of
the status only; timers are rows that outlive the process; recovery reads a
snapshot and then acts on it while its own messages change the rows; several
finalizes of one run may be chained when its outcome changes. The list, at the
lines where each bites, is `hazards` of `PROJECT.json`; each entry names the
properties that would catch it going wrong, or why none does yet.

What makes each component correct:

- *Run scheduler*: every stage with a live attempt has a frame or a queued launch
  for it, and a frame without a live attempt is on its way out; a decided run has
  nothing left to run; the mode of a granted retry survives pauses; a paused run
  starts nothing; a cancel always ends.
- *Readiness*: what the sequential sweep computes is the join semantics; nothing
  resolved is resolved again; a race cancels its losers.
- *Ownership*: of several processes, only the one that claimed a run last gets its
  decisions applied; the runs of a dead process find a live one.
- *Waits*: an event that arrives before, during or after its wait settles it once.
- *Leases, admission*: exclusion, no waiter that nobody wakes, everything given back
  exactly once, no starvation beyond what the skip rules say.
- *Outbox, streams*: in order, at least once; a client is told of what it misses.

## 2. Modules and plan

| Module | What it is | State |
|---|---|---|
| `RunStates` | the states of a run and a stage and their legal moves | done |
| `WorkflowGraph` | readiness: edges, joins, guards, losers, the outcome of a scope | done |
| `ReadinessPass` | the sequential sweep of `resolveReadiness`, and that it ends in what `WorkflowGraph!Resolutions` allows | done |
| `MCReadinessPass` | its instances for TLC | done |
| `ReadinessPass_proofs` | a pass ends in a resolution | proved |
| `RunScheduler` | a run in one process: actor, effects, frames, lifecycle, timers, crash, recovery | done |
| `MCRunScheduler` | the instances TLC checks | done |
| `RunOutcome` | the abstract run: works, closes idle, ends as its verdict says | done; `RunScheduler` implements it |
| `RunScheduler_proofs` | type correctness of `RunScheduler`; a decided run is over, and ends by its own finalize; `RunScheduler` implements `RunOutcome` | proved |
| `RunFrames_proofs` | rows, frames and launches fit together; moves are legal; races end; without crashes: groups, pauses, retry modes | proved |
| `EngineOwnership` | several processes: engine lock, forced claims, epochs that fence writes | done |
| `MCEngineOwnership` | its instance for TLC | done |
| `EngineOwnership_proofs` | one writer, ordered writes, an ended run stays ended | proved |
| `Positions` | ascending lists of a set of numbers, what is left of a queue | done |
| `Positions_proofs` | what they preserve | proved |
| `WorktreeLeases` | leases on mounts: shared, write, exclusive; a queue a merge passes; withdrawals | done |
| `FlowKeys` | limits on what runs at once: all keys or a place in the queue, persons first | done |
| `LaunchGates` | who takes leases and keys, in which order, and gives them back: launches, frames, merges, maps, inherit stages, chats, recovery | done |
| `MCLaunchGates` | its instances for TLC | done |
| `LaunchGates_proofs` | types, exclusion of leases, no lost wake-up of either queue, limits, the first launch and the map, no lease left behind, every taken key somebody's | proved |
| `OutboxPromise` | the abstract outbox: each event first reaches the stream after the ones before it, and is marked after that | done; `Delivery` implements it |
| `StreamBroker` | one scope of the stream: writer, rows, retention, broadcasts, subscriptions, connections | done |
| `Delivery` | the outbox of a run and the event bridge over that stream | done |
| `MCDelivery` | its instances for TLC | done |
| `Delivery_proofs` | `Delivery` implements `OutboxPromise` | proved |
| `StreamOrder_proofs` | a client receives the rows of its scope in their order and is told of those it misses; the types of `Delivery` | proved |
| `RunWaits` | waits, events and their timers | next, 1 |
| `RunFamily` | parent and child runs: settle, pause and cancel across runs | next, 2 |
| `LoopsAndMaps` | bodies, captures and restores; the items of a map | next, 3 |
| `FrameRows` | the frames of two processes over one stage row: compare-and-sets, version conflicts | next, 4 |

`RunScheduler` composes `RunStates` and `WorkflowGraph` (EXTENDS) and instantiates
`RunOutcome` over its own state. `LaunchGates` composes `WorktreeLeases` and
`FlowKeys`, whose operations are actions without a caller, and adds the callers;
`Delivery` composes `StreamBroker` with the outbox and instantiates `OutboxPromise`.
Between them they cut the engine in three: what is decided (`RunScheduler`, where a
queued launch may wait any time), how long a launch waits and for whom
(`LaunchGates`, where a stage is little more than its attempt), and how what was
decided reaches people (`Delivery`, where an event is a number).

`RunScheduler` takes a readiness pass as part of one step, with any result that
`WorkflowGraph!Resolutions` allows; `ReadinessPass` is the loop of the code that comes to
one.

Every safety property a passing run checks is also a theorem (section 5). What theorems
could still add needs the modules that are next.

## 3. How the model corresponds to the code

### 3.1 State

| Variable | Code |
|---|---|
| `run` | the `workflow_runs` row: status, outcome, pause reason; `over`: the run budget is spent |
| `inst` | the `stage_runs` row of each stage with its current attempt: status, `status_reason` (`why`), attempt number (`no`), whether that attempt is not settled (`live`), failures counted against the retry policy, retry mode, the state it ended in as a predecessor (`as`), loser of a race, the gate it is parked at |
| `timers` | rows of `workflow_timers`, of a stage or (`st = 0`) of the run |
| `launches` | launches of `EffectsDispatcher` queued for admission; `tracked` is the dispatcher's map entry, the one an abort finds |
| `frames` | the executor's `frames` map: the attempt a frame works for, where it is, whether it was told to stop |
| `tasks` | `prepare` and the chain of finalizes in flight |
| `boot` | the process: up, down, or in `recover` with the snapshot it read and the stage it is at |
| `owed` | history: the mode of a granted retry that has not been claimed yet |
| `ops`, `faults` | bounds on commands and faults |

### 3.2 Atomicity

`RunActor` drains its mailbox synchronously and `decide` is pure, so posting a
message, deciding it and writing the result is one action; the effects it
dispatches become state (`launches`, `frames[s].stop`, `tasks`, `timers`) whose
consequences are other actions. better-sqlite3 is synchronous. A frame reads and
writes its row in separate steps, and its writes are compare-and-sets of the
status alone. Recovery reads its snapshot in one step (`Boot`), handles the attempt
of one stage per step (`RecoverAttempt`), then the lost retry timer of one stage per
step (`RecoverRetry`), then the run (`RecoverRun`), so that the frames it starts
interleave with it; it awaits only what the process answers itself, so operators,
timers and lifecycle tasks wait until it is done, but a crash does not. A run in a terminal state
drops every message, as the supervisor does when it has dropped the actor.

### 3.3 Handlers

A handler is an operator from a *world* (the record of the variables the actor
may write) to a world, and `Settle` closes it, as `decide` ends every message:
expired or exhausted budget, readiness, admission (within `maxParallel` and one
stage per session group), then the outcome of the root scope and the finalize.

| Actions | Code |
|---|---|
| `Start`, `PrepareDone`, `FinalizeDone` | `startRun`; the reports of `RunLifecycle` and their handlers |
| `Claim`, `SessionReady`, `ToValidating`, `BackToRunning`, `Park`, `Resumed`, `End` | one frame of `StageExecutor`, from the claim to its report |
| `FireTimer`, `LeaseExpire`, `RunBudgetSpent`, `StageBudgetSpent` | `TimerService`, `LeaseReaper`, a usage tick |
| `Crash`, `Boot`, `RecoverAttempt`, `RecoverRetry`, `RecoverRun` | the death of the process and `recover` |
| `PauseTheRun` ... `RaiseBudget`, `PauseStage` ... `Reject` | the commands of `onCommand`; one that is refused changes nothing and has no step |

`PROJECT.json` maps every definition to its lines.

### 3.4 What is abstracted

Conditions have one value per graph and edge (`true`, `false`, `error`); an agent's
turn ends in any of `Endings`; failures are the classes `applyFailure` tells apart;
clocks are left out (a timer may fire when its row exists and is re-read); the
budget of a run is a flag. Compensation, onExit and post-processing are the one
step that ends a finalize. A repair of an output inside one attempt is
`BackToRunning`; how many there are is not counted.

### 3.5 A readiness pass

| Variable | Code |
|---|---|
| `from` | the statuses of the scope when `resolveReadiness` is called |
| `st` | the statuses now |
| `at` | where `for (const inst of pending)` is; a stage that was not pending is passed over |
| `changed` | the variable of that name |

A visit is one turn of the inner loop: `Blocked`, `Closes` (a skip, a failed condition),
`AwaitsSummary` and `Opens`, which ends the losers of the race it wins. `Again` is the
head of `while (changed)`. Stages are numbered in the order of their instance paths,
which need not follow the edges. `Init` is any status a pass may meet (`Founded`); the
losers that are still at work are cancelled by `cancelInstance`, whose other effects
are in `RunScheduler`. A stage of `Awaits` reads an `llm` summary that is still being
written: that does not change while the pass runs.

### 3.6 Ownership

`EngineOwnership` models what `RunScheduler` takes for granted: that one process at
a time decides for a run. `Proc` is the set of boots of the engine.

| Variable | Code |
|---|---|
| `lock` | the row of `engine_lock`: its boot, and whether its heartbeat is younger than `lockStaleMs` |
| `phase` | the engine of each boot: off, recovering, up, stopped, dead |
| `todo` | the runs `recover` has listed and not reached |
| `run` | a run that was created, is live or is over |
| `owner` | `owner_id` and `owner_epoch` of the run's row |
| `actor` | the supervisor's `actors` map: an actor being created, live, or retired and still there; its epoch |
| `wrote` | history: the author and the epoch of the last batch of the run |
| `stalls` | bound on suspensions of a live holder |

`Start`, `RenewHeld`, `RenewLost` and `Stop` are the supervisor's handling of the
lock; `Create` and `Recover` claim a run by force, as `createActor` does; `Write`,
`Fenced` and `Created` are what `process` makes of a message (applied under the
epoch, fenced and dropped, decided nothing); `Abandoned` and `Stall` are time: the
heartbeat of a holder that is gone, or suspended, goes stale. An unforced claim
would read `owner_expires_at`; nothing in the engine makes one, so that column is
left out. A stopped or dead boot never starts again; a restart is another boot.

### 3.7 Leases and flow keys

| Variable | Code |
|---|---|
| `holders`, `queue` | the fields of `WorktreeLeases`; a waiter's `grant` and `reject` are `lease` |
| `lease`, `permit` | the promises `acquire` and `waitFlows` returned, by the call that waits for them |
| `limit`, `flowRunning`, `flowWaiters` | the fields of `AdmissionController` |
| `stage`, `timers` | the stage's row reduced to what starts and stops it; its queue_timeout |
| `queued`, `dropped` | the dispatcher's entry of a stage, and its `dropped` flag |
| `at`, `held`, `stopped` | where a launch is, from `launch()` to the end of its frame; the keys its ticket holds; its abort |
| `map`, `snap`, `merge` | the phase of a map; its snapshot and merge effects, which recovery asks for again |
| `chat` | one person's turn |

`Pump` and `PumpFlows` are the loops that walk a queue and grant what they can. They
are stated by what they end in: the set of positions granted, each looked at with
what the ones before it took (`IsPass`, `Admits`); the set exists and is the only one.
A promise is settled by one action and its caller goes on in another, so that a
release, an abort or a timer may come in between. `AskLease` ... `NotClaimed` are a
launch, in the order of `leased` and `admitted`: the lease first, then the keys.
`Park`, `Answer` and `Resumed` are a gate inside a turn, `AskMerge`, `Merge`,
`Merged` the merge of an isolated stage with its keys still held, `End` what the end
of a frame gives back. An inherit stage has no frame: `StartChild` and `End` are its
child run, `Reacquire` what recovery does for it. `Timeout` is discarded for good
while a launch waits for a lease. A flow key without a limit is one whose limit is
higher than the callers there are.

### 3.8 Outbox and streams

| Variable | Code |
|---|---|
| `emitted`, `marked` | the outbox rows of one run, and which are dispatched |
| `drain`, `batch`, `chained`, `retry`, `stopped` | where `drainRun` is (or that it was rejected), the rows it listed, the `next` of its chain, its timer, `stop()` |
| `pending` | the rows `StreamWriteBatcher` holds, each the set of events folded into it |
| `log`, `kept`, `place` | the rows committed to `stream_cursors`; the ones retention has left; the row of the event the drain waits for |
| `fans` | the broadcasts under way: the subscribers still to come, the one that holds it |
| `order`, `sub` | the subscribers of a scope in their order; the phase, watermark and lists of each |
| `conn` | a connection: congested or not, its queue, the range it dropped |
| `cursor`, `told`, `holes` | what each client has: its last row, the rows it was told to fetch, the rows it missed unannounced |
| `escaped` | history: the rows lost for a cause named in section 4.2 |

`Emit`, `List`, `Mark`, `Failed`, `Thrown`, `Stop` and `RetryFires` are
`OutboxDispatcher`: a publish that fails sets the timer (`Failed`), a store that throws
while the drain lists or marks rejects it and the drain chained behind it (`Thrown`);
`Stored` and `Refused` the writer's transactions; `Bridged` the event bridge, which
awaits nothing; `FanOut` one subscriber's turn in a broadcast, which waits while that
subscriber holds it; `Connect`, `Replay`, `Check`, `Hand`, `Flush`, `GoLive` the
awaits of `subscribe`; `Drain` and `Disconnect` the socket. A client that has nothing
connects without a cursor, or names the cursor 0 if it is in `FromZero`, and then takes
the path of a resume. A batch of the writer is
committed one row at a time, and the batch in flight counts as pending. The batcher
is shared by all scopes; the model has one scope, so folding never skips the rows of
another. There is one kind of delta. The text coalescer, which joins deltas within a
few milliseconds, is left out, and a frame that is written has been received: one
lost with its connection is as if the client had gone before it.

## 4. Runs

### 4.1 What holds

| Run | Instance | Distinct states | Shows |
|---|---|---|---|
| `Control` | 1 stage, every command, every ending, 6 commands, 2 expired leases or spent budgets | 190,296 | the types; a frame nobody stopped works for its stage's attempt and a working stage has its frame (`NoStrayFrame`, `NoOrphanAttempt`); a decided run is over (`DecidedIsDecided`) and ends by its own finalize (`FinalizedByItsOwn`); retry modes survive pauses (`RetryModeKept`); a paused run starts nothing; no message asks for an illegal transition (`LegalMoves`); the run implements `RunOutcome` (`KeepsPromise`) |
| `Race` | 3 racers into an any-join with `cancelRemaining`, two of them in one session group, 3 commands | 80,896 | losers end (`LosersEnded`), the conversation is used by one stage at a time (`SessionExclusive`), a decided run is over |
| `Liveness` | 2 stages in a chain, 2 expired leases or crashes, 3 commands (no cancel of a stage), `FairSpec` | 90,433 | frames and attempts agree, no stage hangs (`StageMoves`), a decided run is finalized (`DecidedEnds`), a cancel reaches its end (`CancelEnds`), also across a restart |
| `Pass` | 6 stages, 7 edges of which 6 lead against the order of the visits, two races one inside the other, one edge whose condition fails, one stage whose guard is false, one that reads a summary; every status a pass may find (10,384 of them); `FairSpec` | 123,496 | what the sweeps leave is a resolution (`Resolved`), and they end unless they come to a stage that waits for a summary (`EndsUnlessRead`) |
| `Ownership` | 3 boots, 1 run, 4 claims, 1 suspension | 162,389 | the types, `OneWriter`, `WritesInOrder`, `OverIsFinal`, and `TakenOver`: the runs of a dead process are taken over |
| `Gates` | a writer and an isolated stage of two attempts each, a map and a chat, over 2 mounts and 2 flow keys with limits of 1 or 2, 1 pause or change of limits, 1 crash | 1,446,697 | the types; leases exclude (`Excluded`), also a map and a writer's first launch (`FirstLaunchExcluded`); nobody waits who could go on (`NoLeaseWakeupLost`, `NoPermitWakeupLost`); every key and lease that is taken is somebody's (`PermitsConserved`, `LeasesGivenBack`); no key is taken past its limit (`NeverOverLimit`) |
| `GatesLive` | an isolated stage and one with a child run, two maps that share a mount, limits of 1, 1 crash, `FairSpec` | 68,545 | a map gets its snapshot, a merge of a map or of a stage its turn, also where both maps merge, unless a person keeps an agent waiting (`SnapshotServed`, `MapMergeServed`, `MergeServed`) |
| `Delivery` | 2 clients (interchangeable), 1 event of a run, 2 deltas (interchangeable) and 1 item of the bridge, a writer that holds 2, replays of 2 rows, connections that queue 1, 2 connects, 1 sweep | 2,968,175 | the types; rows arrive in their order (`InOrder`); a client that misses a row is told, but for the causes named in section 4.2 (`HolesTold`) |
| `DeliveryLive` | 1 client that names the cursor 0, 2 events and 1 item of the bridge, a writer that holds 1, a connection that queues 1, 1 failure or throw, 1 crash or stop, `FairSpec` | 421,104 | the outbox implements `OutboxPromise` (`InRunOrder`); every event is dispatched where no client that stays stops reading for ever (`AllDispatched`) |

Each property of these runs has a mutant in `PROJECT.json`: a plausible bug in one
operator that makes the same run fail.

### 4.2 What does not hold

Each of these runs checks one sentence of the repository that the code does not
keep; `findings` of `PROJECT.json` quotes it.

| Run | What TLC finds |
|---|---|
| `PassSpins` | A stage completes whose summary is `llm`, and the next stage reads it. The pass counts the reader as changed (decide.ts:718) and then leaves it pending until the summary comes (decide.ts:747): `while (changed)` never ends, and as the loop is synchronous the process stands still and the summary is never asked for. |
| `LaunchForgotten` | A paused launch ends late and, with its own lease, withdraws the queued request of the stage's next launch, whose queue timeout was discarded while it waited: the stage is ready with a live attempt, no launch and no timer. |
| `StreamHole` | A row that comes while a resuming subscription awaits the handlers of its flush is put aside after the buffer was taken, and dropped when the subscription goes live. Nobody tells the client. |

The models show more of this kind. These have no run of their own; the
properties above are stated so that they hold beside them.

- *A decided run that waits for another restart.* A run was decided cancelled with the
  frame of a cancelled stage still winding down, and the process crashed. Recovery
  settles the attempt but decides on its snapshot whether to finalize
  (RunSupervisor.ts:741); the run stays *cancelling*. It takes a cancel of the stage:
  `DecidedEnds` is checked with cancels of the run.
- *A launch dropped as a duplicate.* Two pauses and resumes while the frame of
  attempt 1 winds down admit attempt 2, whose launch meets the old frame
  (StageExecutor.ts:640) and is dropped. Nothing launches it again until its queue
  timeout fails the stage. `NoOrphanAttempt` accepts the timer.
- *A group shared after a crash.* Recovery launches every ready stage with a live
  attempt (RunSupervisor.ts:642), without the session-group check of `admit`, and in a
  paused run as well; a retry that was granted in another mode while that attempt lived
  goes on in the attempt's. `SessionExclusive`, `PausedStartsNothing` and `RetryModeKept`
  are checked without crashes.
- *A stale claim.* A process that slept past `lockStaleMs` takes a run over, by force,
  from the process that holds the lock (RunSupervisor.ts:560); `OneWriter` and
  `WritesInOrder` still hold, since the epoch keeps the writes in order. The renewal
  that finds a run taken retires its actor but leaves it in the map
  (RunSupervisor.ts:440), where it refuses every later message.
- *An approval past the limit.* An answered approval works again without a look at
  `maxParallel` (decide.ts:769).
- *A lease in hand.* A writer that has its mount and waits for a flow key, and an
  isolated stage that has the key and waits to merge into the mount, wait for each
  other. The writer's queue timeout ends it, unless it fell due while the writer waited
  for the mount; then nobody does. `MergeServed` is checked with an inherit stage in
  the writer's place, which takes no key. An isolated stage of a child run waits in the
  same way for the inherit stage of its parent.
- *A release too many.* `LaunchForgotten` has the withdrawal; the same release takes
  the lease a newer launch of the stage already holds, so that a map may start beside
  it. `FirstLaunchExcluded` speaks of first launches only.
- *A map beside a child run, after a restart.* Recovery asks for a map's snapshot and for
  the lease of a running child's stage in the order of their rows, and the child works
  meanwhile. `FirstLaunchExcluded` speaks of stages with a frame.
- *Holes.* More reasons why a client misses a row without a word: with two
  subscribers, a broadcast that the first holds is overtaken by the next, and the second
  subscriber takes the late row for one it has seen; a scope that retention emptied
  has an oldest row of 0, which passes for a resume without loss; and a client that
  names the cursor 0 is never told that it expired (StreamBroker.ts:312). `HolesTold`
  excepts these, by name, and the flush of `StreamHole`.
- *A client that stops reading.* A delivery to a congested connection is a promise that
  its drain, its end or its shedding resolves (sseConnection.ts:226), and the broadcast
  waits for it (StreamBroker.ts:217) with the drain of the run's outbox behind it.
  Nothing in the server gives up on a client that stays connected and never reads: the
  heartbeat ignores what its write returns (sseConnection.ts:245-258), and the
  connection is shed only when items of the bridge, which waits for nobody, overflow
  its queue. The outbox of the run stands still for as long; without its premise TLC
  refutes `AllDispatched` in this way.
- *A store that throws.* `listPending` and `markDispatched` are outside the `try` of the
  drain (OutboxDispatcher.ts:72, 83): a throw rejects it, and the drain chained behind
  it, and sets no timer. The server reports the rejection and goes on; the event waits
  for the next one of its run, or for a restart. `AllDispatched` excepts it.

### 4.3 Bounds

`MaxOps` and `MaxFaults` count operator commands and faults; without them a pause
and a resume could alternate for ever and attempt numbers grow. Four commands on one
stage are what it takes to pause and resume it twice, which is where launches,
frames and attempts of different numbers meet (a launch dropped as a duplicate needs
all four); `Control` has two more. Two
stages meet through readiness, `maxParallel` and the session group, which `Liveness`
and `Race` have. Two faults let a crash hit the recovery from a crash. Retries are
bounded by the policy (`RetryOnce`: two attempts). `MaxEpoch = 4` is one claim more
than the boots of `Ownership`, so that a process can take a run back; `MaxStalls = 1`
is enough for a holder that does not know it lost the lock. 
`MaxNo = 2` has the launch of a stage meet the one before it. Two mounts, with the
isolated stage and the map on both and the writer on one, make requests that overlap
in part; two flow keys make a waiter that has room on one of them; limits of 1 make
everyone wait, and 2 is where a lowered limit leaves a key above it. Two clients are
what it takes for one to hold a broadcast up for the other. Four rows, one of the run
and three of the bridge, with replays of two and a queue of one reach every verdict of a
resume (expired, truncated, whole), a flush, a full queue, and an item that finds it full
and sheds the connection; two connects, shared by the clients, a
client that resumes. The writer of two rows in `Delivery` folds and drops, the one of a
single row in `DeliveryLive` refuses. `MaxSweeps = 1`
is enough to pass a cursor; a sweep beside a client that names the cursor 0 is left to
the proof. `DeliveryLive` has two events of the run, which is where one may overtake
the other, and one failure or throw beside one crash or stop, so that a drain is hit
again after it was started anew. Two maps of which one has both mounts and the
other one of them are what `MapMergeServed` needs: each holds what the other's merge
meets. `Pass` starts a pass in every state
in which it may find its stages: six stages are what it takes to have a race inside
another's losers, a predecessor both share, and a join skipped before a condition of
another of its edges fails. `StreamHole` needs four events of the run: one the client
has, one it resumes on, one that is flushed, and the one that is lost. The theorems of
section 5 hold for every value of these bounds.

Deadlock is not checked: a run that ended, and a run paused by a human who never
returns, may stop, a process may stay down, and once everything was launched or
published there is nothing to do.

### 4.4 Fairness

`RunScheduler!Fairness` is what the process does without anyone asking: it is
started again when it died, and recovers; prepare and finalize end; timers fire; a
queued launch of each stage reaches the executor; a frame's turn ends. Each of these
is a promise, a timer or an admission queue of the process. Operators are never
fair: nobody owes a command, and a stage that waits for a human, or a paused run,
may wait for ever; `StageMoves` says so. `Liveness` has the cancel of a run, not
of a stage: `DecidedEnds` is false when the only stage was cancelled and the process
crashed (section 4.2). `ReadinessPass` is a loop in which nothing else runs, so it is
fair to its only action.

`EngineOwnership!Fairness` has a boot start its engine when the lock allows, recover
every run it listed, renew on its timer, and load the definitions it waits for; the
heartbeat of the dead goes stale. No message is owed to a run, so `TakenOver` rests
on recovery alone; it excepts the case that every boot has stopped or died.

`LaunchGates!Fairness` has promises go on (a granted or rejected wait, the next await
of a launch, a snapshot or a merge), queue timeouts fire, and the actor admit what is
ready. What waits in a queue may be enabled and disabled by others, so a frame's steps
and the end of a map are strongly fair: a turn ends, whoever else takes turns meanwhile.
Nothing makes a person answer: the properties except the state in which one keeps an
agent parked (`Parked`).

`Delivery!Fairness` has the drain, the writer and the broadcasts go on and the retry
timer fire. A client owes nothing: it may never come back, and it may stay connected and
never read. `AllDispatched` names that case as its premise (a client holds no broadcast
for ever) and excepts a dispatcher that was stopped and a store that threw.

## 5. Proofs

TLC checks the instances above. The following hold for every workflow graph, policy,
set of commands and faults (`GraphAssumption`, `PolicyAssumption`, `PassAssumption`), for every set
of processes and runs (`OwnershipAssumption`), of mounts, stages, maps, chats and limits
(`GatesAssumption`, `LimitsAssumption`), and of events, clients and capacities
(`BrokerAssumption`, `DeliveryAssumption`). The assumptions are types, and what
`compile` guarantees of a graph: no cycles, at most one edge between two stages.

| Theorem | Module | States |
|---|---|---|
| `TypeCorrect` | `RunScheduler_proofs` | `Spec => []TypeOK` |
| `DecidedStays` | `RunScheduler_proofs` | `Spec => []DecidedIsDecided` |
| `EndsByItsOwn` | `RunScheduler_proofs` | `Spec => FinalizedByItsOwn` |
| `PromiseKept` | `RunScheduler_proofs` | `Spec => KeepsPromise`: `RunScheduler` implements `RunOutcome` |
| `PassResolves` | `ReadinessPass_proofs` | `Spec => []Resolved`: a pass ends in one of `WorkflowGraph!Resolutions` |
| `EndedUnread` | `ReadinessPass_proofs` | a pass that has ended has left no stage that waits for a summary |
| `NoStrayFrames`, `NoOrphanAttempts` | `RunFrames_proofs` | `NoStrayFrame`, `NoOrphanAttempt` |
| `MovesAreLegal` | `RunFrames_proofs` | `Spec => LegalMoves` |
| `LosersHaveEnded` | `RunFrames_proofs` | `Spec => []LosersEnded` |
| `SessionsAreExclusive`, `PausedRunsStartNothing`, `RetryModesAreKept` | `RunFrames_proofs` | `SessionExclusive`, `PausedStartsNothing`, `RetryModeKept`, each for `"crash" \notin Kinds` |
| `Typed`, `SingleWriter`, `OverStays`, `OrderedWrites` | `EngineOwnership_proofs` | `TypeOK`, `OneWriter`, `OverIsFinal`, `WritesInOrder` |
| `LeasesApart`, `LeasesServed`, `PermitsServed`, `LimitsHold` | `LaunchGates_proofs` | `Excluded`, `NoLeaseWakeupLost`, `NoPermitWakeupLost`, `NeverOverLimit` |
| `FirstLaunchApart`, `LeasesReturned`, `PermitsKept`, `GatesTyped` | `LaunchGates_proofs` | `FirstLaunchExcluded`, `LeasesGivenBack`, `PermitsConserved`, `TypeOK` |
| `OutboxKept` | `Delivery_proofs` | `Spec => InRunOrder`: `Delivery` implements `OutboxPromise` |
| `ReceivedInOrder`, `StreamIsTyped`, `HolesAreTold` | `StreamOrder_proofs` | `InOrder`, `TypeOK`, `HolesTold` |

**Type correctness** is inductive by itself. Every handler composes a few record
updates, so there is one lemma per update (`NewInst`, `NewTimers`, ...) and one per
building block, and a handler's lemma composes them; the worlds a readiness pass may
end in are typed by `ResolutionStates`.

**A readiness pass.** `Resolves` says what each stage may have become, in terms of the
statuses the pass found and those it leaves; the code decides the stages one after
the other, each by the statuses of its moment. `PassInv` bridges the two. `Sound`: a
stage the pass moved was decided by the predecessors that had ended then (`Saw`), which
stay as they are because nothing that ended moves again (`Ends`), or lost a race that was
won in this pass. `RacesOver`: a join that went on left no loser at work. `Swept`: while
a sweep has changed nothing, what it passed over is still undecided; at its end that is
every stage, whatever the order of the visits, and no induction over the sweeps is
needed. The one case that is not local is a join that wins its race and is then
cancelled as the loser of another: its losers are losers of that other (`LostBoth`), for
who leads only into a loser leads only, through it, into what it lost to.

The proof found an error of the model: `Resolves` used to judge every stage by the
statuses the pass ends with. The code judges a stage once; an all-join that a dead edge
has skipped does not fail when the condition of another of its edges fails later in the
same sweep. `Judged` and `Before` say which predecessors a stage has not seen.

**Decided runs.** `DecidedIsDecided` alone is not inductive: a late report would
reopen a finalizing run that had a stage left to move. `Sound` says what keeps that
from happening: a *closing* run (finalizing, cancelling or terminal) has no stage
that can move and no timer, also before its outcome is known; an open run has no
outcome and no finalize in flight; and the finalizes in flight are of the run's
outcome, except those a cancel superseded. A handler that moves a stage finds one
that can move, hence an open run (`OpenStage`), and leaves the run's row alone
(`StageKeeps`, `StopKeeps`, ...), so one lemma (`Undone`) serves almost every action.
What remains are the handlers of the run itself: `DecideFine`, `CancelRunFine`,
`SettleFine`, and `FinalizeDoneFine`, which shows that a finalize that closes a run
carries its outcome.

**Refinement.** `Follows` is what any other step makes of a run (a closing run stays
closing and its outcome may only become *cancelled*; a terminal one is final),
`Concludes` what the end of a finalize does. `FollowingStep` and `ConcludingStep` read
them in the abstract state: a `Work`, `Close`, `Cancel` or stutter, and an `End`. The
mapping needs no history: the phase is the run's status, the verdict its outcome,
the busy stages those that can move.

**Frames and attempts.** `NoStrayFrame` and `NoOrphanAttempt` say what agrees at a frame;
what makes them inductive is what agrees where there is none. `Matched` is said of
every stage in every state: a live attempt belongs to a stage past *pending*, a frame
nobody stopped is of the current attempt, and a launch that waits is either of a stage
that has ended (it will be refused) or is *due*: of the current live attempt, with no
frame of that attempt yet. `Manned` says that a stage in an attempt state has such a
frame. While recovery is under way it holds only of the stages that recovery has come
to; a stage still `ToRecover` is `AtRest`: without frame or launch, and either as the
snapshot has it or cancelled since. That is why a command that comes between the steps
of recovery may cancel a stage and nothing else. `NotOver` (a run whose budget is spent
is not live) is what keeps a settle during recovery from pausing the stages it has not
come to. A message is a handler followed by a settle, so a step is cut in two: `Goes`
is what a handler may make of a stage, `Passes` what the settle may, and `Leads` what
both come to. Each action has a lemma (`ClaimLeads`, `EndLeads`, `RecoverAttemptLeads`,
...) that it `Leads`, and every theorem of the module is read off that.

**Legal moves.** A step is one row move of the handler and at most one of the settle;
`Legal` allows the two in sequence. `LegalSettles` shows that a legal move followed by one
that a settle makes (`Settling`) is legal, which is where the order of the two matters:
a settle never follows a handler out of a terminal state.

**Races.** `LosersEnded` speaks of joins whose attempts were counted, and is not
inductive: a join is ready before it is launched. `Raced` speaks of joins that have
`Begun`, which starts in the very pass that ends the losers (`ResolvedRaces`), is never
undone, and no handler begins a stage that has not.

**Without crashes.** `Steady` adds that the stages of a group do not both *have* the
conversation (a launch that waits, or a state from *starting* to *awaiting_input*), that
nothing is queued in a paused run, and that a granted retry is still known: in the
reason of the row, and, once it is queued, in its mode. `admit` establishes the first two
and nothing else adds to them; `PauseReason` and `Unpause` carry the third. A crash breaks
all three on purpose: the recovery of section 4.2 launches what was live without asking
`admit`, so the theorems take `"crash" \notin Kinds`, as the runs do.

A finding on the way: two arms of the `CASE` of `OnAttemptSettled` overlapped, the one
of a success of a stage that is validating and the one of any success. TLC takes the
first arm that holds, and a proof may not choose. The second is now guarded by
`i.status # "validating"`, which is what the order of the branches in the code says.

**Ownership.** `OwnershipInv` says that no actor and no batch is of an epoch ahead of
the row's (`Behind`), that whatever is of the row's epoch belongs to the process the
row names (`Named`), and that an ended run has no current actor. `OneWriter` follows
from the second, `WritesInOrder` from the first; neither is inductive alone, since a
claim is only known to be new because nothing is ahead of it.

**Queues.** `Positions_proofs` says what is left of a queue when some of its positions go:
its elements are old ones, in their old order, each with its predecessors among the old
predecessors. The rest is about one pass over a queue. For leases, `Excluded` is
preserved because each request granted is compatible with all that was taken before it,
by position; and what is left is not grantable, since a waiter passed over met a part of
what is held in the end, and stands behind the same requests (`MoreHeldBack`: more
leases and more predecessors never help). For flow keys the same argument is one about
room that only shrinks during a pass (`LessRoom`). No lost wake-up is what one could
doubt: a merge passes the line and a waiter leaves from the middle, so a release that
pumped only the head of the queue would be wrong. `GatesInv` needs only the two queues
and their types: the theorems hold whoever calls, and in which order.

**Leases and their owners.** `WorkInv` says that the first launch of a writer, once its
request was granted, and a map, from the grant of its snapshot on, hold each of their
mounts (`FirstHas`, `MapHas`); a step moves leases of one owner in one mode
(`LeaseMove`), so everybody else's stay. With `Excluded` that is `FirstLaunchExcluded`.
It stops at first launches because the step in which a launch ends releases in the name
of its stage, a newer launch's lease included ("a release too many", 4.2). The other direction,
`LeasesGivenBack`, needs to know who will take a lease that is still asked for: `OwedInv`
says that every lease is backed by somebody who works or goes on under it, that every
waiting request is one somebody waits behind (`Asked`), once, and that its promise says
so. A grant then makes an asked-for request a backed lease, and a step that moves its
owner on releases or withdraws it (`LeaseStep`).

**Outbox.** `OutboxInv`: what is marked is on the stream, the batch goes over what is
not marked in order (`InTurnOf`), and of the rows the writer holds at most one is of the
run: the event the drain waits for. The last part is why a refused or failed row cannot
be overtaken; it rests on the writer folding deltas only, which the run never emits. A
repetition after a crash or a failed mark maps to a stutter.

**Order of a stream.** `StreamInv`, for each client: the rows its connection holds ascend
between its cursor and the watermark of its subscription, and the rows a replay has
still to hand over ascend above that watermark. A row is handed on only above the
watermark, whatever order broadcasts come in, and a new subscription starts at the
client's cursor, after its old connection's queue is gone.

**The types of a stream.** Numbers are those of rows that were committed (`Bounds`): what
a connection announces is a stretch from the first to the last row it dropped, so the
proof needs that a finite set of numbers has both (`Spans`); and the writer, a
connection and the counters stay within their limits, `makeRoom` because it takes a row
away before one is added (`MadeRoomFits`).

**Holes.** `HolesTold` speaks of what a client has missed and is not inductive: a row may
get lost long before the cursor passes it. `HoleInv` follows each row from the commit on,
for each client. Above the watermark of its subscription (`Ahead`) the client knows of a
row, or the row is on its way (a broadcast has the client still to serve), in the replay
that is to be handed over, or put aside. Up to the watermark (`Behind`) the client knows
of it, or the connection has it in its queue or in the gap it will announce. To know of a
row is to have been told, to be able to get it nowhere because retention took a delta, or
one of the named causes (section 4.2). Five more parts carry it through a resume:

- what a replay hands over leaves nothing out (`Contiguous`), because it is the first
  rows above the cursor (`FirstOnes`); if the limit did not cut it off it is all of them;
- a row that is gone by its age lies below all that is kept (`Floor`), so it is above the
  watermark only when the floor is above the cursor, which is what `Check` tells of.
  The floor is read after the rows: between the two a row may be gone unknown
  (`Excusable`);
- what was put aside is in order but for late broadcasts, which are named (`PutAside`),
  and a broadcast can only be late when a subscriber held it (`LateOnes`);
- nobody is attached who is away, and nothing is on its way to who is away (`Attached`);
- a connection with a gap is stalled, and so will announce it (`Announced`).

One lemma says what a write may pass over (`WroteTells`), one what handing over a row
needs (`TakenAccounted`): that every row between the watermark and it is known. TLC
checked `HoleInv` on the instance of `Delivery` and on others before it was proved.

**Flow keys and who has them.** `PermitsConserved` counts, and is not inductive: a pass
over the queue takes keys for whoever it grants, so what it grants must be a caller that
has nothing yet, and what it takes must be what that caller counts for later. `KeysInv`
adds both. `Line`: the queue has each caller once, as one that waits, with the keys it
still lacks. `Places`: only who waits has a promise, only frames have tickets, and a
ticket is for keys of its own stage. `Sums` is the count itself, over tickets, turns of
persons and promises that were granted. A step then moves one caller from one of the
three sets to another, adds one or takes one away (`SumMore`, `SumLess`); it uses that no
chat has the name of a launch (`GatesAssumption`).

Only model-checked: everything under fairness (`StageMoves`, `DecidedEnds`, `CancelEnds`,
`TakenOver`, `EndsUnlessRead`, `SnapshotServed`, `MapMergeServed`, `MergeServed`,
`AllDispatched`), for liveness and ENABLED are out of the prover's reach. The properties
that fail (section 4.2) TLC shows to fail.

## 6. Not modelled

- Loops, the items of maps, child runs, expansions and waits of the scheduler, and the
  messages that bring an llm summary (that a pass meets one being written is in
  `ReadinessPass`); the wall-clock budget. Of maps and sub-workflows
  `LaunchGates` has what they do to the mounts; the merge of a completed map's winner
  it has not.
- Version conflicts of a batch and its three tries, and the frames of two processes
  over one row: `RunScheduler` has one process, `EngineOwnership` no frames.
- Conditions that change: a condition of an edge or a guard has one value for ever.
- The lifecycle's compensation list, onExit and post-processing one by one, and what they
  touch while a cancelled frame winds down; the turn journal, sessions, repairs and
  watchdog of the executor; two tools of one turn that give the frame's keys back at once.
- Leases across runs: a child run's stages ask for the mounts of their parent's stage.
- The delta log, kind prefixes, several scopes on one connection, the snapshot prelude and
  the byte cap of a stream; boot's drain of the outbox lists at most 5,000 rows, the model
  all of them.
- Idempotency, automations, the chat side, process hosts, parsing, validation and
  compilation of definitions, provider adapters, servers and clients: candidates, data
  transformations, or input and output around the engine. `PROJECT.json` lists each with
  its reason.
