--------------------------- MODULE EngineOwnership ---------------------------
(* Who may write a run when several processes open one database: the engine    *)
(* lock with its heartbeat (EngineStores.ts), the ownership epoch of a run      *)
(* (engineCas.ts, RunStore.ts) and the supervisor that takes, renews, loses and *)
(* leaves both (RunSupervisor.ts).  Proc is the set of boots: a process that    *)
(* died or stopped its engine does not start it again.                          *)
(*                                                                             *)
(* Time is left out: a heartbeat is fresh or stale.  The heartbeat of a live    *)
(* holder goes stale when the process is suspended past lockStaleMs.            *)
EXTENDS Naturals

CONSTANTS
  Proc, Run,
  NoProc,       \* a NULL boot_id
  MaxEpoch,     \* bound: claims of a run
  MaxStalls     \* bound: heartbeats of a live holder that go stale

ASSUME OwnershipAssumption ==
  NoProc \notin Proc /\ MaxEpoch \in Nat /\ MaxStalls \in Nat

VARIABLES
  lock,    \* the engine_lock row: its boot, and whether its heartbeat is fresh
  phase,   \* each process's engine
  todo,    \* the runs its recovery has still to take over
  run,     \* how far each run is
  owner,   \* owner_id and owner_epoch of each run
  actor,   \* the actors map of each process, and each actor's epoch
  wrote,   \* history: who wrote the last batch of the run, at which epoch
  stalls

vars == <<lock, phase, todo, run, owner, actor, wrote, stalls>>
rows == <<run, owner, wrote>>

Owner == [by : Proc \cup {NoProc}, epoch : Nat]

\* An actor is created (its run claimed, its definition being loaded), live, or
\* retired and still in the map.
Actor == [is : {"creating", "live", "retired"}, epoch : Nat \ {0}]
NoActor == [is |-> "none", epoch |-> 0]

Running(p) == phase[p] \in {"recovering", "up"}

\* An actor that has messages to decide.
Decides(p, r) == actor[p][r].is \in {"creating", "live"}

\* The fence of RunStore.apply lets it write.
Current(p, r) == Decides(p, r) /\ actor[p][r].epoch = owner[r].epoch

-----------------------------------------------------------------------------
Init ==
  /\ lock = [by |-> NoProc, fresh |-> FALSE]
  /\ phase = [p \in Proc |-> "off"]
  /\ todo = [p \in Proc |-> {}]
  /\ run = [r \in Run |-> "created"]
  /\ owner = [r \in Run |-> [by |-> NoProc, epoch |-> 0]]
  /\ actor = [p \in Proc |-> [r \in Run |-> NoActor]]
  /\ wrote = [r \in Run |-> [by |-> NoProc, epoch |-> 0]]
  /\ stalls = 0

\* start (and startOrRetry, until the lock is free or stale); recovery lists the
\* runs that were started and are not over.
Start(p) ==
  /\ phase[p] = "off"
  /\ lock.by \in {NoProc, p} \/ ~lock.fresh
  /\ lock' = [by |-> p, fresh |-> TRUE]
  /\ phase' = [phase EXCEPT ![p] = "recovering"]
  /\ todo' = [todo EXCEPT ![p] = {r \in Run : run[r] = "live"}]
  /\ UNCHANGED <<rows, actor, stalls>>

\* Mutant: a forced claim keeps the epoch.
ClaimSameEpoch(p, r) ==
  /\ owner[r].epoch < MaxEpoch
  /\ owner' = [owner EXCEPT ![r].by = p]
  /\ actor' = [actor EXCEPT ![p][r] = [is |-> "creating", epoch |-> owner[r].epoch]]

\* claimRunOwnership by force, whoever owns the run and whoever holds the lock.
Claim(p, r) ==
  /\ owner[r].epoch < MaxEpoch
  /\ owner' = [owner EXCEPT ![r] = [by |-> p, epoch |-> owner[r].epoch + 1]]
  /\ actor' = [actor EXCEPT ![p][r] = [is |-> "creating", epoch |-> owner[r].epoch + 1]]

\* actorFor, createActor: a first message to a run that is not over claims it.
Create(p, r) ==
  /\ Running(p) /\ actor[p][r] = NoActor /\ run[r] # "over"
  /\ Claim(p, r)
  /\ UNCHANGED <<lock, phase, todo, run, wrote, stalls>>

\* Mutant: recovery leaves the runs of others alone.
RecoverOwn(p, r) ==
  /\ phase[p] = "recovering" /\ r \in todo[p]
  /\ todo' = [todo EXCEPT ![p] = @ \ {r}]
  /\ IF actor[p][r] = NoActor /\ run[r] = "live" /\ owner[r].by \in {NoProc, p}
       THEN Claim(p, r) ELSE UNCHANGED <<owner, actor>>
  /\ UNCHANGED <<lock, phase, run, wrote, stalls>>

\* recover takes each run over; the runs come in any order.
Recover(p, r) ==
  /\ phase[p] = "recovering" /\ r \in todo[p]
  /\ todo' = [todo EXCEPT ![p] = @ \ {r}]
  /\ IF actor[p][r] = NoActor /\ run[r] = "live"
       THEN Claim(p, r) ELSE UNCHANGED <<owner, actor>>
  /\ UNCHANGED <<lock, phase, run, wrote, stalls>>

Recovered(p) ==
  /\ phase[p] = "recovering" /\ todo[p] = {}
  /\ phase' = [phase EXCEPT ![p] = "up"]
  /\ UNCHANGED <<lock, todo, rows, actor, stalls>>

\* A message reaches an actor: a live one of a running engine, or one whose
\* creation ends now and has messages waiting, even when the engine stopped
\* meanwhile (stop retires it behind them).
Reached(p, r) == (Running(p) /\ Decides(p, r)) \/ actor[p][r].is = "creating"

After(p, r, next) ==
  IF next = "over" \/ ~Running(p) THEN NoActor ELSE [actor[p][r] EXCEPT !.is = "live"]

\* Mutant: the batch is applied without the fence.
WriteUnfenced(p, r, next) ==
  /\ Reached(p, r)
  /\ <<run[r], next>> \in {<<"created", "live">>, <<"live", "live">>, <<"live", "over">>}
  /\ run' = [run EXCEPT ![r] = next]
  /\ wrote' = [wrote EXCEPT ![r] = [by |-> p, epoch |-> actor[p][r].epoch]]
  /\ actor' = [actor EXCEPT ![p][r] = After(p, r, next)]
  /\ UNCHANGED <<lock, phase, todo, owner, stalls>>

\* Mutant: the actor of a run that is over is not dropped.
WriteKeepsActor(p, r, next) ==
  /\ Reached(p, r) /\ Current(p, r)
  /\ <<run[r], next>> \in {<<"created", "live">>, <<"live", "live">>, <<"live", "over">>}
  /\ run' = [run EXCEPT ![r] = next]
  /\ wrote' = [wrote EXCEPT ![r] = [by |-> p, epoch |-> actor[p][r].epoch]]
  /\ actor' = [actor EXCEPT ![p][r] = After(p, r, "live")]
  /\ UNCHANGED <<lock, phase, todo, owner, stalls>>

\* process: decided, and applied under the epoch; a run that is over has no actor.
Write(p, r, next) ==
  /\ Reached(p, r) /\ Current(p, r)
  /\ <<run[r], next>> \in {<<"created", "live">>, <<"live", "live">>, <<"live", "over">>}
  /\ run' = [run EXCEPT ![r] = next]
  /\ wrote' = [wrote EXCEPT ![r] = [by |-> p, epoch |-> actor[p][r].epoch]]
  /\ actor' = [actor EXCEPT ![p][r] = After(p, r, next)]
  /\ UNCHANGED <<lock, phase, todo, owner, stalls>>

\* process: the batch is fenced; the actor retires, leaves the map, and the
\* message is lost.
Fenced(p, r) ==
  /\ Reached(p, r) /\ ~Current(p, r)
  /\ actor' = [actor EXCEPT ![p][r] = NoActor]
  /\ UNCHANGED <<lock, phase, todo, rows, stalls>>

\* An actor is created, and the message it was created for decides nothing.
Created(p, r) ==
  /\ actor[p][r].is = "creating"
  /\ actor' = [actor EXCEPT ![p][r] = After(p, r, run[r])]
  /\ UNCHANGED <<lock, phase, todo, rows, stalls>>

\* The engine of p leaves its actors; those being created go once they are there.
Leave(p) ==
  actor' = [actor EXCEPT ![p] = [r \in Run |->
              IF actor[p][r].is = "creating" THEN actor[p][r] ELSE NoActor]]

\* renew, with the lock: the heartbeat, and the ownership of every run it hosts;
\* an actor whose run was taken retires where it is.
RenewHeld(p) ==
  /\ Running(p) /\ lock.by = p
  /\ lock' = [lock EXCEPT !.fresh = TRUE]
  /\ actor' = [actor EXCEPT ![p] = [r \in Run |->
                 IF actor[p][r].is = "live" /\ owner[r] # [by |-> p, epoch |-> actor[p][r].epoch]
                   THEN [actor[p][r] EXCEPT !.is = "retired"] ELSE actor[p][r]]]
  /\ UNCHANGED <<phase, todo, rows, stalls>>

\* renew, without it: the engine stops.
RenewLost(p) ==
  /\ Running(p) /\ lock.by # p
  /\ phase' = [phase EXCEPT ![p] = "stopped"]
  /\ Leave(p)
  /\ UNCHANGED <<lock, todo, rows, stalls>>

\* stop, with the lock released if it is still its own.
Stop(p) ==
  /\ Running(p)
  /\ phase' = [phase EXCEPT ![p] = "stopped"]
  /\ lock' = IF lock.by = p THEN [by |-> NoProc, fresh |-> FALSE] ELSE lock
  /\ Leave(p)
  /\ UNCHANGED <<todo, rows, stalls>>

Crash(p) ==
  /\ phase[p] # "dead"
  /\ phase' = [phase EXCEPT ![p] = "dead"]
  /\ actor' = [actor EXCEPT ![p] = [r \in Run |-> NoActor]]
  /\ UNCHANGED <<lock, todo, rows, stalls>>

\* The heartbeat is not renewed in time: the holder is gone, or suspended.
Abandoned ==
  /\ lock.by # NoProc /\ lock.fresh /\ ~Running(lock.by)
  /\ lock' = [lock EXCEPT !.fresh = FALSE]
  /\ UNCHANGED <<phase, todo, rows, actor, stalls>>

Stall ==
  /\ lock.by # NoProc /\ lock.fresh /\ Running(lock.by) /\ stalls < MaxStalls
  /\ lock' = [lock EXCEPT !.fresh = FALSE]
  /\ stalls' = stalls + 1
  /\ UNCHANGED <<phase, todo, rows, actor>>

-----------------------------------------------------------------------------
Engine(p) ==
  \/ Start(p) \/ Recovered(p) \/ RenewHeld(p) \/ RenewLost(p)
  \/ \E r \in Run :
       \/ Create(p, r) \/ Recover(p, r) \/ Created(p, r) \/ Fenced(p, r)
       \/ \E next \in {"live", "over"} : Write(p, r, next)

Next == Abandoned \/ Stall \/ \E p \in Proc : (Engine(p) \/ Stop(p) \/ Crash(p))

Spec == Init /\ [][Next]_vars

\* A process that runs starts its engine when it can, recovers, renews its lock and
\* loads the definitions it waits for; its actors decide what reaches them; time
\* passes.  No message is owed to a run, so that none makes a process claim it.
Fairness ==
  /\ WF_vars(Abandoned)
  /\ \A p \in Proc :
       /\ WF_vars(Start(p)) /\ WF_vars(Recovered(p)) /\ WF_vars(RenewHeld(p) \/ RenewLost(p))
       /\ \A r \in Run :
            /\ WF_vars(Recover(p, r))
            /\ WF_vars(Created(p, r) \/ Fenced(p, r) \/ Write(p, r, "live"))

FairSpec == Spec /\ Fairness

-----------------------------------------------------------------------------
(* Properties.                                                                  *)

TypeOK ==
  /\ lock \in [by : Proc \cup {NoProc}, fresh : BOOLEAN]
  /\ phase \in [Proc -> {"off", "recovering", "up", "stopped", "dead"}]
  /\ todo \in [Proc -> SUBSET Run]
  /\ run \in [Run -> {"created", "live", "over"}]
  /\ owner \in [Run -> Owner]
  /\ actor \in [Proc -> [Run -> Actor \cup {NoActor}]]
  /\ wrote \in [Run -> Owner]
  /\ stalls \in Nat

\* However the lock goes stale and is taken, at most one actor of a run passes the
\* fence: the one of the process the row names, created by its last claim.
OneWriter ==
  \A r \in Run, p \in Proc : Current(p, r) => owner[r].by = p

\* A run that is over has no actor left that could write it again, in any process.
OverIsFinal ==
  \A r \in Run, p \in Proc : run[r] = "over" => ~Current(p, r)

\* The batches of a run come in the order of the claims: once the process of a
\* later claim wrote, that of an earlier one never does, however late it wakes.
WritesInOrder ==
  [][\A r \in Run : wrote'[r] # wrote[r] => wrote'[r].epoch > wrote[r].epoch]_vars

\* A run whose process died when no engine was running is taken over by recovery,
\* whichever engines start, stall, stop or die meanwhile, while one is left to start.
TakenOver ==
  \A p \in Proc, r \in Run :
    (/\ phase[p] = "dead" /\ owner[r].by = p /\ run[r] = "live"
     /\ \A q \in Proc : ~Running(q))
      ~> \/ owner[r].by # p \/ run[r] # "live"
         \/ owner[r].epoch = MaxEpoch
         \/ \A q \in Proc : phase[q] \in {"stopped", "dead"}

=============================================================================
