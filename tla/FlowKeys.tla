------------------------------ MODULE FlowKeys ------------------------------
(* The admission controller (AdmissionController.ts): named limits on what     *)
(* runs at once.  A caller takes all of its flow keys or waits for all; only a  *)
(* full key holds a waiter back, and a person's turn waits before any stage.    *)
(* A key that is not gated has a limit no number of callers reaches.            *)
(* The operations are actions here; LaunchGates says who calls them.            *)
EXTENDS Positions

CONSTANTS
  Flow,       \* the flow keys
  Caller,     \* names of the waits: one caller waits once at a time
  Limits      \* the limits an operator may set: functions from Flow

ASSUME LimitsAssumption == Limits \subseteq [Flow -> Nat \ {0}]

VARIABLES
  limit,        \* the limits in force
  flowRunning,  \* how many hold each key
  flowWaiters,  \* the queue: persons first, then stage launches
  permit        \* the promise of each caller's wait

flowVars == <<limit, flowRunning, flowWaiters, permit>>

Waiter == [id : Caller, keys : SUBSET Flow, priority : BOOLEAN]

FlowsInit ==
  /\ limit \in Limits
  /\ flowRunning = [k \in Flow |-> 0]
  /\ flowWaiters = <<>>
  /\ permit = [c \in Caller |-> "none"]

-----------------------------------------------------------------------------
Room(running, lim, keys) == \A k \in keys : running[k] < lim[k]

\* How many of the waiters at positions G take the key.
Takers(q, G, k) == Cardinality({i \in G : k \in q[i].keys})
After(running, q, G) == [k \in Flow |-> running[k] + Takers(q, G, k)]

\* One pass over the queue: a waiter is granted when all of its keys have room
\* beside those granted before it; one that is passed over reserves nothing.
Admits(running, lim, q, G) ==
  \A i \in DOMAIN q : i \in G <=> Room(After(running, q, {j \in G : j < i}), lim, q[i].keys)

Remaining(q, G) == At(q, DOMAIN q \ G)

\* pumpFlows, from what an operation left.
PumpFlows(running, lim, q, promises) ==
  \E G \in SUBSET DOMAIN q :
    /\ Admits(running, lim, q, G)
    /\ flowRunning' = After(running, q, G)
    /\ flowWaiters' = Remaining(q, G)
    /\ permit' = [c \in Caller |-> IF \E i \in G : q[i].id = c THEN "granted" ELSE promises[c]]

\* Behind the persons who wait already, ahead of the stages.
Queued(q, w) ==
  IF w.priority
    THEN At(q, {i \in DOMAIN q : q[i].priority}) \o <<w>> \o At(q, {i \in DOMAIN q : ~q[i].priority})
    ELSE Append(q, w)

Take(keys) == [k \in Flow |-> IF k \in keys THEN flowRunning[k] + 1 ELSE flowRunning[k]]

\* Mutant: only the first key that is looked at must have room.
WaitAnyRoom(c, keys, priority) ==
  /\ permit[c] = "none"
  /\ IF \E k \in keys : Room(flowRunning, limit, {k})
       THEN /\ flowRunning' = Take(keys)
            /\ permit' = [permit EXCEPT ![c] = "granted"]
            /\ UNCHANGED flowWaiters
       ELSE /\ flowWaiters' = Queued(flowWaiters, [id |-> c, keys |-> keys, priority |-> priority])
            /\ permit' = [permit EXCEPT ![c] = "waiting"]
            /\ UNCHANGED flowRunning
  /\ UNCHANGED limit

\* waitFlows, its signal not aborted yet.
WaitFlows(c, keys, priority) ==
  /\ permit[c] = "none"
  /\ IF Room(flowRunning, limit, keys)
       THEN /\ flowRunning' = Take(keys)
            /\ permit' = [permit EXCEPT ![c] = "granted"]
            /\ UNCHANGED flowWaiters
       ELSE /\ flowWaiters' = Queued(flowWaiters, [id |-> c, keys |-> keys, priority |-> priority])
            /\ permit' = [permit EXCEPT ![c] = "waiting"]
            /\ UNCHANGED flowRunning
  /\ UNCHANGED limit

\* tryAcquire: the keys at once, ahead of everybody who waits, or not at all.
TryAcquire(keys) ==
  /\ Room(flowRunning, limit, keys) /\ flowRunning' = Take(keys)
  /\ UNCHANGED <<limit, flowWaiters, permit>>

Given(running, keys) == [k \in Flow |-> IF k \in keys /\ running[k] > 0 THEN running[k] - 1 ELSE running[k]]

NotOf(q, c) == At(q, {i \in DOMAIN q : q[i].id # c})

\* untake, by a caller whose wait is now as `settled` says (a task that ends
\* withdraws a resume that is queued before it gives its keys back).
Untake(c, keys, settled) ==
  /\ PumpFlows(Given(flowRunning, keys), limit, NotOf(flowWaiters, c), [permit EXCEPT ![c] = settled])
  /\ UNCHANGED limit

\* Mutant: an abort rejects a wait that was granted already.
WithdrawGranted(c) ==
  /\ flowWaiters' = NotOf(flowWaiters, c)
  /\ permit' = [permit EXCEPT ![c] = IF @ = "none" THEN @ ELSE "withdrawn"]
  /\ UNCHANGED <<limit, flowRunning>>

\* The signal of a wait aborts: it leaves the queue, unless it was granted.
WithdrawFlow(c) ==
  /\ flowWaiters' = NotOf(flowWaiters, c)
  /\ permit' = [permit EXCEPT ![c] = IF @ = "waiting" THEN "withdrawn" ELSE @]
  /\ UNCHANGED <<limit, flowRunning>>

\* Mutant: new limits do not wake the queue.
SetLimitsOnly(new) ==
  /\ limit' = new
  /\ UNCHANGED <<flowRunning, flowWaiters, permit>>

\* setFlowLimits: a raised limit admits waiters at once.
SetFlowLimits(new) ==
  /\ limit' = new
  /\ PumpFlows(flowRunning, new, flowWaiters, permit)

\* The caller of a wait that was granted, or withdrawn, goes on.
PermitSettled(c, as) ==
  /\ permit[c] = as
  /\ permit' = [permit EXCEPT ![c] = "none"]
  /\ UNCHANGED <<limit, flowRunning, flowWaiters>>

-----------------------------------------------------------------------------
\* A key is taken only below its limit: whatever is granted, in one step or to
\* many at once, no key ends above the limit in force; a lowered limit only
\* waits for its holders to finish (AdmissionController.ts:180-184).
NeverOverLimit ==
  [][\A k \in Flow : flowRunning'[k] > flowRunning[k] => flowRunning'[k] <= limit'[k]]_flowVars

\* No caller waits while all of its keys have room.
NoPermitWakeupLost ==
  \A i \in DOMAIN flowWaiters : ~Room(flowRunning, limit, flowWaiters[i].keys)

=============================================================================
