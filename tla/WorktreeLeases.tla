--------------------------- MODULE WorktreeLeases ---------------------------
(* Leases on the mounts of a run (WorktreeLeases.ts): a map holds its mounts   *)
(* `shared`, a stage outside it that may write them `write`, a merge into them  *)
(* `exclusive`.  A request takes all of its keys at once or waits in one queue. *)
(* The operations are actions here; LaunchGates says who calls them.            *)
EXTENDS Positions

CONSTANTS
  Mount,      \* the lease keys
  Holder,     \* the owners: instances of stages and maps
  Request     \* names of acquire calls

Mode == {"shared", "write", "exclusive"}

VARIABLES
  holders,    \* who holds which key in which mode
  queue,      \* the requests that wait, oldest first
  lease       \* the promise each acquire call returned

leaseVars == <<holders, queue, lease>>

Holding == [key : Mount, owner : Holder, mode : Mode]
Waiting == [id : Request, owner : Holder, mode : Mode, keys : SUBSET Mount]

LeasesInit ==
  /\ holders = {}
  /\ queue = <<>>
  /\ lease = [id \in Request |-> "none"]

-----------------------------------------------------------------------------
\* Mutant: a merge waits for every map.
ConflictsWithMaps(h, w) ==
  /\ h.key \in w.keys /\ h.owner # w.owner
  /\ h.mode # w.mode \/ w.mode = "exclusive"

\* compatible: an owner's own leases never conflict; a merge ignores maps.
Conflicts(h, w) ==
  /\ h.key \in w.keys /\ h.owner # w.owner
  /\ IF w.mode = "exclusive" THEN h.mode # "shared" ELSE h.mode # w.mode

\* An earlier request on a common key that cannot share it goes first.
GoesBefore(a, w) ==
  /\ a.keys \cap w.keys # {} /\ a.owner # w.owner
  /\ a.mode # w.mode \/ a.mode = "exclusive"

\* Mutant: only writers hold a request back.
GrantableAmongWriters(H, ahead, w) ==
  /\ \A h \in H : ~(Conflicts(h, w) /\ h.mode = "write")
  /\ w.mode = "exclusive" \/ \A a \in ahead : ~GoesBefore(a, w)

\* A merge does not wait in line.
Grantable(H, ahead, w) ==
  /\ \A h \in H : ~Conflicts(h, w)
  /\ w.mode = "exclusive" \/ \A a \in ahead : ~GoesBefore(a, w)

Taken(w) == {[key |-> k, owner |-> w.owner, mode |-> w.mode] : k \in w.keys}

\* The leases after the waiters at positions G of q took theirs.
WithTaken(H, q, G) == H \cup UNION {Taken(q[i]) : i \in G}

\* One pass over the queue, oldest first: each waiter meets what the ones
\* granted before it took, and stands behind the ones passed over.
IsPass(H, q, G) ==
  \A i \in DOMAIN q :
    i \in G <=> Grantable(WithTaken(H, q, {j \in G : j < i}),
                          {q[j] : j \in {j \in DOMAIN q \ G : j < i}}, q[i])

Except(q, G) == At(q, DOMAIN q \ G)

\* pump, from the leases H and the queue q a release or a withdrawal left.
Pump(H, q, promises) ==
  \E G \in SUBSET DOMAIN q :
    /\ IsPass(H, q, G)
    /\ holders' = WithTaken(H, q, G)
    /\ queue' = Except(q, G)
    /\ lease' = [id \in Request |->
                   IF \E i \in G : q[i].id = id THEN "granted" ELSE promises[id]]

\* acquire, with its signal aborted or not.
Acquire(id, owner, mode, keys) ==
  LET w == [id |-> id, owner |-> owner, mode |-> mode, keys |-> keys]
      ahead == {queue[i] : i \in DOMAIN queue}
      Granted == Grantable(holders, ahead, w)
  IN /\ lease[id] = "none"
     /\ holders' = IF Granted THEN holders \cup Taken(w) ELSE holders
     /\ queue' = IF Granted THEN queue ELSE Append(queue, w)
     /\ lease' = [lease EXCEPT ![id] = IF Granted THEN "granted" ELSE "waiting"]

\* Withdraw the waiters of Out, then pump from the leases H.
WithdrawFrom(H, Out) ==
  \E left \in {H}, q \in {At(queue, {i \in DOMAIN queue : queue[i] \notin Out})} :
    Pump(left, q,
         [id \in Request |-> IF \E w \in Out : w.id = id THEN "rejected" ELSE lease[id]])

InQueue == {queue[i] : i \in DOMAIN queue}

\* Mutant: a release does not wake the queue.
ReleaseOnly(owner, mode, keys) ==
  LET Out == {w \in InQueue : w.owner = owner /\ w.mode = mode /\ w.keys \cap keys # {}}
  IN /\ holders' = {h \in holders : ~(h.owner = owner /\ h.mode = mode /\ h.key \in keys)}
     /\ queue' = At(queue, {i \in DOMAIN queue : queue[i] \notin Out})
     /\ lease' = [id \in Request |-> IF \E w \in Out : w.id = id THEN "rejected" ELSE lease[id]]

\* release: the owner's leases of the mode on the keys, and its requests for them.
Release(owner, mode, keys) ==
  WithdrawFrom({h \in holders : ~(h.owner = owner /\ h.mode = mode /\ h.key \in keys)},
               {w \in InQueue : w.owner = owner /\ w.mode = mode /\ w.keys \cap keys # {}})

\* The signal of one request aborts: it leaves the queue.
Withdraw(id) == WithdrawFrom(holders, {w \in InQueue : w.id = id})

\* The caller of a request that was granted, or withdrawn, goes on.
LeaseSettled(id, as) ==
  /\ lease[id] = as
  /\ lease' = [lease EXCEPT ![id] = "none"]
  /\ UNCHANGED <<holders, queue>>

-----------------------------------------------------------------------------
\* Two owners hold one key only in modes that go together: writers with
\* writers, maps with maps, and one merge among maps (WorktreeLeases.ts:22-25).
Excluded ==
  \A g, h \in holders :
    g.key = h.key /\ g.owner # h.owner =>
      /\ (g.mode = "write") = (h.mode = "write")
      /\ ~(g.mode = "exclusive" /\ h.mode = "exclusive")

\* No request waits that could be granted: every operation that frees a key or
\* shortens the queue looks at all who wait.
NoLeaseWakeupLost ==
  \A i \in DOMAIN queue :
    ~Grantable(holders, {queue[j] : j \in 1..(i - 1)}, queue[i])

=============================================================================
