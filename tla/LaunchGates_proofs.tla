------------------------- MODULE LaunchGates_proofs -------------------------
(* For any stages, maps, chats, mounts, flow keys and limits, and however often *)
(* the process stops: two owners never hold a mount in modes that exclude each  *)
(* other, no request for a lease and no wait for flow keys is forgotten, no key *)
(* is taken above its limit, no first launch of a writer works on a mount while *)
(* a map runs on it, no lease outlives what it was taken for, and every key     *)
(* that counts as taken is somebody's.  Of each queue the invariant says that   *)
(* none of its waiters could be served; a pass keeps this because what it       *)
(* grants only adds leases and taken keys.                                      *)
EXTENDS LaunchGates, Positions_proofs

ExcludedIn(H) ==
  \A g, h \in H :
    g.key = h.key /\ g.owner # h.owner =>
      /\ (g.mode = "write") = (h.mode = "write")
      /\ ~(g.mode = "exclusive" /\ h.mode = "exclusive")

AllHeldBack(H, q) == \A i \in DOMAIN q : ~Grantable(H, {q[j] : j \in 1..(i - 1)}, q[i])

LeaseInv == queue \in Seq(Waiting) /\ Excluded /\ NoLeaseWakeupLost

NoRoomFor(running, lim, q) == \A i \in DOMAIN q : ~Room(running, lim, q[i].keys)

FlowInv ==
  /\ limit \in Limits /\ flowRunning \in [Flow -> Nat] /\ flowWaiters \in Seq(Waiter)
  /\ NoPermitWakeupLost

\* What stays of a queue was in it.
LEMMA Remainder ==
  ASSUME NEW W, NEW q \in Seq(W), NEW S \in SUBSET DOMAIN q
  PROVE  /\ At(q, S) \in Seq(W)
         /\ \A i \in DOMAIN At(q, S) : \E n \in S : At(q, S)[i] = q[n]
<1>1. PICK a \in [DOMAIN At(q, S) -> S] : \A i \in DOMAIN At(q, S) : At(q, S)[i] = q[a[i]]
  BY AtKeeps
<1>2. At(q, S) \in Seq(W) BY AtKeeps
<1> QED BY <1>1, <1>2

-----------------------------------------------------------------------------
(* The leases.                                                                  *)

\* What a request takes does not clash with leases it does not conflict with.
LEMMA TakenExcludes ==
  ASSUME NEW H, ExcludedIn(H), NEW w, \A h \in H : ~Conflicts(h, w)
  PROVE  ExcludedIn(H \cup Taken(w))
<1> SUFFICES ASSUME NEW g \in H \cup Taken(w), NEW h \in H \cup Taken(w),
                    g.key = h.key, g.owner # h.owner
             PROVE  /\ (g.mode = "write") = (h.mode = "write")
                    /\ ~(g.mode = "exclusive" /\ h.mode = "exclusive")
  BY DEF ExcludedIn
<1>1. \A t \in Taken(w) : t.key \in w.keys /\ t.owner = w.owner /\ t.mode = w.mode BY DEF Taken
<1>2. CASE g \in H /\ h \in H BY <1>2 DEF ExcludedIn
<1>3. CASE g \in H /\ h \in Taken(w) BY <1>1, <1>3 DEF Conflicts
<1>4. CASE g \in Taken(w) /\ h \in H BY <1>1, <1>4 DEF Conflicts
<1>5. CASE g \in Taken(w) /\ h \in Taken(w) BY <1>1, <1>5
<1> QED BY <1>2, <1>3, <1>4, <1>5

\* A pass leaves the leases apart.
LEMMA PassExcludes ==
  ASSUME NEW H, ExcludedIn(H), NEW q \in Seq(Waiting), NEW G \in SUBSET DOMAIN q, IsPass(H, q, G)
  PROVE  ExcludedIn(WithTaken(H, q, G))
<1> DEFINE W == WithTaken(H, q, G)
<1>1. \A i \in G : \A h \in WithTaken(H, q, {j \in G : j < i}) : ~Conflicts(h, q[i])
  BY DEF IsPass, Grantable
<1>2. \A i, j \in G : j < i => Taken(q[j]) \subseteq WithTaken(H, q, {k \in G : k < i}) BY DEF WithTaken
<1>3. \A i \in G : H \subseteq WithTaken(H, q, {k \in G : k < i}) BY DEF WithTaken
<1>4. \A i \in G : \A t \in Taken(q[i]) : t.key \in q[i].keys /\ t.owner = q[i].owner /\ t.mode = q[i].mode
  BY DEF Taken
<1> SUFFICES ASSUME NEW g \in W, NEW h \in W, g.key = h.key, g.owner # h.owner
             PROVE  /\ (g.mode = "write") = (h.mode = "write")
                    /\ ~(g.mode = "exclusive" /\ h.mode = "exclusive")
  BY DEF ExcludedIn
<1>5. (g \in H \/ \E i \in G : g \in Taken(q[i])) /\ (h \in H \/ \E i \in G : h \in Taken(q[i]))
  BY DEF WithTaken
<1>6. CASE g \in H /\ h \in H BY <1>6 DEF ExcludedIn
<1>7. CASE g \in H /\ \E i \in G : h \in Taken(q[i]) BY <1>1, <1>3, <1>4, <1>7 DEF Conflicts
<1>8. CASE h \in H /\ \E i \in G : g \in Taken(q[i]) BY <1>1, <1>3, <1>4, <1>8 DEF Conflicts
<1>9. CASE (\E i \in G : g \in Taken(q[i])) /\ \E i \in G : h \in Taken(q[i])
  <2>1. PICK i \in G : g \in Taken(q[i]) BY <1>9
  <2>2. PICK j \in G : h \in Taken(q[j]) BY <1>9
  <2>3. i # j BY <1>4, <2>1, <2>2
  <2>4. i \in Nat /\ j \in Nat OBVIOUS
  <2>5. CASE i < j
    <3>1. ~Conflicts(g, q[j]) BY <1>1, <1>2, <2>1, <2>5
    <3> QED BY <1>4, <2>1, <2>2, <3>1 DEF Conflicts
  <2>6. CASE j < i
    <3>1. ~Conflicts(h, q[i]) BY <1>1, <1>2, <2>2, <2>6
    <3> QED BY <1>4, <2>1, <2>2, <3>1 DEF Conflicts
  <2> QED BY <2>3, <2>4, <2>5, <2>6
<1> QED BY <1>5, <1>6, <1>7, <1>8, <1>9

\* More leases and the same requests ahead: who could not be granted cannot be now.
LEMMA MoreHeldBack ==
  ASSUME NEW H, NEW W, H \subseteq W, NEW ahead, NEW w, ~Grantable(H, ahead, w)
  PROVE  ~Grantable(W, ahead, w)
BY DEF Grantable

\* A pass serves all it can: whom it leaves waiting could not be granted after it.
LEMMA PassWakes ==
  ASSUME NEW H, NEW q \in Seq(Waiting), NEW G \in SUBSET DOMAIN q, IsPass(H, q, G)
  PROVE  Except(q, G) \in Seq(Waiting) /\ AllHeldBack(WithTaken(H, q, G), Except(q, G))
<1> DEFINE S == DOMAIN q \ G
           r == At(q, S)
<1>0. S \in SUBSET DOMAIN q OBVIOUS
<1> HIDE DEF S
<1>1. /\ r \in Seq(Waiting)
      /\ \E a \in [DOMAIN r -> S] :
           /\ \A i \in DOMAIN r : r[i] = q[a[i]]
           /\ \A i, j \in DOMAIN r : i < j => a[i] < a[j]
           /\ \A n \in S : \E i \in DOMAIN r : a[i] = n
  BY ONLY <1>0, q \in Seq(Waiting), AtKeeps
<1>2. PICK a \in [DOMAIN r -> S] :
           /\ \A i \in DOMAIN r : r[i] = q[a[i]]
           /\ \A i, j \in DOMAIN r : i < j => a[i] < a[j]
           /\ \A n \in S : \E i \in DOMAIN r : a[i] = n
  BY <1>1
<1> HIDE DEF r
<1>3. DOMAIN r = 1..Len(r) /\ Len(r) \in Nat BY <1>1
<1>4. ASSUME NEW i \in DOMAIN r
      PROVE  ~Grantable(WithTaken(H, q, G), {r[j] : j \in 1..(i - 1)}, r[i])
  <2> DEFINE k == a[i]
  <2>1. k \in S /\ k \in DOMAIN q /\ r[i] = q[k] BY <1>0, <1>2
  <2>2. {r[j] : j \in 1..(i - 1)} = {q[j] : j \in {j \in S : j < k}}
    <3>1. ASSUME NEW j \in 1..(i - 1) PROVE \E n \in S : n < k /\ r[j] = q[n]
      <4>1. j \in DOMAIN r /\ j < i BY <1>3
      <4> QED BY <1>2, <4>1
    <3>2. ASSUME NEW n \in S, n < k PROVE \E j \in 1..(i - 1) : r[j] = q[n]
      <4>1. PICK j \in DOMAIN r : a[j] = n BY <1>2
      <4>2. n \in Nat /\ k \in Nat /\ i \in Nat /\ j \in Nat BY <1>0, <1>3, <2>1
      <4>3. ~(i < j) /\ i # j BY <1>2, <3>2, <4>1, <4>2
      <4>4. j \in 1..(i - 1) BY <1>3, <4>2, <4>3
      <4> QED BY <1>2, <4>1, <4>4
    <3> QED BY <3>1, <3>2
  <2>3. ~Grantable(WithTaken(H, q, {j \in G : j < k}), {q[j] : j \in {j \in S : j < k}}, q[k])
    BY <2>1 DEF IsPass, S
  <2>4. WithTaken(H, q, {j \in G : j < k}) \subseteq WithTaken(H, q, G) BY DEF WithTaken
  <2> HIDE DEF k
  <2> QED BY <2>1, <2>2, <2>3, <2>4, MoreHeldBack
<1> QED BY <1>1, <1>4 DEF AllHeldBack, Except, r, S

\* A release or a withdrawal, and the pass it runs.
LEMMA PumpKeeps ==
  ASSUME LeaseInv, NEW H, H \subseteq holders, NEW S \in SUBSET DOMAIN queue, NEW promises,
         Pump(H, At(queue, S), promises)
  PROVE  LeaseInv'
<1> DEFINE q == At(queue, S)
<1>1. q \in Seq(Waiting) BY AtKeeps DEF LeaseInv
<1>2. ExcludedIn(H) BY DEF LeaseInv, Excluded, ExcludedIn
<1>3. PICK G \in SUBSET DOMAIN q :
        IsPass(H, q, G) /\ holders' = WithTaken(H, q, G) /\ queue' = Except(q, G)
  BY DEF Pump
<1> HIDE DEF q
<1>4. ExcludedIn(holders') BY <1>1, <1>2, <1>3, PassExcludes
<1>5. queue' \in Seq(Waiting) /\ AllHeldBack(holders', queue') BY <1>1, <1>3, PassWakes
<1> QED BY <1>4, <1>5 DEF LeaseInv, Excluded, ExcludedIn, NoLeaseWakeupLost, AllHeldBack

LEMMA ReleaseKeeps ==
  ASSUME LeaseInv, NEW owner, NEW mode, NEW keys, Release(owner, mode, keys) PROVE LeaseInv'
<1> DEFINE H == {h \in holders : ~(h.owner = owner /\ h.mode = mode /\ h.key \in keys)}
           Out == {w \in InQueue : w.owner = owner /\ w.mode = mode /\ w.keys \cap keys # {}}
           S == {i \in DOMAIN queue : queue[i] \notin Out}
<1>1. \E promises : Pump(H, At(queue, S), promises) BY DEF Release, WithdrawFrom
<1>2. H \subseteq holders /\ S \in SUBSET DOMAIN queue OBVIOUS
<1> HIDE DEF H, S
<1> QED BY <1>1, <1>2, PumpKeeps

LEMMA WithdrawKeeps ==
  ASSUME LeaseInv, NEW id, Withdraw(id) PROVE LeaseInv'
<1> DEFINE Out == {w \in InQueue : w.id = id}
           S == {i \in DOMAIN queue : queue[i] \notin Out}
<1>1. \E promises : Pump(holders, At(queue, S), promises) BY DEF Withdraw, WithdrawFrom
<1>2. S \in SUBSET DOMAIN queue OBVIOUS
<1> HIDE DEF S
<1> QED BY <1>1, <1>2, PumpKeeps

\* A request is granted at once, or is the last of the queue.
LEMMA AcquireKeeps ==
  ASSUME LeaseInv, NEW id \in Request, NEW owner \in Holder, NEW mode \in Mode,
         NEW keys \in SUBSET Mount, Acquire(id, owner, mode, keys)
  PROVE  LeaseInv'
<1> DEFINE w == [id |-> id, owner |-> owner, mode |-> mode, keys |-> keys]
           ahead == {queue[i] : i \in DOMAIN queue}
<1>0. w \in Waiting BY DEF Waiting
<1>1. queue \in Seq(Waiting) /\ ExcludedIn(holders) /\ AllHeldBack(holders, queue)
  BY DEF LeaseInv, Excluded, ExcludedIn, NoLeaseWakeupLost, AllHeldBack
<1>2. /\ holders' = IF Grantable(holders, ahead, w) THEN holders \cup Taken(w) ELSE holders
      /\ queue' = IF Grantable(holders, ahead, w) THEN queue ELSE Append(queue, w)
  BY DEF Acquire
<1> HIDE DEF w
<1>3. CASE Grantable(holders, ahead, w)
  <2>1. holders' = holders \cup Taken(w) /\ queue' = queue BY <1>2, <1>3
  <2>2. ExcludedIn(holders') BY <1>1, <1>3, <2>1, TakenExcludes DEF Grantable
  <2>3. holders \subseteq holders' BY <2>1
  <2>4. AllHeldBack(holders', queue')
    <3> SUFFICES ASSUME NEW i \in DOMAIN queue
                 PROVE  ~Grantable(holders', {queue[j] : j \in 1..(i - 1)}, queue[i])
      BY <2>1 DEF AllHeldBack
    <3>1. ~Grantable(holders, {queue[j] : j \in 1..(i - 1)}, queue[i]) BY <1>1 DEF AllHeldBack
    <3> QED BY <2>3, <3>1, MoreHeldBack
  <2> QED BY <1>1, <2>1, <2>2, <2>4 DEF LeaseInv, Excluded, ExcludedIn, NoLeaseWakeupLost, AllHeldBack
<1>4. CASE ~Grantable(holders, ahead, w)
  <2>1. holders' = holders /\ queue' = Append(queue, w) BY <1>2, <1>4
  <2>2. queue' \in Seq(Waiting) BY <1>0, <1>1, <2>1
  <2>3. AllHeldBack(holders', queue')
    <3> SUFFICES ASSUME NEW i \in DOMAIN queue'
                 PROVE  ~Grantable(holders, {queue'[j] : j \in 1..(i - 1)}, queue'[i])
      BY <2>1 DEF AllHeldBack
    <3>1. /\ DOMAIN queue = 1..Len(queue) /\ Len(queue) \in Nat
          /\ DOMAIN queue' = 1..(Len(queue) + 1) /\ queue'[Len(queue) + 1] = w
          /\ \A j \in DOMAIN queue : queue'[j] = queue[j]
      BY <1>0, <1>1, <2>1
    <3>2. CASE i \in DOMAIN queue
      <4>1. {queue'[j] : j \in 1..(i - 1)} = {queue[j] : j \in 1..(i - 1)} BY <3>1, <3>2
      <4> QED BY <1>1, <3>1, <3>2, <4>1 DEF AllHeldBack
    <3>3. CASE i = Len(queue) + 1
      <4>1. 1..(i - 1) = DOMAIN queue BY <3>1, <3>3
      <4>2. {queue'[j] : j \in 1..(i - 1)} = ahead BY <3>1, <4>1
      <4> HIDE DEF ahead
      <4> QED BY <1>4, <3>1, <3>3, <4>2
    <3> QED BY <3>1, <3>2, <3>3
  <2> QED BY <1>1, <2>1, <2>2, <2>3 DEF LeaseInv, Excluded, ExcludedIn, NoLeaseWakeupLost, AllHeldBack
<1> QED BY <1>3, <1>4

LEMMA SettledKeeps == ASSUME LeaseInv, UNCHANGED <<holders, queue>> PROVE LeaseInv'
BY DEF LeaseInv, Excluded, NoLeaseWakeupLost

-----------------------------------------------------------------------------
(* The flow keys.                                                               *)

\* A key is taken only below its limit.
UnderLimit == \A k \in Flow : flowRunning'[k] > flowRunning[k] => flowRunning'[k] <= limit'[k]

LEMMA TakersType ==
  ASSUME NEW q \in Seq(Waiter), NEW G \in SUBSET DOMAIN q, NEW k
  PROVE  /\ {i \in G : k \in q[i].keys} \in SUBSET Nat
         /\ IsFiniteSet({i \in G : k \in q[i].keys})
         /\ Takers(q, G, k) \in Nat
<1> DEFINE S == {i \in G : k \in q[i].keys}
<1>1. DOMAIN q = 1..Len(q) /\ Len(q) \in Nat OBVIOUS
<1>2. S \in SUBSET (1..Len(q)) /\ S \in SUBSET Nat BY <1>1
<1>3. IsFiniteSet(1..Len(q)) BY <1>1, FS_Interval
<1>4. IsFiniteSet(S) BY <1>2, <1>3, FS_Subset
<1> QED BY <1>2, <1>4, FS_CardinalityType DEF Takers

LEMMA TakersGrow ==
  ASSUME NEW q \in Seq(Waiter), NEW G \in SUBSET DOMAIN q, NEW F \in SUBSET G, NEW k
  PROVE  Takers(q, F, k) <= Takers(q, G, k)
<1>1. IsFiniteSet({i \in G : k \in q[i].keys}) BY TakersType
<1>2. {i \in F : k \in q[i].keys} \in SUBSET {i \in G : k \in q[i].keys} OBVIOUS
<1> QED BY <1>1, <1>2, FS_Subset DEF Takers

LEMMA AfterType ==
  ASSUME NEW R \in [Flow -> Nat], NEW q \in Seq(Waiter), NEW G \in SUBSET DOMAIN q
  PROVE  After(R, q, G) \in [Flow -> Nat]
<1>1. ASSUME NEW k \in Flow PROVE R[k] + Takers(q, G, k) \in Nat
  <2>1. Takers(q, G, k) \in Nat BY TakersType
  <2> QED BY <2>1
<1> QED BY <1>1 DEF After

LEMMA WaiterKeys ==
  ASSUME NEW q \in Seq(Waiter), NEW i \in DOMAIN q PROVE q[i].keys \in SUBSET Flow
<1>1. q[i] \in Waiter OBVIOUS
<1> QED BY <1>1 DEF Waiter

\* The last of those who take a key makes one more than those before it.
LEMMA LastTaker ==
  ASSUME NEW q \in Seq(Waiter), NEW G \in SUBSET DOMAIN q, NEW k, Takers(q, G, k) > 0
  PROVE  \E i \in G : k \in q[i].keys /\ Takers(q, G, k) = Takers(q, {j \in G : j < i}, k) + 1
<1> DEFINE S == {i \in G : k \in q[i].keys}
           K == Cardinality(S)
<1>1. S \in SUBSET Nat /\ IsFiniteSet(S) /\ K \in Nat /\ K > 0 /\ Takers(q, G, k) = K
  BY TakersType DEF Takers
<1>2. S \in SUBSET G /\ \A i \in S : k \in q[i].keys OBVIOUS
<1>3. \A x : {j \in {j \in G : j < x} : k \in q[j].keys} = {j \in S : j < x} OBVIOUS
<1> HIDE DEF S
<1>4. /\ Ascending(S) \in [1..K -> S]
      /\ \A i, j \in 1..K : i < j => Ascending(S)[i] < Ascending(S)[j]
      /\ \A n \in S : \E i \in 1..K : Ascending(S)[i] = n
  BY <1>1, AscendingLists
<1> HIDE DEF K
<1> DEFINE last == Ascending(S)[K]
<1>5. K \in 1..K BY <1>1
<1>6. last \in S /\ last \in Nat BY <1>1, <1>4, <1>5
<1>7. ASSUME NEW n \in S PROVE n = last \/ n < last
  <2>1. PICK i \in 1..K : Ascending(S)[i] = n BY <1>4
  <2>2. i = K \/ i < K BY <1>1
  <2> QED BY <1>4, <1>5, <2>1, <2>2
<1> HIDE DEF last
<1>8. {j \in S : j < last} = S \ {last}
  <2>1. ~(last < last) BY <1>6
  <2> QED BY <1>7, <2>1
<1>9. Cardinality(S \ {last}) = K - 1 BY <1>1, <1>6, FS_RemoveElement DEF K
<1>10. Takers(q, {j \in G : j < last}, k) = K - 1 BY <1>3, <1>8, <1>9 DEF Takers
<1>11. last \in G /\ k \in q[last].keys BY <1>2, <1>6
<1>12. Takers(q, G, k) = Takers(q, {j \in G : j < last}, k) + 1 BY <1>1, <1>10
<1> QED BY <1>11, <1>12

\* A pass takes keys up to their limits.
LEMMA PassUnderLimit ==
  ASSUME NEW R \in [Flow -> Nat], NEW lim \in [Flow -> Nat], NEW q \in Seq(Waiter),
         NEW G \in SUBSET DOMAIN q, Admits(R, lim, q, G)
  PROVE  /\ After(R, q, G) \in [Flow -> Nat]
         /\ \A k \in Flow : After(R, q, G)[k] > R[k] => After(R, q, G)[k] <= lim[k]
<1>1. After(R, q, G) \in [Flow -> Nat] BY AfterType
<1>2. ASSUME NEW k \in Flow, After(R, q, G)[k] > R[k] PROVE After(R, q, G)[k] <= lim[k]
  <2>1. /\ After(R, q, G)[k] = R[k] + Takers(q, G, k)
        /\ Takers(q, G, k) \in Nat /\ R[k] \in Nat /\ lim[k] \in Nat
    BY TakersType DEF After
  <2>2. Takers(q, G, k) > 0 BY <1>2, <2>1
  <2>3. PICK i \in G : k \in q[i].keys /\ Takers(q, G, k) = Takers(q, {j \in G : j < i}, k) + 1
    BY <2>2, LastTaker
  <2>4. Room(After(R, q, {j \in G : j < i}), lim, q[i].keys) BY DEF Admits
  <2>5. After(R, q, {j \in G : j < i})[k] < lim[k] BY <2>3, <2>4 DEF Room
  <2>6. After(R, q, {j \in G : j < i})[k] = R[k] + Takers(q, {j \in G : j < i}, k) BY DEF After
  <2>7. {j \in G : j < i} \in SUBSET DOMAIN q OBVIOUS
  <2>8. Takers(q, {j \in G : j < i}, k) \in Nat BY <2>7, TakersType
  <2> QED BY <2>1, <2>3, <2>5, <2>6, <2>8
<1> QED BY <1>1, <1>2

\* More taken: who had no room has none.
LEMMA LessRoom ==
  ASSUME NEW R \in [Flow -> Nat], NEW W \in [Flow -> Nat], \A k \in Flow : R[k] <= W[k],
         NEW lim \in [Flow -> Nat], NEW keys \in SUBSET Flow, ~Room(R, lim, keys)
  PROVE  ~Room(W, lim, keys)
<1>1. PICK k \in keys : ~(R[k] < lim[k]) BY DEF Room
<1>2. R[k] \in Nat /\ W[k] \in Nat /\ lim[k] \in Nat /\ R[k] <= W[k] OBVIOUS
<1> QED BY <1>1, <1>2 DEF Room

\* What stays of a queue are waiters of it.
LEMMA SomeStay ==
  ASSUME NEW q \in Seq(Waiter), NEW S \in SUBSET DOMAIN q
  PROVE  /\ At(q, S) \in Seq(Waiter)
         /\ \A i \in DOMAIN At(q, S) : \E n \in S : At(q, S)[i] = q[n]
BY Remainder

LEMMA PassServes ==
  ASSUME NEW R \in [Flow -> Nat], NEW lim \in [Flow -> Nat], NEW q \in Seq(Waiter),
         NEW G \in SUBSET DOMAIN q, Admits(R, lim, q, G)
  PROVE  Remaining(q, G) \in Seq(Waiter) /\ NoRoomFor(After(R, q, G), lim, Remaining(q, G))
<1> DEFINE S == DOMAIN q \ G
<1>1. S \in SUBSET DOMAIN q OBVIOUS
<1>2. /\ Remaining(q, G) \in Seq(Waiter)
      /\ \A i \in DOMAIN Remaining(q, G) : \E n \in S : Remaining(q, G)[i] = q[n]
  BY <1>1, SomeStay DEF Remaining
<1>3. ASSUME NEW n \in S PROVE ~Room(After(R, q, G), lim, q[n].keys)
  <2> DEFINE F == {j \in G : j < n}
  <2>1. F \in SUBSET G /\ F \in SUBSET DOMAIN q OBVIOUS
  <2>2. ~Room(After(R, q, F), lim, q[n].keys) BY <1>1, <1>3 DEF Admits
  <2>3. After(R, q, F) \in [Flow -> Nat] /\ After(R, q, G) \in [Flow -> Nat] BY <2>1, AfterType
  <2>4. ASSUME NEW k \in Flow PROVE After(R, q, F)[k] <= After(R, q, G)[k]
    <3>1. Takers(q, F, k) <= Takers(q, G, k) BY <2>1, TakersGrow
    <3>2. Takers(q, F, k) \in Nat /\ Takers(q, G, k) \in Nat BY <2>1, TakersType
    <3> HIDE DEF F
    <3> QED BY <3>1, <3>2 DEF After
  <2>5. q[n].keys \in SUBSET Flow BY <1>3, WaiterKeys
  <2> HIDE DEF F
  <2> QED BY <2>2, <2>3, <2>4, <2>5, LessRoom
<1> QED BY <1>2, <1>3 DEF NoRoomFor

\* A pass over the queue, after keys were given back, a wait withdrawn or the
\* limits changed.
LEMMA PumpFlowsKeeps ==
  ASSUME flowRunning \in [Flow -> Nat], NEW R \in [Flow -> Nat], \A k \in Flow : R[k] <= flowRunning[k],
         NEW lim \in Limits, NEW q \in Seq(Waiter), NEW promises,
         PumpFlows(R, lim, q, promises), limit' = lim
  PROVE  FlowInv' /\ UnderLimit
<1>1. lim \in [Flow -> Nat] BY LimitsAssumption
<1>2. PICK G \in SUBSET DOMAIN q :
        Admits(R, lim, q, G) /\ flowRunning' = After(R, q, G) /\ flowWaiters' = Remaining(q, G)
  BY DEF PumpFlows
<1>3. /\ flowRunning' \in [Flow -> Nat]
      /\ \A k \in Flow : flowRunning'[k] > R[k] => flowRunning'[k] <= lim[k]
  BY <1>1, <1>2, PassUnderLimit
<1>4. flowWaiters' \in Seq(Waiter) /\ NoRoomFor(flowRunning', lim, flowWaiters')
  BY <1>1, <1>2, PassServes
<1>5. UnderLimit
  <2> SUFFICES ASSUME NEW k \in Flow, flowRunning'[k] > flowRunning[k] PROVE flowRunning'[k] <= lim[k]
    BY DEF UnderLimit
  <2>1. flowRunning'[k] \in Nat /\ flowRunning[k] \in Nat /\ R[k] \in Nat /\ R[k] <= flowRunning[k] BY <1>3
  <2> QED BY <1>3, <2>1
<1> QED BY <1>3, <1>4, <1>5 DEF FlowInv, NoPermitWakeupLost, NoRoomFor

LEMMA UntakeKeeps ==
  ASSUME FlowInv, NEW c, NEW keys, NEW settled, Untake(c, keys, settled) PROVE FlowInv' /\ UnderLimit
<1> DEFINE R == Given(flowRunning, keys)
           S == {i \in DOMAIN flowWaiters : flowWaiters[i].id # c}
           q == At(flowWaiters, S)
<1>1. R \in [Flow -> Nat] /\ \A k \in Flow : R[k] <= flowRunning[k] BY DEF FlowInv, Given
<1>2. S \in SUBSET DOMAIN flowWaiters OBVIOUS
<1>3. \E promises : PumpFlows(R, limit, q, promises) BY DEF Untake, NotOf
<1>4. limit' = limit BY DEF Untake
<1> HIDE DEF R, S
<1>5. q \in Seq(Waiter) BY <1>2, SomeStay DEF FlowInv
<1> HIDE DEF q
<1> QED BY <1>1, <1>3, <1>4, <1>5, PumpFlowsKeeps DEF FlowInv

LEMMA WithdrawFlowKeeps ==
  ASSUME FlowInv, NEW c, WithdrawFlow(c) PROVE FlowInv' /\ UnderLimit
<1> DEFINE S == {i \in DOMAIN flowWaiters : flowWaiters[i].id # c}
<1>1. /\ flowWaiters' = At(flowWaiters, S) /\ UNCHANGED <<limit, flowRunning>>
      /\ S \in SUBSET DOMAIN flowWaiters
  BY DEF WithdrawFlow, NotOf
<1> HIDE DEF S
<1>2. /\ flowWaiters' \in Seq(Waiter)
      /\ \A i \in DOMAIN flowWaiters' : \E n \in S : flowWaiters'[i] = flowWaiters[n]
  BY <1>1, SomeStay DEF FlowInv
<1>3. NoPermitWakeupLost' BY <1>1, <1>2 DEF FlowInv, NoPermitWakeupLost, Room
<1>4. UnderLimit BY <1>1 DEF UnderLimit, FlowInv
<1> QED BY <1>1, <1>2, <1>3, <1>4 DEF FlowInv

LEMMA SetFlowLimitsKeeps ==
  ASSUME FlowInv, NEW new \in Limits, SetFlowLimits(new) PROVE FlowInv' /\ UnderLimit
BY PumpFlowsKeeps DEF FlowInv, SetFlowLimits

\* A queue with one waiter more: the ones that were there, and the new one.
LEMMA QueuedType ==
  ASSUME NEW q \in Seq(Waiter), NEW w \in Waiter
  PROVE  /\ Queued(q, w) \in Seq(Waiter)
         /\ \A i \in DOMAIN Queued(q, w) : Queued(q, w)[i] = w \/ \E n \in DOMAIN q : Queued(q, w)[i] = q[n]
<1>1. CASE ~w.priority
  <2>1. Queued(q, w) = Append(q, w) BY <1>1 DEF Queued
  <2> QED BY <2>1
<1>2. CASE w.priority
  <2> DEFINE A == {i \in DOMAIN q : q[i].priority}
             B == {i \in DOMAIN q : ~q[i].priority}
             a == At(q, A)
             b == At(q, B)
  <2>1. A \in SUBSET DOMAIN q /\ B \in SUBSET DOMAIN q OBVIOUS
  <2>2. Queued(q, w) = a \o <<w>> \o b BY <1>2 DEF Queued
  <2> HIDE DEF A, B
  <2>3. /\ a \in Seq(Waiter) /\ \A i \in DOMAIN a : \E n \in DOMAIN q : a[i] = q[n]
        /\ b \in Seq(Waiter) /\ \A i \in DOMAIN b : \E n \in DOMAIN q : b[i] = q[n]
    BY <2>1, SomeStay
  <2> HIDE DEF a, b
  <2>4. a \o <<w>> \in Seq(Waiter)
        /\ \A i \in DOMAIN (a \o <<w>>) : (a \o <<w>>)[i] = w \/ \E n \in DOMAIN q : (a \o <<w>>)[i] = q[n]
    BY <2>3
  <2> DEFINE d == a \o <<w>>
  <2>5. d \in Seq(Waiter) /\ \A i \in DOMAIN d : d[i] = w \/ \E n \in DOMAIN q : d[i] = q[n] BY <2>4
  <2> HIDE DEF d
  <2>6. /\ d \o b \in Seq(Waiter)
        /\ \A i \in DOMAIN (d \o b) : (d \o b)[i] = w \/ \E n \in DOMAIN q : (d \o b)[i] = q[n]
    <3>1. d \o b \in Seq(Waiter) /\ Len(d \o b) = Len(d) + Len(b) BY <2>3, <2>5
    <3>2. \A i \in 1..Len(d) + Len(b) : (d \o b)[i] = IF i <= Len(d) THEN d[i] ELSE b[i - Len(d)]
      BY <2>3, <2>5
    <3>3. DOMAIN (d \o b) = 1..Len(d) + Len(b) /\ DOMAIN d = 1..Len(d) /\ DOMAIN b = 1..Len(b)
          /\ Len(d) \in Nat /\ Len(b) \in Nat
      BY <2>3, <2>5, <3>1
    <3>4. ASSUME NEW i \in DOMAIN (d \o b)
          PROVE (d \o b)[i] = w \/ \E n \in DOMAIN q : (d \o b)[i] = q[n]
      <4>1. CASE i <= Len(d) BY <2>5, <3>2, <3>3, <4>1
      <4>2. CASE ~(i <= Len(d))
        <5>1. i - Len(d) \in DOMAIN b /\ (d \o b)[i] = b[i - Len(d)] BY <3>2, <3>3, <4>2
        <5> QED BY <2>3, <5>1
      <4> QED BY <4>1, <4>2
    <3> QED BY <3>1, <3>4
  <2> QED BY <2>2, <2>6 DEF d
<1> QED BY <1>1, <1>2

LEMMA TakeKeeps ==
  ASSUME FlowInv, NEW keys \in SUBSET Flow, Room(flowRunning, limit, keys),
         flowRunning' = Take(keys), UNCHANGED <<limit, flowWaiters>>
  PROVE  FlowInv' /\ UnderLimit
<1>1. limit \in [Flow -> Nat] /\ limit' = limit /\ flowRunning \in [Flow -> Nat]
  BY LimitsAssumption DEF FlowInv
<1>2. flowRunning' \in [Flow -> Nat] /\ \A k \in Flow : flowRunning[k] <= flowRunning'[k]
  BY <1>1 DEF Take
<1>3. UnderLimit
  <2> SUFFICES ASSUME NEW k \in Flow, flowRunning'[k] > flowRunning[k]
               PROVE  flowRunning'[k] <= limit[k]
    BY <1>1 DEF UnderLimit
  <2>1. k \in keys /\ flowRunning'[k] = flowRunning[k] + 1 BY <1>1 DEF Take
  <2>2. flowRunning[k] < limit[k] BY <2>1 DEF Room
  <2> QED BY <1>1, <2>1, <2>2
<1>4. NoPermitWakeupLost'
  <2> SUFFICES ASSUME NEW i \in DOMAIN flowWaiters
               PROVE  ~Room(flowRunning', limit, flowWaiters[i].keys)
    BY <1>1 DEF NoPermitWakeupLost
  <2>1. flowWaiters[i].keys \in SUBSET Flow /\ ~Room(flowRunning, limit, flowWaiters[i].keys)
    BY WaiterKeys DEF FlowInv, NoPermitWakeupLost
  <2> QED BY <1>1, <1>2, <2>1, LessRoom
<1> QED BY <1>1, <1>2, <1>3, <1>4 DEF FlowInv

LEMMA WaitFlowsKeeps ==
  ASSUME FlowInv, NEW c \in Caller, NEW keys \in SUBSET Flow, NEW priority \in BOOLEAN,
         WaitFlows(c, keys, priority)
  PROVE  FlowInv' /\ UnderLimit
<1>1. limit \in [Flow -> Nat] /\ limit' = limit /\ flowRunning \in [Flow -> Nat]
  BY LimitsAssumption DEF FlowInv, WaitFlows
<1>2. CASE Room(flowRunning, limit, keys)
  <2>1. flowRunning' = Take(keys) /\ UNCHANGED <<limit, flowWaiters>> BY <1>2 DEF WaitFlows
  <2> QED BY <1>2, <2>1, TakeKeeps
<1>3. CASE ~Room(flowRunning, limit, keys)
  <2> DEFINE w == [id |-> c, keys |-> keys, priority |-> priority]
  <2>1. flowRunning' = flowRunning /\ flowWaiters' = Queued(flowWaiters, w) BY <1>3 DEF WaitFlows
  <2>2. w \in Waiter /\ w.keys = keys BY DEF Waiter
  <2> HIDE DEF w
  <2>3. /\ flowWaiters' \in Seq(Waiter)
        /\ \A i \in DOMAIN flowWaiters' :
             flowWaiters'[i] = w \/ \E n \in DOMAIN flowWaiters : flowWaiters'[i] = flowWaiters[n]
    BY <2>1, <2>2, QueuedType DEF FlowInv
  <2>4. NoPermitWakeupLost' BY <1>1, <1>3, <2>1, <2>2, <2>3 DEF FlowInv, NoPermitWakeupLost
  <2>5. UnderLimit BY <1>1, <2>1 DEF UnderLimit
  <2> QED BY <1>1, <2>1, <2>3, <2>4, <2>5 DEF FlowInv
<1> QED BY <1>2, <1>3

LEMMA FlowsStand == ASSUME FlowInv, UNCHANGED <<limit, flowRunning, flowWaiters>> PROVE FlowInv' /\ UnderLimit
<1>1. FlowInv' BY DEF FlowInv, NoPermitWakeupLost
<1>2. UnderLimit BY DEF FlowInv, UnderLimit
<1> QED BY <1>1, <1>2

-----------------------------------------------------------------------------
(* The steps of LaunchGates.                                                    *)

GatesInv == LeaseInv /\ FlowInv

LEMMA Named ==
  /\ \A s \in Stages : s \in Holder /\ Mounts[s] \in SUBSET Mount /\ FlowsOf[s] \in SUBSET Flow
  /\ \A m \in Maps : m \in Holder /\ Mounts[m] \in SUBSET Mount
                     /\ SnapshotOf(m) \in Request /\ MergeOf(m) \in Request
  /\ \A s \in Stages : MergeOf(s) \in Request
  /\ \A c \in Chats : c \in Caller /\ FlowsOf[c] \in SUBSET Flow
  /\ \A l \in Launch : l[1] \in Stages /\ l \in Caller /\ WriteOf(l) \in Request
<1>1. \A s \in Stages : s \in Holder /\ Mounts[s] \in SUBSET Mount /\ FlowsOf[s] \in SUBSET Flow
  BY GatesAssumption DEF Owners
<1>2. \A m \in Maps : m \in Holder /\ Mounts[m] \in SUBSET Mount BY GatesAssumption DEF Owners
<1>3. \A m \in Maps : SnapshotOf(m) \in Request /\ MergeOf(m) \in Request BY GatesAssumption DEF Owners
<1>4. \A s \in Stages : MergeOf(s) \in Request BY GatesAssumption DEF Owners
<1>5. \A c \in Chats : c \in Caller /\ FlowsOf[c] \in SUBSET Flow BY GatesAssumption
<1>6. \A l \in Launch : l[1] \in Stages BY DEF Launch
<1>7. \A l \in Launch : l \in Caller /\ WriteOf(l) \in Request BY GatesAssumption
<1> QED BY <1>1, <1>2, <1>3, <1>4, <1>5, <1>6, <1>7

\* Neither the leases nor the keys are touched, or only a promise goes on.
LEMMA LeasesStand == ASSUME LeaseInv, UNCHANGED leaseVars PROVE LeaseInv'
BY SettledKeeps DEF leaseVars

LEMMA LeaseSettledKeeps == ASSUME LeaseInv, NEW id, NEW as, LeaseSettled(id, as) PROVE LeaseInv'
BY SettledKeeps DEF LeaseSettled

LEMMA KeysStand == ASSUME FlowInv, UNCHANGED flowVars PROVE FlowInv' /\ UnderLimit
BY FlowsStand DEF flowVars

LEMMA PermitSettledKeeps ==
  ASSUME FlowInv, NEW c, NEW as, PermitSettled(c, as) PROVE FlowInv' /\ UnderLimit
BY FlowsStand DEF PermitSettled

LEMMA GivesBackKeeps ==
  ASSUME GatesInv, NEW l, NEW keys, GivesBack(l, keys) PROVE GatesInv' /\ UnderLimit
<1>1. FlowInv' /\ UnderLimit BY UntakeKeeps DEF GatesInv, GivesBack
<1>2. LeaseInv'
  <2>1. CASE Writes(l[1]) BY <2>1, ReleaseKeeps DEF GatesInv, GivesBack
  <2>2. CASE ~Writes(l[1]) BY <2>2, LeasesStand DEF GatesInv, GivesBack
  <2> QED BY <2>1, <2>2
<1> QED BY <1>1, <1>2 DEF GatesInv

LEMMA LaunchKeeps ==
  ASSUME GatesInv, NEW l \in Launch, LaunchSteps(l) PROVE GatesInv' /\ UnderLimit
<1>0. LeaseInv /\ FlowInv BY DEF GatesInv
<1>1. CASE AskLease(l)
  <2>1. FlowInv' /\ UnderLimit BY <1>0, <1>1, KeysStand DEF AskLease
  <2>2. CASE UNCHANGED leaseVars BY <1>0, <2>1, <2>2, LeasesStand DEF GatesInv
  <2>3. CASE Acquire(WriteOf(l), l[1], "write", Mounts[l[1]])
    <3>1. WriteOf(l) \in Request /\ l[1] \in Holder /\ "write" \in Mode /\ Mounts[l[1]] \in SUBSET Mount
      BY Named DEF Mode
    <3>2. LeaseInv' BY <1>0, <2>3, <3>1, AcquireKeeps
    <3> QED BY <2>1, <3>2 DEF GatesInv
  <2> QED BY <1>1, <2>2, <2>3 DEF AskLease
<1>2. CASE HasLease(l) BY <1>0, <1>2, LeaseSettledKeeps, KeysStand DEF HasLease, GatesInv
<1>3. CASE LeaseRefused(l) BY <1>0, <1>3, LeaseSettledKeeps, KeysStand DEF LeaseRefused, GatesInv
<1>4. CASE StartChild(l) BY <1>0, <1>4, LeasesStand, KeysStand DEF StartChild, GatesInv
<1>5. CASE AskPermit(l)
  <2>1. l \in Caller /\ FlowsOf[l[1]] \in SUBSET Flow BY Named
  <2>2. FlowInv' /\ UnderLimit BY <1>0, <1>5, <2>1, WaitFlowsKeeps DEF AskPermit
  <2>3. LeaseInv' BY <1>0, <1>5, LeasesStand DEF AskPermit
  <2> QED BY <2>2, <2>3 DEF GatesInv
<1>6. CASE Claim(l) BY <1>0, <1>6, LeasesStand, PermitSettledKeeps DEF Claim, GatesInv
<1>7. CASE NotClaimed(l) BY <1>7, GivesBackKeeps DEF NotClaimed
<1>8. CASE Reacquire(l)
  <2>1. WriteOf(l) \in Request /\ l[1] \in Holder /\ "write" \in Mode /\ Mounts[l[1]] \in SUBSET Mount
    BY Named DEF Mode
  <2>2. LeaseInv' BY <1>0, <1>8, <2>1, AcquireKeeps DEF Reacquire
  <2>3. FlowInv' /\ UnderLimit BY <1>0, <1>8, KeysStand DEF Reacquire
  <2> QED BY <2>2, <2>3 DEF GatesInv
<1> QED BY <1>1, <1>2, <1>3, <1>4, <1>5, <1>6, <1>7, <1>8 DEF LaunchSteps

LEMMA FrameKeeps ==
  ASSUME GatesInv, NEW l \in Launch, FrameSteps(l) \/ Park(l) \/ Answer(l) \/ AskMerge(l)
  PROVE  GatesInv' /\ UnderLimit
<1>0. LeaseInv /\ FlowInv BY DEF GatesInv
<1>1. CASE Resumed(l) BY <1>0, <1>1, LeasesStand, PermitSettledKeeps DEF Resumed, GatesInv
<1>2. CASE Merge(l) BY <1>0, <1>2, LeaseSettledKeeps, KeysStand DEF Merge, GatesInv
<1>3. CASE Merged(l) BY <1>0, <1>3, ReleaseKeeps, KeysStand DEF Merged, GatesInv
<1>4. CASE End(l) BY <1>4, GivesBackKeeps DEF End
<1>5. CASE Park(l) BY <1>0, <1>5, LeasesStand, UntakeKeeps DEF Park, GatesInv
<1>6. CASE Answer(l)
  <2>1. l \in Caller /\ FlowsOf[l[1]] \ held[l] \in SUBSET Flow BY Named
  <2>2. WaitFlows(l, FlowsOf[l[1]] \ held[l], FALSE) BY <1>6 DEF Answer
  <2>3. FlowInv' /\ UnderLimit BY <1>0, <2>1, <2>2, WaitFlowsKeeps
  <2>4. LeaseInv' BY <1>0, <1>6, LeasesStand DEF Answer
  <2> QED BY <2>3, <2>4 DEF GatesInv
<1>7. CASE AskMerge(l)
  <2>1. MergeOf(l[1]) \in Request /\ l[1] \in Holder /\ "exclusive" \in Mode
        /\ Mounts[l[1]] \in SUBSET Mount
    BY Named DEF Mode
  <2>2. LeaseInv' BY <1>0, <1>7, <2>1, AcquireKeeps DEF AskMerge
  <2>3. FlowInv' /\ UnderLimit BY <1>0, <1>7, KeysStand DEF AskMerge
  <2> QED BY <2>2, <2>3 DEF GatesInv
<1> QED BY <1>1, <1>2, <1>3, <1>4, <1>5, <1>6, <1>7 DEF FrameSteps

LEMMA AbortKeeps == ASSUME GatesInv, NEW s, Abort(s) PROVE GatesInv' /\ UnderLimit
<1>0. LeaseInv /\ FlowInv BY DEF GatesInv
<1>1. UNCHANGED leaseVars \/ \E l : Withdraw(WriteOf(l)) BY DEF Abort
<1>2. UNCHANGED flowVars \/ \E l : WithdrawFlow(l) BY DEF Abort
<1>3. LeaseInv' BY <1>0, <1>1, LeasesStand, WithdrawKeeps
<1>4. FlowInv' /\ UnderLimit BY <1>0, <1>2, KeysStand, WithdrawFlowKeeps
<1> QED BY <1>3, <1>4 DEF GatesInv

LEMMA StageKeeps ==
  ASSUME GatesInv, NEW s \in Stages, Admit(s) \/ Pause(s) \/ Resume(s) \/ Timeout(s)
  PROVE  GatesInv' /\ UnderLimit
<1>0. LeaseInv /\ FlowInv BY DEF GatesInv
<1>1. CASE Admit(s) BY <1>0, <1>1, LeasesStand, KeysStand DEF Admit, GatesInv
<1>2. CASE Pause(s) BY <1>2, AbortKeeps DEF Pause, StopStage
<1>3. CASE Resume(s) BY <1>0, <1>3, LeasesStand, KeysStand DEF Resume, GatesInv
<1>4. CASE Timeout(s)
  <2>1. Abort(s) \/ UNCHANGED <<leaseVars, flowVars>> BY <1>4 DEF Timeout, StopStage
  <2>2. CASE UNCHANGED <<leaseVars, flowVars>> BY <1>0, <2>2, LeasesStand, KeysStand DEF GatesInv
  <2> QED BY <2>1, <2>2, AbortKeeps
<1> QED BY <1>1, <1>2, <1>3, <1>4

LEMMA MapKeeps ==
  ASSUME GatesInv, NEW m \in Maps, MapStart(m) \/ MapSteps(m) \/ AskMapMerge(m) \/ MapSettle(m)
  PROVE  GatesInv' /\ UnderLimit
<1>0. LeaseInv /\ FlowInv BY DEF GatesInv
<1>1. FlowInv' /\ UnderLimit
  <2>1. UNCHANGED flowVars
    BY DEF MapSteps, MapStart, AskSnapshot, TakeSnapshot, SnapshotTaken, MapMerge, MapMerged,
           AskMapMerge, MapSettle
  <2> QED BY <1>0, <2>1, KeysStand
<1>2. LeaseInv'
  <2>0. /\ m \in Holder /\ Mounts[m] \in SUBSET Mount /\ {"shared", "exclusive"} \subseteq Mode
        /\ SnapshotOf(m) \in Request /\ MergeOf(m) \in Request
    BY Named DEF Mode
  <2>1. CASE MapStart(m) BY <1>0, <2>1, LeasesStand DEF MapStart
  <2>2. CASE AskSnapshot(m) BY <1>0, <2>0, <2>2, AcquireKeeps DEF AskSnapshot
  <2>3. CASE TakeSnapshot(m) BY <1>0, <2>3, LeaseSettledKeeps DEF TakeSnapshot
  <2>4. CASE SnapshotTaken(m) BY <1>0, <2>4, LeasesStand, ReleaseKeeps DEF SnapshotTaken
  <2>5. CASE MapMerge(m) BY <1>0, <2>5, LeaseSettledKeeps DEF MapMerge
  <2>6. CASE MapMerged(m) BY <1>0, <2>6, ReleaseKeeps DEF MapMerged
  <2>7. CASE AskMapMerge(m) BY <1>0, <2>0, <2>7, AcquireKeeps DEF AskMapMerge
  <2>8. CASE MapSettle(m) BY <1>0, <2>8, ReleaseKeeps DEF MapSettle
  <2> QED BY <2>1, <2>2, <2>3, <2>4, <2>5, <2>6, <2>7, <2>8 DEF MapSteps
<1> QED BY <1>1, <1>2 DEF GatesInv

LEMMA ChatKeeps ==
  ASSUME GatesInv, NEW c \in Chats, AskTurn(c) \/ TryTurn(c) \/ ChatSteps(c) \/ GiveUp(c)
  PROVE  GatesInv' /\ UnderLimit
<1>0. LeaseInv /\ FlowInv BY DEF GatesInv
<1>1. LeaseInv'
  <2>1. UNCHANGED leaseVars BY DEF AskTurn, TryTurn, ChatSteps, Turn, GivenUp, TurnEnds, GiveUp
  <2> QED BY <1>0, <2>1, LeasesStand
<1>2. CASE AskTurn(c)
  <2>1. c \in Caller /\ FlowsOf[c] \in SUBSET Flow BY Named
  <2>2. FlowInv' /\ UnderLimit BY <1>0, <1>2, <2>1, WaitFlowsKeeps DEF AskTurn
  <2> QED BY <1>1, <2>2 DEF GatesInv
<1>3. CASE Turn(c) BY <1>0, <1>1, <1>3, PermitSettledKeeps DEF Turn, GatesInv
<1>4. CASE GivenUp(c) BY <1>0, <1>1, <1>4, PermitSettledKeeps DEF GivenUp, GatesInv
<1>5. CASE TurnEnds(c) BY <1>0, <1>1, <1>5, UntakeKeeps DEF TurnEnds, GatesInv
<1>6. CASE GiveUp(c) BY <1>0, <1>1, <1>6, WithdrawFlowKeeps DEF GiveUp, GatesInv
<1>7. CASE TryTurn(c)
  <2>1. FlowsOf[c] \in SUBSET Flow BY Named
  <2>2. FlowInv' /\ UnderLimit BY <1>0, <1>7, <2>1, TakeKeeps DEF TryTurn, TryAcquire
  <2> QED BY <1>1, <2>2 DEF GatesInv
<1> QED BY <1>2, <1>3, <1>4, <1>5, <1>6, <1>7 DEF ChatSteps

\* After a restart there are the leases of maps, no waiter, and no key is taken.
LEMMA CrashKeeps == ASSUME GatesInv, Crash PROVE GatesInv' /\ UnderLimit
<1>1. LeaseInv'
  <2>1. queue' = <<>> /\ \A h \in holders' : h.mode = "shared" BY DEF Crash
  <2>2. queue' \in Seq(Waiting) /\ DOMAIN queue' = {} BY <2>1
  <2> QED BY <2>1, <2>2 DEF LeaseInv, Excluded, NoLeaseWakeupLost
<1>2. FlowInv' /\ UnderLimit
  <2>1. flowRunning' = [k \in Flow |-> 0] /\ flowWaiters' = <<>> /\ limit' = limit BY DEF Crash
  <2>2. flowWaiters' \in Seq(Waiter) /\ DOMAIN flowWaiters' = {} BY <2>1
  <2>3. UnderLimit BY <2>1 DEF UnderLimit, GatesInv, FlowInv
  <2> QED BY <2>1, <2>2, <2>3 DEF GatesInv, FlowInv, NoPermitWakeupLost
<1> QED BY <1>1, <1>2 DEF GatesInv

LEMMA InitGates == Init => GatesInv
<1> SUFFICES ASSUME Init PROVE GatesInv OBVIOUS
<1>1. queue = <<>> /\ holders = {} /\ flowWaiters = <<>> BY DEF Init, LeasesInit, FlowsInit
<1>2. queue \in Seq(Waiting) /\ DOMAIN queue = {} /\ flowWaiters \in Seq(Waiter) /\ DOMAIN flowWaiters = {}
  BY <1>1
<1>3. limit \in Limits /\ flowRunning \in [Flow -> Nat] BY DEF Init, FlowsInit
<1> QED BY <1>1, <1>2, <1>3
     DEF GatesInv, LeaseInv, FlowInv, Excluded, NoLeaseWakeupLost, NoPermitWakeupLost

LEMMA StepGates == GatesInv /\ [Next]_vars => GatesInv' /\ [UnderLimit]_flowVars
<1> SUFFICES ASSUME GatesInv, [Next]_vars PROVE GatesInv' /\ [UnderLimit]_flowVars OBVIOUS
<1>0. LeaseInv /\ FlowInv BY DEF GatesInv
<1>1. ASSUME NEW s \in Stages, Admit(s) \/ Pause(s) \/ Resume(s) \/ Timeout(s)
      PROVE  GatesInv' /\ UnderLimit
  BY <1>1, StageKeeps
<1>2. ASSUME NEW l \in Launch, LaunchSteps(l) \/ FrameSteps(l) \/ Park(l) \/ Answer(l) \/ AskMerge(l)
      PROVE  GatesInv' /\ UnderLimit
  BY <1>2, LaunchKeeps, FrameKeeps
<1>3. ASSUME NEW m \in Maps, MapStart(m) \/ MapSteps(m) \/ AskMapMerge(m) \/ MapSettle(m)
      PROVE  GatesInv' /\ UnderLimit
  BY <1>3, MapKeeps
<1>4. ASSUME NEW c \in Chats, AskTurn(c) \/ TryTurn(c) \/ ChatSteps(c) \/ GiveUp(c)
      PROVE  GatesInv' /\ UnderLimit
  BY <1>4, ChatKeeps
<1>5. ASSUME NEW new \in Limits, SetLimits(new) PROVE GatesInv' /\ UnderLimit
  <2>1. FlowInv' /\ UnderLimit BY <1>0, <1>5, SetFlowLimitsKeeps DEF SetLimits
  <2>2. LeaseInv' BY <1>0, <1>5, LeasesStand DEF SetLimits
  <2> QED BY <2>1, <2>2 DEF GatesInv
<1>6. CASE Crash BY <1>6, CrashKeeps
<1>7. CASE UNCHANGED vars BY <1>0, <1>7, LeasesStand, KeysStand DEF vars, GatesInv
<1> QED BY <1>1, <1>2, <1>3, <1>4, <1>5, <1>6, <1>7 DEF Next

LEMMA GatesKept == Spec => []GatesInv
BY InitGates, StepGates, PTL DEF Spec

\* Two owners never hold a key in modes that exclude each other, whatever is asked
\* for, withdrawn and given back (WorktreeLeases.ts:22-25).
THEOREM LeasesApart == Spec => []Excluded
<1>1. GatesInv => Excluded BY DEF GatesInv, LeaseInv
<1> QED BY <1>1, GatesKept, PTL

\* No request for a lease is left waiting that could be granted.
THEOREM LeasesServed == Spec => []NoLeaseWakeupLost
<1>1. GatesInv => NoLeaseWakeupLost BY DEF GatesInv, LeaseInv
<1> QED BY <1>1, GatesKept, PTL

\* No caller is left waiting for flow keys that are all free.
THEOREM PermitsServed == Spec => []NoPermitWakeupLost
<1>1. GatesInv => NoPermitWakeupLost BY DEF GatesInv, FlowInv
<1> QED BY <1>1, GatesKept, PTL

\* No step, not even one that lets several in at once, takes a key above its limit.
THEOREM LimitsHold == Spec => NeverOverLimit
<1> DEFINE Under == \A k \in Flow : flowRunning'[k] > flowRunning[k] => flowRunning'[k] <= limit'[k]
<1>1. GatesInv /\ [Next]_vars => [Under]_flowVars BY StepGates DEF UnderLimit
<1> QED BY <1>1, GatesKept, PTL DEF Spec, NeverOverLimit

-----------------------------------------------------------------------------
(* Who works on a mount holds its lease.                                        *)

HoldsAll(a, mode) == \A k \in Mounts[a] : [key |-> k, owner |-> a, mode |-> mode] \in holders

\* The requests of the launches and of the snapshots are what their names say.
RequestsNamed(q) ==
  \A i \in DOMAIN q :
    /\ \A l \in Launch : q[i].id = WriteOf(l) =>
         q[i].owner = l[1] /\ q[i].mode = "write" /\ q[i].keys = Mounts[l[1]]
    /\ \A m \in Maps : q[i].id = SnapshotOf(m) =>
         q[i].owner = m /\ q[i].mode = "shared" /\ q[i].keys = Mounts[m]

Promise == {"none", "waiting", "granted", "rejected"}

LeaseNamed == holders \subseteq Holding /\ lease \in [Request -> Promise] /\ RequestsNamed(queue)

\* A step on the leases takes none from anybody but a in this mode, and grants
\* only what is held then.
LeaseMove(a, mode) ==
  /\ LeaseNamed'
  /\ \A h \in holders : h.owner # a \/ h.mode # mode => h \in holders'
  /\ \A l \in Launch :
       lease'[WriteOf(l)] = "granted" => lease[WriteOf(l)] = "granted" \/ HoldsAll(l[1], "write")'
  /\ \A m \in Maps :
       lease'[SnapshotOf(m)] = "granted" => lease[SnapshotOf(m)] = "granted" \/ HoldsAll(m, "shared")'

LEMMA NamesDiffer ==
  /\ \A l \in Launch, m \in Maps : WriteOf(l) # SnapshotOf(m)
  /\ \A l \in Launch : \A a : WriteOf(l) # MergeOf(a)
  /\ \A m \in Maps : \A a : SnapshotOf(m) # MergeOf(a)
  /\ \A l, k \in Launch : WriteOf(l) = WriteOf(k) => l = k
  /\ \A m, n \in Maps : SnapshotOf(m) = SnapshotOf(n) => m = n
BY DEF WriteOf, SnapshotOf, MergeOf

LEMMA TakenTyped == ASSUME NEW w \in Waiting PROVE Taken(w) \subseteq Holding
BY DEF Waiting, Taken, Holding

\* A request that is as its name says takes every mount of its owner.
LEMMA TakenIsAll ==
  ASSUME NEW a, NEW w, w.owner = a, w.keys = Mounts[a], Taken(w) \subseteq holders'
  PROVE  HoldsAll(a, w.mode)'
BY DEF Taken, HoldsAll

LEMMA PumpMoves ==
  ASSUME LeaseNamed, queue \in Seq(Waiting), NEW a, NEW mode, NEW H,
         H \subseteq Holding, \A h \in holders : h.owner # a \/ h.mode # mode => h \in H,
         NEW S \in SUBSET DOMAIN queue, NEW promises \in [Request -> Promise],
         \A id \in Request : promises[id] = "granted" => lease[id] = "granted",
         Pump(H, At(queue, S), promises)
  PROVE  LeaseMove(a, mode)
<1> DEFINE q == At(queue, S)
<1>1. /\ q \in Seq(Waiting)
      /\ \E p \in [DOMAIN q -> S] : \A i \in DOMAIN q : q[i] = queue[p[i]]
  BY AtKeeps
<1>2. RequestsNamed(q) BY <1>1 DEF RequestsNamed, LeaseNamed
<1>3. PICK G \in SUBSET DOMAIN q :
        /\ holders' = WithTaken(H, q, G) /\ queue' = Except(q, G)
        /\ lease' = [id \in Request |-> IF \E i \in G : q[i].id = id THEN "granted" ELSE promises[id]]
  BY DEF Pump
<1> HIDE DEF q
<1>4. RequestsNamed(queue')
  <2> DEFINE T == DOMAIN q \ G
  <2>1. T \in SUBSET DOMAIN q /\ queue' = At(q, T) BY <1>3 DEF Except
  <2> HIDE DEF T
  <2>2. q \in Seq(Waiting) /\ T \in SUBSET DOMAIN q BY <1>1, <2>1
  <2>3. \A i \in DOMAIN At(q, T) : \E n \in T : At(q, T)[i] = q[n] BY <2>2, Remainder
  <2>4. \A i \in DOMAIN queue' : \E n \in DOMAIN q : queue'[i] = q[n] BY <2>1, <2>3
  <2> QED BY <1>2, <2>4 DEF RequestsNamed
<1>5. H \subseteq holders' /\ \A i \in G : Taken(q[i]) \subseteq holders' BY <1>3 DEF WithTaken
<1>6. ASSUME NEW l \in Launch, lease'[WriteOf(l)] = "granted", lease[WriteOf(l)] # "granted"
      PROVE  HoldsAll(l[1], "write")'
  <2>1. WriteOf(l) \in Request BY Named
  <2>2. PICK i \in G : q[i].id = WriteOf(l) BY <1>3, <1>6, <2>1
  <2>3. q[i].owner = l[1] /\ q[i].mode = "write" /\ q[i].keys = Mounts[l[1]]
    BY <1>2, <2>2 DEF RequestsNamed
  <2> QED BY <1>5, <2>3, TakenIsAll
<1>7. ASSUME NEW m \in Maps, lease'[SnapshotOf(m)] = "granted", lease[SnapshotOf(m)] # "granted"
      PROVE  HoldsAll(m, "shared")'
  <2>1. SnapshotOf(m) \in Request BY Named
  <2>2. PICK i \in G : q[i].id = SnapshotOf(m) BY <1>3, <1>7, <2>1
  <2>3. q[i].owner = m /\ q[i].mode = "shared" /\ q[i].keys = Mounts[m]
    BY <1>2, <2>2 DEF RequestsNamed
  <2> QED BY <1>5, <2>3, TakenIsAll
<1>8. lease' \in [Request -> Promise] BY <1>3 DEF Promise
<1>9. holders' \subseteq Holding
  <2>1. \A i \in G : q[i] \in Waiting BY <1>1, <1>3
  <2> QED BY <1>3, <2>1, TakenTyped DEF WithTaken
<1> QED BY <1>4, <1>5, <1>6, <1>7, <1>8, <1>9 DEF LeaseMove, LeaseNamed

LEMMA ReleaseMoves ==
  ASSUME LeaseNamed, queue \in Seq(Waiting), NEW a, NEW mode, NEW keys, Release(a, mode, keys)
  PROVE  LeaseMove(a, mode)
<1> DEFINE H == {h \in holders : ~(h.owner = a /\ h.mode = mode /\ h.key \in keys)}
           Out == {w \in InQueue : w.owner = a /\ w.mode = mode /\ w.keys \cap keys # {}}
           S == {i \in DOMAIN queue : queue[i] \notin Out}
           promises == [id \in Request |-> IF \E w \in Out : w.id = id THEN "rejected" ELSE lease[id]]
<1>1. Pump(H, At(queue, S), promises) BY DEF Release, WithdrawFrom
<1>2. /\ S \in SUBSET DOMAIN queue /\ H \subseteq Holding
      /\ \A h \in holders : h.owner # a \/ h.mode # mode => h \in H
  BY DEF LeaseNamed
<1>3. promises \in [Request -> Promise] BY DEF LeaseNamed, Promise
<1>4. \A id \in Request : promises[id] = "granted" => lease[id] = "granted" OBVIOUS
<1> HIDE DEF H, S, promises
<1> QED BY <1>1, <1>2, <1>3, <1>4, PumpMoves

LEMMA WithdrawMoves ==
  ASSUME LeaseNamed, queue \in Seq(Waiting), NEW id, Withdraw(id)
  PROVE  LeaseMove(None, None)
<1> DEFINE Out == {w \in InQueue : w.id = id}
           S == {i \in DOMAIN queue : queue[i] \notin Out}
           promises == [r \in Request |-> IF \E w \in Out : w.id = r THEN "rejected" ELSE lease[r]]
<1>1. Pump(holders, At(queue, S), promises) BY DEF Withdraw, WithdrawFrom
<1>2. S \in SUBSET DOMAIN queue /\ holders \subseteq Holding BY DEF LeaseNamed
<1>3. promises \in [Request -> Promise] BY DEF LeaseNamed, Promise
<1>4. \A r \in Request : promises[r] = "granted" => lease[r] = "granted" OBVIOUS
<1> HIDE DEF S, promises
<1> QED BY <1>1, <1>2, <1>3, <1>4, PumpMoves

\* A request is as its name says when it is made.
LEMMA AcquireMoves ==
  ASSUME LeaseNamed, queue \in Seq(Waiting), NEW id \in Request, NEW a \in Holder, NEW mode \in Mode,
         NEW keys \in SUBSET Mount, Acquire(id, a, mode, keys),
         \A l \in Launch : id = WriteOf(l) => a = l[1] /\ mode = "write" /\ keys = Mounts[l[1]],
         \A m \in Maps : id = SnapshotOf(m) => a = m /\ mode = "shared" /\ keys = Mounts[m],
         NEW b, NEW md
  PROVE  LeaseMove(b, md)
<1> DEFINE w == [id |-> id, owner |-> a, mode |-> mode, keys |-> keys]
           Granted == Grantable(holders, {queue[i] : i \in DOMAIN queue}, w)
<1>1. /\ w \in Waiting
      /\ w.id = id /\ w.owner = a /\ w.mode = mode /\ w.keys = keys
  BY DEF Waiting
<1>2. /\ holders' = IF Granted THEN holders \cup Taken(w) ELSE holders
      /\ queue' = IF Granted THEN queue ELSE Append(queue, w)
      /\ lease' = [lease EXCEPT ![id] = IF Granted THEN "granted" ELSE "waiting"]
  BY DEF Acquire
<1> HIDE DEF w, Granted
<1>3. lease' \in [Request -> Promise] BY <1>2 DEF LeaseNamed, Promise
<1>4. RequestsNamed(queue')
  <2>1. CASE Granted BY <1>2, <2>1 DEF LeaseNamed
  <2>2. CASE ~Granted
    <3>1. queue' = Append(queue, w) BY <1>2, <2>2
    <3>2. \A i \in DOMAIN queue' : queue'[i] = w \/ (i \in DOMAIN queue /\ queue'[i] = queue[i])
      BY <1>1, <3>1
    <3> QED BY <1>1, <3>2 DEF RequestsNamed, LeaseNamed
  <2> QED BY <2>1, <2>2
<1>5. ASSUME lease'[id] = "granted" PROVE Taken(w) \subseteq holders'
  <2>1. Granted BY <1>2, <1>5 DEF LeaseNamed
  <2> QED BY <1>2, <2>1
<1>6. \A r \in Request : r # id => lease'[r] = lease[r] BY <1>2 DEF LeaseNamed
<1>7. ASSUME NEW l \in Launch, lease'[WriteOf(l)] = "granted", lease[WriteOf(l)] # "granted"
      PROVE  HoldsAll(l[1], "write")'
  <2>1. WriteOf(l) = id BY <1>6, <1>7, Named
  <2> QED BY <1>1, <1>5, <1>7, <2>1, TakenIsAll
<1>8. ASSUME NEW m \in Maps, lease'[SnapshotOf(m)] = "granted", lease[SnapshotOf(m)] # "granted"
      PROVE  HoldsAll(m, "shared")'
  <2>1. SnapshotOf(m) = id BY <1>6, <1>8, Named
  <2> QED BY <1>1, <1>5, <1>8, <2>1, TakenIsAll
<1>9. holders \subseteq holders' /\ holders' \subseteq Holding BY <1>1, <1>2, TakenTyped DEF LeaseNamed
<1> QED BY <1>3, <1>4, <1>7, <1>8, <1>9 DEF LeaseMove, LeaseNamed

LEMMA SettledMoves ==
  ASSUME LeaseNamed, NEW id, NEW as, LeaseSettled(id, as), NEW a, NEW mode PROVE LeaseMove(a, mode)
<1>1. lease' \in [Request -> Promise] /\ \A r \in Request : lease'[r] = "granted" => lease[r] = "granted"
  BY DEF LeaseSettled, LeaseNamed, Promise
<1>2. holders' = holders /\ queue' = queue BY DEF LeaseSettled
<1>3. \A l \in Launch : WriteOf(l) \in Request BY Named
<1>4. \A m \in Maps : SnapshotOf(m) \in Request BY Named
<1> QED BY <1>1, <1>2, <1>3, <1>4 DEF LeaseMove, LeaseNamed

LEMMA NothingMoves ==
  ASSUME LeaseNamed, UNCHANGED leaseVars, NEW a, NEW mode PROVE LeaseMove(a, mode)
BY DEF LeaseMove, LeaseNamed, leaseVars

Past(l) ==
  \/ at[l] \in {"admitting", "queued"} \cup InFrame
  \/ at[l] = "leasing" /\ lease[WriteOf(l)] = "granted"

First(l) == Style[l[1]] = "writer" /\ l[2] = 1 /\ stage[l[1]].no = 1

\* The first launch of a writer holds its mounts once its request was granted.
FirstHas == \A l \in Launch : First(l) /\ Past(l) => HoldsAll(l[1], "write")

OnMounts(m) ==
  \/ map[m] = "running"
  \/ map[m] = "snapshotting" /\ snap[m] = "taking"
  \/ map[m] = "snapshotting" /\ snap[m] = "waiting" /\ lease[SnapshotOf(m)] = "granted"

\* So does a map from the grant of its snapshot to its end.
MapHas == \A m \in Maps : OnMounts(m) => HoldsAll(m, "shared")

\* An attempt that does not exist yet was not launched.
Unborn == \A l \in Launch : l[2] > stage[l[1]].no => at[l] = None

WorkType ==
  /\ DOMAIN at = Launch /\ DOMAIN map = Maps /\ DOMAIN snap = Maps
  /\ stage \in [Stages -> [status : {"ready", "running", "paused", "done"}, no : Nat, live : BOOLEAN]]

WorkInv == WorkType /\ LeaseNamed /\ Unborn /\ FirstHas /\ MapHas

SameAttempts == \A s \in Stages : stage'[s].no = stage[s].no

\* What is held stays held in a step that takes it from somebody else.
LEMMA StaysHeld ==
  ASSUME NEW a, NEW mode, LeaseMove(a, mode), NEW b, NEW md, b # a \/ md # mode, HoldsAll(b, md)
  PROVE  HoldsAll(b, md)'
BY DEF LeaseMove, HoldsAll

LEMMA MapsKept ==
  ASSUME MapHas, UNCHANGED <<map, snap>>, NEW a, NEW mode, LeaseMove(a, mode), mode # "shared"
  PROVE  MapHas'
<1> SUFFICES ASSUME NEW m \in Maps, OnMounts(m)' PROVE HoldsAll(m, "shared")' BY DEF MapHas
<1>1. OnMounts(m) \/ HoldsAll(m, "shared")' BY DEF OnMounts, LeaseMove
<1>2. HoldsAll(m, "shared") \/ HoldsAll(m, "shared")' BY <1>1 DEF MapHas
<1> QED BY <1>2, StaysHeld

\* A step that moves no launch.
LEMMA StandKept ==
  ASSUME WorkInv, UNCHANGED at, SameAttempts, NEW a, NEW mode, LeaseMove(a, mode), mode # "write"
  PROVE  FirstHas' /\ Unborn'
<1>1. Unborn' BY DEF WorkInv, Unborn, SameAttempts, Launch
<1>2. ASSUME NEW l \in Launch, First(l)', Past(l)' PROVE HoldsAll(l[1], "write")'
  <2>1. First(l) BY <1>2 DEF First, SameAttempts, Launch
  <2>2. Past(l) \/ HoldsAll(l[1], "write")' BY <1>2 DEF Past, LeaseMove
  <2>3. HoldsAll(l[1], "write") \/ HoldsAll(l[1], "write")' BY <2>1, <2>2 DEF WorkInv, FirstHas
  <2> QED BY <2>3, StaysHeld
<1> QED BY <1>1, <1>2 DEF FirstHas

\* A step that moves one launch: others keep what they hold, as a first launch
\* is the only one of its stage.
LEMMA MoveKept ==
  ASSUME WorkInv, SameAttempts, NEW l \in Launch, NEW where, GoesTo(l, where), at[l] # None,
         NEW a, NEW mode, LeaseMove(a, mode), mode # "write" \/ a = l[1],
         First(l) /\ Past(l)' => HoldsAll(l[1], "write")'
  PROVE  FirstHas' /\ Unborn'
<1>1. DOMAIN at = Launch /\ at' = [at EXCEPT ![l] = where] BY DEF WorkInv, WorkType, GoesTo
<1>2. \A k \in Launch : k # l => at'[k] = at[k] BY <1>1
<1>3. l[2] <= stage[l[1]].no
  <2>1. l[1] \in Stages /\ l[2] \in Nat BY DEF Launch
  <2>2. stage[l[1]].no \in Nat BY <2>1 DEF WorkInv, WorkType
  <2> QED BY <2>1, <2>2 DEF WorkInv, Unborn
<1>4. Unborn'
  <2> SUFFICES ASSUME NEW k \in Launch, k[2] > stage'[k[1]].no PROVE at'[k] = None BY DEF Unborn
  <2>1. k[1] \in Stages /\ k[2] \in Nat /\ l[2] \in Nat /\ l[1] \in Stages BY DEF Launch
  <2>2. k[2] > stage[k[1]].no BY <2>1 DEF SameAttempts
  <2>3. stage[k[1]].no \in Nat BY <2>1 DEF WorkInv, WorkType
  <2>4. k # l BY <1>3, <2>1, <2>2, <2>3
  <2> QED BY <1>2, <2>2, <2>4 DEF WorkInv, Unborn
<1>5. ASSUME NEW k \in Launch, First(k)', Past(k)' PROVE HoldsAll(k[1], "write")'
  <2>1. First(k) BY <1>5 DEF First, SameAttempts, Launch
  <2>2. CASE k = l BY <1>5, <2>1, <2>2
  <2>3. CASE k # l
    <3>1. Past(k) \/ HoldsAll(k[1], "write")' BY <1>2, <1>5, <2>3 DEF Past, LeaseMove
    <3>2. HoldsAll(k[1], "write") \/ HoldsAll(k[1], "write")' BY <2>1, <3>1 DEF WorkInv, FirstHas
    <3>3. k[1] # l[1] BY <1>3, <2>1, <2>3 DEF First, Launch
    <3> QED BY <3>2, <3>3, StaysHeld
  <2> QED BY <2>2, <2>3
<1> QED BY <1>4, <1>5 DEF FirstHas

LEMMA GivesBackMoves ==
  ASSUME LeaseNamed, queue \in Seq(Waiting), NEW l, NEW keys, GivesBack(l, keys)
  PROVE  LeaseMove(l[1], "write")
<1>1. CASE Writes(l[1]) BY <1>1, ReleaseMoves DEF GivesBack
<1>2. CASE ~Writes(l[1]) BY <1>2, NothingMoves DEF GivesBack
<1> QED BY <1>1, <1>2

LEMMA Advances ==
  ASSUME WorkInv, WorkType', SameAttempts, UNCHANGED <<map, snap>>, NEW l \in Launch, NEW where,
         GoesTo(l, where), at[l] # None, NEW a, NEW mode, LeaseMove(a, mode), mode # "shared",
         mode # "write" \/ a = l[1], First(l) /\ Past(l)' => HoldsAll(l[1], "write")'
  PROVE  WorkInv'
BY MoveKept, MapsKept DEF WorkInv, LeaseMove

\* It goes from a place where a first launch holds its mounts.
LEMMA WorksOn ==
  ASSUME WorkInv, WorkType', SameAttempts, UNCHANGED <<map, snap>>, NEW l \in Launch, NEW where,
         GoesTo(l, where), Past(l), NEW a, NEW mode, LeaseMove(a, mode),
         mode \notin {"shared", "write"}
  PROVE  WorkInv'
<1>1. First(l) => HoldsAll(l[1], "write")' BY StaysHeld DEF WorkInv, FirstHas
<1>2. at[l] # None BY DEF Past, InFrame, None
<1> QED BY <1>1, <1>2, Advances

LEMMA GoesOver ==
  ASSUME WorkInv, WorkType', SameAttempts, UNCHANGED <<map, snap>>, NEW l \in Launch,
         GoesTo(l, "over"), at[l] # None, LeaseMove(l[1], "write")
  PROVE  WorkInv'
<1>1. at'[l] = "over" BY DEF WorkInv, WorkType, GoesTo
<1>2. ~Past(l)' BY <1>1 DEF Past, InFrame
<1> QED BY <1>2, Advances

LEMMA LaunchWorks ==
  ASSUME GatesInv, WorkInv, NEW l \in Launch, LaunchSteps(l) PROVE WorkInv'
<1>0. /\ LeaseNamed /\ queue \in Seq(Waiting) /\ l[1] \in Stages
      /\ WriteOf(l) \in Request /\ l[1] \in Holder /\ "write" \in Mode /\ Mounts[l[1]] \in SUBSET Mount
  BY Named DEF WorkInv, GatesInv, LeaseInv, Mode
<1>1. CASE AskLease(l)
  <2>1. WorkType' /\ SameAttempts /\ UNCHANGED <<map, snap>> /\ at[l] # None
    BY <1>1 DEF AskLease, WorkInv, WorkType, GoesTo, SameAttempts, runVars, mapVars, None
  <2>2. CASE Acquire(WriteOf(l), l[1], "write", Mounts[l[1]]) /\ GoesTo(l, "leasing")
    <3>1. LeaseMove(None, None) BY <1>0, <2>2, NamesDiffer, AcquireMoves
    <3>2. lease[WriteOf(l)] # "granted" BY <2>2 DEF Acquire
    <3>3. at'[l] = "leasing" BY <2>2 DEF GoesTo, WorkInv, WorkType
    <3>4. Past(l)' => HoldsAll(l[1], "write")' BY <3>1, <3>2, <3>3 DEF Past, InFrame, LeaseMove
    <3> QED BY <2>1, <2>2, <3>1, <3>4, Advances DEF None
  <2>3. CASE ~(Writes(l[1]) /\ Mounts[l[1]] # {}) /\ GoesTo(l, "admitting") /\ UNCHANGED leaseVars
    <3>1. LeaseMove(None, None) BY <1>0, <2>3, NothingMoves
    <3>2. First(l) => HoldsAll(l[1], "write")' BY <2>3 DEF First, Writes, HoldsAll
    <3> QED BY <2>1, <2>3, <3>1, <3>2, Advances DEF None
  <2>4. CASE GoesTo(l, "over") /\ UNCHANGED leaseVars
    BY <1>0, <2>1, <2>4, NothingMoves, GoesOver
  <2> QED BY <1>1, <2>2, <2>3, <2>4 DEF AskLease
<1>2. CASE HasLease(l)
  <2>1. WorkType' /\ SameAttempts /\ UNCHANGED <<map, snap>>
    BY <1>2 DEF HasLease, WorkInv, WorkType, GoesTo, SameAttempts, runVars, mapVars
  <2>2. LeaseMove(None, None) BY <1>0, <1>2, SettledMoves DEF HasLease
  <2>3. Past(l) BY <1>2 DEF HasLease, Past, LeaseSettled
  <2> QED BY <1>2, <2>1, <2>2, <2>3, WorksOn DEF HasLease, None
<1>3. CASE LeaseRefused(l)
  <2>1. WorkType' /\ SameAttempts /\ UNCHANGED <<map, snap>> /\ at[l] # None
    BY <1>3 DEF LeaseRefused, WorkInv, WorkType, GoesTo, SameAttempts, runVars, mapVars, None
  <2>2. LeaseMove(l[1], "write") BY <1>0, <1>3, SettledMoves DEF LeaseRefused
  <2> QED BY <1>3, <2>1, <2>2, GoesOver DEF LeaseRefused
<1>4. CASE StartChild(l)
  <2>1. WorkType' /\ SameAttempts /\ UNCHANGED <<map, snap>>
    BY <1>0, <1>4 DEF StartChild, WorkInv, WorkType, GoesTo, SameAttempts, mapVars
  <2>2. LeaseMove(None, None) BY <1>0, <1>4, NothingMoves DEF StartChild
  <2>3. Past(l) BY <1>4 DEF StartChild, Past
  <2> QED BY <1>4, <2>1, <2>2, <2>3, WorksOn DEF StartChild, None
<1>5. CASE Reacquire(l)
  <2>1. WorkType' /\ SameAttempts /\ UNCHANGED <<map, snap>>
    BY <1>5 DEF Reacquire, WorkInv, WorkType, GoesTo, SameAttempts, runVars, mapVars
  <2>2. LeaseMove(None, None) BY <1>0, <1>5, NamesDiffer, AcquireMoves DEF Reacquire
  <2>3. Past(l) BY <1>5 DEF Reacquire, Past, InFrame
  <2> QED BY <1>5, <2>1, <2>2, <2>3, WorksOn DEF Reacquire, None
<1>6. CASE AskPermit(l)
  <2>1. WorkType' /\ SameAttempts /\ UNCHANGED <<map, snap>>
    BY <1>6 DEF AskPermit, WorkInv, WorkType, GoesTo, SameAttempts, runVars, mapVars
  <2>2. LeaseMove(None, None) BY <1>0, <1>6, NothingMoves DEF AskPermit
  <2>3. Past(l) BY <1>6 DEF AskPermit, Past
  <2> QED BY <1>6, <2>1, <2>2, <2>3, WorksOn DEF AskPermit, None
<1>7. CASE Claim(l)
  <2>1. WorkType' /\ SameAttempts /\ UNCHANGED <<map, snap>>
    BY <1>0, <1>7 DEF Claim, WorkInv, WorkType, GoesTo, SameAttempts, mapVars
  <2>2. LeaseMove(None, None) BY <1>0, <1>7, NothingMoves DEF Claim
  <2>3. Past(l) BY <1>7 DEF Claim, Past
  <2> QED BY <1>7, <2>1, <2>2, <2>3, WorksOn DEF Claim, None
<1>8. CASE NotClaimed(l)
  <2>1. PICK keys : GivesBack(l, keys) BY <1>8 DEF NotClaimed
  <2>2. WorkType' /\ SameAttempts /\ UNCHANGED <<map, snap>> /\ at[l] # None
    BY <1>8, <2>1 DEF NotClaimed, GivesBack, WorkInv, WorkType, GoesTo, SameAttempts, runVars, mapVars, None
  <2>3. LeaseMove(l[1], "write") BY <1>0, <2>1, GivesBackMoves
  <2> QED BY <2>1, <2>2, <2>3, GoesOver DEF GivesBack
<1> QED BY <1>1, <1>2, <1>3, <1>4, <1>5, <1>6, <1>7, <1>8 DEF LaunchSteps

LEMMA FrameWorks ==
  ASSUME GatesInv, WorkInv, NEW l \in Launch, FrameSteps(l) \/ Park(l) \/ Answer(l) \/ AskMerge(l)
  PROVE  WorkInv'
<1>0. /\ LeaseNamed /\ queue \in Seq(Waiting) /\ l[1] \in Stages
      /\ MergeOf(l[1]) \in Request /\ l[1] \in Holder /\ "exclusive" \in Mode
      /\ Mounts[l[1]] \in SUBSET Mount
  BY Named DEF WorkInv, GatesInv, LeaseInv, Mode
<1>1. ASSUME Resumed(l) \/ Merge(l) \/ Merged(l) \/ Park(l) \/ Answer(l) \/ AskMerge(l)
      PROVE  /\ WorkType' /\ SameAttempts /\ UNCHANGED <<map, snap>> /\ Past(l)
             /\ \E where : GoesTo(l, where)
  <2>1. UNCHANGED <<stage, map, snap>>
    BY <1>1 DEF Resumed, Merge, Merged, Park, Answer, AskMerge, runVars, mapVars
  <2>2. Past(l) BY <1>1 DEF Resumed, Merge, Merged, Park, Answer, AskMerge, Past, InFrame
  <2>3. \E where : GoesTo(l, where) BY <1>1 DEF Resumed, Merge, Merged, Park, Answer, AskMerge
  <2> QED BY <2>1, <2>2, <2>3 DEF WorkInv, WorkType, GoesTo, SameAttempts
<1>2. ASSUME Resumed(l) \/ Merge(l) \/ Park(l) \/ Answer(l) \/ AskMerge(l) PROVE LeaseMove(None, None)
  <2>1. CASE UNCHANGED leaseVars BY <1>0, <2>1, NothingMoves
  <2>2. CASE Merge(l) BY <1>0, <2>2, SettledMoves DEF Merge
  <2>3. CASE AskMerge(l) BY <1>0, <2>3, NamesDiffer, AcquireMoves DEF AskMerge
  <2> QED BY <1>2, <2>1, <2>2, <2>3 DEF Resumed, Park, Answer
<1>3. ASSUME Merged(l) PROVE LeaseMove(l[1], "exclusive") BY <1>0, <1>3, ReleaseMoves DEF Merged
<1>4. ASSUME Resumed(l) \/ Merge(l) \/ Park(l) \/ Answer(l) \/ AskMerge(l) PROVE WorkInv'
  BY <1>1, <1>2, <1>4, WorksOn DEF None
<1>5. ASSUME Merged(l) PROVE WorkInv' BY <1>1, <1>3, <1>5, WorksOn
<1>6. ASSUME End(l) PROVE WorkInv'
  <2>1. GivesBack(l, held[l]) BY <1>6 DEF End
  <2>2. UNCHANGED <<map, snap>> /\ at[l] # None BY <1>6 DEF End, Ends, mapVars, None
  <2>3. WorkType' /\ SameAttempts
    <3> DEFINE s == l[1]
               live == stage[s].live /\ stage[s].no # l[2]
               status == IF stage[s].no = l[2] /\ stage[s].status = "running" THEN "done" ELSE stage[s].status
    <3>1. stage' = [stage EXCEPT ![s].live = live, ![s].status = status] BY <1>6 DEF End
    <3>2. live \in BOOLEAN OBVIOUS
    <3>3. s \in Stages /\ status \in {"ready", "running", "paused", "done"} BY <1>0 DEF WorkInv, WorkType
    <3>4. DOMAIN at' = Launch BY <2>1 DEF GivesBack, GoesTo, WorkInv, WorkType
    <3> HIDE DEF s, live, status
    <3>5. stage \in [Stages -> [status : {"ready", "running", "paused", "done"}, no : Nat, live : BOOLEAN]]
      BY <1>0 DEF WorkInv, WorkType
    <3>6. /\ stage' \in [Stages -> [status : {"ready", "running", "paused", "done"}, no : Nat, live : BOOLEAN]]
          /\ \A t \in Stages : stage'[t].no = stage[t].no
      BY <3>1, <3>2, <3>3, <3>5
    <3> QED BY <1>0, <2>2, <3>4, <3>6 DEF WorkInv, WorkType, SameAttempts
  <2>4. LeaseMove(l[1], "write") BY <1>0, <2>1, GivesBackMoves
  <2> QED BY <2>1, <2>2, <2>3, <2>4, GoesOver DEF GivesBack
<1> QED BY <1>4, <1>5, <1>6 DEF FrameSteps

LEMMA AbortMoves ==
  ASSUME LeaseNamed, queue \in Seq(Waiting), NEW s, Abort(s) PROVE LeaseMove(None, None)
<1>1. UNCHANGED leaseVars \/ Withdraw(WriteOf(<<s, stage[s].no>>)) BY DEF Abort
<1> QED BY <1>1, NothingMoves, WithdrawMoves

LEMMA StageWorks ==
  ASSUME GatesInv, WorkInv, NEW s \in Stages, Admit(s) \/ Pause(s) \/ Resume(s) \/ Timeout(s)
  PROVE  WorkInv'
<1>0. LeaseNamed /\ queue \in Seq(Waiting) BY DEF WorkInv, GatesInv, LeaseInv
<1>1. CASE Admit(s)
  <2> DEFINE l == <<s, stage[s].no + 1>>
  <2>1. /\ l \in Launch /\ l[1] = s /\ l[2] = stage[s].no + 1 /\ GoesTo(l, "launched")
        /\ stage' = [stage EXCEPT ![s].no = @ + 1, ![s].live = TRUE]
        /\ UNCHANGED <<leaseVars, map, snap>>
    BY <1>1 DEF Admit, mapVars
  <2> HIDE DEF l
  <2>2. WorkType'
    <3> DEFINE no == stage[s].no + 1
    <3>1. no \in Nat BY DEF WorkInv, WorkType
    <3>2. stage' = [stage EXCEPT ![s].no = no, ![s].live = TRUE] BY <2>1
    <3> HIDE DEF no
    <3>3. stage' \in [Stages -> [status : {"ready", "running", "paused", "done"}, no : Nat, live : BOOLEAN]]
      BY <3>1, <3>2 DEF WorkInv, WorkType
    <3> QED BY <2>1, <3>3 DEF WorkInv, WorkType, GoesTo
  <2>3. stage[s].no \in Nat /\ stage'[s].no = stage[s].no + 1 BY <2>1 DEF WorkInv, WorkType
  <2>4. \A t \in Stages : t # s => stage'[t] = stage[t] BY <2>1 DEF WorkInv, WorkType
  <2>5. at'[l] = "launched" /\ \A k \in Launch : k # l => at'[k] = at[k]
    BY <2>1 DEF WorkInv, WorkType, GoesTo
  <2>6. LeaseMove(None, None) BY <1>0, <2>1, NothingMoves
  <2>7. MapHas' BY <2>1, <2>6, MapsKept DEF WorkInv, None
  <2>8. Unborn'
    <3> SUFFICES ASSUME NEW k \in Launch, k[2] > stage'[k[1]].no PROVE at'[k] = None BY DEF Unborn
    <3>1. k[1] \in Stages /\ k[2] \in Nat BY DEF Launch
    <3>2. k # l
      <4> SUFFICES ASSUME k = l PROVE FALSE OBVIOUS
      <4>1. stage'[k[1]].no = stage[s].no + 1 /\ k[2] = stage[s].no + 1 BY <2>1, <2>3
      <4> QED BY <2>3, <4>1
    <3>3. k[2] > stage[k[1]].no BY <2>3, <2>4, <3>1
    <3> QED BY <2>5, <3>2, <3>3 DEF WorkInv, Unborn
  <2>9. FirstHas'
    <3> SUFFICES ASSUME NEW k \in Launch, First(k)', Past(k)' PROVE HoldsAll(k[1], "write")' BY DEF FirstHas
    <3>1. k # l BY <2>5 DEF Past, InFrame
    <3>2. Past(k) BY <2>1, <2>5, <3>1 DEF Past, leaseVars
    <3>3. k[1] # s
      <4> SUFFICES ASSUME k[1] = s PROVE FALSE OBVIOUS
      <4>1. k[2] > stage[s].no BY <2>3 DEF First
      <4>2. at[k] = None BY <4>1 DEF WorkInv, Unborn
      <4> QED BY <3>2, <4>2 DEF Past, InFrame, None
    <3>4. First(k) BY <2>4, <3>3 DEF First, Launch
    <3>5. HoldsAll(k[1], "write") BY <3>2, <3>4 DEF WorkInv, FirstHas
    <3> QED BY <2>6, <3>5, StaysHeld DEF None
  <2> QED BY <2>2, <2>6, <2>7, <2>8, <2>9 DEF WorkInv, LeaseMove
<1>2. CASE Pause(s) \/ Resume(s) \/ Timeout(s)
  <2>1. LeaseMove(None, None)
    BY <1>0, <1>2, NothingMoves, AbortMoves DEF Pause, Resume, Timeout, StopStage
  <2>2. UNCHANGED <<at, map, snap>> BY <1>2 DEF Pause, Resume, Timeout, launchVars, mapVars
  <2>3. WorkType' /\ SameAttempts
    <3>1. CASE UNCHANGED stage BY <2>2, <3>1 DEF WorkInv, WorkType, SameAttempts
    <3>2. CASE Resume(s) BY <2>2, <3>2 DEF Resume, WorkInv, WorkType, SameAttempts
    <3>3. CASE StopStage(s, "paused") \/ StopStage(s, "done")
      <4> DEFINE live == stage[s].live /\ stage[s].status # "ready"
      <4>1. PICK to \in {"paused", "done"} : stage' = [stage EXCEPT ![s].status = to, ![s].live = live]
        BY <3>3 DEF StopStage
      <4>2. live \in BOOLEAN OBVIOUS
      <4> HIDE DEF live
      <4> QED BY <2>2, <4>1, <4>2 DEF WorkInv, WorkType, SameAttempts
    <3> QED BY <1>2, <3>1, <3>2, <3>3 DEF Pause, Timeout
  <2>4. FirstHas' /\ Unborn' BY <2>1, <2>2, <2>3, StandKept DEF None
  <2>5. MapHas' BY <2>1, <2>2, MapsKept DEF WorkInv, None
  <2> QED BY <2>1, <2>3, <2>4, <2>5 DEF WorkInv, LeaseMove
<1> QED BY <1>1, <1>2

LEMMA MapWorks ==
  ASSUME GatesInv, WorkInv, NEW m \in Maps,
         MapStart(m) \/ MapSteps(m) \/ AskMapMerge(m) \/ MapSettle(m)
  PROVE  WorkInv'
<1>0. /\ LeaseNamed /\ queue \in Seq(Waiting) /\ DOMAIN map = Maps /\ DOMAIN snap = Maps
      /\ m \in Holder /\ {"shared", "exclusive"} \subseteq Mode /\ Mounts[m] \in SUBSET Mount
      /\ SnapshotOf(m) \in Request /\ MergeOf(m) \in Request
  BY Named DEF WorkInv, WorkType, GatesInv, LeaseInv, Mode
<1>1. UNCHANGED <<stage, at>> /\ DOMAIN map' = Maps /\ DOMAIN snap' = Maps
  BY <1>0 DEF MapStart, MapSteps, AskSnapshot, TakeSnapshot, SnapshotTaken, MapMerge, MapMerged, AskMapMerge,
              MapSettle, runVars, launchVars
<1>2. WorkType' /\ SameAttempts BY <1>1 DEF WorkInv, WorkType, SameAttempts
<1>3. ASSUME NEW mode, mode # "write", LeaseMove(m, mode), MapHas' PROVE WorkInv'
  BY <1>1, <1>2, <1>3, StandKept DEF WorkInv, LeaseMove
<1>4. ASSUME NEW mode, mode \notin {"write", "shared"}, LeaseMove(m, mode), UNCHANGED <<map, snap>>
      PROVE  WorkInv'
  BY <1>3, <1>4, MapsKept DEF WorkInv
<1>5. ASSUME NEW mode, LeaseMove(m, mode),
             \A k \in Maps : k # m => map'[k] = map[k] /\ snap'[k] = snap[k],
             OnMounts(m)' => HoldsAll(m, "shared")'
      PROVE  MapHas'
  <2> SUFFICES ASSUME NEW k \in Maps, k # m, OnMounts(k)' PROVE HoldsAll(k, "shared")' BY <1>5 DEF MapHas
  <2>1. OnMounts(k) \/ HoldsAll(k, "shared")' BY <1>5 DEF OnMounts, LeaseMove
  <2>2. HoldsAll(k, "shared") \/ HoldsAll(k, "shared")' BY <2>1 DEF WorkInv, MapHas
  <2> QED BY <1>5, <2>2, StaysHeld
<1>6. CASE MapStart(m)
  <2>1. LeaseMove(m, None) BY <1>0, <1>6, NothingMoves DEF MapStart
  <2>2. ~OnMounts(m)' BY <1>0, <1>6 DEF MapStart, OnMounts
  <2>3. \A k \in Maps : k # m => map'[k] = map[k] /\ snap'[k] = snap[k] BY <1>0, <1>6 DEF MapStart
  <2> QED BY <1>3, <1>5, <2>1, <2>2, <2>3 DEF None
<1>7. CASE AskSnapshot(m)
  <2>1. LeaseMove(m, None) BY <1>0, <1>7, NamesDiffer, AcquireMoves DEF AskSnapshot
  <2>2. lease[SnapshotOf(m)] # "granted" BY <1>7 DEF AskSnapshot, Acquire
  <2>3. \A k \in Maps : k # m => map'[k] = map[k] /\ snap'[k] = snap[k] BY <1>0, <1>7 DEF AskSnapshot
  <2>4. map'[m] = map[m] /\ snap'[m] = "waiting" BY <1>0, <1>7 DEF AskSnapshot
  <2>5. HoldsAll(m, "shared") \/ HoldsAll(m, "shared")' \/ ~OnMounts(m)'
    BY <2>1, <2>2, <2>4 DEF OnMounts, WorkInv, MapHas, LeaseMove
  <2>6. OnMounts(m)' => HoldsAll(m, "shared")' BY <2>1, <2>5, StaysHeld DEF None
  <2> QED BY <1>3, <1>5, <2>1, <2>3, <2>6 DEF None
<1>8. CASE TakeSnapshot(m)
  <2>1. LeaseMove(m, None) BY <1>0, <1>8, SettledMoves DEF TakeSnapshot
  <2>2. \A k \in Maps : k # m => map'[k] = map[k] /\ snap'[k] = snap[k] BY <1>0, <1>8 DEF TakeSnapshot
  <2>3. OnMounts(m)' => OnMounts(m) BY <1>0, <1>8 DEF TakeSnapshot, LeaseSettled, OnMounts, None
  <2>4. OnMounts(m)' => HoldsAll(m, "shared")' BY <2>1, <2>3, StaysHeld DEF WorkInv, MapHas, None
  <2> QED BY <1>3, <1>5, <2>1, <2>2, <2>4 DEF None
<1>9. CASE SnapshotTaken(m)
  <2>1. \A k \in Maps : k # m => map'[k] = map[k] /\ snap'[k] = snap[k] BY <1>0, <1>9 DEF SnapshotTaken
  <2>2. CASE map[m] = "snapshotting" /\ UNCHANGED leaseVars
    <3>1. LeaseMove(m, None) BY <1>0, <2>2, NothingMoves
    <3>2. HoldsAll(m, "shared") BY <1>9, <2>2 DEF SnapshotTaken, OnMounts, WorkInv, MapHas
    <3>3. HoldsAll(m, "shared")' BY <3>1, <3>2, StaysHeld DEF None
    <3> QED BY <1>3, <1>5, <2>1, <3>1, <3>3 DEF None
  <2>3. CASE map' = [map EXCEPT ![m] = "settled"] /\ Release(m, "shared", Mounts[m])
    <3>1. LeaseMove(m, "shared") BY <1>0, <2>3, ReleaseMoves
    <3>2. ~OnMounts(m)' BY <1>0, <2>3 DEF OnMounts
    <3> QED BY <1>3, <1>5, <2>1, <3>1, <3>2
  <2> QED BY <1>9, <2>2, <2>3 DEF SnapshotTaken
<1>10. CASE MapMerge(m)
  <2>1. LeaseMove(m, None) BY <1>0, <1>10, SettledMoves DEF MapMerge
  <2> QED BY <1>4, <1>10, <2>1 DEF MapMerge, None
<1>11. CASE MapMerged(m)
  <2>1. LeaseMove(m, "exclusive") BY <1>0, <1>11, ReleaseMoves DEF MapMerged
  <2> QED BY <1>4, <1>11, <2>1 DEF MapMerged
<1>12. CASE AskMapMerge(m)
  <2>1. LeaseMove(m, None) BY <1>0, <1>12, NamesDiffer, AcquireMoves DEF AskMapMerge
  <2> QED BY <1>4, <1>12, <2>1 DEF AskMapMerge, None
<1>13. CASE MapSettle(m)
  <2>1. LeaseMove(m, "shared") BY <1>0, <1>13, ReleaseMoves DEF MapSettle
  <2>2. ~OnMounts(m)' BY <1>0, <1>13 DEF MapSettle, OnMounts
  <2>3. \A k \in Maps : k # m => map'[k] = map[k] /\ snap'[k] = snap[k] BY <1>0, <1>13 DEF MapSettle
  <2> QED BY <1>3, <1>5, <2>1, <2>2, <2>3
<1> QED BY <1>6, <1>7, <1>8, <1>9, <1>10, <1>11, <1>12, <1>13 DEF MapSteps

\* Turns and limits touch none of it.
LEMMA OthersWork == ASSUME WorkInv, UNCHANGED <<leaseVars, stage, at, map, snap>> PROVE WorkInv'
<1>1. LeaseMove(None, None) BY NothingMoves DEF WorkInv
<1>2. SameAttempts /\ WorkType' BY DEF SameAttempts, WorkInv, WorkType
<1> QED BY <1>1, <1>2, StandKept, MapsKept DEF WorkInv, LeaseMove, None

LEMMA CrashWorks == ASSUME WorkInv, Crash PROVE WorkInv'
<1>1. WorkType' /\ SameAttempts
  <2>1. PICK to \in {"ready", "paused"} : stage' = [s \in Stages |-> Lost(s, to)] BY DEF Crash
  <2>2. \A s \in Stages :
          /\ Lost(s, to) \in [status : {"ready", "running", "paused", "done"}, no : Nat, live : BOOLEAN]
          /\ Lost(s, to).no = stage[s].no
    BY DEF Lost, WorkInv, WorkType
  <2> QED BY <2>1, <2>2 DEF Crash, WorkInv, WorkType, SameAttempts
<1>2. LeaseNamed'
  <2>1. \A m \in Maps : m \in Holder /\ Mounts[m] \in SUBSET Mount BY Named
  <2>2. holders' \subseteq Holding BY <2>1 DEF Crash, Holding, Mode
  <2> QED BY <2>2 DEF Crash, LeaseNamed, RequestsNamed, Promise, None
<1>3. ASSUME NEW l \in Launch, l[2] > stage[l[1]].no PROVE at'[l] = None
  <2>1. at[l] = None BY <1>3 DEF WorkInv, Unborn
  <2>2. stage[l[1]].no # l[2]
    <3>1. l[1] \in Stages /\ l[2] \in Nat BY DEF Launch
    <3> QED BY <1>3, <3>1 DEF WorkInv, WorkType
  <2> QED BY <2>1, <2>2 DEF Crash
<1>4. Unborn' BY <1>1, <1>3 DEF Unborn, SameAttempts, Launch
<1>5. ASSUME NEW l \in Launch, Style[l[1]] = "writer" PROVE ~Past(l)'
  <2>1. /\ at'[l] \in {None, "over", Again(l[1])}
        /\ at'[l] = Again(l[1]) => Restarted(l[1]) \/ at'[l] \in {None, "over"}
    BY DEF Crash
  <2>2. Restarted(l[1]) => Again(l[1]) = "launched" BY <1>5 DEF Restarted, Again
  <2> QED BY <2>1, <2>2 DEF Past, InFrame, None
<1>6. FirstHas' BY <1>5 DEF FirstHas, First
<1>7. MapHas'
  <2> SUFFICES ASSUME NEW m \in Maps, OnMounts(m)' PROVE HoldsAll(m, "shared")' BY DEF MapHas
  <2>1. map[m] = "running" BY DEF OnMounts, Crash, None
  <2> QED BY <2>1 DEF Crash, HoldsAll
<1> QED BY <1>1, <1>2, <1>4, <1>6, <1>7 DEF WorkInv

LEMMA InitWorks == Init => WorkInv
<1> SUFFICES ASSUME Init PROVE WorkInv OBVIOUS
<1>1. WorkType BY DEF Init, WorkType
<1>2. LeaseNamed BY DEF Init, LeasesInit, LeaseNamed, RequestsNamed, Promise
<1>3. Unborn BY DEF Init, Unborn
<1>4. FirstHas BY DEF Init, FirstHas, Past, InFrame, None
<1>5. MapHas BY DEF Init, MapHas, OnMounts
<1> QED BY <1>1, <1>2, <1>3, <1>4, <1>5 DEF WorkInv

LEMMA StepWorks == GatesInv /\ WorkInv /\ [Next]_vars => WorkInv'
<1> SUFFICES ASSUME GatesInv, WorkInv, [Next]_vars PROVE WorkInv' OBVIOUS
<1>1. CASE \E s \in Stages : Admit(s) \/ Pause(s) \/ Resume(s) \/ Timeout(s) BY <1>1, StageWorks
<1>2. CASE \E l \in Launch : LaunchSteps(l) \/ FrameSteps(l) \/ Park(l) \/ Answer(l) \/ AskMerge(l)
  BY <1>2, LaunchWorks, FrameWorks
<1>3. CASE \E m \in Maps : MapStart(m) \/ MapSteps(m) \/ AskMapMerge(m) \/ MapSettle(m) BY <1>3, MapWorks
<1>4. CASE \E c \in Chats : AskTurn(c) \/ TryTurn(c) \/ ChatSteps(c) \/ GiveUp(c)
  <2>1. UNCHANGED <<leaseVars, stage, at, map, snap>>
    BY <1>4 DEF AskTurn, TryTurn, ChatSteps, Turn, GivenUp, TurnEnds, GiveUp, runVars, launchVars, mapVars
  <2> QED BY <2>1, OthersWork
<1>5. CASE \E new \in Limits : SetLimits(new)
  <2>1. UNCHANGED <<leaseVars, stage, at, map, snap>> BY <1>5 DEF SetLimits, launchVars, mapVars
  <2> QED BY <2>1, OthersWork
<1>6. CASE Crash BY <1>6, CrashWorks
<1>7. CASE UNCHANGED vars
  <2>1. UNCHANGED <<leaseVars, stage, at, map, snap>> BY <1>7 DEF vars, runVars, launchVars, mapVars
  <2> QED BY <2>1, OthersWork
<1> QED BY <1>1, <1>2, <1>3, <1>4, <1>5, <1>6, <1>7 DEF Next

LEMMA WorkKept == Spec => []WorkInv
BY InitWorks, StepWorks, GatesKept, PTL DEF Spec

LEMMA WorkApart == Excluded /\ WorkInv => FirstLaunchExcluded
<1> SUFFICES ASSUME Excluded, WorkInv, NEW m \in Maps, NEW s \in Stages, map[m] = "running", stage[s].no = 1,
                    Disturbs(s, m)
             PROVE  FALSE
  BY DEF FirstLaunchExcluded
<1>1. PICK l \in Launch : l[1] = s /\ at[l] \in InFrame BY DEF Disturbs, FramesOf
<1>2. l[2] = 1
  <2>1. l[2] \in Nat /\ l[2] >= 1 BY DEF Launch
  <2>2. ~(l[2] > 1) BY <1>1 DEF WorkInv, Unborn, InFrame, None
  <2> QED BY <2>1, <2>2
<1>3. HoldsAll(s, "write") BY <1>1, <1>2 DEF WorkInv, FirstHas, First, Past, Disturbs
<1>4. HoldsAll(m, "shared") BY DEF WorkInv, MapHas, OnMounts
<1>5. PICK k : k \in Mounts[s] /\ k \in Mounts[m] BY DEF Disturbs
<1>6. s # m BY GatesAssumption
<1> QED BY <1>3, <1>4, <1>5, <1>6 DEF HoldsAll, Excluded

\* While a map runs, no frame of a first launch writes its mounts: the launch was
\* granted its lease before it was a frame and the map before it ran, and neither
\* lease goes before what it is for (WorktreeLeases.ts:1).
THEOREM FirstLaunchApart == Spec => []FirstLaunchExcluded
<1>1. GatesInv => Excluded BY DEF GatesInv, LeaseInv
<1> QED BY <1>1, GatesKept, WorkKept, WorkApart, PTL

-----------------------------------------------------------------------------
(* The types.                                                                   *)

Wait == {"none", "waiting", "granted", "withdrawn"}
Status == {"ready", "running", "paused", "done"}
Number == 0..MaxNo
Place == {None, "launched", "leasing", "admitting", "queued", "over"} \cup InFrame

StageTyped ==
  /\ stage \in [Stages -> [status : Status, no : Number, live : BOOLEAN]]
  /\ \A s \in Stages : stage[s].live => stage[s].no # 0
  /\ timers \subseteq Stages /\ ops \in 0..MaxOps /\ crashes \in 0..MaxCrashes

LaunchTyped ==
  /\ queued \in [Stages -> Number] /\ dropped \subseteq Launch /\ stopped \subseteq Launch
  /\ at \in [Launch -> Place] /\ held \in [Launch -> SUBSET Flow]

MapTyped ==
  /\ map \in [Maps -> {"pending", "snapshotting", "running", "settled"}]
  /\ snap \in [Maps -> {None, "asked", "waiting", "taking"}]
  /\ merge \in [Maps -> {None, "asked", "waiting", "applying"}]

PermitTyped == permit \in [Caller -> Wait]
ChatTyped == chat \in [Chats -> {"idle", "waiting", "turn"}]

RestTyped == StageTyped /\ LaunchTyped /\ MapTyped /\ PermitTyped /\ ChatTyped

LEMMA UntakeTyped ==
  ASSUME PermitTyped, NEW c, NEW keys, Untake(c, keys, None) PROVE PermitTyped'
<1>1. [permit EXCEPT ![c] = None] \in [Caller -> Wait] BY DEF PermitTyped, Wait, None
<1> QED BY <1>1 DEF Untake, PumpFlows, PermitTyped, Wait

LEMMA WaitTyped ==
  ASSUME PermitTyped, NEW c, NEW keys, NEW priority, WaitFlows(c, keys, priority) PROVE PermitTyped'
BY DEF WaitFlows, PermitTyped, Wait

LEMMA WithdrawTyped == ASSUME PermitTyped, NEW c, WithdrawFlow(c) PROVE PermitTyped'
BY DEF WithdrawFlow, PermitTyped, Wait

LEMMA PermitSettledTyped ==
  ASSUME PermitTyped, NEW c, NEW as, PermitSettled(c, as) PROVE PermitTyped'
BY DEF PermitSettled, PermitTyped, Wait

LEMMA PermitStands == ASSUME PermitTyped, UNCHANGED flowVars PROVE PermitTyped'
BY DEF flowVars, PermitTyped

LEMMA LaunchTypes ==
  ASSUME RestTyped, NEW l \in Launch,
         LaunchSteps(l) \/ FrameSteps(l) \/ Park(l) \/ Answer(l) \/ AskMerge(l)
  PROVE  RestTyped'
<1>0. l[1] \in Stages /\ FlowsOf[l[1]] \in SUBSET Flow BY Named
<1>1. UNCHANGED mapVars /\ UNCHANGED chat
  BY DEF LaunchSteps, FrameSteps, AskLease, HasLease, LeaseRefused, StartChild, Reacquire, AskPermit,
         Claim, NotClaimed, Resumed, Merge, Merged, End, Park, Answer, AskMerge
<1>2. MapTyped' /\ ChatTyped' BY <1>1 DEF RestTyped, MapTyped, ChatTyped, mapVars
<1>3. PermitTyped'
  <2>1. \/ UNCHANGED flowVars \/ \E as : PermitSettled(l, as)
        \/ \E keys : WaitFlows(l, keys, FALSE) \/ Untake(l, keys, None)
    BY DEF LaunchSteps, FrameSteps, AskLease, HasLease, LeaseRefused, StartChild, Reacquire, AskPermit,
         Claim, NotClaimed, GivesBack, Resumed, Merge, Merged, End, Park, Answer, AskMerge
  <2> QED BY <2>1, PermitStands, PermitSettledTyped, WaitTyped, UntakeTyped DEF RestTyped
<1>4. StageTyped'
  <2>1. CASE UNCHANGED runVars BY <2>1 DEF RestTyped, StageTyped, runVars
  <2>2. CASE StartChild(l) BY <1>0, <2>2 DEF StartChild, RestTyped, StageTyped, Status
  <2>3. CASE Claim(l) BY <1>0, <2>3 DEF Claim, RestTyped, StageTyped, Status
  <2>4. CASE End(l)
    <3> DEFINE s == l[1]
               live == stage[s].live /\ stage[s].no # l[2]
               status == IF stage[s].no = l[2] /\ stage[s].status = "running" THEN "done" ELSE stage[s].status
    <3>1. stage' = [stage EXCEPT ![s].live = live, ![s].status = status] BY <2>4 DEF End
    <3>2. live \in BOOLEAN /\ (live => stage[s].live) /\ s \in Stages /\ status \in Status
      BY <1>0 DEF RestTyped, StageTyped, Status
    <3>3. timers' = timers /\ ops' = ops /\ crashes' = crashes BY <2>4 DEF End
    <3> HIDE DEF s, live, status
    <3> QED BY <3>1, <3>2, <3>3 DEF RestTyped, StageTyped
  <2> QED BY <2>1, <2>2, <2>3, <2>4
       DEF LaunchSteps, FrameSteps, AskLease, HasLease, LeaseRefused, Reacquire, AskPermit,
           NotClaimed, Resumed, Merge, Merged, Park, Answer, AskMerge
<1>5. LaunchTyped'
  <2>0. Forget(l) \in [Stages -> Number]
    <3>1. 0 \in Number BY GatesAssumption DEF Number
    <3> QED BY <3>1 DEF Forget, RestTyped, LaunchTyped
  <2>1. CASE AskLease(l) BY <2>0, <2>1 DEF AskLease, RestTyped, LaunchTyped, GoesTo, Place
  <2>2. CASE HasLease(l) BY <2>2 DEF HasLease, RestTyped, LaunchTyped, GoesTo, Place
  <2>3. CASE LeaseRefused(l) BY <2>0, <2>3 DEF LeaseRefused, RestTyped, LaunchTyped, GoesTo, Place
  <2>4. CASE StartChild(l) BY <2>4 DEF StartChild, RestTyped, LaunchTyped, GoesTo, Place, InFrame
  <2>5. CASE Reacquire(l) BY <2>5 DEF Reacquire, RestTyped, LaunchTyped, GoesTo, Place, InFrame
  <2>6. CASE AskPermit(l) BY <2>6 DEF AskPermit, RestTyped, LaunchTyped, GoesTo, Place
  <2>7. CASE Claim(l) BY <1>0, <2>0, <2>7 DEF Claim, RestTyped, LaunchTyped, GoesTo, Place, InFrame
  <2>8. ASSUME NEW keys, GivesBack(l, keys), queued' = Forget(l) \/ UNCHANGED queued PROVE LaunchTyped'
    BY <2>0, <2>8 DEF GivesBack, RestTyped, LaunchTyped, GoesTo, Place
  <2>9. CASE NotClaimed(l) BY <2>8, <2>9 DEF NotClaimed
  <2>10. CASE End(l) BY <2>8, <2>10 DEF End
  <2>11. CASE Resumed(l) BY <1>0, <2>11 DEF Resumed, RestTyped, LaunchTyped, GoesTo, Place, InFrame
  <2>12. CASE Merge(l) \/ AskMerge(l) \/ Answer(l)
    BY <2>12 DEF Merge, AskMerge, Answer, RestTyped, LaunchTyped, GoesTo, Place, InFrame
  <2>13. CASE Merged(l) BY <2>13 DEF Merged, RestTyped, LaunchTyped, GoesTo, Place, InFrame
  <2>14. CASE Park(l) BY <2>14 DEF Park, RestTyped, LaunchTyped, GoesTo, Place, InFrame
  <2> QED BY <2>1, <2>2, <2>3, <2>4, <2>5, <2>6, <2>7, <2>9, <2>10, <2>11, <2>12, <2>13, <2>14
       DEF LaunchSteps, FrameSteps
<1> QED BY <1>2, <1>3, <1>4, <1>5 DEF RestTyped

LEMMA StageTypes ==
  ASSUME RestTyped, NEW s \in Stages, Admit(s) \/ Pause(s) \/ Resume(s) \/ Timeout(s)
  PROVE  RestTyped'
<1>1. MapTyped' /\ ChatTyped'
  <2>1. UNCHANGED <<mapVars, chat>> BY DEF Admit, Pause, Resume, Timeout
  <2> QED BY <2>1 DEF RestTyped, MapTyped, ChatTyped, mapVars
<1>2. ASSUME NEW to \in {"paused", "done"}, StopStage(s, to)
      PROVE  /\ PermitTyped' /\ timers' \subseteq Stages
             /\ stage' \in [Stages -> [status : Status, no : Number, live : BOOLEAN]]
             /\ \A t \in Stages : stage'[t].live => stage'[t].no # 0
             /\ dropped' \subseteq Launch /\ stopped' \subseteq Launch
  <2>1. UNCHANGED flowVars \/ \E c : WithdrawFlow(c) BY <1>2 DEF StopStage, Abort
  <2>2. PermitTyped' BY <2>1, PermitStands, WithdrawTyped DEF RestTyped
  <2>3. timers' \subseteq Stages BY <1>2 DEF StopStage, RestTyped, StageTyped
  <2>4. dropped' \subseteq Launch /\ stopped' \subseteq Launch
    <3>1. stage[s].live => stage[s].no \in 1..MaxNo BY GatesAssumption DEF RestTyped, StageTyped, Number
    <3>2. stage[s].live => <<s, stage[s].no>> \in Launch BY <3>1 DEF Launch
    <3> QED BY <1>2, <3>2 DEF StopStage, Abort, FramesOf, RestTyped, LaunchTyped
  <2>5. /\ stage' \in [Stages -> [status : Status, no : Number, live : BOOLEAN]]
        /\ \A t \in Stages : stage'[t].live => stage'[t].no # 0
    <3> DEFINE live == stage[s].live /\ stage[s].status # "ready"
    <3>1. stage' = [stage EXCEPT ![s].status = to, ![s].live = live] BY <1>2 DEF StopStage
    <3>2. live \in BOOLEAN /\ (live => stage[s].live) /\ to \in Status BY DEF Status
    <3> HIDE DEF live
    <3> QED BY <3>1, <3>2 DEF RestTyped, StageTyped
  <2> QED BY <2>2, <2>3, <2>4, <2>5
<1>3. CASE Admit(s)
  <2> DEFINE no == stage[s].no + 1
  <2>1. no \in Number /\ no # 0 /\ <<s, no>> \in Launch
    <3>1. no \in 1..MaxNo /\ <<s, no>> \in Launch BY <1>3 DEF Admit, Launch
    <3> QED BY <3>1, GatesAssumption DEF Number
  <2>2. stage' = [stage EXCEPT ![s].no = no, ![s].live = TRUE] BY <1>3 DEF Admit
  <2>3. timers' \subseteq Stages /\ UNCHANGED <<ops, crashes>> BY <1>3 DEF Admit, RestTyped, StageTyped
  <2>4. queued' = queued \/ queued' = [queued EXCEPT ![s] = no] BY <1>3 DEF Admit
  <2>5. GoesTo(<<s, no>>, "launched") /\ UNCHANGED <<flowVars, dropped, held, stopped>> BY <1>3 DEF Admit
  <2> HIDE DEF no
  <2>6. StageTyped' BY <2>1, <2>2, <2>3 DEF RestTyped, StageTyped
  <2>7. LaunchTyped' BY <2>1, <2>4, <2>5 DEF RestTyped, LaunchTyped, GoesTo, Place
  <2> QED BY <1>1, <2>5, <2>6, <2>7, PermitStands DEF RestTyped
<1>4. CASE Pause(s)
  <2>1. ops' \in 0..MaxOps BY <1>4, GatesAssumption DEF Pause, RestTyped, StageTyped
  <2> QED BY <1>1, <1>2, <1>4, <2>1 DEF Pause, RestTyped, StageTyped, LaunchTyped
<1>5. CASE Resume(s)
  <2>1. StageTyped' BY <1>5 DEF Resume, RestTyped, StageTyped, Status
  <2>2. LaunchTyped' BY <1>5 DEF Resume, RestTyped, LaunchTyped, launchVars
  <2> QED BY <1>1, <1>5, <2>1, <2>2, PermitStands DEF Resume, RestTyped
<1>6. CASE Timeout(s)
  <2>1. CASE StopStage(s, "done") BY <1>1, <1>2, <1>6, <2>1 DEF Timeout, RestTyped, StageTyped, LaunchTyped
  <2>2. CASE timers' = timers \ {s} /\ UNCHANGED <<leaseVars, flowVars, stage, dropped, stopped>>
    BY <1>1, <1>6, <2>2, PermitStands DEF Timeout, RestTyped, StageTyped, LaunchTyped
  <2> QED BY <1>6, <2>1, <2>2 DEF Timeout
<1> QED BY <1>3, <1>4, <1>5, <1>6

LEMMA MapTypes ==
  ASSUME RestTyped, NEW m \in Maps, MapStart(m) \/ MapSteps(m) \/ AskMapMerge(m) \/ MapSettle(m)
  PROVE  RestTyped'
<1>1. UNCHANGED <<flowVars, runVars, launchVars, chat>>
  BY DEF MapSteps, MapStart, AskSnapshot, TakeSnapshot, SnapshotTaken, MapMerge, MapMerged, AskMapMerge,
         MapSettle
<1>2. MapTyped'
  BY DEF MapSteps, MapStart, AskSnapshot, TakeSnapshot, SnapshotTaken, MapMerge, MapMerged, AskMapMerge,
         MapSettle, RestTyped, MapTyped
<1> QED BY <1>1, <1>2, PermitStands
     DEF RestTyped, StageTyped, LaunchTyped, ChatTyped, runVars, launchVars

LEMMA ChatTypes ==
  ASSUME RestTyped, NEW c \in Chats, AskTurn(c) \/ TryTurn(c) \/ ChatSteps(c) \/ GiveUp(c)
  PROVE  RestTyped'
<1>1. UNCHANGED <<runVars, launchVars, mapVars>>
  BY DEF AskTurn, TryTurn, ChatSteps, Turn, GivenUp, TurnEnds, GiveUp
<1>2. ChatTyped'
  BY DEF AskTurn, TryTurn, ChatSteps, Turn, GivenUp, TurnEnds, GiveUp, RestTyped, ChatTyped
<1>3. PermitTyped'
  <2>1. \/ \E keys : WaitFlows(c, keys, TRUE) \/ Untake(c, keys, None)
        \/ WithdrawFlow(c) \/ UNCHANGED permit \/ \E as : PermitSettled(c, as)
    BY DEF AskTurn, TryTurn, TryAcquire, ChatSteps, Turn, GivenUp, TurnEnds, GiveUp
  <2> QED BY <2>1, WaitTyped, UntakeTyped, WithdrawTyped, PermitSettledTyped DEF RestTyped, PermitTyped
<1> QED BY <1>1, <1>2, <1>3
     DEF RestTyped, StageTyped, LaunchTyped, MapTyped, runVars, launchVars, mapVars

LEMMA CrashTypes == ASSUME RestTyped, Crash PROVE RestTyped'
<1>1. StageTyped'
  <2>1. PICK to \in {"ready", "paused"} : stage' = [s \in Stages |-> Lost(s, to)] BY DEF Crash
  <2>2. \A s \in Stages : /\ Lost(s, to) \in [status : Status, no : Number, live : BOOLEAN]
                          /\ Lost(s, to).live => Lost(s, to).no # 0
    BY DEF Lost, RestTyped, StageTyped, Status
  <2>3. crashes' \in 0..MaxCrashes BY GatesAssumption DEF Crash, RestTyped, StageTyped
  <2> QED BY <2>1, <2>2, <2>3 DEF Crash, RestTyped, StageTyped
<1>2. LaunchTyped'
  <2>1. queued' \in [Stages -> Number]
    <3>1. 0 \in Number BY GatesAssumption DEF Number
    <3> QED BY <3>1 DEF Crash, RestTyped, StageTyped
  <2>2. at' \in [Launch -> Place]
    <3>1. \A s \in Stages : Again(s) \in Place BY DEF Again, Place, InFrame
    <3>2. \A l \in Launch : l[1] \in Stages BY DEF Launch
    <3>3. {None, "over"} \subseteq Place BY DEF Place
    <3> QED BY <3>1, <3>2, <3>3 DEF Crash
  <2> QED BY <2>1, <2>2 DEF Crash, LaunchTyped
<1>3. MapTyped' /\ ChatTyped' /\ PermitTyped'
  BY DEF Crash, RestTyped, MapTyped, ChatTyped, PermitTyped, Wait, None
<1> QED BY <1>1, <1>2, <1>3 DEF RestTyped

LEMMA InitTypes == Init => RestTyped
<1> SUFFICES ASSUME Init PROVE RestTyped OBVIOUS
<1>1. 0 \in Number /\ 0 \in 0..MaxOps /\ 0 \in 0..MaxCrashes BY GatesAssumption DEF Number
<1>2. StageTyped BY <1>1 DEF Init, StageTyped, Status
<1>3. LaunchTyped BY <1>1 DEF Init, LaunchTyped, Place
<1>4. MapTyped /\ ChatTyped /\ PermitTyped
  BY DEF Init, FlowsInit, MapTyped, ChatTyped, PermitTyped, Wait
<1> QED BY <1>2, <1>3, <1>4 DEF RestTyped

LEMMA StepTypes == RestTyped /\ [Next]_vars => RestTyped'
<1> SUFFICES ASSUME RestTyped, [Next]_vars PROVE RestTyped' OBVIOUS
<1>1. CASE \E s \in Stages : Admit(s) \/ Pause(s) \/ Resume(s) \/ Timeout(s) BY <1>1, StageTypes
<1>2. CASE \E l \in Launch : LaunchSteps(l) \/ FrameSteps(l) \/ Park(l) \/ Answer(l) \/ AskMerge(l)
  BY <1>2, LaunchTypes
<1>3. CASE \E m \in Maps : MapStart(m) \/ MapSteps(m) \/ AskMapMerge(m) \/ MapSettle(m) BY <1>3, MapTypes
<1>4. CASE \E c \in Chats : AskTurn(c) \/ TryTurn(c) \/ ChatSteps(c) \/ GiveUp(c) BY <1>4, ChatTypes
<1>5. CASE \E new \in Limits : SetLimits(new)
  <2>1. PICK new : SetLimits(new) BY <1>5
  <2>2. PermitTyped' BY <2>1 DEF SetLimits, SetFlowLimits, PumpFlows, RestTyped, PermitTyped, Wait
  <2>3. ops' \in 0..MaxOps BY <2>1, GatesAssumption DEF SetLimits, RestTyped, StageTyped
  <2> QED BY <2>1, <2>2, <2>3
       DEF SetLimits, RestTyped, StageTyped, LaunchTyped, MapTyped, ChatTyped, launchVars, mapVars
<1>6. CASE Crash BY <1>6, CrashTypes
<1>7. CASE UNCHANGED vars
  BY <1>7 DEF vars, flowVars, runVars, launchVars, mapVars, RestTyped, StageTyped, LaunchTyped, MapTyped,
              ChatTyped, PermitTyped
<1> QED BY <1>1, <1>2, <1>3, <1>4, <1>5, <1>6, <1>7 DEF Next

\* Every variable keeps its type.
THEOREM GatesTyped == Spec => []TypeOK
<1>1. Spec => []RestTyped BY InitTypes, StepTypes, PTL DEF Spec
<1>2. GatesInv /\ WorkInv /\ RestTyped => TypeOK
  <2> SUFFICES ASSUME GatesInv, WorkInv, RestTyped PROVE TypeOK OBVIOUS
  <2>1. holders \subseteq Holding /\ queue \in Seq(Waiting)
        /\ lease \in [Request -> {"none", "waiting", "granted", "rejected"}]
    BY DEF GatesInv, LeaseInv, WorkInv, LeaseNamed, Promise
  <2>2. limit \in Limits /\ flowRunning \in [Flow -> Nat] /\ flowWaiters \in Seq(Waiter)
    BY DEF GatesInv, FlowInv
  <2> QED BY <2>1, <2>2
       DEF TypeOK, RestTyped, StageTyped, LaunchTyped, MapTyped, ChatTyped, PermitTyped, Status, Number,
           Place, Wait
<1> QED BY <1>1, <1>2, WorkKept, GatesKept, PTL
-----------------------------------------------------------------------------
(* Whose every lease and every waiting request is.                              *)

Distinct(q) == \A i, j \in DOMAIN q : q[i].id = q[j].id => i = j

\* Each request waits once, as its promise says, for something.
Lined ==
  /\ Distinct(queue)
  /\ \A i \in DOMAIN queue : lease[queue[i].id] = "waiting" /\ queue[i].keys # {}

Runs(m) ==
  \/ map[m] \in {"snapshotting", "running"} \/ snap[m] = "taking"
  \/ snap[m] = "waiting" /\ lease[SnapshotOf(m)] = "granted"

Merging == {"merging", "applying"}

\* Somebody works, or will, under this lease.
Backed(h) ==
  \/ h.mode = "write" /\ \E l \in Launch :
       l[1] = h.owner /\ h.key \in Mounts[l[1]] /\ Writes(l[1]) /\ Past(l)
  \/ h.mode = "shared" /\ \E m \in Maps : m = h.owner /\ h.key \in Mounts[m] /\ Runs(m)
  \/ h.mode = "exclusive" /\ \E m \in Maps : m = h.owner /\ h.key \in Mounts[m] /\ merge[m] # None
  \/ h.mode = "exclusive" /\ \E l \in Launch :
       l[1] = h.owner /\ h.key \in Mounts[l[1]] /\ at[l] \in Merging

Names(w, id, a, mode) == w.id = id /\ w.owner = a /\ w.mode = mode /\ w.keys = Mounts[a]

Asking == {"leasing"} \cup InFrame

\* Somebody asked for this and has not gone on.
Asked(w) ==
  \/ \E l \in Launch : Names(w, WriteOf(l), l[1], "write") /\ Writes(l[1]) /\ at[l] \in Asking
  \/ \E m \in Maps : Names(w, SnapshotOf(m), m, "shared") /\ snap[m] = "waiting"
  \/ \E m \in Maps : Names(w, MergeOf(m), m, "exclusive") /\ merge[m] = "waiting"
  \/ \E l \in Launch : Names(w, MergeOf(l[1]), l[1], "exclusive") /\ at[l] = "merging"

OwedInv ==
  /\ Lined /\ \A w \in InQueue : Asked(w)
  /\ \A h \in holders : Backed(h)
  /\ \A l \in Launch : at[l] = "regaining" => Style[l[1]] = "inherit"

\* A step leaves leases of H and requests of Q, grants only requests of Q, and
\* takes back no promise but those of R.
LeaseStep(H, Q, R) ==
  /\ \A h \in holders' : h \in H \/ \E w \in Q : h \in Taken(w) /\ lease'[w.id] = "granted"
  /\ InQueue' \subseteq Q /\ Lined'
  /\ \A id \in Request \ R : lease[id] = "granted" => lease'[id] = "granted"

LEMMA EntryTyped ==
  ASSUME NEW q \in Seq(Waiting), NEW i \in DOMAIN q PROVE q[i] \in Waiting /\ q[i].id \in Request
<1>1. q[i] \in Waiting OBVIOUS
<1> QED BY <1>1 DEF Waiting

LEMMA DistinctStays ==
  ASSUME NEW W, NEW q \in Seq(W), Distinct(q), NEW S \in SUBSET DOMAIN q PROVE Distinct(At(q, S))
<1> DEFINE r == At(q, S)
<1>1. PICK p \in [DOMAIN r -> S] :
        /\ \A i \in DOMAIN r : r[i] = q[p[i]]
        /\ \A i, j \in DOMAIN r : i < j => p[i] < p[j]
  BY AtKeeps
<1>2. r \in Seq(W) BY AtKeeps
<1> HIDE DEF r
<1> SUFFICES ASSUME NEW i \in DOMAIN r, NEW j \in DOMAIN r, r[i].id = r[j].id PROVE i = j
  BY DEF Distinct, r
<1>3. p[i] = p[j] BY <1>1 DEF Distinct
<1>4. i \in Nat /\ j \in Nat /\ p[i] \in Nat BY <1>1, <1>2
<1> QED BY <1>1, <1>3, <1>4

LEMMA PumpSteps ==
  ASSUME queue \in Seq(Waiting), Lined, NEW H, NEW S \in SUBSET DOMAIN queue, NEW promises,
         \A i \in S : promises[queue[i].id] = "waiting",
         \A id \in Request : lease[id] = "granted" => promises[id] = "granted",
         Pump(H, At(queue, S), promises)
  PROVE  LeaseStep(H, {queue[i] : i \in S}, {})
<1> DEFINE q == At(queue, S)
           Q == {queue[i] : i \in S}
<1>1. q \in Seq(Waiting) /\ \A i \in DOMAIN q : \E n \in S : q[i] = queue[n] BY Remainder
<1>2. Distinct(q) BY DistinctStays DEF Lined
<1>3. PICK G \in SUBSET DOMAIN q :
        /\ holders' = WithTaken(H, q, G) /\ queue' = Except(q, G)
        /\ lease' = [id \in Request |-> IF \E i \in G : q[i].id = id THEN "granted" ELSE promises[id]]
  BY DEF Pump
<1> HIDE DEF q
<1>4. \A i \in DOMAIN q : q[i] \in Q /\ q[i].id \in Request /\ q[i].keys # {} /\ promises[q[i].id] = "waiting"
  BY <1>1, EntryTyped DEF Lined
<1>5. \A h \in holders' : h \in H \/ \E w \in Q : h \in Taken(w) /\ lease'[w.id] = "granted"
  BY <1>3, <1>4 DEF WithTaken
<1> DEFINE T == DOMAIN q \ G
<1>6. T \in SUBSET DOMAIN q /\ queue' = At(q, T) BY <1>3 DEF Except
<1>7. Distinct(queue') BY <1>1, <1>2, <1>6, DistinctStays
<1>8. \A i \in DOMAIN queue' : \E n \in T : queue'[i] = q[n]
  <2> HIDE DEF T
  <2>1. \A i \in DOMAIN At(q, T) : \E n \in T : At(q, T)[i] = q[n] BY <1>1, <1>6, Remainder
  <2> QED BY <1>6, <2>1
<1>9. \A n \in T : lease'[q[n].id] = "waiting" BY <1>2, <1>3, <1>4 DEF Distinct
<1>10. Lined' BY <1>4, <1>7, <1>8, <1>9 DEF Lined
<1>11. InQueue' \subseteq Q
  <2>1. \A n \in T : q[n] \in Q BY <1>4
  <2> HIDE DEF Q, T
  <2>2. \A i \in DOMAIN queue' : queue'[i] \in Q BY <1>8, <2>1
  <2> QED BY <2>2 DEF InQueue
<1>12. \A id \in Request : lease[id] = "granted" => lease'[id] = "granted" BY <1>3
<1> QED BY <1>5, <1>10, <1>11, <1>12 DEF LeaseStep

LEMMA ReleaseSteps ==
  ASSUME queue \in Seq(Waiting), Lined, lease \in [Request -> Promise],
         NEW a, NEW mode, NEW keys, Release(a, mode, keys)
  PROVE  LeaseStep({h \in holders : ~(h.owner = a /\ h.mode = mode /\ h.key \in keys)},
                   {w \in InQueue : ~(w.owner = a /\ w.mode = mode /\ w.keys \cap keys # {})}, {})
<1> DEFINE H == {h \in holders : ~(h.owner = a /\ h.mode = mode /\ h.key \in keys)}
           Out == {w \in InQueue : w.owner = a /\ w.mode = mode /\ w.keys \cap keys # {}}
           S == {i \in DOMAIN queue : queue[i] \notin Out}
           promises == [id \in Request |-> IF \E w \in Out : w.id = id THEN "rejected" ELSE lease[id]]
<1>1. Pump(H, At(queue, S), promises) BY DEF Release, WithdrawFrom
<1>2. S \in SUBSET DOMAIN queue /\ \A w \in Out : \E j \in DOMAIN queue : queue[j] = w BY DEF InQueue
<1>3. \A i \in S : promises[queue[i].id] = "waiting"
  <2>1. \A i \in DOMAIN queue : queue[i].id \in Request BY EntryTyped
  <2>2. \A i \in S : ~\E w \in Out : w.id = queue[i].id BY <1>2 DEF Lined, Distinct
  <2> QED BY <2>1, <2>2 DEF Lined
<1>4. \A id \in Request : lease[id] = "granted" => promises[id] = "granted" BY <1>2 DEF Lined
<1>5. {queue[i] : i \in S} = {w \in InQueue : ~(w.owner = a /\ w.mode = mode /\ w.keys \cap keys # {})}
  BY DEF InQueue
<1> HIDE DEF H, S, promises
<1>6. LeaseStep(H, {queue[i] : i \in S}, {}) BY <1>1, <1>2, <1>3, <1>4, PumpSteps
<1> QED BY <1>5, <1>6 DEF H

LEMMA WithdrawSteps ==
  ASSUME queue \in Seq(Waiting), Lined, lease \in [Request -> Promise], NEW id, Withdraw(id)
  PROVE  LeaseStep(holders, InQueue, {})
<1> DEFINE Out == {w \in InQueue : w.id = id}
           S == {i \in DOMAIN queue : queue[i] \notin Out}
           promises == [r \in Request |-> IF \E w \in Out : w.id = r THEN "rejected" ELSE lease[r]]
<1>1. Pump(holders, At(queue, S), promises) BY DEF Withdraw, WithdrawFrom
<1>2. S \in SUBSET DOMAIN queue /\ \A w \in Out : \E j \in DOMAIN queue : queue[j] = w BY DEF InQueue
<1>3. \A i \in S : promises[queue[i].id] = "waiting"
  <2>1. \A i \in DOMAIN queue : queue[i].id \in Request BY EntryTyped
  <2>2. \A i \in S : ~\E w \in Out : w.id = queue[i].id BY <1>2 DEF Lined, Distinct
  <2> QED BY <2>1, <2>2 DEF Lined
<1>4. \A r \in Request : lease[r] = "granted" => promises[r] = "granted" BY <1>2 DEF Lined
<1>5. {queue[i] : i \in S} \subseteq InQueue BY DEF InQueue
<1> HIDE DEF S, promises
<1>6. LeaseStep(holders, {queue[i] : i \in S}, {}) BY <1>1, <1>2, <1>3, <1>4, PumpSteps
<1> QED BY <1>5, <1>6 DEF LeaseStep

LEMMA AcquireSteps ==
  ASSUME queue \in Seq(Waiting), Lined, lease \in [Request -> Promise], NEW id \in Request,
         NEW a \in Holder, NEW mode \in Mode, NEW keys \in SUBSET Mount, Acquire(id, a, mode, keys)
  PROVE  LeaseStep(holders, InQueue \cup {[id |-> id, owner |-> a, mode |-> mode, keys |-> keys]}, {})
<1> DEFINE w == [id |-> id, owner |-> a, mode |-> mode, keys |-> keys]
           Granted == Grantable(holders, {queue[i] : i \in DOMAIN queue}, w)
<1>1. w \in Waiting /\ w.id = id /\ w.keys = keys BY DEF Waiting
<1>2. /\ lease[id] = "none"
      /\ holders' = IF Granted THEN holders \cup Taken(w) ELSE holders
      /\ queue' = IF Granted THEN queue ELSE Append(queue, w)
      /\ lease' = [lease EXCEPT ![id] = IF Granted THEN "granted" ELSE "waiting"]
  BY DEF Acquire
<1>3. ~Granted => keys # {} BY DEF Grantable, Conflicts, GoesBefore
<1> HIDE DEF w, Granted
<1>4. \A i \in DOMAIN queue : queue[i] \in InQueue /\ queue[i].id # id /\ queue[i].id \in Request
  BY <1>2, EntryTyped DEF InQueue, Lined
<1>5. lease'[id] = (IF Granted THEN "granted" ELSE "waiting") /\ \A r \in Request : r # id => lease'[r] = lease[r]
  BY <1>2
<1>6. CASE Granted
  <2>1. Lined' BY <1>2, <1>4, <1>5, <1>6 DEF Lined, Distinct
  <2> QED BY <1>1, <1>2, <1>4, <1>5, <1>6, <2>1 DEF LeaseStep, InQueue, w
<1>7. CASE ~Granted
  <2>1. queue' = Append(queue, w) /\ holders' = holders BY <1>2, <1>7
  <2>2. \A i \in DOMAIN queue' :
          (queue'[i] = w /\ i = Len(queue) + 1) \/ (i \in DOMAIN queue /\ queue'[i] = queue[i])
    BY <1>1, <2>1
  <2>3. Lined' BY <1>1, <1>3, <1>4, <1>5, <1>7, <2>2 DEF Lined, Distinct
  <2> QED BY <1>1, <1>2, <1>4, <1>5, <1>7, <2>1, <2>2, <2>3 DEF LeaseStep, InQueue, w
<1> QED BY <1>6, <1>7

LEMMA SettledSteps ==
  ASSUME queue \in Seq(Waiting), Lined, lease \in [Request -> Promise],
         NEW id, NEW as, as # "waiting", LeaseSettled(id, as)
  PROVE  LeaseStep(holders, InQueue, {id})
<1>1. holders' = holders /\ queue' = queue /\ \A r \in Request : r # id => lease'[r] = lease[r]
  BY DEF LeaseSettled
<1>2. \A i \in DOMAIN queue : queue[i].id # id /\ queue[i].id \in Request
  BY EntryTyped DEF Lined, LeaseSettled
<1>3. Lined' BY <1>1, <1>2 DEF Lined, Distinct
<1> QED BY <1>1, <1>3 DEF LeaseStep, InQueue

LEMMA NothingSteps ==
  ASSUME Lined, UNCHANGED leaseVars PROVE LeaseStep(holders, InQueue, {})
BY DEF LeaseStep, Lined, Distinct, leaseVars, InQueue

\* What a step leaves of it: leases of H that are still backed, requests of Q
\* that are still asked for.
LEMMA OwedStep ==
  ASSUME NEW H, NEW Q, NEW R, LeaseStep(H, Q, R), \A h \in H : Backed(h)', \A w \in Q : Asked(w)',
         \A l \in Launch : at'[l] = "regaining" => Style[l[1]] = "inherit"
  PROVE  OwedInv'
<1>1. ASSUME NEW w \in Q, lease'[w.id] = "granted", NEW h \in Taken(w) PROVE Backed(h)'
  <2>1. h.key \in w.keys /\ h.owner = w.owner /\ h.mode = w.mode BY DEF Taken
  <2>2. CASE \E l \in Launch : Names(w, WriteOf(l), l[1], "write") /\ Writes(l[1]) /\ at'[l] \in Asking
    <3>1. PICK l \in Launch : Names(w, WriteOf(l), l[1], "write") /\ Writes(l[1]) /\ at'[l] \in Asking BY <2>2
    <3>2. Past(l)' BY <1>1, <3>1 DEF Past, Names, Asking
    <3> QED BY <2>1, <3>1, <3>2 DEF Backed, Names, Writes
  <2>3. CASE \E m \in Maps : Names(w, SnapshotOf(m), m, "shared") /\ snap'[m] = "waiting"
    BY <1>1, <2>1, <2>3 DEF Backed, Names, Runs
  <2>4. CASE \E m \in Maps : Names(w, MergeOf(m), m, "exclusive") /\ merge'[m] = "waiting"
    BY <2>1, <2>4 DEF Backed, Names, None
  <2>5. CASE \E l \in Launch : Names(w, MergeOf(l[1]), l[1], "exclusive") /\ at'[l] = "merging"
    BY <2>1, <2>5 DEF Backed, Names, Merging
  <2> QED BY <2>2, <2>3, <2>4, <2>5 DEF Asked, Writes, Names
<1>2. \A h \in holders' : Backed(h)' BY <1>1 DEF LeaseStep
<1> QED BY <1>2 DEF LeaseStep, OwedInv

\* A step of one launch.
LEMMA BackedStays ==
  ASSUME NEW h, Backed(h), NEW l, \A k \in Launch : k # l => at'[k] = at[k], UNCHANGED mapVars,
         NEW R, R \subseteq {WriteOf(l), MergeOf(l[1])},
         \A id \in Request \ R : lease[id] = "granted" => lease'[id] = "granted",
         l \in Launch /\ h.mode = "write" /\ h.owner = l[1] /\ h.key \in Mounts[l[1]] /\ Writes(l[1]) /\ Past(l)
           => Past(l)',
         l \in Launch /\ h.mode = "exclusive" /\ h.owner = l[1] /\ h.key \in Mounts[l[1]] /\ at[l] \in Merging
           => at'[l] \in Merging
  PROVE  Backed(h)'
<1>1. CASE h.mode = "write"
  <2>1. PICK k \in Launch : k[1] = h.owner /\ h.key \in Mounts[k[1]] /\ Writes(k[1]) /\ Past(k)
    BY <1>1 DEF Backed
  <2>2. Past(k)'
    <3>1. CASE k = l BY <2>1, <3>1, <1>1
    <3>2. CASE k # l
      <4>1. WriteOf(k) \notin R /\ WriteOf(k) \in Request BY <3>2, Named DEF WriteOf, MergeOf
      <4> QED BY <2>1, <3>2, <4>1 DEF Past
    <3> QED BY <3>1, <3>2
  <2> QED BY <1>1, <2>1, <2>2 DEF Backed, Writes
<1>2. CASE h.mode = "shared"
  <2>1. PICK m \in Maps : m = h.owner /\ h.key \in Mounts[m] /\ Runs(m) BY <1>2 DEF Backed
  <2>2. SnapshotOf(m) \notin R /\ SnapshotOf(m) \in Request BY Named DEF SnapshotOf, WriteOf, MergeOf
  <2>3. Runs(m)' BY <2>1, <2>2 DEF Runs, mapVars
  <2> QED BY <1>2, <2>1, <2>3 DEF Backed
<1>3. CASE h.mode = "exclusive"
  <2>1. CASE \E m \in Maps : m = h.owner /\ h.key \in Mounts[m] /\ merge[m] # None
    BY <1>3, <2>1 DEF Backed, mapVars
  <2>2. CASE \E k \in Launch : k[1] = h.owner /\ h.key \in Mounts[k[1]] /\ at[k] \in Merging
    BY <1>3, <2>2 DEF Backed
  <2> QED BY <1>3, <2>1, <2>2 DEF Backed
<1> QED BY <1>1, <1>2, <1>3 DEF Backed

LEMMA AskedStays ==
  ASSUME NEW w, Asked(w), NEW l, \A k \in Launch : k # l => at'[k] = at[k], UNCHANGED mapVars,
         l \in Launch /\ Names(w, WriteOf(l), l[1], "write") /\ Writes(l[1]) /\ at[l] \in Asking
           => at'[l] \in Asking,
         l \in Launch /\ Names(w, MergeOf(l[1]), l[1], "exclusive") /\ at[l] = "merging" => at'[l] = "merging"
  PROVE  Asked(w)'
<1>1. CASE \E k \in Launch : Names(w, WriteOf(k), k[1], "write") /\ Writes(k[1]) /\ at[k] \in Asking
  <2>1. \E k \in Launch : Names(w, WriteOf(k), k[1], "write") /\ Writes(k[1]) /\ at'[k] \in Asking BY <1>1
  <2> QED BY <2>1 DEF Asked, Writes, Names
<1>2. CASE \E k \in Launch : Names(w, MergeOf(k[1]), k[1], "exclusive") /\ at[k] = "merging"
  <2>1. \E k \in Launch : Names(w, MergeOf(k[1]), k[1], "exclusive") /\ at'[k] = "merging" BY <1>2
  <2> QED BY <2>1 DEF Asked, Names
<1>3. CASE \E m \in Maps : Names(w, SnapshotOf(m), m, "shared") /\ snap[m] = "waiting"
  BY <1>3 DEF Asked, mapVars, Names
<1>4. CASE \E m \in Maps : Names(w, MergeOf(m), m, "exclusive") /\ merge[m] = "waiting"
  BY <1>4 DEF Asked, mapVars, Names
<1> QED BY <1>1, <1>2, <1>3, <1>4 DEF Asked

LEMMA FrameOwes ==
  ASSUME GatesInv, WorkInv, OwedInv, NEW l \in Launch,
         LaunchSteps(l) \/ FrameSteps(l) \/ Park(l) \/ Answer(l) \/ AskMerge(l)
  PROVE  OwedInv'
<1>0. /\ queue \in Seq(Waiting) /\ Lined /\ lease \in [Request -> Promise] /\ l[1] \in Stages
      /\ WriteOf(l) \in Request /\ MergeOf(l[1]) \in Request /\ l[1] \in Holder
      /\ {"write", "exclusive"} \subseteq Mode /\ Mounts[l[1]] \in SUBSET Mount
  BY Named DEF WorkInv, LeaseNamed, GatesInv, LeaseInv, OwedInv, Mode
<1>1. /\ UNCHANGED mapVars /\ \A k \in Launch : k # l => at'[k] = at[k]
      /\ at'[l] # "regaining"
  <2>1. UNCHANGED mapVars
    BY DEF LaunchSteps, FrameSteps, AskLease, HasLease, LeaseRefused, StartChild, Reacquire, AskPermit,
           Claim, NotClaimed, Resumed, Merge, Merged, End, Park, Answer, AskMerge
  <2>2. \E where : where # "regaining" /\ GoesTo(l, where)
    BY DEF LaunchSteps, FrameSteps, AskLease, HasLease, LeaseRefused, StartChild, Reacquire, AskPermit,
           Claim, NotClaimed, GivesBack, Resumed, Merge, Merged, End, Park, Answer, AskMerge
  <2> QED BY <2>1, <2>2 DEF GoesTo, WorkInv, WorkType
<1>2. \A k \in Launch : at'[k] = "regaining" => Style[k[1]] = "inherit" BY <1>1 DEF OwedInv
<1>3. \A w \in InQueue : lease[w.id] = "waiting" /\ w.keys # {} BY DEF InQueue, OwedInv, Lined
\* What has to be shown of the one launch.
<1>4. ASSUME NEW H, NEW Q, NEW R \in SUBSET {WriteOf(l), MergeOf(l[1])}, LeaseStep(H, Q, R),
             H \subseteq holders,
             Past(l) => Past(l)' \/ ~\E h \in H : h.mode = "write" /\ h.owner = l[1] /\ Writes(l[1])
                                                   /\ h.key \in Mounts[l[1]],
             at[l] \in Merging => at'[l] \in Merging
                \/ ~\E h \in H : h.mode = "exclusive" /\ h.owner = l[1] /\ h.key \in Mounts[l[1]],
             \A w \in Q : \/ Asked(w)'
                          \/ /\ w \in InQueue
                             /\ Names(w, WriteOf(l), l[1], "write") /\ Writes(l[1]) /\ at[l] \in Asking
                                  => at'[l] \in Asking
                             /\ Names(w, MergeOf(l[1]), l[1], "exclusive") /\ at[l] = "merging"
                                  => at'[l] = "merging"
      PROVE  OwedInv'
  <2>1. \A h \in H : Backed(h)'
    <3> SUFFICES ASSUME NEW h \in H PROVE Backed(h)' OBVIOUS
    <3>1. Backed(h) BY <1>4 DEF OwedInv
    <3>2. \A id \in Request \ R : lease[id] = "granted" => lease'[id] = "granted" BY <1>4 DEF LeaseStep
    <3> QED BY <1>1, <1>4, <3>1, <3>2, BackedStays
  <2>2. \A w \in Q : Asked(w)'
    <3> SUFFICES ASSUME NEW w \in Q, ~Asked(w)' PROVE FALSE OBVIOUS
    <3>1. Asked(w) BY <1>4 DEF OwedInv
    <3> QED BY <1>1, <1>4, <3>1, AskedStays
  <2> QED BY <1>2, <1>4, <2>1, <2>2, OwedStep
\* Nothing is asked for or given back.
<1>5. ASSUME UNCHANGED leaseVars, Past(l) => Past(l)', at[l] \notin Merging,
             at[l] \in Asking => at'[l] \in Asking
      PROVE  OwedInv'
  <2>1. LeaseStep(holders, InQueue, {}) BY <1>0, <1>5, NothingSteps
  <2> QED BY <1>4, <1>5, <2>1 DEF Merging
<1>6. CASE AskLease(l)
  <2>1. at[l] = "launched" /\ ~Past(l) /\ at[l] \notin Asking /\ at[l] \notin Merging
    BY <1>6 DEF AskLease, Past, Asking, InFrame, Merging
  <2>2. CASE UNCHANGED leaseVars BY <1>5, <2>1, <2>2
  <2>3. CASE Acquire(WriteOf(l), l[1], "write", Mounts[l[1]]) /\ Writes(l[1]) /\ GoesTo(l, "leasing")
    <3> DEFINE w == [id |-> WriteOf(l), owner |-> l[1], mode |-> "write", keys |-> Mounts[l[1]]]
    <3>1. LeaseStep(holders, InQueue \cup {w}, {}) BY <1>0, <2>3, AcquireSteps
    <3>2. Names(w, WriteOf(l), l[1], "write") BY DEF Names
    <3> HIDE DEF w
    <3>3. at'[l] = "leasing" BY <2>3 DEF GoesTo, WorkInv, WorkType
    <3>4. Asked(w)' BY <2>3, <3>2, <3>3 DEF Asked, Asking, Names, Writes
    <3> QED BY <1>4, <2>1, <3>1, <3>4 DEF Merging
  <2> QED BY <1>6, <2>2, <2>3 DEF AskLease
<1>7. CASE HasLease(l) \/ LeaseRefused(l)
  <2>1. PICK as \in {"granted", "rejected"} :
          /\ LeaseSettled(WriteOf(l), as) /\ (as = "rejected" => ~Past(l)) /\ (as = "granted" => Past(l)')
    <3>1. CASE HasLease(l)
      <4>1. at'[l] = "admitting" BY <3>1 DEF HasLease, GoesTo, WorkInv, WorkType
      <4> QED BY <3>1, <4>1 DEF HasLease, Past
    <3>2. CASE LeaseRefused(l) BY <3>2 DEF LeaseRefused, LeaseSettled, Past, InFrame
    <3> QED BY <1>7, <3>1, <3>2
  <2>2. LeaseStep(holders, InQueue, {WriteOf(l)}) BY <1>0, <2>1, SettledSteps
  <2>3. \A w \in InQueue : ~Names(w, WriteOf(l), l[1], "write")
    BY <1>3, <2>1 DEF Names, LeaseSettled
  <2>4. at[l] = "leasing" BY <1>7 DEF HasLease, LeaseRefused
  <2> QED BY <1>4, <2>1, <2>2, <2>3, <2>4 DEF Merging
<1>8. CASE StartChild(l) \/ AskPermit(l) \/ Claim(l)
  <2>1. Past(l)'
    <3>1. at'[l] \in {"working", "queued"} BY <1>8 DEF StartChild, AskPermit, Claim, GoesTo, WorkInv, WorkType
    <3> QED BY <3>1 DEF Past, InFrame
  <2>2. at[l] \notin Asking /\ at[l] \notin Merging
    BY <1>8 DEF StartChild, AskPermit, Claim, Asking, InFrame, Merging
  <2> QED BY <1>5, <1>8, <2>1, <2>2 DEF StartChild, AskPermit, Claim
<1>9. CASE Reacquire(l)
  <2> DEFINE w == [id |-> WriteOf(l), owner |-> l[1], mode |-> "write", keys |-> Mounts[l[1]]]
  <2>1. LeaseStep(holders, InQueue \cup {w}, {}) BY <1>0, <1>9, AcquireSteps DEF Reacquire
  <2>2. Names(w, WriteOf(l), l[1], "write") BY DEF Names
  <2> HIDE DEF w
  <2>3. at'[l] = "working" BY <1>9 DEF Reacquire, GoesTo, WorkInv, WorkType
  <2>4. Writes(l[1]) /\ at[l] = "regaining" BY <1>9 DEF Reacquire, OwedInv, Writes
  <2>5. Asked(w)' BY <2>2, <2>3, <2>4 DEF Asked, Asking, InFrame, Names, Writes
  <2>6. Past(l)' /\ at'[l] \in Asking BY <2>3 DEF Past, Asking, InFrame
  <2> QED BY <1>4, <2>1, <2>4, <2>5, <2>6 DEF Merging
<1>10. ASSUME NEW keys, GivesBack(l, keys), at[l] \notin Merging PROVE OwedInv'
  <2>1. at'[l] = "over" BY <1>10 DEF GivesBack, GoesTo, WorkInv, WorkType
  <2>2. CASE ~Writes(l[1])
    <3>1. LeaseStep(holders, InQueue, {}) BY <1>0, <1>10, <2>2, NothingSteps DEF GivesBack
    <3> QED BY <1>4, <1>10, <2>2, <3>1 DEF Merging
  <2>3. CASE Writes(l[1])
    <3> DEFINE H == {h \in holders : ~(h.owner = l[1] /\ h.mode = "write" /\ h.key \in Mounts[l[1]])}
               Q == {w \in InQueue : ~(w.owner = l[1] /\ w.mode = "write" /\ w.keys \cap Mounts[l[1]] # {})}
    <3>1. LeaseStep(H, Q, {}) BY <1>0, <1>10, <2>3, ReleaseSteps DEF GivesBack
    <3>2. \A w \in Q : w \in InQueue /\ ~Names(w, WriteOf(l), l[1], "write") BY <1>3 DEF Names
    <3>3. /\ H \subseteq holders
          /\ ~\E h \in H : h.mode = "write" /\ h.owner = l[1] /\ Writes(l[1]) /\ h.key \in Mounts[l[1]]
      OBVIOUS
    <3> HIDE DEF H, Q
    <3> QED BY <1>4, <1>10, <3>1, <3>2, <3>3 DEF Merging
  <2> QED BY <2>2, <2>3
<1>11. CASE NotClaimed(l)
  <2>1. at[l] \notin Merging BY <1>11 DEF NotClaimed, Merging
  <2> QED BY <1>10, <1>11, <2>1 DEF NotClaimed
<1>12. CASE End(l)
  <2>1. at[l] \notin Merging BY <1>12 DEF End, Ends, Merging
  <2> QED BY <1>10, <1>12, <2>1 DEF End
<1>13. CASE Resumed(l) \/ Park(l) \/ Answer(l)
  <2>1. at'[l] \in {"working", "parked", "resuming"}
    BY <1>13 DEF Resumed, Park, Answer, GoesTo, WorkInv, WorkType
  <2>2. Past(l)' /\ at'[l] \in Asking BY <2>1 DEF Past, Asking, InFrame
  <2>3. at[l] \notin Merging /\ UNCHANGED leaseVars BY <1>13 DEF Resumed, Park, Answer, Merging
  <2> QED BY <1>5, <2>2, <2>3
<1>14. CASE AskMerge(l)
  <2> DEFINE w == [id |-> MergeOf(l[1]), owner |-> l[1], mode |-> "exclusive", keys |-> Mounts[l[1]]]
  <2>1. LeaseStep(holders, InQueue \cup {w}, {}) BY <1>0, <1>14, AcquireSteps DEF AskMerge
  <2>2. Names(w, MergeOf(l[1]), l[1], "exclusive") BY DEF Names
  <2> HIDE DEF w
  <2>3. at'[l] = "merging" /\ at[l] = "working" BY <1>14 DEF AskMerge, GoesTo, WorkInv, WorkType
  <2>4. Asked(w)' BY <2>2, <2>3 DEF Asked, Names
  <2>5. Past(l)' /\ at'[l] \in Asking BY <2>3 DEF Past, Asking, InFrame
  <2> QED BY <1>4, <2>1, <2>3, <2>4, <2>5 DEF Merging
<1>15. CASE Merge(l)
  <2>1. LeaseStep(holders, InQueue, {MergeOf(l[1])}) BY <1>0, <1>15, SettledSteps DEF Merge
  <2>2. at'[l] = "applying" BY <1>15 DEF Merge, GoesTo, WorkInv, WorkType
  <2>3. \A w \in InQueue : ~Names(w, MergeOf(l[1]), l[1], "exclusive")
    BY <1>3, <1>15 DEF Merge, Names, LeaseSettled
  <2>4. Past(l)' /\ at'[l] \in Asking /\ at'[l] \in Merging BY <2>2 DEF Past, Asking, InFrame, Merging
  <2> QED BY <1>4, <2>1, <2>3, <2>4
<1>16. CASE Merged(l)
  <2> DEFINE H == {h \in holders : ~(h.owner = l[1] /\ h.mode = "exclusive" /\ h.key \in Mounts[l[1]])}
             Q == {w \in InQueue : ~(w.owner = l[1] /\ w.mode = "exclusive" /\ w.keys \cap Mounts[l[1]] # {})}
  <2>1. LeaseStep(H, Q, {}) BY <1>0, <1>16, ReleaseSteps DEF Merged
  <2>2. /\ Q \subseteq InQueue /\ H \subseteq holders
        /\ ~\E h \in H : h.mode = "exclusive" /\ h.owner = l[1] /\ h.key \in Mounts[l[1]]
    OBVIOUS
  <2> HIDE DEF H, Q
  <2>3. at[l] = "applying" /\ at'[l] \in {"merged", "working"} BY <1>16 DEF Merged, GoesTo, WorkInv, WorkType
  <2>4. Past(l)' /\ at'[l] \in Asking BY <2>3 DEF Past, Asking, InFrame
  <2> QED BY <1>4, <2>1, <2>2, <2>3, <2>4
<1> QED BY <1>6, <1>7, <1>8, <1>9, <1>11, <1>12, <1>13, <1>14, <1>15, <1>16 DEF LaunchSteps, FrameSteps

LEMMA StageOwes ==
  ASSUME GatesInv, WorkInv, OwedInv, NEW s \in Stages, Admit(s) \/ Pause(s) \/ Resume(s) \/ Timeout(s)
  PROVE  OwedInv'
<1>0. /\ queue \in Seq(Waiting) /\ Lined /\ lease \in [Request -> Promise]
  BY DEF WorkInv, LeaseNamed, GatesInv, LeaseInv, OwedInv
<1>1. LeaseStep(holders, InQueue, {})
  <2>1. UNCHANGED leaseVars \/ \E id : Withdraw(id)
    BY DEF Admit, Pause, Resume, Timeout, StopStage, Abort
  <2> QED BY <1>0, <2>1, NothingSteps, WithdrawSteps
<1>2. UNCHANGED mapVars BY DEF Admit, Pause, Resume, Timeout
<1>3. \A id \in Request : lease[id] = "granted" => lease'[id] = "granted" BY <1>1 DEF LeaseStep
<1>4. ASSUME NEW l, \A k \in Launch : k # l => at'[k] = at[k],
             l \in Launch => at[l] = None /\ at'[l] # "regaining"
      PROVE  OwedInv'
  <2>1. l \in Launch => ~Past(l) /\ at[l] \notin Merging /\ at[l] \notin Asking
    BY <1>4 DEF Past, Merging, Asking, InFrame, None
  <2>2. \A h \in holders : Backed(h)' BY <1>2, <1>3, <1>4, <2>1, BackedStays DEF OwedInv
  <2>3. \A w \in InQueue : Asked(w)' BY <1>2, <1>4, <2>1, AskedStays DEF OwedInv, Merging
  <2>4. \A k \in Launch : at'[k] = "regaining" => Style[k[1]] = "inherit" BY <1>4 DEF OwedInv
  <2> QED BY <1>1, <2>2, <2>3, <2>4, OwedStep
<1>5. CASE Admit(s)
  <2> DEFINE l == <<s, stage[s].no + 1>>
  <2>1. l \in Launch /\ GoesTo(l, "launched") /\ l[1] = s /\ l[2] = stage[s].no + 1 BY <1>5 DEF Admit
  <2>2. at[l] = None
    <3>1. stage[s].no \in Nat BY DEF WorkInv, WorkType
    <3> QED BY <2>1, <3>1 DEF WorkInv, Unborn
  <2> HIDE DEF l
  <2>3. at'[l] = "launched" /\ \A k \in Launch : k # l => at'[k] = at[k]
    BY <2>1 DEF GoesTo, WorkInv, WorkType
  <2> QED BY <1>4, <2>2, <2>3
<1>6. CASE Pause(s) \/ Resume(s) \/ Timeout(s)
  <2>1. UNCHANGED at BY <1>6 DEF Pause, Resume, Timeout, launchVars
  <2>2. <<>> \notin Launch BY DEF Launch
  <2> QED BY <1>4, <2>1, <2>2
<1> QED BY <1>5, <1>6

\* A step of one map.
LEMMA BackedByMaps ==
  ASSUME NEW h, Backed(h), NEW m \in Maps, UNCHANGED at,
         \A k \in Maps : k # m => map'[k] = map[k] /\ snap'[k] = snap[k] /\ merge'[k] = merge[k],
         NEW R, R \subseteq {SnapshotOf(m), MergeOf(m)},
         \A id \in Request \ R : lease[id] = "granted" => lease'[id] = "granted",
         h.mode = "shared" /\ h.owner = m /\ h.key \in Mounts[m] /\ Runs(m) => Runs(m)',
         h.mode = "exclusive" /\ h.owner = m /\ h.key \in Mounts[m] /\ merge[m] # None => merge'[m] # None
  PROVE  Backed(h)'
<1>1. CASE h.mode = "write"
  <2>1. PICK k \in Launch : k[1] = h.owner /\ h.key \in Mounts[k[1]] /\ Writes(k[1]) /\ Past(k)
    BY <1>1 DEF Backed
  <2>2. WriteOf(k) \notin R /\ WriteOf(k) \in Request BY Named DEF WriteOf, MergeOf, SnapshotOf
  <2>3. Past(k)' BY <2>1, <2>2 DEF Past
  <2> QED BY <1>1, <2>1, <2>3 DEF Backed, Writes
<1>2. CASE h.mode = "shared"
  <2>1. PICK k \in Maps : k = h.owner /\ h.key \in Mounts[k] /\ Runs(k) BY <1>2 DEF Backed
  <2>2. Runs(k)'
    <3>1. CASE k = m BY <1>2, <2>1, <3>1
    <3>2. CASE k # m
      <4>1. SnapshotOf(k) \notin R /\ SnapshotOf(k) \in Request BY <3>2, Named DEF SnapshotOf, MergeOf
      <4> QED BY <2>1, <3>2, <4>1 DEF Runs
    <3> QED BY <3>1, <3>2
  <2> QED BY <1>2, <2>1, <2>2 DEF Backed
<1>3. CASE h.mode = "exclusive"
  <2>1. CASE \E k \in Maps : k = h.owner /\ h.key \in Mounts[k] /\ merge[k] # None
    BY <1>3, <2>1 DEF Backed
  <2>2. CASE \E l \in Launch : l[1] = h.owner /\ h.key \in Mounts[l[1]] /\ at[l] \in Merging
    BY <1>3, <2>2 DEF Backed
  <2> QED BY <1>3, <2>1, <2>2 DEF Backed
<1> QED BY <1>1, <1>2, <1>3 DEF Backed

LEMMA AskedByMaps ==
  ASSUME NEW w, Asked(w), NEW m \in Maps, UNCHANGED at,
         \A k \in Maps : k # m => map'[k] = map[k] /\ snap'[k] = snap[k] /\ merge'[k] = merge[k],
         Names(w, SnapshotOf(m), m, "shared") /\ snap[m] = "waiting" => snap'[m] = "waiting",
         Names(w, MergeOf(m), m, "exclusive") /\ merge[m] = "waiting" => merge'[m] = "waiting"
  PROVE  Asked(w)'
<1>1. CASE \E l \in Launch : Names(w, WriteOf(l), l[1], "write") /\ Writes(l[1]) /\ at[l] \in Asking
  BY <1>1 DEF Asked, Writes, Names
<1>2. CASE \E l \in Launch : Names(w, MergeOf(l[1]), l[1], "exclusive") /\ at[l] = "merging"
  BY <1>2 DEF Asked, Names
<1>3. CASE \E k \in Maps : Names(w, SnapshotOf(k), k, "shared") /\ snap[k] = "waiting"
  <2>1. \E k \in Maps : Names(w, SnapshotOf(k), k, "shared") /\ snap'[k] = "waiting" BY <1>3
  <2> QED BY <2>1 DEF Asked, Names
<1>4. CASE \E k \in Maps : Names(w, MergeOf(k), k, "exclusive") /\ merge[k] = "waiting"
  <2>1. \E k \in Maps : Names(w, MergeOf(k), k, "exclusive") /\ merge'[k] = "waiting" BY <1>4
  <2> QED BY <2>1 DEF Asked, Names
<1> QED BY <1>1, <1>2, <1>3, <1>4 DEF Asked

\* A map that was not started has no snapshot under way.
Fresh == \A m \in Maps : map[m] = "pending" => snap[m] = None

LEMMA MapOwes ==
  ASSUME GatesInv, WorkInv, OwedInv, RestTyped, Fresh, NEW m \in Maps,
         MapStart(m) \/ MapSteps(m) \/ AskMapMerge(m) \/ MapSettle(m)
  PROVE  OwedInv'
<1>0. /\ queue \in Seq(Waiting) /\ Lined /\ lease \in [Request -> Promise]
      /\ m \in Holder /\ {"shared", "exclusive"} \subseteq Mode /\ Mounts[m] \in SUBSET Mount
      /\ SnapshotOf(m) \in Request /\ MergeOf(m) \in Request
  BY Named DEF WorkInv, LeaseNamed, GatesInv, LeaseInv, OwedInv, Mode
<1>1. /\ UNCHANGED at /\ DOMAIN map = Maps /\ DOMAIN snap = Maps /\ DOMAIN merge = Maps
      /\ \A k \in Maps : k # m => map'[k] = map[k] /\ snap'[k] = snap[k] /\ merge'[k] = merge[k]
  <2>1. DOMAIN map = Maps /\ DOMAIN snap = Maps /\ DOMAIN merge = Maps BY DEF RestTyped, MapTyped
  <2>2. \E p : map' = [map EXCEPT ![m] = p] \/ map' = map
    BY DEF MapStart, MapSteps, AskSnapshot, TakeSnapshot, SnapshotTaken, MapMerge, MapMerged, AskMapMerge,
           MapSettle
  <2>3. \E p : snap' = [snap EXCEPT ![m] = p] \/ snap' = snap
    BY DEF MapStart, MapSteps, AskSnapshot, TakeSnapshot, SnapshotTaken, MapMerge, MapMerged, AskMapMerge,
           MapSettle
  <2>4. \E p : merge' = [merge EXCEPT ![m] = p] \/ merge' = merge
    BY DEF MapStart, MapSteps, AskSnapshot, TakeSnapshot, SnapshotTaken, MapMerge, MapMerged, AskMapMerge,
           MapSettle
  <2>5. UNCHANGED at
    BY DEF MapStart, MapSteps, AskSnapshot, TakeSnapshot, SnapshotTaken, MapMerge, MapMerged, AskMapMerge,
           MapSettle, launchVars
  <2> QED BY <2>1, <2>2, <2>3, <2>4, <2>5
<1>2. \A k \in Launch : at'[k] = "regaining" => Style[k[1]] = "inherit" BY <1>1 DEF OwedInv
<1>3. \A w \in InQueue : lease[w.id] = "waiting" BY DEF InQueue, OwedInv, Lined
\* What has to be shown of the one map.
<1>4. ASSUME NEW H, NEW Q, NEW R \in SUBSET {SnapshotOf(m), MergeOf(m)}, LeaseStep(H, Q, R),
             H \subseteq holders,
             Runs(m) => Runs(m)' \/ ~\E h \in H : h.mode = "shared" /\ h.owner = m /\ h.key \in Mounts[m],
             merge[m] # None => merge'[m] # None
                \/ ~\E h \in H : h.mode = "exclusive" /\ h.owner = m /\ h.key \in Mounts[m],
             \A w \in Q : \/ Asked(w)'
                          \/ /\ w \in InQueue
                             /\ Names(w, SnapshotOf(m), m, "shared") /\ snap[m] = "waiting"
                                  => snap'[m] = "waiting"
                             /\ Names(w, MergeOf(m), m, "exclusive") /\ merge[m] = "waiting"
                                  => merge'[m] = "waiting"
      PROVE  OwedInv'
  <2>1. \A h \in H : Backed(h)'
    <3> SUFFICES ASSUME NEW h \in H PROVE Backed(h)' OBVIOUS
    <3>1. Backed(h) BY <1>4 DEF OwedInv
    <3>2. \A id \in Request \ R : lease[id] = "granted" => lease'[id] = "granted" BY <1>4 DEF LeaseStep
    <3> QED BY <1>1, <1>4, <3>1, <3>2, BackedByMaps
  <2>2. \A w \in Q : Asked(w)'
    <3> SUFFICES ASSUME NEW w \in Q, ~Asked(w)' PROVE FALSE OBVIOUS
    <3>1. Asked(w) BY <1>4 DEF OwedInv
    <3> QED BY <1>1, <1>4, <3>1, AskedByMaps
  <2> QED BY <1>2, <1>4, <2>1, <2>2, OwedStep
<1> DEFINE HeldElse(mode) == {h \in holders : ~(h.owner = m /\ h.mode = mode /\ h.key \in Mounts[m])}
           AskedElse(mode) == {w \in InQueue : ~(w.owner = m /\ w.mode = mode /\ w.keys \cap Mounts[m] # {})}
<1>5. CASE MapStart(m)
  <2>1. LeaseStep(holders, InQueue, {}) BY <1>0, <1>5, NothingSteps DEF MapStart
  <2>2. Runs(m)' BY <1>1, <1>5 DEF MapStart, Runs
  <2>3. snap[m] # "waiting" BY <1>5 DEF MapStart, Fresh, None
  <2> QED BY <1>4, <1>5, <2>1, <2>2, <2>3 DEF MapStart
<1>6. CASE AskSnapshot(m)
  <2> DEFINE w == [id |-> SnapshotOf(m), owner |-> m, mode |-> "shared", keys |-> Mounts[m]]
  <2>1. LeaseStep(holders, InQueue \cup {w}, {}) BY <1>0, <1>6, AcquireSteps DEF AskSnapshot
  <2>2. Names(w, SnapshotOf(m), m, "shared") BY DEF Names
  <2> HIDE DEF w
  <2>3. snap'[m] = "waiting" /\ snap[m] = "asked" /\ map' = map /\ merge' = merge
    BY <1>1, <1>6 DEF AskSnapshot
  <2>4. Asked(w)' BY <2>2, <2>3 DEF Asked, Names
  <2>5. Runs(m) => Runs(m)' BY <2>3 DEF Runs
  <2> QED BY <1>4, <2>1, <2>3, <2>4, <2>5
<1>7. CASE TakeSnapshot(m)
  <2>1. PICK as \in {"granted", "rejected"} :
          LeaseSettled(SnapshotOf(m), as) /\ (as = "granted" => snap'[m] = "taking")
    BY <1>1, <1>7 DEF TakeSnapshot
  <2>2. LeaseStep(holders, InQueue, {SnapshotOf(m)}) BY <1>0, <2>1, SettledSteps
  <2>3. \A w \in InQueue : ~Names(w, SnapshotOf(m), m, "shared") BY <1>3, <2>1 DEF Names, LeaseSettled
  <2>4. Runs(m) => Runs(m)' BY <1>7, <2>1 DEF TakeSnapshot, Runs, LeaseSettled
  <2> QED BY <1>4, <1>7, <2>2, <2>3, <2>4 DEF TakeSnapshot
<1>8. ASSUME Release(m, "shared", Mounts[m]), UNCHANGED merge,
             snap[m] = "waiting" => snap'[m] = "waiting"
      PROVE  OwedInv'
  <2>1. LeaseStep(HeldElse("shared"), AskedElse("shared"), {}) BY <1>0, <1>8, ReleaseSteps
  <2>2. /\ AskedElse("shared") \subseteq InQueue /\ HeldElse("shared") \subseteq holders
        /\ ~\E h \in HeldElse("shared") : h.mode = "shared" /\ h.owner = m /\ h.key \in Mounts[m]
    OBVIOUS
  <2> HIDE DEF HeldElse, AskedElse
  <2> QED BY <1>4, <1>8, <2>1, <2>2
<1>9. CASE SnapshotTaken(m)
  <2>1. snap[m] = "taking" /\ UNCHANGED merge BY <1>9 DEF SnapshotTaken
  <2>2. CASE map'[m] = "running" /\ UNCHANGED leaseVars
    <3>1. LeaseStep(holders, InQueue, {}) BY <1>0, <2>2, NothingSteps
    <3>2. Runs(m)' BY <2>2 DEF Runs
    <3> QED BY <1>4, <2>1, <3>1, <3>2
  <2>3. CASE Release(m, "shared", Mounts[m]) BY <1>8, <2>1, <2>3
  <2> QED BY <1>1, <1>9, <2>2, <2>3 DEF SnapshotTaken
<1>10. CASE MapSettle(m) BY <1>8, <1>10 DEF MapSettle
<1>11. CASE AskMapMerge(m)
  <2> DEFINE w == [id |-> MergeOf(m), owner |-> m, mode |-> "exclusive", keys |-> Mounts[m]]
  <2>1. LeaseStep(holders, InQueue \cup {w}, {}) BY <1>0, <1>11, AcquireSteps DEF AskMapMerge
  <2>2. Names(w, MergeOf(m), m, "exclusive") BY DEF Names
  <2> HIDE DEF w
  <2>3. merge'[m] = "waiting" /\ map' = map /\ snap' = snap BY <1>1, <1>11 DEF AskMapMerge
  <2>4. Asked(w)' BY <2>2, <2>3 DEF Asked, Names
  <2>5. Runs(m) => Runs(m)' BY <2>1, <2>3, <1>0 DEF Runs, LeaseStep
  <2> QED BY <1>4, <2>1, <2>3, <2>4, <2>5 DEF None
<1>12. CASE MapMerge(m)
  <2>1. LeaseStep(holders, InQueue, {MergeOf(m)}) BY <1>0, <1>12, SettledSteps DEF MapMerge
  <2>2. merge'[m] = "applying" /\ map' = map /\ snap' = snap BY <1>1, <1>12 DEF MapMerge
  <2>3. \A w \in InQueue : ~Names(w, MergeOf(m), m, "exclusive")
    BY <1>3, <1>12 DEF MapMerge, Names, LeaseSettled
  <2>4. SnapshotOf(m) # MergeOf(m) BY NamesDiffer
  <2>5. Runs(m) => Runs(m)' BY <1>0, <2>1, <2>2, <2>4 DEF Runs, LeaseStep
  <2> QED BY <1>4, <2>1, <2>2, <2>3, <2>5 DEF None
<1>13. CASE MapMerged(m)
  <2>1. LeaseStep(HeldElse("exclusive"), AskedElse("exclusive"), {}) BY <1>0, <1>13, ReleaseSteps DEF MapMerged
  <2>2. /\ AskedElse("exclusive") \subseteq InQueue /\ HeldElse("exclusive") \subseteq holders
        /\ ~\E h \in HeldElse("exclusive") : h.mode = "exclusive" /\ h.owner = m /\ h.key \in Mounts[m]
    OBVIOUS
  <2> HIDE DEF HeldElse, AskedElse
  <2>3. merge[m] = "applying" /\ map' = map /\ snap' = snap BY <1>13 DEF MapMerged
  <2>4. Runs(m) => Runs(m)' BY <1>0, <2>1, <2>3 DEF Runs, LeaseStep
  <2> QED BY <1>4, <2>1, <2>2, <2>3, <2>4
<1> QED BY <1>5, <1>6, <1>7, <1>9, <1>10, <1>11, <1>12, <1>13 DEF MapSteps

LEMMA OthersOwe == ASSUME OwedInv, UNCHANGED <<leaseVars, at, mapVars>> PROVE OwedInv'
<1>1. LeaseStep(holders, InQueue, {}) BY NothingSteps DEF OwedInv
<1>2. \A h : Backed(h) => Backed(h)' BY DEF Backed, Past, Runs, Writes, leaseVars, mapVars
<1>3. \A w : Asked(w) => Asked(w)' BY DEF Asked, Names, Writes, mapVars
<1> QED BY <1>1, <1>2, <1>3, OwedStep DEF OwedInv

LEMMA CrashOwes == ASSUME Crash PROVE OwedInv'
<1>1. Lined' /\ InQueue' = {} BY DEF Crash, Lined, Distinct, InQueue
<1>2. ASSUME NEW h \in holders' PROVE Backed(h)'
  <2>1. PICK m \in Maps : map[m] = "running" /\ h.owner = m /\ h.mode = "shared" /\ h.key \in Mounts[m]
    BY <1>2 DEF Crash
  <2>2. map'[m] = "running" BY <2>1 DEF Crash
  <2> QED BY <2>1, <2>2 DEF Backed, Runs
<1>3. ASSUME NEW l \in Launch, at'[l] = "regaining" PROVE Style[l[1]] = "inherit"
  <2>1. Restarted(l[1]) /\ Again(l[1]) = "regaining" BY <1>3 DEF Crash, None
  <2> QED BY <2>1 DEF Restarted, Again
<1> QED BY <1>1, <1>2, <1>3 DEF OwedInv

LEMMA FreshStays ==
  ASSUME RestTyped, Fresh, NEW m \in Maps, MapStart(m) \/ MapSteps(m) \/ AskMapMerge(m) \/ MapSettle(m)
  PROVE  Fresh'
BY DEF MapSteps, MapStart, AskSnapshot, TakeSnapshot, SnapshotTaken, MapMerge, MapMerged, AskMapMerge,
       MapSettle, RestTyped, MapTyped, Fresh, None

LEMMA InitOwes == Init => OwedInv /\ Fresh
<1> SUFFICES ASSUME Init PROVE OwedInv /\ Fresh OBVIOUS
<1>1. Lined /\ InQueue = {} BY DEF Init, LeasesInit, Lined, Distinct, InQueue
<1>2. holders = {} /\ \A l \in Launch : at[l] # "regaining" BY DEF Init, LeasesInit, None
<1>3. Fresh BY DEF Init, Fresh
<1> QED BY <1>1, <1>2, <1>3 DEF OwedInv

LEMMA StepOwes == GatesInv /\ WorkInv /\ RestTyped /\ OwedInv /\ Fresh /\ [Next]_vars => OwedInv' /\ Fresh'
<1> SUFFICES ASSUME GatesInv, WorkInv, RestTyped, OwedInv, Fresh, [Next]_vars PROVE OwedInv' /\ Fresh' OBVIOUS
<1>0. ASSUME UNCHANGED <<map, snap>> PROVE Fresh' BY <1>0 DEF Fresh
<1>1. CASE \E s \in Stages : Admit(s) \/ Pause(s) \/ Resume(s) \/ Timeout(s)
  <2>1. UNCHANGED <<map, snap>> BY <1>1 DEF Admit, Pause, Resume, Timeout, mapVars
  <2> QED BY <1>0, <1>1, <2>1, StageOwes
<1>2. CASE \E l \in Launch : LaunchSteps(l) \/ FrameSteps(l) \/ Park(l) \/ Answer(l) \/ AskMerge(l)
  <2>1. UNCHANGED mapVars
    BY <1>2 DEF LaunchSteps, FrameSteps, AskLease, HasLease, LeaseRefused, StartChild, Reacquire, AskPermit,
           Claim, NotClaimed, Resumed, Merge, Merged, End, Park, Answer, AskMerge
  <2> QED BY <1>0, <1>2, <2>1, FrameOwes DEF mapVars
<1>3. CASE \E m \in Maps : MapStart(m) \/ MapSteps(m) \/ AskMapMerge(m) \/ MapSettle(m)
  BY <1>3, MapOwes, FreshStays
<1>4. CASE \E c \in Chats : AskTurn(c) \/ TryTurn(c) \/ ChatSteps(c) \/ GiveUp(c)
  <2>1. UNCHANGED <<leaseVars, at, mapVars>>
    BY <1>4 DEF AskTurn, TryTurn, ChatSteps, Turn, GivenUp, TurnEnds, GiveUp, launchVars
  <2> QED BY <1>0, <2>1, OthersOwe DEF mapVars
<1>5. CASE \E new \in Limits : SetLimits(new)
  <2>1. UNCHANGED <<leaseVars, at, mapVars>> BY <1>5 DEF SetLimits, launchVars
  <2> QED BY <1>0, <2>1, OthersOwe DEF mapVars
<1>6. CASE Crash
  <2>1. Fresh' BY <1>6 DEF Crash, Fresh
  <2> QED BY <1>6, <2>1, CrashOwes
<1>7. CASE UNCHANGED vars
  <2>1. UNCHANGED <<leaseVars, at, mapVars>> BY <1>7 DEF vars, launchVars
  <2> QED BY <1>0, <2>1, OthersOwe DEF mapVars
<1> QED BY <1>1, <1>2, <1>3, <1>4, <1>5, <1>6, <1>7 DEF Next

LEMMA OwedGivenBack == WorkInv /\ OwedInv => LeasesGivenBack
<1> SUFFICES ASSUME WorkInv, OwedInv, NEW h \in holders
             PROVE  CASE h.mode = "write" -> \E l \in Launch : l[1] = h.owner /\ at[l] \notin {None, "over"}
                      [] h.mode = "shared" ->
                           map[h.owner] \in {"snapshotting", "running"} \/ snap[h.owner] # None
                      [] OTHER -> IF h.owner \in Maps THEN merge[h.owner] # None
                                  ELSE \E l \in FramesOf(h.owner) : at[l] \in {"merging", "applying"}
  BY DEF LeasesGivenBack
<1>1. Backed(h) BY DEF OwedInv
<1>2. h.mode \in Mode BY DEF WorkInv, LeaseNamed, Holding
<1>3. CASE h.mode = "write"
  <2>1. \E l \in Launch : l[1] = h.owner /\ Past(l) BY <1>1, <1>3 DEF Backed
  <2>2. \E l \in Launch : l[1] = h.owner /\ at[l] \notin {None, "over"} BY <2>1 DEF Past, InFrame, None
  <2> QED BY <1>3, <2>2
<1>4. CASE h.mode = "shared"
  <2>1. Runs(h.owner) BY <1>1, <1>4 DEF Backed
  <2>2. map[h.owner] \in {"snapshotting", "running"} \/ snap[h.owner] # None BY <2>1 DEF Runs, None
  <2> QED BY <1>4, <2>2
<1>5. CASE h.mode = "exclusive"
  <2>1. CASE \E m \in Maps : m = h.owner /\ merge[m] # None BY <1>5, <2>1
  <2>2. CASE \E l \in Launch : l[1] = h.owner /\ at[l] \in Merging
    <3>1. PICK l \in Launch : l[1] = h.owner /\ at[l] \in Merging BY <2>2
    <3>2. h.owner \notin Maps BY <3>1, GatesAssumption DEF Launch
    <3>3. l \in FramesOf(h.owner) /\ at[l] \in {"merging", "applying"}
      BY <3>1 DEF FramesOf, InFrame, Merging
    <3> QED BY <1>5, <3>2, <3>3
  <2> QED BY <1>1, <1>5, <2>1, <2>2 DEF Backed
<1> QED BY <1>2, <1>3, <1>4, <1>5 DEF Mode

\* No lease outlives what it was taken for: a step takes a lease only for a
\* request somebody waits behind, and who stops working releases or withdraws
\* what is his (WorktreeLeases.release; EffectsDispatcher.launch, MapEffects).
THEOREM LeasesReturned == Spec => []LeasesGivenBack
<1>1. Spec => []RestTyped BY InitTypes, StepTypes, PTL DEF Spec
<1>2. Spec => []OwedInv BY <1>1, InitOwes, StepOwes, GatesKept, WorkKept, PTL DEF Spec
<1> QED BY <1>2, OwedGivenBack, WorkKept, PTL

-----------------------------------------------------------------------------
(* Whose every flow key is.                                                     *)

\* What a caller asks for when it waits.
Wanted == [c \in Caller |-> IF c \in Chats THEN FlowsOf[c] ELSE FlowsOf[c[1]] \ held[c]]

\* Who has the key: tickets, turns, and waits that were granted.
Holds(k) == {l \in Launch : k \in held[l]}
Turns(k) == {c \in Chats : chat[c] = "turn" /\ k \in FlowsOf[c]}
Users(p, W, k) == {c \in Caller : p[c] = "granted" /\ k \in W[c]}

Sum(r, H, T, U) ==
  /\ IsFiniteSet(H) /\ IsFiniteSet(T) /\ IsFiniteSet(U)
  /\ r = Cardinality(H) + Cardinality(T) + Cardinality(U)

LineOf(q, p, W) == Distinct(q) /\ \A i \in DOMAIN q : p[q[i].id] = "waiting" /\ q[i].keys = W[q[i].id]

Sums == \A k \in Flow : Sum(flowRunning[k], Holds(k), Turns(k), Users(permit, Wanted, k))
Line == LineOf(flowWaiters, permit, Wanted)

\* Who waits, or has not seen that its wait is over, is where one waits; and
\* only frames hold keys.
Places ==
  /\ \A l \in Launch :
       /\ permit[l] # None => at[l] \in {"queued", "resuming"}
       /\ held[l] # {} => at[l] \in InFrame
       /\ held[l] \subseteq FlowsOf[l[1]]
  /\ \A c \in Chats : permit[c] # None => chat[c] = "waiting"

KeysInv == Sums /\ Line /\ Places

LEMMA SumMore ==
  ASSUME NEW r, NEW H, NEW T, NEW U, Sum(r, H, T, U), NEW x
  PROVE  /\ r \in Nat
         /\ x \notin H => Sum(r + 1, H \cup {x}, T, U)
         /\ x \notin T => Sum(r + 1, H, T \cup {x}, U)
         /\ x \notin U => Sum(r + 1, H, T, U \cup {x})
<1>1. Cardinality(H) \in Nat /\ Cardinality(T) \in Nat /\ Cardinality(U) \in Nat
  BY FS_CardinalityType DEF Sum
<1>2. x \notin H => IsFiniteSet(H \cup {x}) /\ Cardinality(H \cup {x}) = Cardinality(H) + 1
  BY FS_AddElement DEF Sum
<1>3. x \notin T => IsFiniteSet(T \cup {x}) /\ Cardinality(T \cup {x}) = Cardinality(T) + 1
  BY FS_AddElement DEF Sum
<1>4. x \notin U => IsFiniteSet(U \cup {x}) /\ Cardinality(U \cup {x}) = Cardinality(U) + 1
  BY FS_AddElement DEF Sum
<1> QED BY <1>1, <1>2, <1>3, <1>4 DEF Sum

LEMMA SumLess ==
  ASSUME NEW r, NEW H, NEW T, NEW U, Sum(r, H, T, U), NEW x
  PROVE  /\ x \in H => r > 0 /\ Sum(r - 1, H \ {x}, T, U)
         /\ x \in T => r > 0 /\ Sum(r - 1, H, T \ {x}, U)
         /\ x \in U => r > 0 /\ Sum(r - 1, H, T, U \ {x})
<1>1. Cardinality(H) \in Nat /\ Cardinality(T) \in Nat /\ Cardinality(U) \in Nat
  BY FS_CardinalityType DEF Sum
<1>2. x \in H => /\ IsFiniteSet(H \ {x}) /\ Cardinality(H \ {x}) = Cardinality(H) - 1
                 /\ Cardinality(H) # 0
  BY FS_RemoveElement, FS_EmptySet DEF Sum
<1>3. x \in T => /\ IsFiniteSet(T \ {x}) /\ Cardinality(T \ {x}) = Cardinality(T) - 1
                 /\ Cardinality(T) # 0
  BY FS_RemoveElement, FS_EmptySet DEF Sum
<1>4. x \in U => /\ IsFiniteSet(U \ {x}) /\ Cardinality(U \ {x}) = Cardinality(U) - 1
                 /\ Cardinality(U) # 0
  BY FS_RemoveElement, FS_EmptySet DEF Sum
<1> QED BY <1>1, <1>2, <1>3, <1>4 DEF Sum

LEMMA SumMoves ==
  ASSUME NEW r, NEW H, NEW T, NEW U, Sum(r, H, T, U), NEW x, x \in U
  PROVE  /\ x \notin H => Sum(r, H \cup {x}, T, U \ {x})
         /\ x \notin T => Sum(r, H, T \cup {x}, U \ {x})
<1>1. r \in Nat /\ Sum(r - 1, H, T, U \ {x})
  <2>1. r \in Nat BY SumMore
  <2>2. Sum(r - 1, H, T, U \ {x}) BY SumLess
  <2> QED BY <2>1, <2>2
<1>0. (r - 1) + 1 = r BY <1>1
<1>2. x \notin H => Sum((r - 1) + 1, H \cup {x}, T, U \ {x}) BY <1>1, SumMore
<1>3. x \notin T => Sum((r - 1) + 1, H, T \cup {x}, U \ {x}) BY <1>1, SumMore
<1> QED BY <1>0, <1>2, <1>3

\* The callers at some positions of a queue are as many as the positions.
LEMMA TakersAre ==
  ASSUME NEW q \in Seq(Waiter), Distinct(q), NEW G \in SUBSET DOMAIN q, NEW k
  PROVE  /\ IsFiniteSet({q[i].id : i \in {i \in G : k \in q[i].keys}})
         /\ Cardinality({q[i].id : i \in {i \in G : k \in q[i].keys}}) = Takers(q, G, k)
<1> DEFINE S == {i \in G : k \in q[i].keys}
           N == {q[i].id : i \in S}
           f == [i \in S |-> q[i].id]
<1>1. IsFiniteSet(S) /\ Takers(q, G, k) = Cardinality(S) BY TakersType DEF Takers
<1>2. \A i, j \in S : q[i].id = q[j].id => i = j BY DEF Distinct
<1> HIDE DEF S
<1>3. f \in Surjection(S, N) /\ f \in Injection(S, N)
  BY <1>2 DEF Surjection, Injection, IsInjective
<1> HIDE DEF N, f
<1>4. IsFiniteSet(N) /\ Cardinality(N) = Cardinality(S) BY <1>1, <1>3, FS_Surjection
<1> QED BY <1>1, <1>4 DEF N, S

\* A set of callers who got the key at once.
LEMMA SumGrants ==
  ASSUME NEW r \in Nat, NEW n, NEW H, NEW T, NEW U, Sum(r, H, T, U), NEW N, IsFiniteSet(N),
         Cardinality(N) = n, N \cap U = {}
  PROVE  Sum(r + n, H, T, U \cup N)
<1>1. Cardinality(H) \in Nat /\ Cardinality(T) \in Nat /\ Cardinality(U) \in Nat /\ n \in Nat
  BY FS_CardinalityType DEF Sum
<1>2. Cardinality(U \cap N) = 0
  <2>1. U \cap N = {} OBVIOUS
  <2> QED BY <2>1, FS_EmptySet
<1>3. IsFiniteSet(U \cup N) /\ Cardinality(U \cup N) = Cardinality(U) + n
  <2>1. IsFiniteSet(U) BY DEF Sum
  <2>2. /\ IsFiniteSet(U \cup N)
        /\ Cardinality(U \cup N) = Cardinality(U) + Cardinality(N) - Cardinality(U \cap N)
    BY <2>1, FS_Union
  <2> QED BY <1>1, <1>2, <2>2
<1> QED BY <1>1, <1>3 DEF Sum

LEMMA FlowLineStays ==
  ASSUME NEW q \in Seq(Waiter), NEW p, NEW W, LineOf(q, p, W), NEW S \in SUBSET DOMAIN q
  PROVE  LineOf(At(q, S), p, W)
<1>1. Distinct(At(q, S)) BY DistinctStays DEF LineOf
<1>2. \A i \in DOMAIN At(q, S) : \E n \in S : At(q, S)[i] = q[n] BY SomeStay
<1> QED BY <1>1, <1>2 DEF LineOf

\* A pass gives a key to as many as it counts, and to nobody twice.
LEMMA PumpSums ==
  ASSUME NEW R \in [Flow -> Nat], NEW lim, NEW q \in Seq(Waiter), NEW p, NEW W, LineOf(q, p, W),
         PumpFlows(R, lim, q, p)
  PROVE  /\ LineOf(flowWaiters', permit', W)
         /\ \A k \in Flow : \A H, T :
              Sum(R[k], H, T, Users(p, W, k)) => Sum(flowRunning'[k], H, T, Users(permit', W, k))
         /\ \A c \in Caller : permit'[c] = p[c] \/ (p[c] = "waiting" /\ permit'[c] = "granted")
<1>1. PICK G \in SUBSET DOMAIN q :
        /\ flowRunning' = After(R, q, G) /\ flowWaiters' = Remaining(q, G)
        /\ permit' = [c \in Caller |-> IF \E i \in G : q[i].id = c THEN "granted" ELSE p[c]]
  BY DEF PumpFlows
<1> DEFINE S == DOMAIN q \ G
<1>2. S \in SUBSET DOMAIN q /\ flowWaiters' = At(q, S) BY <1>1 DEF Remaining
<1>3. \A i \in DOMAIN q : q[i].id \in Caller
  <2>1. \A i \in DOMAIN q : q[i] \in Waiter OBVIOUS
  <2> QED BY <2>1 DEF Waiter
<1>4. \A n \in S : permit'[q[n].id] = p[q[n].id] BY <1>1, <1>3 DEF LineOf, Distinct
<1>5. LineOf(flowWaiters', permit', W)
  <2> HIDE DEF S
  <2>1. LineOf(At(q, S), p, W) BY <1>2, FlowLineStays
  <2>2. \A i \in DOMAIN At(q, S) : \E n \in S : At(q, S)[i] = q[n] BY <1>2, SomeStay
  <2> QED BY <1>2, <1>4, <2>1, <2>2 DEF LineOf
<1>6. ASSUME NEW k \in Flow, NEW H, NEW T, Sum(R[k], H, T, Users(p, W, k))
      PROVE  Sum(flowRunning'[k], H, T, Users(permit', W, k))
  <2> DEFINE N == {q[i].id : i \in {i \in G : k \in q[i].keys}}
  <2>1. IsFiniteSet(N) /\ Cardinality(N) = Takers(q, G, k) BY TakersAre DEF LineOf
  <2>2. N \cap Users(p, W, k) = {} BY DEF LineOf, Users
  <2>3. Users(permit', W, k) = Users(p, W, k) \cup N BY <1>1, <1>3 DEF LineOf, Users
  <2>4. flowRunning'[k] = R[k] + Takers(q, G, k) BY <1>1 DEF After
  <2>5. R[k] \in Nat OBVIOUS
  <2> HIDE DEF N
  <2> QED BY <1>6, <2>1, <2>2, <2>3, <2>4, <2>5, SumGrants
<1>7. \A c \in Caller : permit'[c] = p[c] \/ (p[c] = "waiting" /\ permit'[c] = "granted")
  BY <1>1 DEF LineOf
<1> QED BY <1>5, <1>6, <1>7

LEMMA ConcatDistinct ==
  ASSUME NEW d \in Seq(Waiter), NEW b \in Seq(Waiter), Distinct(d), Distinct(b),
         \A i \in DOMAIN d, j \in DOMAIN b : d[i].id # b[j].id
  PROVE  Distinct(d \o b)
<1> DEFINE r == d \o b
<1>1. /\ r \in Seq(Waiter) /\ Len(d) \in Nat /\ Len(b) \in Nat /\ DOMAIN r = 1..Len(d) + Len(b)
      /\ DOMAIN d = 1..Len(d) /\ DOMAIN b = 1..Len(b)
      /\ \A i \in 1..Len(d) + Len(b) : r[i] = IF i <= Len(d) THEN d[i] ELSE b[i - Len(d)]
  OBVIOUS
<1> HIDE DEF r
<1>2. \A i \in DOMAIN r : \/ i \in DOMAIN d /\ r[i] = d[i]
                          \/ ~(i <= Len(d)) /\ i - Len(d) \in DOMAIN b /\ r[i] = b[i - Len(d)]
  BY <1>1
<1> SUFFICES ASSUME NEW i \in DOMAIN r, NEW j \in DOMAIN r, r[i].id = r[j].id PROVE i = j
  BY DEF Distinct, r
<1>3. CASE i \in DOMAIN d /\ r[i] = d[i] /\ j \in DOMAIN d /\ r[j] = d[j] BY <1>3 DEF Distinct
<1>4. CASE /\ i - Len(d) \in DOMAIN b /\ r[i] = b[i - Len(d)]
           /\ j - Len(d) \in DOMAIN b /\ r[j] = b[j - Len(d)]
  <2>1. i - Len(d) = j - Len(d) BY <1>4 DEF Distinct
  <2> QED BY <1>1, <2>1
<1> QED BY <1>2, <1>3, <1>4

LEMMA QueuedDistinct ==
  ASSUME NEW q \in Seq(Waiter), Distinct(q), NEW w \in Waiter, \A i \in DOMAIN q : q[i].id # w.id
  PROVE  Distinct(Queued(q, w))
<1> DEFINE one == <<w>>
<1>0. one \in Seq(Waiter) /\ DOMAIN one = {1} /\ one[1] = w /\ Distinct(one) BY DEF Distinct
<1>1. CASE ~w.priority
  <2>1. Queued(q, w) = q \o one BY <1>1 DEF Queued
  <2> HIDE DEF one
  <2> QED BY <1>0, <2>1, ConcatDistinct
<1>2. CASE w.priority
  <2> DEFINE A == {i \in DOMAIN q : q[i].priority}
             B == {i \in DOMAIN q : ~q[i].priority}
             a == At(q, A)
             b == At(q, B)
  <2>1. A \in SUBSET DOMAIN q /\ B \in SUBSET DOMAIN q /\ A \cap B = {} OBVIOUS
  <2>2. Queued(q, w) = (a \o one) \o b BY <1>2 DEF Queued
  <2> HIDE DEF A, B
  <2>3. /\ a \in Seq(Waiter) /\ \A i \in DOMAIN a : \E n \in A : a[i] = q[n]
        /\ b \in Seq(Waiter) /\ \A i \in DOMAIN b : \E n \in B : b[i] = q[n]
        /\ Distinct(a) /\ Distinct(b)
    BY <2>1, SomeStay, DistinctStays
  <2> HIDE DEF a, b, one
  <2>4. \A i \in DOMAIN a, j \in DOMAIN one : a[i].id # one[j].id BY <1>0, <2>1, <2>3
  <2>5. Distinct(a \o one) BY <1>0, <2>3, <2>4, ConcatDistinct
  <2> DEFINE d == a \o one
  <2>6. d \in Seq(Waiter) /\ \A i \in DOMAIN d : d[i] = w \/ \E n \in A : d[i] = q[n]
    <3>1. /\ d \in Seq(Waiter) /\ Len(a) \in Nat /\ DOMAIN d = 1..Len(a) + 1 /\ Len(one) = 1
          /\ \A i \in 1..Len(a) + 1 : d[i] = IF i <= Len(a) THEN a[i] ELSE one[i - Len(a)]
      BY <1>0, <2>3 DEF one
    <3>2. DOMAIN a = 1..Len(a) BY <2>3
    <3> HIDE DEF d
    <3>3. ASSUME NEW i \in DOMAIN d PROVE d[i] = w \/ \E n \in A : d[i] = q[n]
      <4>1. CASE i \in DOMAIN a BY <2>3, <3>1, <3>2, <4>1
      <4>2. CASE i \notin DOMAIN a
        <5>1. i - Len(a) = 1 /\ ~(i <= Len(a)) BY <3>1, <3>2, <4>2
        <5> QED BY <1>0, <3>1, <5>1
      <4> QED BY <4>1, <4>2
    <3> QED BY <3>1, <3>3
  <2> HIDE DEF d
  <2>7. \A i \in DOMAIN d, j \in DOMAIN b : d[i].id # b[j].id
    <3> SUFFICES ASSUME NEW i \in DOMAIN d, NEW j \in DOMAIN b PROVE d[i].id # b[j].id OBVIOUS
    <3>1. PICK n \in B : b[j] = q[n] BY <2>3
    <3>2. CASE d[i] = w BY <2>1, <3>1, <3>2
    <3>3. CASE \E m \in A : d[i] = q[m] BY <2>1, <3>1, <3>3 DEF Distinct
    <3> QED BY <2>6, <3>2, <3>3
  <2> QED BY <2>2, <2>3, <2>5, <2>6, <2>7, ConcatDistinct DEF d
<1> QED BY <1>1, <1>2


LEMMA SameSums ==
  ASSUME Sums, Line, UNCHANGED <<flowRunning, flowWaiters, permit, held>>,
         \A k \in Flow : Turns(k)' = Turns(k)
  PROVE  Sums' /\ Line'
<1>1. Wanted' = Wanted BY DEF Wanted
<1>2. \A k \in Flow : Holds(k)' = Holds(k) BY DEF Holds
<1>3. \A k \in Flow : Sum(flowRunning'[k], Holds(k)', Turns(k)', Users(permit', Wanted', k))
  BY <1>1, <1>2 DEF Sums
<1> QED BY <1>1, <1>3 DEF Sums, Line

\* A caller takes its keys, or stands in line.
LEMMA WaitSums ==
  ASSUME FlowInv, Sums, Line, PermitTyped, NEW c \in Caller, NEW priority \in BOOLEAN,
         Wanted[c] \in SUBSET Flow, WaitFlows(c, Wanted[c], priority), UNCHANGED held,
         \A k \in Flow : Turns(k)' = Turns(k)
  PROVE  Sums' /\ Line' /\ \A d \in Caller : d # c => permit'[d] = permit[d]
<1> DEFINE keys == Wanted[c]
           w == [id |-> c, keys |-> keys, priority |-> priority]
<1>0. /\ Wanted' = Wanted /\ \A k \in Flow : Holds(k)' = Holds(k)
      /\ flowRunning \in [Flow -> Nat] /\ flowWaiters \in Seq(Waiter)
  BY DEF Wanted, Holds, FlowInv
<1>1. permit[c] = "none" BY DEF WaitFlows
<1>2. w \in Waiter /\ w.id = c /\ w.keys = keys BY DEF Waiter
<1>3. \A i \in DOMAIN flowWaiters : flowWaiters[i].id # c BY <1>1 DEF Line, LineOf
<1>4. CASE Room(flowRunning, limit, keys)
  <2>1. flowRunning' = Take(keys) /\ permit' = [permit EXCEPT ![c] = "granted"] /\ flowWaiters' = flowWaiters
    BY <1>4 DEF WaitFlows
  <2>2. \A d \in Caller : permit'[d] = IF d = c THEN "granted" ELSE permit[d] BY <2>1 DEF PermitTyped
  <2>3. Line'
    <3>1. \A i \in DOMAIN flowWaiters : flowWaiters[i].id \in Caller
      <4>1. \A i \in DOMAIN flowWaiters : flowWaiters[i] \in Waiter BY <1>0
      <4> QED BY <4>1 DEF Waiter
    <3> QED BY <1>0, <1>3, <2>1, <2>2, <3>1 DEF Line, LineOf
  <2>4. ASSUME NEW k \in Flow
        PROVE  Sum(flowRunning'[k], Holds(k)', Turns(k)', Users(permit', Wanted', k))
    <3>1. Sum(flowRunning[k], Holds(k), Turns(k), Users(permit, Wanted, k)) BY DEF Sums
    <3>2. c \notin Users(permit, Wanted, k) BY <1>1 DEF Users
    <3>3. CASE k \in keys
      <4>1. Users(permit', Wanted', k) = Users(permit, Wanted, k) \cup {c} BY <1>0, <2>2, <3>3 DEF Users
      <4>2. flowRunning'[k] = flowRunning[k] + 1 BY <2>1, <3>3 DEF Take
      <4>3. Sum(flowRunning[k] + 1, Holds(k), Turns(k), Users(permit, Wanted, k) \cup {c})
        BY <3>1, <3>2, SumMore
      <4> QED BY <1>0, <4>1, <4>2, <4>3
    <3>4. CASE k \notin keys
      <4>1. Users(permit', Wanted', k) = Users(permit, Wanted, k) BY <1>0, <1>1, <2>2, <3>4 DEF Users
      <4>2. flowRunning'[k] = flowRunning[k] BY <2>1, <3>4 DEF Take
      <4> QED BY <1>0, <3>1, <4>1, <4>2
    <3> QED BY <3>3, <3>4
  <2> QED BY <2>2, <2>3, <2>4 DEF Sums
<1>5. CASE ~Room(flowRunning, limit, keys)
  <2>1. /\ flowRunning' = flowRunning /\ permit' = [permit EXCEPT ![c] = "waiting"]
        /\ flowWaiters' = Queued(flowWaiters, w)
    BY <1>5 DEF WaitFlows
  <2>2. \A d \in Caller : permit'[d] = IF d = c THEN "waiting" ELSE permit[d] BY <2>1 DEF PermitTyped
  <2> HIDE DEF w
  <2>3. Distinct(flowWaiters') BY <1>0, <1>2, <1>3, <2>1, QueuedDistinct DEF Line, LineOf
  <2>4. \A i \in DOMAIN flowWaiters' :
          flowWaiters'[i] = w \/ \E n \in DOMAIN flowWaiters : flowWaiters'[i] = flowWaiters[n]
    BY <1>0, <1>2, <2>1, QueuedType
  <2>5. Line'
    <3>1. \A i \in DOMAIN flowWaiters : flowWaiters[i].id \in Caller
      <4>1. \A i \in DOMAIN flowWaiters : flowWaiters[i] \in Waiter BY <1>0
      <4> QED BY <4>1 DEF Waiter
    <3> QED BY <1>0, <1>2, <1>3, <2>2, <2>3, <2>4, <3>1 DEF Line, LineOf
  <2>6. \A k \in Flow : Users(permit', Wanted', k) = Users(permit, Wanted, k)
    BY <1>0, <1>1, <2>2 DEF Users
  <2> QED BY <1>0, <2>1, <2>2, <2>5, <2>6 DEF Sums
<1> QED BY <1>4, <1>5

\* One caller's wait is over; nobody else's, and nobody waits for anything else.
LEMMA LineSettles ==
  ASSUME Line, PermitTyped, FlowInv, NEW c, permit[c] # "waiting", NEW as,
         permit' = [permit EXCEPT ![c] = as], UNCHANGED flowWaiters,
         \A d \in Caller : d # c => Wanted'[d] = Wanted[d]
  PROVE  Line'
<1>1. \A i \in DOMAIN flowWaiters : flowWaiters[i].id \in Caller
  <2>1. \A i \in DOMAIN flowWaiters : flowWaiters[i] \in Waiter BY DEF FlowInv
  <2> QED BY <2>1 DEF Waiter
<1> QED BY <1>1 DEF Line, LineOf, PermitTyped

\* A ticket takes what its wait was granted.
LEMMA TicketSums ==
  ASSUME FlowInv, Sums, Line, PermitTyped, NEW l \in Launch, l \notin Chats, l \in Caller,
         held \in [Launch -> SUBSET Flow], held[l] \subseteq FlowsOf[l[1]],
         PermitSettled(l, "granted"), held' = [held EXCEPT ![l] = FlowsOf[l[1]]], UNCHANGED chat
  PROVE  Sums' /\ Line' /\ \A d \in Caller : d # l => permit'[d] = permit[d]
<1>1. /\ permit[l] = "granted" /\ permit' = [permit EXCEPT ![l] = "none"]
      /\ flowRunning' = flowRunning /\ flowWaiters' = flowWaiters
  BY DEF PermitSettled
<1>2. \A d \in Caller : permit'[d] = IF d = l THEN "none" ELSE permit[d] BY <1>1 DEF PermitTyped
<1>3. \A d \in Caller : d # l /\ (d \in Launch \/ d \in Chats) => Wanted'[d] = Wanted[d] BY DEF Wanted
<1>4. \A d \in Caller : d # l => Wanted'[d] = Wanted[d] BY <1>3, GatesAssumption
<1>5. Line' BY <1>1, <1>4, LineSettles
<1>6. ASSUME NEW k \in Flow
      PROVE  Sum(flowRunning'[k], Holds(k)', Turns(k)', Users(permit', Wanted', k))
  <2>1. Sum(flowRunning[k], Holds(k), Turns(k), Users(permit, Wanted, k)) BY DEF Sums
  <2>2. Turns(k)' = Turns(k) BY DEF Turns
  <2>3. Users(permit', Wanted', k) = Users(permit, Wanted, k) \ {l} BY <1>2, <1>4 DEF Users
  <2>4. Wanted[l] = FlowsOf[l[1]] \ held[l] BY DEF Wanted
  <2>5. CASE k \in FlowsOf[l[1]] \ held[l]
    <3>1. l \in Users(permit, Wanted, k) /\ l \notin Holds(k) BY <1>1, <2>4, <2>5 DEF Users, Holds
    <3>2. Holds(k)' = Holds(k) \cup {l} BY <2>5 DEF Holds
    <3>3. Sum(flowRunning[k], Holds(k) \cup {l}, Turns(k), Users(permit, Wanted, k) \ {l})
      BY <2>1, <3>1, SumMoves
    <3> QED BY <1>1, <2>2, <2>3, <3>2, <3>3
  <2>6. CASE k \notin FlowsOf[l[1]] \ held[l]
    <3>1. Users(permit, Wanted, k) \ {l} = Users(permit, Wanted, k) BY <2>4, <2>6 DEF Users
    <3>2. Holds(k)' = Holds(k) BY <2>6 DEF Holds
    <3> QED BY <1>1, <2>1, <2>2, <2>3, <3>1, <3>2
  <2> QED BY <2>5, <2>6
<1> QED BY <1>2, <1>5, <1>6 DEF Sums

\* Keys are given back, and the queue looked over.
LEMMA UntakeSums ==
  ASSUME FlowInv, Line, PermitTyped, NEW c \in Caller, NEW keys, Untake(c, keys, None),
         \A d \in Caller : d # c => Wanted'[d] = Wanted[d],
         \A k \in Flow : Sum(Given(flowRunning, keys)[k], Holds(k)', Turns(k)',
                             Users([permit EXCEPT ![c] = None], Wanted', k))
  PROVE  Sums' /\ Line' /\ permit'[c] = None /\ \A d \in Caller : permit'[d] # None => permit[d] # None
<1> DEFINE p == [permit EXCEPT ![c] = None]
           S == {i \in DOMAIN flowWaiters : flowWaiters[i].id # c}
           q == At(flowWaiters, S)
           R == Given(flowRunning, keys)
<1>1. PumpFlows(R, limit, q, p) BY DEF Untake, NotOf
<1>2. R \in [Flow -> Nat] BY DEF FlowInv, Given
<1>3. S \in SUBSET DOMAIN flowWaiters OBVIOUS
<1>4. \A d \in Caller : p[d] = IF d = c THEN None ELSE permit[d] BY DEF PermitTyped
<1>5. \A k \in Flow : Sum(R[k], Holds(k)', Turns(k)', Users(p, Wanted', k)) OBVIOUS
<1>6. LineOf(q, p, Wanted') /\ q \in Seq(Waiter)
  <2> HIDE DEF p
  <2>1. \A n \in S : flowWaiters[n].id \in Caller /\ flowWaiters[n].id # c
    <3>1. \A i \in DOMAIN flowWaiters : flowWaiters[i] \in Waiter BY DEF FlowInv
    <3> QED BY <3>1 DEF Waiter
  <2> HIDE DEF S
  <2>2. LineOf(q, permit, Wanted) BY <1>3, FlowLineStays DEF Line, FlowInv
  <2>3. q \in Seq(Waiter) /\ \A i \in DOMAIN q : \E n \in S : q[i] = flowWaiters[n]
    BY <1>3, SomeStay DEF FlowInv
  <2> QED BY <1>4, <2>1, <2>2, <2>3 DEF LineOf
<1> HIDE DEF p, q, R
<1>7. /\ LineOf(flowWaiters', permit', Wanted')
      /\ \A k \in Flow : \A H, T : Sum(R[k], H, T, Users(p, Wanted', k))
                                     => Sum(flowRunning'[k], H, T, Users(permit', Wanted', k))
      /\ \A d \in Caller : permit'[d] = p[d] \/ (p[d] = "waiting" /\ permit'[d] = "granted")
  BY <1>1, <1>2, <1>6, PumpSums
<1>8. Sums' BY <1>5, <1>7 DEF Sums
<1>9. permit'[c] = None /\ \A d \in Caller : permit'[d] # None => permit[d] # None
  BY <1>4, <1>7 DEF None
<1> QED BY <1>7, <1>8, <1>9 DEF Line

\* A launch gives keys of its ticket back.
LEMMA GivenSums ==
  ASSUME FlowInv, Sums, Line, PermitTyped, NEW l \in Launch, l \notin Chats, l \in Caller,
         held \in [Launch -> SUBSET Flow], permit[l] # "granted", UNCHANGED chat,
         NEW keys \in SUBSET held[l], Untake(l, keys, None), held' = [held EXCEPT ![l] = held[l] \ keys]
  PROVE  Sums' /\ Line' /\ permit'[l] = None /\ \A d \in Caller : permit'[d] # None => permit[d] # None
<1>1. \A d \in Caller : d # l /\ (d \in Launch \/ d \in Chats) => Wanted'[d] = Wanted[d] BY DEF Wanted
<1>2. \A d \in Caller : d # l => Wanted'[d] = Wanted[d] BY <1>1, GatesAssumption
<1>3. ASSUME NEW k \in Flow
      PROVE  Sum(Given(flowRunning, keys)[k], Holds(k)', Turns(k)',
                 Users([permit EXCEPT ![l] = None], Wanted', k))
  <2>1. Sum(flowRunning[k], Holds(k), Turns(k), Users(permit, Wanted, k)) BY DEF Sums
  <2>2. Turns(k)' = Turns(k) BY DEF Turns
  <2>3. Users([permit EXCEPT ![l] = None], Wanted', k) = Users(permit, Wanted, k)
    BY <1>2 DEF Users, PermitTyped, None
  <2>4. CASE k \in keys
    <3>1. l \in Holds(k) /\ Holds(k)' = Holds(k) \ {l} BY <2>4 DEF Holds
    <3>2. flowRunning[k] > 0 /\ Sum(flowRunning[k] - 1, Holds(k)', Turns(k), Users(permit, Wanted, k))
      <4>1. /\ flowRunning[k] > 0
            /\ Sum(flowRunning[k] - 1, Holds(k) \ {l}, Turns(k), Users(permit, Wanted, k))
        BY <2>1, <3>1, SumLess
      <4> QED BY <3>1, <4>1
    <3>3. Given(flowRunning, keys)[k] = flowRunning[k] - 1 BY <2>4, <3>2 DEF Given
    <3> QED BY <2>2, <2>3, <3>2, <3>3
  <2>5. CASE k \notin keys
    <3>1. Holds(k)' = Holds(k) BY <2>5 DEF Holds
    <3>2. Given(flowRunning, keys)[k] = flowRunning[k] BY <2>5 DEF Given
    <3> QED BY <2>1, <2>2, <2>3, <3>1, <3>2
  <2> QED BY <2>4, <2>5
<1> QED BY <1>2, <1>3, UntakeSums

\* A launch that is not taken gives back what its wait was granted.
LEMMA UnclaimedSums ==
  ASSUME FlowInv, Sums, Line, PermitTyped, NEW l \in Launch, l \notin Chats, l \in Caller,
         held \in [Launch -> SUBSET Flow], held[l] = {}, permit[l] = "granted", UNCHANGED chat,
         Untake(l, FlowsOf[l[1]], None), held' = [held EXCEPT ![l] = {}]
  PROVE  Sums' /\ Line' /\ permit'[l] = None /\ \A d \in Caller : permit'[d] # None => permit[d] # None
<1>0. held' = held /\ Wanted' = Wanted BY DEF Wanted
<1>1. ASSUME NEW k \in Flow
      PROVE  Sum(Given(flowRunning, FlowsOf[l[1]])[k], Holds(k)', Turns(k)',
                 Users([permit EXCEPT ![l] = None], Wanted', k))
  <2>1. Sum(flowRunning[k], Holds(k), Turns(k), Users(permit, Wanted, k)) BY DEF Sums
  <2>2. Turns(k)' = Turns(k) /\ Holds(k)' = Holds(k) BY <1>0 DEF Turns, Holds
  <2>3. Users([permit EXCEPT ![l] = None], Wanted', k) = Users(permit, Wanted, k) \ {l}
    BY <1>0 DEF Users, PermitTyped, None
  <2>4. l \in Users(permit, Wanted, k) <=> k \in FlowsOf[l[1]] BY DEF Users, Wanted
  <2>5. CASE k \in FlowsOf[l[1]]
    <3>1. /\ flowRunning[k] > 0
          /\ Sum(flowRunning[k] - 1, Holds(k), Turns(k), Users(permit, Wanted, k) \ {l})
      BY <2>1, <2>4, <2>5, SumLess
    <3>2. Given(flowRunning, FlowsOf[l[1]])[k] = flowRunning[k] - 1 BY <2>5, <3>1 DEF Given
    <3> QED BY <2>2, <2>3, <3>1, <3>2
  <2>6. CASE k \notin FlowsOf[l[1]]
    <3>1. Users(permit, Wanted, k) \ {l} = Users(permit, Wanted, k) BY <2>4, <2>6
    <3>2. Given(flowRunning, FlowsOf[l[1]])[k] = flowRunning[k] BY <2>6 DEF Given
    <3> QED BY <2>1, <2>2, <2>3, <3>1, <3>2
  <2> QED BY <2>5, <2>6
<1> QED BY <1>0, <1>1, UntakeSums

\* A wait that is withdrawn takes nothing along.
LEMMA WithdrawnSums ==
  ASSUME FlowInv, Sums, Line, PermitTyped, NEW c, WithdrawFlow(c), UNCHANGED <<held, chat>>
  PROVE  Sums' /\ Line' /\ \A d \in Caller : permit'[d] # None => permit[d] # None
<1> DEFINE S == {i \in DOMAIN flowWaiters : flowWaiters[i].id # c}
<1>1. /\ flowWaiters' = At(flowWaiters, S) /\ flowRunning' = flowRunning
      /\ permit' = [permit EXCEPT ![c] = IF @ = "waiting" THEN "withdrawn" ELSE @]
  BY DEF WithdrawFlow, NotOf
<1>2. \A d \in Caller : permit'[d] = IF d = c /\ permit[d] = "waiting" THEN "withdrawn" ELSE permit[d]
  BY <1>1 DEF PermitTyped
<1>3. Wanted' = Wanted /\ \A k \in Flow : Holds(k)' = Holds(k) /\ Turns(k)' = Turns(k)
  BY DEF Wanted, Holds, Turns
<1>4. \A k : Users(permit', Wanted', k) = Users(permit, Wanted, k) BY <1>2, <1>3 DEF Users
<1>5. Line'
  <2>1. \A n \in S : flowWaiters[n].id \in Caller /\ flowWaiters[n].id # c
    <3>1. \A i \in DOMAIN flowWaiters : flowWaiters[i] \in Waiter BY DEF FlowInv
    <3> QED BY <3>1 DEF Waiter
  <2>2. S \in SUBSET DOMAIN flowWaiters OBVIOUS
  <2> HIDE DEF S
  <2>3. LineOf(flowWaiters', permit, Wanted) BY <1>1, <2>2, FlowLineStays DEF Line, FlowInv
  <2>4. \A i \in DOMAIN flowWaiters' : \E n \in S : flowWaiters'[i] = flowWaiters[n]
    BY <1>1, <2>2, SomeStay DEF FlowInv
  <2> QED BY <1>2, <1>3, <2>1, <2>3, <2>4 DEF Line, LineOf
<1>6. Sums' BY <1>1, <1>3, <1>4 DEF Sums
<1>7. \A d \in Caller : permit'[d] # None => permit[d] # None BY <1>2 DEF None
<1> QED BY <1>5, <1>6, <1>7


LEMMA PlacesByLaunch ==
  ASSUME Places, NEW l \in Launch, UNCHANGED chat,
         \A k \in Launch : k # l => at'[k] = at[k] /\ held'[k] = held[k],
         \A d \in Caller : d # l /\ permit'[d] # None => permit[d] # None,
         permit'[l] # None => at'[l] \in {"queued", "resuming"},
         held'[l] # {} => at'[l] \in InFrame, held'[l] \subseteq FlowsOf[l[1]]
  PROVE  Places'
<1>1. /\ \A k \in Launch : k \in Caller
      /\ \A c \in Chats : c \in Caller /\ c # l
  BY GatesAssumption
<1> QED BY <1>1 DEF Places

LEMMA PlacesByChat ==
  ASSUME Places, NEW c \in Chats, UNCHANGED <<at, held>>,
         \A d \in Chats : d # c => chat'[d] = chat[d],
         \A d \in Caller : d # c /\ permit'[d] # None => permit[d] # None,
         permit'[c] # None => chat'[c] = "waiting"
  PROVE  Places'
<1>1. /\ \A k \in Launch : k \in Caller /\ k # c
      /\ \A d \in Chats : d \in Caller
  BY GatesAssumption
<1> QED BY <1>1 DEF Places

LEMMA PlacesStand ==
  ASSUME Places, UNCHANGED <<at, held, chat>>, \A d \in Caller : permit'[d] # None => permit[d] # None
  PROVE  Places'
<1>1. (\A k \in Launch : k \in Caller) /\ \A c \in Chats : c \in Caller BY GatesAssumption
<1> QED BY <1>1 DEF Places

LEMMA LaunchConserves ==
  ASSUME GatesInv, RestTyped, KeysInv, NEW l \in Launch,
         LaunchSteps(l) \/ FrameSteps(l) \/ Park(l) \/ Answer(l) \/ AskMerge(l)
  PROVE  KeysInv'
<1>0. /\ FlowInv /\ PermitTyped /\ Sums /\ Line /\ Places
      /\ held \in [Launch -> SUBSET Flow] /\ at \in [Launch -> Place]
      /\ l \notin Chats /\ l \in Caller /\ l[1] \in Stages /\ FlowsOf[l[1]] \in SUBSET Flow
  BY Named, GatesAssumption DEF GatesInv, RestTyped, LaunchTyped, KeysInv
<1>1. /\ permit[l] # None => at[l] \in {"queued", "resuming"}
      /\ held[l] # {} => at[l] \in InFrame
      /\ held[l] \subseteq FlowsOf[l[1]]
  BY <1>0 DEF Places
<1>2. UNCHANGED chat
  BY DEF LaunchSteps, FrameSteps, AskLease, HasLease, LeaseRefused, StartChild, Reacquire, AskPermit,
           Claim, NotClaimed, Resumed, Merge, Merged, End, Park, Answer, AskMerge
<1>3. \A k \in Flow : Turns(k)' = Turns(k) BY <1>2 DEF Turns
<1>4. Wanted[l] = FlowsOf[l[1]] \ held[l] BY <1>0 DEF Wanted
\* The keys are not touched.
<1>5. ASSUME UNCHANGED <<flowVars, held>>, NEW where, GoesTo(l, where),
             at[l] \notin {"queued", "resuming"}, at[l] \in InFrame => where \in InFrame
      PROVE  KeysInv'
  <2>1. Sums' /\ Line' BY <1>0, <1>3, <1>5, SameSums DEF flowVars
  <2>2. at'[l] = where /\ \A k \in Launch : k # l => at'[k] = at[k] BY <1>0, <1>5 DEF GoesTo
  <2>3. Places' BY <1>0, <1>1, <1>2, <1>5, <2>2, PlacesByLaunch DEF flowVars
  <2> QED BY <2>1, <2>3 DEF KeysInv
<1>6. CASE AskLease(l) \/ HasLease(l) \/ LeaseRefused(l) \/ StartChild(l)
  <2>1. at[l] \in {"launched", "leasing", "admitting"}
    BY <1>6 DEF AskLease, HasLease, LeaseRefused, StartChild
  <2>2. UNCHANGED <<flowVars, held>> /\ \E where : GoesTo(l, where)
    BY <1>6 DEF AskLease, HasLease, LeaseRefused, StartChild
  <2> QED BY <1>5, <2>1, <2>2 DEF InFrame
<1>7. CASE Reacquire(l) \/ Merge(l) \/ Merged(l) \/ AskMerge(l)
  <2>1. at[l] \notin {"queued", "resuming"} BY <1>7 DEF Reacquire, Merge, Merged, AskMerge
  <2>2. UNCHANGED <<flowVars, held>> /\ \E where \in InFrame : GoesTo(l, where)
    BY <1>7 DEF Reacquire, Merge, Merged, AskMerge, InFrame
  <2> QED BY <1>5, <2>1, <2>2
\* It waits.
<1>8. ASSUME NEW where \in {"queued", "resuming"}, WaitFlows(l, Wanted[l], FALSE), GoesTo(l, where),
             UNCHANGED held, held[l] # {} => where \in InFrame
      PROVE  KeysInv'
  <2>1. Wanted[l] \in SUBSET Flow BY <1>0, <1>4
  <2>2. Sums' /\ Line' /\ \A d \in Caller : d # l => permit'[d] = permit[d]
    BY <1>0, <1>3, <1>8, <2>1, WaitSums
  <2>3. at'[l] = where /\ \A k \in Launch : k # l => at'[k] = at[k] BY <1>0, <1>8 DEF GoesTo
  <2>4. Places' BY <1>0, <1>1, <1>2, <1>8, <2>2, <2>3, PlacesByLaunch
  <2> QED BY <2>2, <2>4 DEF KeysInv
<1>9. CASE AskPermit(l)
  <2>1. held[l] = {} BY <1>1, <1>9 DEF AskPermit, InFrame
  <2>2. Wanted[l] = FlowsOf[l[1]] BY <1>4, <2>1
  <2> QED BY <1>8, <1>9, <2>1, <2>2 DEF AskPermit
<1>10. CASE Answer(l) BY <1>4, <1>8, <1>10 DEF Answer, InFrame
\* Its ticket takes the keys.
<1>11. CASE Claim(l) \/ Resumed(l)
  <2>1. /\ PermitSettled(l, "granted") /\ held' = [held EXCEPT ![l] = FlowsOf[l[1]]]
        /\ GoesTo(l, "working")
    BY <1>11 DEF Claim, Resumed
  <2>2. Sums' /\ Line' /\ \A d \in Caller : d # l => permit'[d] = permit[d]
    BY <1>0, <1>1, <1>2, <2>1, TicketSums
  <2>3. /\ at'[l] = "working" /\ held'[l] = FlowsOf[l[1]] /\ permit'[l] = None
        /\ \A k \in Launch : k # l => at'[k] = at[k] /\ held'[k] = held[k]
    BY <1>0, <2>1 DEF GoesTo, PermitSettled, PermitTyped, None
  <2>4. Places' BY <1>0, <1>2, <2>2, <2>3, PlacesByLaunch DEF InFrame
  <2> QED BY <2>2, <2>4 DEF KeysInv
\* It gives keys back.
<1>12. ASSUME NEW where, GoesTo(l, where), NEW left, held' = [held EXCEPT ![l] = left],
              left # {} => where \in InFrame, left \subseteq FlowsOf[l[1]],
              Sums', Line', permit'[l] = None, \A d \in Caller : permit'[d] # None => permit[d] # None
       PROVE  KeysInv'
  <2>1. /\ at'[l] = where /\ held'[l] = left
        /\ \A k \in Launch : k # l => at'[k] = at[k] /\ held'[k] = held[k]
    BY <1>0, <1>12 DEF GoesTo
  <2>2. Places' BY <1>0, <1>2, <1>12, <2>1, PlacesByLaunch
  <2> QED BY <1>12, <2>2 DEF KeysInv
<1>13. CASE Park(l)
  <2>1. PICK keep \in {{}, Kept} :
          Untake(l, held[l] \ keep, None) /\ held' = [held EXCEPT ![l] = held[l] \cap keep]
    BY <1>13 DEF Park
  <2> DEFINE keys == held[l] \ keep
             left == held[l] \cap keep
  <2>2. keys \in SUBSET held[l] /\ left = held[l] \ keys OBVIOUS
  <2>3. permit[l] # "granted" BY <1>1, <1>13 DEF Park, None
  <2>4. Untake(l, keys, None) /\ held' = [held EXCEPT ![l] = left] BY <2>1
  <2>5. left \subseteq FlowsOf[l[1]] BY <1>1
  <2> HIDE DEF keys, left
  <2>6. Sums' /\ Line' /\ permit'[l] = None /\ \A d \in Caller : permit'[d] # None => permit[d] # None
    BY <1>0, <1>2, <2>2, <2>3, <2>4, GivenSums
  <2>7. GoesTo(l, "parked") BY <1>13 DEF Park
  <2> QED BY <1>12, <2>4, <2>5, <2>6, <2>7 DEF InFrame
<1>14. ASSUME permit[l] # "granted", GivesBack(l, held[l]) PROVE KeysInv'
  <2>1. held' = [held EXCEPT ![l] = held[l] \ held[l]] /\ Untake(l, held[l], None) /\ GoesTo(l, "over")
    BY <1>14 DEF GivesBack
  <2>2. held[l] \in SUBSET held[l] OBVIOUS
  <2>3. Sums' /\ Line' /\ permit'[l] = None /\ \A d \in Caller : permit'[d] # None => permit[d] # None
    BY <1>0, <1>2, <1>14, <2>1, <2>2, GivenSums
  <2>4. held' = [held EXCEPT ![l] = {}] BY <2>1
  <2> QED BY <1>12, <2>1, <2>3, <2>4
<1>15. CASE End(l)
  <2>1. permit[l] # "granted" BY <1>1, <1>15 DEF End, Ends, None
  <2> QED BY <1>14, <1>15, <2>1 DEF End
<1>16. CASE NotClaimed(l)
  <2>1. held[l] = {} BY <1>1, <1>16 DEF NotClaimed, InFrame
  <2>2. CASE at[l] = "admitting" /\ GivesBack(l, {})
    <3>1. permit[l] # "granted" BY <1>1, <2>2 DEF None
    <3> QED BY <1>14, <2>1, <2>2, <3>1
  <2>3. CASE permit[l] = "withdrawn" /\ GivesBack(l, {}) BY <1>14, <2>1, <2>3
  <2>4. CASE permit[l] = "granted" /\ GivesBack(l, FlowsOf[l[1]])
    <3>1. held' = [held EXCEPT ![l] = {}] /\ Untake(l, FlowsOf[l[1]], None) /\ GoesTo(l, "over")
      BY <2>4 DEF GivesBack
    <3>2. Sums' /\ Line' /\ permit'[l] = None /\ \A d \in Caller : permit'[d] # None => permit[d] # None
      BY <1>0, <1>2, <2>1, <2>4, <3>1, UnclaimedSums
    <3> QED BY <1>12, <3>1, <3>2
  <2> QED BY <1>16, <2>2, <2>3, <2>4 DEF NotClaimed
<1> QED BY <1>6, <1>7, <1>9, <1>10, <1>11, <1>13, <1>15, <1>16 DEF LaunchSteps, FrameSteps

LEMMA StageConserves ==
  ASSUME GatesInv, WorkInv, RestTyped, KeysInv, NEW s \in Stages,
         Admit(s) \/ Pause(s) \/ Resume(s) \/ Timeout(s)
  PROVE  KeysInv'
<1>0. FlowInv /\ PermitTyped /\ Sums /\ Line /\ Places BY DEF GatesInv, RestTyped, KeysInv
<1>1. CASE Admit(s)
  <2> DEFINE l == <<s, stage[s].no + 1>>
  <2>1. l \in Launch /\ GoesTo(l, "launched") /\ UNCHANGED <<flowVars, held, chat>> /\ l[1] = s
        /\ l[2] = stage[s].no + 1
    BY <1>1 DEF Admit
  <2>2. at[l] = None
    <3>1. stage[s].no \in Nat BY DEF WorkInv, WorkType
    <3> QED BY <2>1, <3>1 DEF WorkInv, Unborn
  <2> HIDE DEF l
  <2>3. Sums' /\ Line'
    <3>1. \A k \in Flow : Turns(k)' = Turns(k) BY <2>1 DEF Turns
    <3> QED BY <1>0, <2>1, <3>1, SameSums DEF flowVars
  <2>4. permit[l] = None /\ held[l] = {} BY <1>0, <2>1, <2>2 DEF Places, InFrame, None
  <2>5. \A k \in Launch : k # l => at'[k] = at[k] BY <2>1 DEF GoesTo, RestTyped, LaunchTyped
  <2>6. Places' BY <1>0, <2>1, <2>4, <2>5, PlacesByLaunch DEF flowVars
  <2> QED BY <2>3, <2>6 DEF KeysInv
<1>2. CASE Pause(s) \/ Resume(s) \/ Timeout(s)
  <2>1. UNCHANGED <<at, held, chat>> BY <1>2 DEF Pause, Resume, Timeout, launchVars
  <2>2. UNCHANGED flowVars \/ \E c : WithdrawFlow(c) BY <1>2 DEF Pause, Resume, Timeout, StopStage, Abort
  <2>3. Sums' /\ Line' /\ \A d \in Caller : permit'[d] # None => permit[d] # None
    <3>1. CASE UNCHANGED flowVars
      <4>1. \A k \in Flow : Turns(k)' = Turns(k) BY <2>1 DEF Turns
      <4> QED BY <1>0, <2>1, <3>1, <4>1, SameSums DEF flowVars
    <3> QED BY <1>0, <2>1, <2>2, <3>1, WithdrawnSums
  <2>4. Places' BY <1>0, <2>1, <2>3, PlacesStand
  <2> QED BY <2>3, <2>4 DEF KeysInv
<1> QED BY <1>1, <1>2

LEMMA ChatConserves ==
  ASSUME GatesInv, RestTyped, KeysInv, NEW c \in Chats,
         AskTurn(c) \/ TryTurn(c) \/ ChatSteps(c) \/ GiveUp(c)
  PROVE  KeysInv'
<1>0. /\ FlowInv /\ PermitTyped /\ Sums /\ Line /\ Places
      /\ c \in Caller /\ FlowsOf[c] \in SUBSET Flow /\ Wanted[c] = FlowsOf[c]
      /\ chat \in [Chats -> {"idle", "waiting", "turn"}]
      /\ permit[c] # None => chat[c] = "waiting"
  BY Named DEF GatesInv, RestTyped, KeysInv, Wanted, ChatTyped, Places
<1>1. UNCHANGED <<at, held>>
  BY DEF AskTurn, TryTurn, ChatSteps, Turn, GivenUp, TurnEnds, GiveUp, launchVars
<1>2. Wanted' = Wanted /\ \A k \in Flow : Holds(k)' = Holds(k) BY <1>1 DEF Wanted, Holds
<1>3. ASSUME chat'[c] # "turn", chat[c] # "turn", \A d \in Chats : d # c => chat'[d] = chat[d]
      PROVE  \A k \in Flow : Turns(k)' = Turns(k)
  BY <1>3 DEF Turns
<1>4. CASE AskTurn(c)
  <2>1. chat'[c] = "waiting" /\ chat[c] = "idle" /\ \A d \in Chats : d # c => chat'[d] = chat[d]
    BY <1>0, <1>4 DEF AskTurn
  <2>2. Sums' /\ Line' /\ \A d \in Caller : d # c => permit'[d] = permit[d]
    BY <1>0, <1>1, <1>3, <1>4, <2>1, WaitSums DEF AskTurn
  <2>3. Places' BY <1>0, <1>1, <2>1, <2>2, PlacesByChat
  <2> QED BY <2>2, <2>3 DEF KeysInv
<1>5. CASE TryTurn(c)
  <2>1. /\ chat'[c] = "turn" /\ chat[c] = "idle" /\ \A d \in Chats : d # c => chat'[d] = chat[d]
        /\ flowRunning' = Take(FlowsOf[c]) /\ permit' = permit /\ flowWaiters' = flowWaiters
    BY <1>0, <1>5 DEF TryTurn, TryAcquire
  <2>2. ASSUME NEW k \in Flow
        PROVE  Sum(flowRunning'[k], Holds(k)', Turns(k)', Users(permit', Wanted', k))
    <3>1. Sum(flowRunning[k], Holds(k), Turns(k), Users(permit, Wanted, k)) BY <1>0 DEF Sums
    <3>2. CASE k \in FlowsOf[c]
      <4>1. c \notin Turns(k) /\ Turns(k)' = Turns(k) \cup {c} BY <2>1, <3>2 DEF Turns
      <4>2. Sum(flowRunning[k] + 1, Holds(k), Turns(k) \cup {c}, Users(permit, Wanted, k))
        BY <3>1, <4>1, SumMore
      <4>3. flowRunning'[k] = flowRunning[k] + 1 BY <2>1, <3>2 DEF Take
      <4> QED BY <1>2, <2>1, <4>1, <4>2, <4>3
    <3>3. CASE k \notin FlowsOf[c]
      <4>1. Turns(k)' = Turns(k) BY <2>1, <3>3 DEF Turns
      <4>2. flowRunning'[k] = flowRunning[k] BY <2>1, <3>3 DEF Take
      <4> QED BY <1>2, <2>1, <3>1, <4>1, <4>2
    <3> QED BY <3>2, <3>3
  <2>3. Sums' /\ Line' BY <1>0, <1>2, <2>1, <2>2 DEF Sums, Line
  <2>4. permit[c] = None BY <1>0, <2>1
  <2>5. Places' BY <1>0, <1>1, <2>1, <2>4, PlacesByChat
  <2> QED BY <2>3, <2>5 DEF KeysInv
<1>6. CASE Turn(c)
  <2>1. /\ permit[c] = "granted" /\ chat[c] = "waiting" /\ chat'[c] = "turn"
        /\ permit' = [permit EXCEPT ![c] = "none"] /\ flowRunning' = flowRunning
        /\ flowWaiters' = flowWaiters /\ \A d \in Chats : d # c => chat'[d] = chat[d]
    BY <1>0, <1>6 DEF Turn, PermitSettled
  <2>2. \A d \in Caller : permit'[d] = IF d = c THEN "none" ELSE permit[d] BY <1>0, <2>1 DEF PermitTyped
  <2>3. ASSUME NEW k \in Flow
        PROVE  Sum(flowRunning'[k], Holds(k)', Turns(k)', Users(permit', Wanted', k))
    <3>1. Sum(flowRunning[k], Holds(k), Turns(k), Users(permit, Wanted, k)) BY <1>0 DEF Sums
    <3>2. Users(permit', Wanted', k) = Users(permit, Wanted, k) \ {c} BY <1>2, <2>2 DEF Users
    <3>3. c \in Users(permit, Wanted, k) <=> k \in FlowsOf[c] BY <1>0, <2>1 DEF Users
    <3>4. CASE k \in FlowsOf[c]
      <4>1. c \notin Turns(k) /\ Turns(k)' = Turns(k) \cup {c} BY <2>1, <3>4 DEF Turns
      <4>2. Sum(flowRunning[k], Holds(k), Turns(k) \cup {c}, Users(permit, Wanted, k) \ {c})
        BY <3>1, <3>3, <3>4, <4>1, SumMoves
      <4> QED BY <1>2, <2>1, <3>2, <4>1, <4>2
    <3>5. CASE k \notin FlowsOf[c]
      <4>1. Turns(k)' = Turns(k) BY <2>1, <3>5 DEF Turns
      <4>2. Users(permit', Wanted', k) = Users(permit, Wanted, k) BY <3>2, <3>3, <3>5
      <4> QED BY <1>2, <2>1, <3>1, <4>1, <4>2
    <3> QED BY <3>4, <3>5
  <2>4. Line' BY <1>0, <1>2, <2>1, LineSettles
  <2>5. Places' BY <1>0, <1>1, <2>1, <2>2, PlacesByChat DEF None
  <2> QED BY <2>3, <2>4, <2>5 DEF KeysInv, Sums
<1>7. CASE GivenUp(c)
  <2>1. /\ permit[c] = "withdrawn" /\ chat[c] = "waiting" /\ chat'[c] = "idle"
        /\ permit' = [permit EXCEPT ![c] = "none"] /\ flowRunning' = flowRunning
        /\ flowWaiters' = flowWaiters /\ \A d \in Chats : d # c => chat'[d] = chat[d]
    BY <1>0, <1>7 DEF GivenUp, PermitSettled
  <2>2. \A d \in Caller : permit'[d] = IF d = c THEN "none" ELSE permit[d] BY <1>0, <2>1 DEF PermitTyped
  <2>3. \A k \in Flow : Users(permit', Wanted', k) = Users(permit, Wanted, k)
    BY <1>2, <2>1, <2>2 DEF Users
  <2>4. \A k \in Flow : Turns(k)' = Turns(k) BY <1>3, <2>1
  <2>5. Sums' BY <1>0, <1>2, <2>1, <2>3, <2>4 DEF Sums
  <2>6. Line' BY <1>0, <1>2, <2>1, LineSettles
  <2>7. Places' BY <1>0, <1>1, <2>1, <2>2, PlacesByChat DEF None
  <2> QED BY <2>5, <2>6, <2>7 DEF KeysInv
<1>8. CASE TurnEnds(c)
  <2>1. /\ chat[c] = "turn" /\ chat'[c] = "idle" /\ \A d \in Chats : d # c => chat'[d] = chat[d]
        /\ Untake(c, FlowsOf[c], None)
    BY <1>0, <1>8 DEF TurnEnds
  <2>2. permit[c] = None BY <1>0, <2>1
  <2>3. ASSUME NEW k \in Flow
        PROVE  Sum(Given(flowRunning, FlowsOf[c])[k], Holds(k)', Turns(k)',
                   Users([permit EXCEPT ![c] = None], Wanted', k))
    <3>1. Sum(flowRunning[k], Holds(k), Turns(k), Users(permit, Wanted, k)) BY <1>0 DEF Sums
    <3>2. Users([permit EXCEPT ![c] = None], Wanted', k) = Users(permit, Wanted, k)
      BY <1>0, <1>2, <2>2 DEF Users, PermitTyped, None
    <3>3. CASE k \in FlowsOf[c]
      <4>1. c \in Turns(k) /\ Turns(k)' = Turns(k) \ {c} BY <2>1, <3>3 DEF Turns
      <4>2. /\ flowRunning[k] > 0
            /\ Sum(flowRunning[k] - 1, Holds(k), Turns(k) \ {c}, Users(permit, Wanted, k))
        BY <3>1, <4>1, SumLess
      <4>3. Given(flowRunning, FlowsOf[c])[k] = flowRunning[k] - 1 BY <3>3, <4>2 DEF Given
      <4> QED BY <1>2, <3>2, <4>1, <4>2, <4>3
    <3>4. CASE k \notin FlowsOf[c]
      <4>1. Turns(k)' = Turns(k) BY <2>1, <3>4 DEF Turns
      <4>2. Given(flowRunning, FlowsOf[c])[k] = flowRunning[k] BY <3>4 DEF Given
      <4> QED BY <1>2, <3>1, <3>2, <4>1, <4>2
    <3> QED BY <3>3, <3>4
  <2>4. Sums' /\ Line' /\ permit'[c] = None /\ \A d \in Caller : permit'[d] # None => permit[d] # None
    BY <1>0, <1>2, <2>1, <2>3, UntakeSums
  <2>5. Places' BY <1>0, <1>1, <2>1, <2>4, PlacesByChat
  <2> QED BY <2>4, <2>5 DEF KeysInv
<1>9. CASE GiveUp(c)
  <2>1. WithdrawFlow(c) /\ UNCHANGED chat BY <1>9 DEF GiveUp
  <2>2. Sums' /\ Line' /\ \A d \in Caller : permit'[d] # None => permit[d] # None
    BY <1>0, <1>1, <2>1, WithdrawnSums
  <2>3. Places' BY <1>0, <1>1, <2>1, <2>2, PlacesStand
  <2> QED BY <2>2, <2>3 DEF KeysInv
<1> QED BY <1>4, <1>5, <1>6, <1>7, <1>8, <1>9 DEF ChatSteps

LEMMA StandConserves == ASSUME KeysInv, UNCHANGED <<flowVars, at, held, chat>> PROVE KeysInv'
<1>1. \A k \in Flow : Turns(k)' = Turns(k) BY DEF Turns
<1>2. Sums' /\ Line' BY <1>1, SameSums DEF KeysInv, flowVars
<1>3. Places' BY PlacesStand DEF KeysInv, flowVars
<1> QED BY <1>2, <1>3 DEF KeysInv

LEMMA LimitsConserve == ASSUME GatesInv, KeysInv, NEW new, SetLimits(new) PROVE KeysInv'
<1>0. /\ flowRunning \in [Flow -> Nat] /\ flowWaiters \in Seq(Waiter) /\ Sums /\ Line /\ Places
      /\ PumpFlows(flowRunning, new, flowWaiters, permit) /\ UNCHANGED <<at, held, chat>>
  BY DEF GatesInv, FlowInv, KeysInv, SetLimits, SetFlowLimits, launchVars
<1>1. Wanted' = Wanted /\ \A k \in Flow : Holds(k)' = Holds(k) /\ Turns(k)' = Turns(k)
  BY <1>0 DEF Wanted, Holds, Turns
<1>2. /\ LineOf(flowWaiters', permit', Wanted)
      /\ \A k \in Flow : \A H, T : Sum(flowRunning[k], H, T, Users(permit, Wanted, k))
                                     => Sum(flowRunning'[k], H, T, Users(permit', Wanted, k))
      /\ \A c \in Caller : permit'[c] = permit[c] \/ (permit[c] = "waiting" /\ permit'[c] = "granted")
  BY <1>0, PumpSums DEF Line
<1>3. Sums' BY <1>0, <1>1, <1>2 DEF Sums
<1>4. Places' BY <1>0, <1>2, PlacesStand DEF None
<1> QED BY <1>1, <1>2, <1>3, <1>4 DEF KeysInv, Line

\* Nobody holds and nobody waits: at first, and after a crash.
Untaken ==
  /\ flowRunning = [k \in Flow |-> 0] /\ flowWaiters = <<>> /\ permit = [c \in Caller |-> None]
  /\ held = [l \in Launch |-> {}] /\ chat = [c \in Chats |-> "idle"]

LEMMA NothingTaken == Untaken => KeysInv
<1> SUFFICES ASSUME Untaken PROVE KeysInv OBVIOUS
<1>1. ASSUME NEW k \in Flow PROVE Sum(flowRunning[k], Holds(k), Turns(k), Users(permit, Wanted, k))
  <2>1. Holds(k) = {} /\ Turns(k) = {} /\ Users(permit, Wanted, k) = {}
    BY DEF Untaken, Holds, Turns, Users, None
  <2>2. IsFiniteSet({}) /\ Cardinality({}) = 0 BY FS_EmptySet
  <2>3. flowRunning[k] = 0 BY DEF Untaken
  <2> QED BY <2>1, <2>2, <2>3 DEF Sum
<1>2. Line BY DEF Untaken, Line, LineOf, Distinct
<1>3. (\A l \in Launch : l \in Caller) /\ \A c \in Chats : c \in Caller BY GatesAssumption
<1> QED BY <1>1, <1>2, <1>3 DEF Untaken, KeysInv, Sums, Places

LEMMA StepConserves == GatesInv /\ WorkInv /\ RestTyped /\ KeysInv /\ [Next]_vars => KeysInv'
<1> SUFFICES ASSUME GatesInv, WorkInv, RestTyped, KeysInv, [Next]_vars PROVE KeysInv' OBVIOUS
<1>1. CASE \E s \in Stages : Admit(s) \/ Pause(s) \/ Resume(s) \/ Timeout(s) BY <1>1, StageConserves
<1>2. CASE \E l \in Launch : LaunchSteps(l) \/ FrameSteps(l) \/ Park(l) \/ Answer(l) \/ AskMerge(l)
  BY <1>2, LaunchConserves
<1>3. CASE \E m \in Maps : MapStart(m) \/ MapSteps(m) \/ AskMapMerge(m) \/ MapSettle(m)
  <2>1. UNCHANGED <<flowVars, at, held, chat>>
    BY <1>3 DEF MapSteps, MapStart, AskSnapshot, TakeSnapshot, SnapshotTaken, MapMerge, MapMerged,
         AskMapMerge, MapSettle, launchVars
  <2> QED BY <2>1, StandConserves
<1>4. CASE \E c \in Chats : AskTurn(c) \/ TryTurn(c) \/ ChatSteps(c) \/ GiveUp(c) BY <1>4, ChatConserves
<1>5. CASE \E new \in Limits : SetLimits(new) BY <1>5, LimitsConserve
<1>6. CASE Crash
  <2>1. Untaken' BY <1>6 DEF Crash, Untaken
  <2> QED BY <2>1, NothingTaken, PTL
<1>7. CASE UNCHANGED vars
  <2>1. UNCHANGED <<flowVars, at, held, chat>> BY <1>7 DEF vars, launchVars
  <2> QED BY <2>1, StandConserves
<1> QED BY <1>1, <1>2, <1>3, <1>4, <1>5, <1>6, <1>7 DEF Next

\* A flow key counts as taken as often as somebody has it: a ticket, a turn, or a
\* wait that was granted and has not gone on (admitFlows, flowGate); through gates
\* that give some keys back, resumes, withdrawals and changes of the limits.
THEOREM PermitsKept == Spec => []PermitsConserved
<1>1. Init => KeysInv BY NothingTaken DEF Init, FlowsInit, LeasesInit, Untaken, None
<1>2. KeysInv => PermitsConserved
  <2> SUFFICES ASSUME KeysInv, NEW k \in Flow
               PROVE  flowRunning[k] =
                        Cardinality({l \in Launch : k \in held[l]})
                        + Cardinality({c \in Chats : chat[c] = "turn" /\ k \in FlowsOf[c]})
                        + Cardinality({c \in Launch \cup Chats : permit[c] = "granted" /\
                                         k \in IF c \in Chats THEN FlowsOf[c] ELSE FlowsOf[c[1]] \ held[c]})
    BY DEF PermitsConserved
  <2>1. flowRunning[k] = Cardinality(Holds(k)) + Cardinality(Turns(k))
                         + Cardinality(Users(permit, Wanted, k))
    BY DEF KeysInv, Sums, Sum
  <2>2. Users(permit, Wanted, k) =
          {c \in Launch \cup Chats : permit[c] = "granted" /\
             k \in IF c \in Chats THEN FlowsOf[c] ELSE FlowsOf[c[1]] \ held[c]}
    BY GatesAssumption DEF Users, Wanted
  <2> QED BY <2>1, <2>2 DEF Holds, Turns
<1>3. Spec => []RestTyped BY InitTypes, StepTypes, PTL DEF Spec
<1> QED BY <1>1, <1>2, <1>3, StepConserves, GatesKept, WorkKept, PTL DEF Spec

=============================================================================
