--------------------------- MODULE Delivery_proofs ---------------------------
(* For any number of events, clients, failures and crashes, and any capacity of *)
(* the writer: the outbox of a run keeps its promise.  The inductive invariant  *)
(* says that an event that is marked is on the stream, that the drain goes over *)
(* what is not marked in order, and that at most one row of the run is with the *)
(* writer: the event the drain waits for.                                       *)
EXTENDS Delivery, Positions_proofs, SequenceTheorems

NoneOfRun(q) == \A i \in DOMAIN q : ~OfRun(q[i])

OnlyOfRun(q, n) ==
  \A i \in DOMAIN q :
    OfRun(q[i]) => q[i] \cap RunEvents = {n} /\ \A j \in DOMAIN q : OfRun(q[j]) => i = j

OutboxType ==
  /\ emitted \in 0..MaxEmits /\ marked \in SUBSET (1..emitted)
  /\ pending \in Seq(SUBSET Event) /\ log \in Seq(SUBSET Event)
  /\ batch \in Seq(1..emitted)

\* What comes before an event of the batch is on the stream, or ahead in the batch.
InTurnOf(b, on) ==
  \A k \in DOMAIN b : \A m \in 1..(b[k] - 1) : m \in on \/ \E j \in 1..(k - 1) : b[j] = m

OutboxInv ==
  /\ OutboxType
  /\ marked \subseteq Streamed
  /\ InTurnOf(batch, Streamed)
  /\ drain \in {"writing", "fanning", "emitting", "refused"} => batch # <<>>
  /\ drain # "writing" => NoneOfRun(pending)
  /\ drain = "writing" => OnlyOfRun(pending, Head(batch))
  /\ drain \in {"fanning", "emitting"} => Head(batch) \in Streamed

-----------------------------------------------------------------------------
(* The writer's queue.                                                          *)

LEMMA Kinds ==
  /\ \A e \in Event : ~OfRun({e}) \/ e \in RunEvents
  /\ \A e \in Bridge : ~OfRun({e}) /\ e \in Event
  /\ \A n \in RunEvents : {n} \cap RunEvents = {n} /\ n \in Event
  /\ \A row : IsDelta(row) => ~OfRun(row)
BY DeliveryAssumption DEF OfRun, RunEvents, IsDelta

LEMMA FirstIsOne ==
  ASSUME NEW q \in Seq(SUBSET Event), NEW S \in SUBSET DOMAIN q, S # {}
  PROVE  First(S) \in S
<1>1. DOMAIN q = 1..Len(q) /\ Len(q) \in Nat OBVIOUS
<1>2. S \in SUBSET Nat /\ S \in SUBSET (1..Len(q)) BY <1>1
<1>3. IsFiniteSet(S)
  <2>1. IsFiniteSet(1..Len(q)) BY <1>1, FS_Interval
  <2> QED BY <1>2, <2>1, FS_Subset
<1>4. /\ Cardinality(S) \in Nat
      /\ Ascending(S) \in [1..Cardinality(S) -> S]
      /\ \A i, j \in 1..Cardinality(S) : i < j => Ascending(S)[i] < Ascending(S)[j]
      /\ \A n \in S : \E i \in 1..Cardinality(S) : Ascending(S)[i] = n
  BY <1>2, <1>3, AscendingLists
<1>5. 1 \in 1..Cardinality(S) BY <1>4
<1> DEFINE first == Ascending(S)[1]
<1>6. first \in S BY <1>4, <1>5
<1>7. ASSUME NEW n \in S PROVE first <= n
  <2>1. PICK i \in 1..Cardinality(S) : Ascending(S)[i] = n BY <1>4
  <2>2. i = 1 \/ 1 < i BY <1>4
  <2>3. first \in Nat /\ n \in Nat BY <1>2, <1>6
  <2> QED BY <1>4, <1>5, <2>1, <2>2, <2>3
<1> HIDE DEF first
<1> QED BY <1>6, <1>7 DEF First

LEMMA WithoutOne ==
  ASSUME NEW q \in Seq(SUBSET Event), NEW r \in DOMAIN q
  PROVE  /\ Without(q, r) \in Seq(SUBSET Event)
         /\ DOMAIN Without(q, r) = 1..(Len(q) - 1)
         /\ \A i \in DOMAIN Without(q, r) : Without(q, r)[i] = IF i < r THEN q[i] ELSE q[i + 1]
<1>1. Len(q) \in Nat /\ r \in 1..Len(q) OBVIOUS
<1> DEFINE x == SubSeq(q, 1, r - 1)
           y == SubSeq(q, r + 1, Len(q))
<1>2. x \in Seq(SUBSET Event) /\ Len(x) = r - 1 /\ \A i \in 1..(r - 1) : x[i] = q[i]
  BY <1>1, SubSeqProperties
<1>3. y \in Seq(SUBSET Event) /\ Len(y) = Len(q) - r /\ \A i \in 1..(Len(q) - r) : y[i] = q[r + i]
  BY <1>1, SubSeqProperties
<1>4. Without(q, r) = x \o y BY DEF Without
<1> HIDE DEF x, y
<1>5. /\ x \o y \in Seq(SUBSET Event) /\ Len(x \o y) = Len(x) + Len(y)
      /\ \A i \in 1..(Len(x) + Len(y)) : (x \o y)[i] = IF i <= Len(x) THEN x[i] ELSE y[i - Len(x)]
  BY <1>2, <1>3, ConcatProperties
<1>6. Len(x) + Len(y) = Len(q) - 1 BY <1>1, <1>2, <1>3
<1>7. ASSUME NEW i \in 1..(Len(q) - 1) PROVE (x \o y)[i] = IF i < r THEN q[i] ELSE q[i + 1]
  <2>1. CASE i < r BY <1>1, <1>2, <1>5, <1>6, <2>1
  <2>2. CASE ~(i < r)
    <3>0. i \in 1..(Len(x) + Len(y)) /\ ~(i <= Len(x)) /\ Len(x) = r - 1 BY <1>1, <1>2, <1>6, <2>2
    <3>1. (x \o y)[i] = y[i - (r - 1)] BY <1>5, <3>0
    <3>2. i - (r - 1) \in 1..(Len(q) - r) /\ r + (i - (r - 1)) = i + 1 BY <1>1, <2>2
    <3> QED BY <1>3, <2>2, <3>1, <3>2
  <2> QED BY <2>1, <2>2
<1>8. DOMAIN (x \o y) = 1..(Len(q) - 1) BY <1>5, <1>6
<1> QED BY <1>4, <1>5, <1>7, <1>8

\* A row less: the rows of the run stay, at most.
LEMMA WithoutKeeps ==
  ASSUME NEW q \in Seq(SUBSET Event), NEW r \in DOMAIN q
  PROVE  /\ NoneOfRun(q) => NoneOfRun(Without(q, r))
         /\ \A n : OnlyOfRun(q, n) => OnlyOfRun(Without(q, r), n)
<1> DEFINE p == Without(q, r)
           f(i) == IF i < r THEN i ELSE i + 1
<1>1. DOMAIN p = 1..(Len(q) - 1) /\ DOMAIN q = 1..Len(q) /\ Len(q) \in Nat BY WithoutOne
<1>2. ASSUME NEW i \in DOMAIN p PROVE f(i) \in DOMAIN q /\ p[i] = q[f(i)]
  <2>1. p[i] = IF i < r THEN q[i] ELSE q[i + 1] BY WithoutOne
  <2>2. i \in DOMAIN q /\ i + 1 \in DOMAIN q BY <1>1
  <2> QED BY <2>1, <2>2
<1>3. \A i, j \in DOMAIN p : f(i) = f(j) => i = j BY <1>1
<1> HIDE DEF p, f
<1>4. NoneOfRun(q) => NoneOfRun(p) BY <1>2 DEF NoneOfRun
<1>5. \A n : OnlyOfRun(q, n) => OnlyOfRun(p, n) BY <1>2, <1>3 DEF OnlyOfRun
<1> QED BY <1>4, <1>5 DEF p

\* Making room takes and folds deltas only.
LEMMA MadeRoomKeeps ==
  ASSUME pending \in Seq(SUBSET Event), HasRoom
  PROVE  /\ MadeRoom \in Seq(SUBSET Event)
         /\ NoneOfRun(pending) => NoneOfRun(MadeRoom)
         /\ \A n : OnlyOfRun(pending, n) => OnlyOfRun(MadeRoom, n)
<1>1. CASE Len(pending) < MaxPending BY <1>1 DEF MadeRoom
<1>2. CASE ~(Len(pending) < MaxPending) /\ Foldable # {}
  <2> DEFINE i == First(Foldable)
             q == [pending EXCEPT ![i + 1] = @ \cup pending[i]]
  <2>1. Foldable \in SUBSET DOMAIN pending BY DEF Foldable, Deltas
  <2>2. i \in Foldable BY <1>2, <2>1, FirstIsOne
  <2>3. i \in DOMAIN pending /\ i + 1 \in DOMAIN pending /\ IsDelta(pending[i]) /\ IsDelta(pending[i + 1])
    BY <2>2 DEF Foldable, Deltas
  <2>4. MadeRoom = Without(q, i) BY <1>2 DEF MadeRoom
  <2> HIDE DEF i
  <2>5. q \in Seq(SUBSET Event) /\ DOMAIN q = DOMAIN pending BY <2>3
  <2>6. \A j \in DOMAIN pending : q[j] = pending[j] \/ (~OfRun(q[j]) /\ ~OfRun(pending[j]))
    <3>1. IsDelta(pending[i + 1] \cup pending[i]) BY <2>3 DEF IsDelta
    <3>2. ~OfRun(pending[i + 1]) /\ ~OfRun(pending[i + 1] \cup pending[i]) BY <2>3, <3>1, Kinds
    <3> QED BY <2>3, <3>2
  <2> HIDE DEF q
  <2>7. NoneOfRun(pending) => NoneOfRun(q) BY <2>5, <2>6 DEF NoneOfRun
  <2>8. \A n : OnlyOfRun(pending, n) => OnlyOfRun(q, n) BY <2>5, <2>6 DEF OnlyOfRun
  <2>9. i \in DOMAIN q BY <2>3, <2>5
  <2> QED BY <2>4, <2>5, <2>7, <2>8, <2>9, WithoutOne, WithoutKeeps
<1>3. CASE ~(Len(pending) < MaxPending) /\ Foldable = {}
  <2>1. Deltas # {} BY <1>3 DEF HasRoom
  <2>2. Deltas \in SUBSET DOMAIN pending BY DEF Deltas
  <2>3. First(Deltas) \in DOMAIN pending BY <2>1, <2>2, FirstIsOne
  <2>4. MadeRoom = Without(pending, First(Deltas)) BY <1>3 DEF MadeRoom
  <2> QED BY <2>3, <2>4, WithoutOne, WithoutKeeps
<1> QED BY <1>1, <1>2, <1>3

LEMMA AppendKeeps ==
  ASSUME NEW q \in Seq(SUBSET Event), NEW e \in Event
  PROVE  /\ Append(q, {e}) \in Seq(SUBSET Event)
         /\ e \in RunEvents /\ NoneOfRun(q) => OnlyOfRun(Append(q, {e}), e)
         /\ e \in Bridge /\ NoneOfRun(q) => NoneOfRun(Append(q, {e}))
         /\ e \in Bridge => \A n : OnlyOfRun(q, n) => OnlyOfRun(Append(q, {e}), n)
<1> DEFINE p == Append(q, {e})
<1>1. /\ p \in Seq(SUBSET Event) /\ DOMAIN p = 1..(Len(q) + 1) /\ DOMAIN q = 1..Len(q) /\ Len(q) \in Nat
      /\ \A i \in DOMAIN p : p[i] = IF i \in DOMAIN q THEN q[i] ELSE {e}
      /\ \A i \in DOMAIN p : i \in DOMAIN q \/ i = Len(q) + 1
  OBVIOUS
<1> HIDE DEF p
<1>2. e \in RunEvents /\ NoneOfRun(q) => OnlyOfRun(p, e) BY <1>1, Kinds DEF OnlyOfRun, NoneOfRun
<1>3. e \in Bridge /\ NoneOfRun(q) => NoneOfRun(p) BY <1>1, Kinds DEF NoneOfRun
<1>4. e \in Bridge => \A n : OnlyOfRun(q, n) => OnlyOfRun(p, n)
  <2> SUFFICES ASSUME e \in Bridge, NEW n, OnlyOfRun(q, n) PROVE OnlyOfRun(p, n) OBVIOUS
  <2>1. \A i \in DOMAIN p : OfRun(p[i]) => i \in DOMAIN q /\ p[i] = q[i] BY <1>1, Kinds
  <2> QED BY <2>1 DEF OnlyOfRun
<1> QED BY <1>1, <1>2, <1>3, <1>4 DEF p

LEMMA TailKeeps ==
  ASSUME NEW q \in Seq(SUBSET Event), q # <<>>
  PROVE  /\ Tail(q) \in Seq(SUBSET Event) /\ Head(q) \in SUBSET Event
         /\ NoneOfRun(q) => ~OfRun(Head(q)) /\ NoneOfRun(Tail(q))
         /\ \A n : OnlyOfRun(q, n) => OnlyOfRun(Tail(q), n)
         /\ \A n : OnlyOfRun(q, n) /\ OfRun(Head(q)) =>
              Head(q) \cap RunEvents = {n} /\ NoneOfRun(Tail(q))
<1> DEFINE p == Tail(q)
<1>1. /\ p \in Seq(SUBSET Event) /\ DOMAIN p = 1..(Len(q) - 1) /\ DOMAIN q = 1..Len(q)
      /\ Len(q) \in Nat /\ Len(q) > 0 /\ Head(q) = q[1] /\ 1 \in DOMAIN q
      /\ \A i \in DOMAIN p : p[i] = q[i + 1] /\ i + 1 \in DOMAIN q /\ i + 1 # 1
  OBVIOUS
<1> HIDE DEF p
<1>2. q[1] \in SUBSET Event BY <1>1
<1>3. NoneOfRun(q) => ~OfRun(Head(q)) /\ NoneOfRun(p) BY <1>1 DEF NoneOfRun
<1>4. \A i, j \in DOMAIN p : i + 1 = j + 1 => i = j BY <1>1
<1>5. \A n : OnlyOfRun(q, n) => OnlyOfRun(p, n) BY <1>1, <1>4 DEF OnlyOfRun
<1>6. \A n : OnlyOfRun(q, n) /\ OfRun(Head(q)) => Head(q) \cap RunEvents = {n} /\ NoneOfRun(p)
  BY <1>1 DEF OnlyOfRun, NoneOfRun
<1> QED BY <1>1, <1>2, <1>3, <1>5, <1>6 DEF p

-----------------------------------------------------------------------------
(* The steps.                                                                   *)

Repeats == UNCHANGED <<emitted, Streamed, marked>>

LEMMA SameStream == UNCHANGED log => Streamed' = Streamed
BY DEF Streamed

LEMMA EmptyType == /\ \A S : <<>> \in Seq(S) /\ \A on : InTurnOf(<<>>, on)
BY DEF InTurnOf

\* The outbox's variables and the rows stay.
LEMMA OutboxStands ==
  ASSUME OutboxInv, UNCHANGED <<pending, log, emitted, marked, drain, batch>>
  PROVE  OutboxInv' /\ Repeats
<1>1. Streamed' = Streamed BY SameStream
<1> QED BY <1>1 DEF OutboxInv, OutboxType, Repeats

\* A drain that ends, or was none, with the rows as they are.
LEMMA DrainOver ==
  ASSUME OutboxInv, UNCHANGED <<pending, log, emitted, marked>>, batch' = <<>>,
         drain # "writing", drain' \in {"idle", "listing", "rejected"}
  PROVE  OutboxInv' /\ Repeats
<1>1. Streamed' = Streamed BY SameStream
<1> QED BY <1>1, EmptyType DEF OutboxInv, OutboxType, Repeats

\* A kick begins a drain where there is none; an event more may be committed.
LEMMA KickKeeps ==
  ASSUME OutboxInv, Kick, UNCHANGED <<pending, log, marked, batch>>,
         emitted' = emitted \/ (emitted' = emitted + 1 /\ emitted < MaxEmits)
  PROVE  OutboxInv'
<1>1. Streamed' = Streamed BY SameStream
<1>2. drain' = drain \/ (drain \in {"idle", "rejected"} /\ drain' = "listing") BY DEF Kick
<1>3. emitted \in Nat /\ emitted' \in 0..MaxEmits /\ emitted <= emitted'
  BY DeliveryAssumption DEF OutboxInv, OutboxType
<1>4. 1..emitted \subseteq 1..emitted' BY <1>3
<1>5. batch \in Seq(1..emitted') BY <1>4 DEF OutboxInv, OutboxType
<1>6. OutboxType' BY <1>3, <1>4, <1>5 DEF OutboxInv, OutboxType
<1> QED BY <1>1, <1>2, <1>6 DEF OutboxInv

LEMMA WriteRow ==
  ASSUME OutboxType, NEW e \in Event, HasRoom, Write(e)
  PROVE  /\ pending' \in Seq(SUBSET Event) /\ UNCHANGED log
         /\ e \in RunEvents /\ NoneOfRun(pending) => OnlyOfRun(pending', e)
         /\ e \in Bridge /\ NoneOfRun(pending) => NoneOfRun(pending')
         /\ e \in Bridge => \A n : OnlyOfRun(pending, n) => OnlyOfRun(pending', n)
<1>1. pending' = Append(MadeRoom, {e}) /\ UNCHANGED log BY DEF Write, storeVars
<1>2. /\ MadeRoom \in Seq(SUBSET Event)
      /\ NoneOfRun(pending) => NoneOfRun(MadeRoom)
      /\ \A n : OnlyOfRun(pending, n) => OnlyOfRun(MadeRoom, n)
  BY MadeRoomKeeps DEF OutboxType
<1> QED BY <1>1, <1>2, AppendKeeps

\* An event is given to the writer, or refused.
LEMMA PublishRow ==
  ASSUME OutboxType, NEW n \in RunEvents, NoneOfRun(pending), Publish(n)
  PROVE  /\ pending' \in Seq(SUBSET Event) /\ UNCHANGED log
         /\ \/ drain' = "writing" /\ OnlyOfRun(pending', n)
            \/ drain' = "refused" /\ NoneOfRun(pending')
<1>0. n \in Event BY Kinds
<1>1. CASE HasRoom BY <1>0, <1>1, WriteRow DEF Publish
<1>2. CASE ~HasRoom BY <1>2 DEF Publish, brokerVars, storeVars, OutboxType
<1> QED BY <1>1, <1>2

\* The parts of a sequence that is not empty, and a function that is a sequence.
LEMMA HeadAndRest ==
  ASSUME NEW T, NEW q \in Seq(T), q # <<>>
  PROVE  /\ Head(q) = q[1] /\ Head(q) \in T /\ Tail(q) \in Seq(T)
         /\ Len(q) \in Nat /\ DOMAIN q = 1..Len(q) /\ 1 \in DOMAIN q
         /\ DOMAIN Tail(q) = 1..(Len(q) - 1)
         /\ \A i \in DOMAIN Tail(q) : Tail(q)[i] = q[i + 1] /\ i + 1 \in DOMAIN q
  OBVIOUS

LEMMA FunctionIsSequence ==
  ASSUME NEW T, NEW k \in Nat, NEW b \in [1..k -> T]
  PROVE  b \in Seq(T) /\ Len(b) = k /\ (k # 0 => b # <<>>)
  OBVIOUS

\* The batch of a drain: what is not marked, in order.
LEMMA BatchListed ==
  ASSUME OutboxInv, Pending # {}
  PROVE  /\ Ascending(Pending) \in Seq(1..emitted) /\ Ascending(Pending) # <<>>
         /\ InTurnOf(Ascending(Pending), Streamed)
<1> DEFINE b == Ascending(Pending)
           K == Cardinality(Pending)
<1>1. emitted \in Nat /\ marked \in SUBSET (1..emitted) /\ marked \subseteq Streamed
  BY DEF OutboxInv, OutboxType
<1>2. Pending \in SUBSET (1..emitted) /\ Pending \in SUBSET Nat BY <1>1 DEF Pending
<1>3. IsFiniteSet(Pending)
  <2>1. IsFiniteSet(1..emitted) BY <1>1, FS_Interval
  <2> QED BY <1>2, <2>1, FS_Subset
<1>4. /\ K \in Nat /\ b \in [1..K -> Pending]
      /\ \A i, j \in 1..K : i < j => b[i] < b[j]
      /\ \A n \in Pending : \E i \in 1..K : b[i] = n
  BY <1>2, <1>3, AscendingLists
<1> HIDE DEF K, b
<1>5. b \in [1..K -> 1..emitted] /\ DOMAIN b = 1..K BY <1>2, <1>4
<1>6. b \in Seq(1..emitted) BY <1>4, <1>5, FunctionIsSequence
<1>7. b # <<>>
  <2>1. PICK n \in Pending : TRUE OBVIOUS
  <2>2. K # 0 BY <1>4, <2>1
  <2> QED BY <1>4, <1>5, <2>2, FunctionIsSequence
<1>8. ASSUME NEW k \in DOMAIN b, NEW m \in 1..(b[k] - 1)
      PROVE  m \in Streamed \/ \E j \in 1..(k - 1) : b[j] = m
  <2>1. b[k] \in 1..emitted /\ m \in 1..emitted /\ m < b[k] BY <1>1, <1>5
  <2>2. CASE m \in marked BY <1>1, <2>2
  <2>3. CASE m \notin marked
    <3>1. m \in Pending BY <2>1, <2>3 DEF Pending
    <3>2. PICK j \in 1..K : b[j] = m BY <1>4, <3>1
    <3>3. k \in Nat /\ j \in Nat /\ k \in 1..K BY <1>4, <1>5
    <3>4. ~(k < j) /\ k # j BY <1>1, <1>4, <1>5, <2>1, <3>2, <3>3
    <3>5. j \in 1..(k - 1) BY <3>3, <3>4
    <3> QED BY <3>2, <3>5
  <2> QED BY <2>2, <2>3
<1> QED BY <1>6, <1>7, <1>8 DEF InTurnOf, b

LEMMA ListKeeps == ASSUME OutboxInv, List PROVE OutboxInv' /\ Repeats
<1>1. CASE stopped \/ Pending = {}
  <2>1. /\ UNCHANGED <<pending, log, emitted, marked>> /\ batch' = <<>>
        /\ drain # "writing" /\ drain' \in {"idle", "listing"}
    BY <1>1 DEF List, DrainEnds, brokerVars, storeVars
  <2> QED BY <2>1, DrainOver
<1>2. CASE ~(stopped \/ Pending = {})
  <2>1. /\ batch' = Ascending(Pending) /\ Publish(Head(batch')) /\ UNCHANGED <<emitted, marked>>
        /\ drain = "listing"
    BY <1>2 DEF List
  <2>2. batch' \in Seq(1..emitted) /\ batch' # <<>> /\ InTurnOf(batch', Streamed)
    BY <1>2, <2>1, BatchListed
  <2>3. Head(batch') \in RunEvents BY <2>2, DeliveryAssumption DEF OutboxInv, OutboxType, RunEvents
  <2>4. /\ pending' \in Seq(SUBSET Event) /\ UNCHANGED log
        /\ \/ drain' = "writing" /\ OnlyOfRun(pending', Head(batch'))
           \/ drain' = "refused" /\ NoneOfRun(pending')
    BY <2>1, <2>3, PublishRow DEF OutboxInv
  <2>5. Streamed' = Streamed BY <2>4, SameStream
  <2> QED BY <2>1, <2>2, <2>4, <2>5 DEF OutboxInv, OutboxType, Repeats
<1> QED BY <1>1, <1>2

LEMMA BroadcastKeeps == ASSUME OutboxInv, Broadcast PROVE OutboxInv' /\ Repeats
<1>1. UNCHANGED <<pending, log, emitted, marked, batch>> /\ drain = "fanning" /\ drain' = "emitting"
  BY DEF Broadcast, brokerVars, storeVars
<1>2. Streamed' = Streamed BY <1>1, SameStream
<1> QED BY <1>1, <1>2 DEF OutboxInv, OutboxType, Repeats

\* An event that is marked is on the stream; the next of the batch is in turn.
LEMMA MarkKeeps == ASSUME OutboxInv, Mark PROVE OutboxInv' /\ (Outbox!Mark \/ Repeats)
<1> DEFINE h == Head(batch)
           t == Tail(batch)
<1>1. /\ marked' = marked \cup {h} /\ batch' = t /\ emitted' = emitted /\ drain = "emitting"
      /\ IF t = <<>> THEN drain' = "listing" /\ UNCHANGED brokerVars ELSE Publish(Head(t))
  BY DEF Mark
<1>2. /\ batch \in Seq(1..emitted) /\ batch # <<>> /\ h \in Streamed /\ NoneOfRun(pending)
      /\ OutboxType /\ marked \subseteq Streamed
  BY <1>1 DEF OutboxInv, OutboxType
<1>3. /\ h \in 1..emitted /\ t \in Seq(1..emitted) /\ h = batch[1] /\ DOMAIN t = 1..(Len(batch) - 1)
      /\ DOMAIN batch = 1..Len(batch) /\ Len(batch) \in Nat
      /\ \A i \in DOMAIN t : t[i] = batch[i + 1] /\ i + 1 \in DOMAIN batch
  BY <1>2, HeadAndRest
<1> HIDE DEF h, t
<1>4. InTurnOf(t, Streamed)
  <2> SUFFICES ASSUME NEW k \in DOMAIN t, NEW m \in 1..(t[k] - 1), m \notin Streamed
               PROVE  \E j \in 1..(k - 1) : t[j] = m
    BY DEF InTurnOf
  <2>1. PICK j \in 1..k : batch[j] = m BY <1>3 DEF OutboxInv, InTurnOf
  <2>2. j # 1 BY <1>2, <1>3, <2>1
  <2>3. j - 1 \in 1..(k - 1) /\ j - 1 \in DOMAIN t /\ (j - 1) + 1 = j BY <1>3, <2>1, <2>2
  <2> QED BY <1>3, <2>1, <2>3
<1>5. /\ pending' \in Seq(SUBSET Event) /\ UNCHANGED log
      /\ \/ drain' = "listing" /\ NoneOfRun(pending')
         \/ t # <<>> /\ drain' = "writing" /\ OnlyOfRun(pending', Head(t))
         \/ t # <<>> /\ drain' = "refused" /\ NoneOfRun(pending')
  <2>1. CASE t = <<>> BY <1>1, <1>2, <2>1 DEF brokerVars, storeVars, OutboxType
  <2>2. CASE t # <<>>
    <3>1. Publish(Head(t)) BY <1>1, <2>2
    <3>2. Head(t) \in RunEvents
      <4>1. Head(t) \in 1..emitted BY <1>3, <2>2, HeadAndRest
      <4>2. emitted \in 0..MaxEmits /\ MaxEmits \in Nat BY <1>2, DeliveryAssumption DEF OutboxType
      <4> QED BY ONLY <4>1, <4>2 DEF RunEvents
    <3>3. /\ pending' \in Seq(SUBSET Event) /\ UNCHANGED log
          /\ \/ drain' = "writing" /\ OnlyOfRun(pending', Head(t))
             \/ drain' = "refused" /\ NoneOfRun(pending')
      <4>1. OutboxType /\ NoneOfRun(pending) BY <1>2
      <4> QED BY ONLY <4>1, <3>1, <3>2, PublishRow
    <3> QED BY <2>2, <3>3
  <2> QED BY <2>1, <2>2
<1>6. Streamed' = Streamed BY <1>5, SameStream
<1>7. OutboxInv' BY <1>1, <1>2, <1>3, <1>4, <1>5, <1>6 DEF OutboxInv, OutboxType
<1>8. Outbox!Mark BY <1>1, <1>2, <1>6 DEF Outbox!Mark
<1> QED BY <1>7, <1>8

LEMMA FailedKeeps == ASSUME OutboxInv, Failed \/ Thrown PROVE OutboxInv' /\ Repeats
<1>1. /\ UNCHANGED <<pending, log, emitted, marked>> /\ batch' = <<>>
      /\ drain # "writing" /\ drain' \in {"idle", "listing", "rejected"}
  BY DEF Failed, Thrown, DrainEnds, brokerVars, storeVars
<1> QED BY <1>1, DrainOver

\* The row of the run that is stored is the event that is in turn.
LEMMA StoredKeeps == ASSUME OutboxInv, Stored PROVE OutboxInv' /\ (Outbox!Stream \/ Repeats)
<1> DEFINE row == Head(pending)
           New == row \cap RunEvents
<1>1. /\ pending # <<>> /\ log' = Append(log, row) /\ pending' = Tail(pending)
      /\ UNCHANGED <<emitted, marked, batch>>
      /\ IF OfRun(row) THEN drain' = "fanning" ELSE drain' = drain
  BY DEF Stored, Commit
<1>2. /\ pending \in Seq(SUBSET Event) /\ log \in Seq(SUBSET Event)
      /\ drain # "writing" => NoneOfRun(pending)
      /\ drain = "writing" => OnlyOfRun(pending, Head(batch)) /\ batch # <<>>
  BY DEF OutboxInv, OutboxType
<1>3. /\ Tail(pending) \in Seq(SUBSET Event) /\ row \in SUBSET Event
      /\ NoneOfRun(pending) => ~OfRun(row) /\ NoneOfRun(Tail(pending))
      /\ \A n : OnlyOfRun(pending, n) => OnlyOfRun(Tail(pending), n)
      /\ \A n : OnlyOfRun(pending, n) /\ OfRun(row) => New = {n} /\ NoneOfRun(Tail(pending))
  BY <1>1, <1>2, TailKeeps
<1> HIDE DEF row
<1>4. log' \in Seq(SUBSET Event) BY <1>1, <1>2, <1>3
<1>5. Streamed' = Streamed \cup New
  <2>1. /\ DOMAIN log' = 1..(Len(log) + 1) /\ DOMAIN log = 1..Len(log) /\ Len(log) \in Nat
        /\ log'[Len(log) + 1] = row /\ \A i \in DOMAIN log : log'[i] = log[i]
    BY <1>1, <1>2, <1>3
  <2>2. \A n : (\E i \in DOMAIN log' : n \in log'[i]) <=> (\E i \in DOMAIN log : n \in log[i]) \/ n \in row
    <3> SUFFICES ASSUME NEW n
                 PROVE  (\E i \in DOMAIN log' : n \in log'[i])
                          <=> (\E i \in DOMAIN log : n \in log[i]) \/ n \in row
      OBVIOUS
    <3>1. \A i \in DOMAIN log' : i \in DOMAIN log \/ i = Len(log) + 1 BY <2>1
    <3>2. Len(log) + 1 \in DOMAIN log' /\ DOMAIN log \subseteq DOMAIN log' BY <2>1
    <3> QED BY <2>1, <3>1, <3>2
  <2> QED BY <2>2 DEF Streamed
<1> HIDE DEF New
<1>6. CASE ~OfRun(row)
  <2>1. New = {} BY <1>6 DEF OfRun, New
  <2>2. Streamed' = Streamed BY <1>5, <2>1
  <2> QED BY <1>1, <1>2, <1>3, <1>4, <1>6, <2>2 DEF OutboxInv, OutboxType, Repeats
<1>7. CASE OfRun(row)
  <2> DEFINE n == Head(batch)
  <2>1. New = {n} /\ NoneOfRun(Tail(pending)) /\ batch # <<>> BY <1>2, <1>3, <1>7
  <2>2. n \in 1..emitted /\ n = batch[1] /\ 1 \in DOMAIN batch
    <3>1. batch \in Seq(1..emitted) BY DEF OutboxInv, OutboxType
    <3> QED BY <2>1, <3>1, HeadAndRest
  <2>3. \A m \in 1..(n - 1) : m \in Streamed
    <3>1. \A m \in 1..(n - 1) : m \in Streamed \/ \E j \in 1..(1 - 1) : batch[j] = m
      BY <2>2 DEF OutboxInv, InTurnOf
    <3> QED BY <3>1
  <2> HIDE DEF n
  <2>4. Outbox!Stream BY <1>1, <1>5, <2>1, <2>2, <2>3 DEF Outbox!Stream
  <2>5. InTurnOf(batch, Streamed') BY <1>5 DEF OutboxInv, InTurnOf
  <2>6. n \in Streamed' /\ marked \subseteq Streamed' BY <1>5, <2>1 DEF OutboxInv
  <2>7. drain' = "fanning" BY <1>1, <1>7
  <2>8. OutboxInv' BY <1>1, <1>3, <1>4, <2>1, <2>5, <2>6, <2>7 DEF OutboxInv, OutboxType, n
  <2> QED BY <2>4, <2>8
<1> QED BY <1>6, <1>7

LEMMA RefusedKeeps == ASSUME OutboxInv, Refused PROVE OutboxInv' /\ Repeats
<1> DEFINE row == Head(pending)
<1>1. /\ pending # <<>> /\ pending' = Tail(pending) /\ UNCHANGED <<log, emitted, marked, batch>>
      /\ drain' = IF OfRun(row) THEN "refused" ELSE drain
  BY DEF Refused, Refuse, storeVars
<1>2. /\ pending \in Seq(SUBSET Event)
      /\ drain # "writing" => NoneOfRun(pending)
      /\ drain = "writing" => OnlyOfRun(pending, Head(batch)) /\ batch # <<>>
  BY DEF OutboxInv, OutboxType
<1>3. /\ Tail(pending) \in Seq(SUBSET Event)
      /\ NoneOfRun(pending) => ~OfRun(row) /\ NoneOfRun(Tail(pending))
      /\ \A n : OnlyOfRun(pending, n) => OnlyOfRun(Tail(pending), n)
      /\ \A n : OnlyOfRun(pending, n) /\ OfRun(row) => NoneOfRun(Tail(pending))
  BY <1>1, <1>2, TailKeeps
<1> HIDE DEF row
<1>4. Streamed' = Streamed BY <1>1, SameStream
<1>5. CASE OfRun(row)
  BY <1>1, <1>2, <1>3, <1>4, <1>5 DEF OutboxInv, OutboxType, Repeats
<1>6. CASE ~OfRun(row)
  BY <1>1, <1>2, <1>3, <1>4, <1>6 DEF OutboxInv, OutboxType, Repeats
<1> QED BY <1>5, <1>6

LEMMA BridgedKeeps == ASSUME OutboxInv, NEW e \in Bridge, Bridged(e) PROVE OutboxInv' /\ Repeats
<1>1. UNCHANGED <<emitted, marked, drain, batch>> BY DEF Bridged, outboxVars
<1>2. CASE HasRoom
  <2>0. e \in Event /\ OutboxType /\ Write(e) BY <1>2, Kinds DEF Bridged, OutboxInv
  <2>1. /\ pending' \in Seq(SUBSET Event) /\ UNCHANGED log
        /\ NoneOfRun(pending) => NoneOfRun(pending')
        /\ \A n : OnlyOfRun(pending, n) => OnlyOfRun(pending', n)
    BY <1>2, <2>0, WriteRow
  <2>2. Streamed' = Streamed BY <2>1, SameStream
  <2> QED BY <1>1, <2>1, <2>2 DEF OutboxInv, OutboxType, Repeats
<1>3. CASE ~HasRoom
  <2>1. UNCHANGED <<pending, log>> BY <1>3 DEF Bridged, brokerVars, storeVars
  <2> QED BY <1>1, <2>1, OutboxStands
<1> QED BY <1>2, <1>3

\* The rows and the marks survive a crash; the queue of the writer does not.
LEMMA CrashKeeps == ASSUME OutboxInv, Crash PROVE OutboxInv' /\ Repeats
<1>1. /\ pending' = <<>> /\ UNCHANGED <<log, emitted, marked>> /\ batch' = <<>>
      /\ drain' \in {"idle", "listing"}
  BY DEF Crash, BrokerCrash, storeVars
<1>2. Streamed' = Streamed BY <1>1, SameStream
<1>3. NoneOfRun(<<>>) BY DEF NoneOfRun
<1> QED BY <1>1, <1>2, <1>3, EmptyType DEF OutboxInv, OutboxType, Repeats

\* The broadcast and the subscriptions touch neither the rows nor the outbox.
LEMMA FollowersApart ==
  ASSUME \/ Sweep
         \/ \E c \in Client : Connect(c) \/ Disconnect(c) \/ Drain(c) \/ Resumes(c)
         \/ \E f \in fans : FanOutToNone(f) \/ FanOut(f)
  PROVE  UNCHANGED <<pending, log>>
<1>1. CASE Sweep BY <1>1 DEF Sweep
<1>2. ASSUME NEW c \in Client, Connect(c) \/ Disconnect(c) \/ Drain(c) PROVE UNCHANGED <<pending, log>>
  BY <1>2 DEF Connect, Disconnect, Drain, storeVars
<1>3. ASSUME NEW c \in Client, Resumes(c) PROVE UNCHANGED <<pending, log>>
  BY <1>3 DEF Resumes, Replay, Check, Hand, Flush, GoLive, storeVars
<1>4. ASSUME NEW f \in fans, FanOutToNone(f) \/ FanOut(f) PROVE UNCHANGED <<pending, log>>
  BY <1>4 DEF FanOutToNone, FanOut, storeVars
<1> QED BY <1>1, <1>2, <1>3, <1>4

LEMMA InitOutbox == Init => OutboxInv /\ Outbox!Init
<1> SUFFICES ASSUME Init PROVE OutboxInv /\ Outbox!Init OBVIOUS
<1>1. emitted = 0 /\ marked = {} /\ drain = "idle" /\ batch = <<>> /\ pending = <<>> /\ log = <<>>
  BY DEF Init, BrokerInit
<1>2. Streamed = {} /\ NoneOfRun(pending) BY <1>1 DEF Streamed, NoneOfRun
<1>3. OutboxType BY <1>1, DeliveryAssumption, EmptyType DEF OutboxType
<1> QED BY <1>1, <1>2, <1>3, EmptyType DEF OutboxInv, Outbox!Init

LEMMA StepOutbox == OutboxInv /\ [Next]_vars => OutboxInv' /\ [Outbox!Next]_(Outbox!vars)
<1> SUFFICES ASSUME OutboxInv, [Next]_vars PROVE OutboxInv' /\ (Outbox!Next \/ Repeats)
  BY DEF Outbox!vars, Repeats
<1>1. CASE Emit
  <2>1. /\ Kick /\ UNCHANGED <<pending, log, marked, batch>>
        /\ emitted' = emitted + 1 /\ emitted < MaxEmits
    BY <1>1 DEF Emit, brokerVars, storeVars
  <2>2. Streamed' = Streamed BY <2>1, SameStream
  <2>3. Outbox!Emit BY <2>1, <2>2 DEF Outbox!Emit
  <2> QED BY <2>1, <2>3, KickKeeps DEF Outbox!Next
<1>2. CASE RetryFires
  <2>1. Kick /\ UNCHANGED <<pending, log, marked, batch, emitted>>
    BY <1>2 DEF RetryFires, brokerVars, storeVars
  <2>2. Streamed' = Streamed BY <2>1, SameStream
  <2> QED BY <2>1, <2>2, KickKeeps DEF Repeats
<1>3. CASE List BY <1>3, ListKeeps
<1>4. CASE Broadcast BY <1>4, BroadcastKeeps
<1>5. CASE Mark BY <1>5, MarkKeeps DEF Outbox!Next
<1>6. CASE Failed \/ Thrown BY <1>6, FailedKeeps
<1>7. CASE Stop
  <2>1. UNCHANGED <<pending, log, emitted, marked, drain, batch>> BY <1>7 DEF Stop, brokerVars, storeVars
  <2> QED BY <2>1, OutboxStands
<1>8. CASE Stored BY <1>8, StoredKeeps DEF Outbox!Next
<1>9. CASE Refused BY <1>9, RefusedKeeps
<1>10. ASSUME NEW e \in Bridge, Bridged(e) PROVE OutboxInv' /\ Repeats BY <1>10, BridgedKeeps
<1>11. CASE OfBroker /\ \/ Sweep
                        \/ \E c \in Client : Connect(c) \/ Disconnect(c) \/ Drain(c) \/ Resumes(c)
                        \/ \E f \in fans : FanOutToNone(f) \/ FanOut(f)
  <2>1. UNCHANGED <<pending, log>> BY <1>11, FollowersApart
  <2>2. UNCHANGED <<emitted, marked, drain, batch>> BY <1>11 DEF OfBroker, outboxVars
  <2> QED BY <2>1, <2>2, OutboxStands
<1>12. CASE Crash BY <1>12, CrashKeeps
<1>13. CASE UNCHANGED vars
  <2>1. UNCHANGED <<pending, log, emitted, marked, drain, batch>>
    BY <1>13 DEF vars, brokerVars, storeVars, outboxVars
  <2> QED BY <2>1, OutboxStands
<1> QED BY <1>1, <1>2, <1>3, <1>4, <1>5, <1>6, <1>7, <1>8, <1>9, <1>10, <1>11, <1>12, <1>13 DEF Next

\* Through failed publishes, a writer that is full or drops its batch, stops and
\* crashes, the run's events first reach its stream in their order, and none is
\* marked dispatched before it is there (OutboxDispatcher.ts:5-12).
THEOREM OutboxKept == Spec => InRunOrder
<1>1. Init => OutboxInv /\ Outbox!Init BY InitOutbox
<1>2. OutboxInv /\ [Next]_vars => OutboxInv' /\ [Outbox!Next]_(Outbox!vars) BY StepOutbox
<1> QED BY <1>1, <1>2, PTL DEF Spec, InRunOrder, Outbox!Spec

=============================================================================
