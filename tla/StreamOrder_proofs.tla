------------------------- MODULE StreamOrder_proofs -------------------------
(* For any number of clients, events, connections, sweeps and crashes.          *)
(*                                                                              *)
(* A client receives the rows of its scope in their order: what a congested     *)
(* connection holds ascends between the client's cursor and the watermark of    *)
(* its subscription, and what a replay has still to hand over ascends above the *)
(* watermark (StreamInv).                                                       *)
(*                                                                              *)
(* Every variable stays within its bounds (Bounds): every number is that of a   *)
(* row, and no queue is longer than its limit.                                  *)
(*                                                                              *)
(* A client is told of what it does not receive (HoleInv): every row above the  *)
(* watermark of a subscription is known to its client, is on its way to it or   *)
(* waits in the subscription, and every row between the cursor and the          *)
(* watermark is known or is with the connection.                                *)
EXTENDS Delivery_proofs

FanType ==
  [seq : Nat, started : BOOLEAN, todo : Seq(Client), held : Client \cup {None}, late : BOOLEAN]
SubType ==
  [phase : {"away", "replaying", "checking", "delivering", "flushing", "live"},
   mark : Nat, todo : Seq(Nat), buffer : Seq(Nat), waits : BOOLEAN]
ConnType == [congested : BOOLEAN, queue : Seq(Nat), gap : SUBSET Nat]

StreamType ==
  /\ log \in Seq(SUBSET Event) /\ kept \in SUBSET (1..Len(log))
  /\ fans \in SUBSET FanType /\ order \in Seq(Client)
  /\ sub \in [Client -> SubType] /\ conn \in [Client -> ConnType] /\ cursor \in [Client -> Nat]

\* A list that ascends above low, and one that stays within high as well.
Above(q, low) ==
  \A i \in DOMAIN q : low < q[i] /\ \A j \in DOMAIN q : i < j => q[i] < q[j]
Within(q, low, high) == Above(q, low) /\ \A i \in DOMAIN q : q[i] <= high
LastOf(q, low) == IF q = <<>> THEN low ELSE q[Len(q)]

InLine(s, q, at) ==
  /\ s.phase = "away" => q = <<>>
  /\ s.phase # "away" => at <= s.mark
  /\ s.phase = "replaying" => at = s.mark
  /\ Within(q, at, s.mark)
  /\ s.phase \in {"checking", "delivering"} => Above(s.todo, s.mark)

StreamInv == StreamType /\ \A c \in Client : InLine(sub[c], conn[c].queue, cursor[c])

Forward == \A c \in Client : cursor'[c] >= cursor[c]

-----------------------------------------------------------------------------
(* Lists.                                                                       *)

LEMMA EmptyWithin ==
  ASSUME NEW low, NEW high PROVE Within(<<>>, low, high)
BY DEF Within, Above

LEMMA AppendWithin ==
  ASSUME NEW q \in Seq(Nat), NEW low \in Nat, NEW high \in Nat, NEW n \in Nat,
         low <= high, high < n, Within(q, low, high)
  PROVE  Append(q, n) \in Seq(Nat) /\ Within(Append(q, n), low, n)
<1> DEFINE a == Append(q, n)
<1>1. /\ a \in Seq(Nat) /\ Len(q) \in Nat /\ DOMAIN q = 1..Len(q) /\ DOMAIN a = 1..(Len(q) + 1)
      /\ a[Len(q) + 1] = n /\ \A i \in DOMAIN q : a[i] = q[i] /\ q[i] \in Nat
  OBVIOUS
<1> HIDE DEF a
<1>2. ASSUME NEW i \in DOMAIN a
      PROVE  low < a[i] /\ a[i] <= n /\ \A j \in DOMAIN a : i < j => a[i] < a[j]
  <2>1. CASE i \in DOMAIN q
    <3>1. low < q[i] /\ q[i] <= high /\ a[i] = q[i] /\ q[i] \in Nat
          /\ \A j \in DOMAIN q : i < j => q[i] < q[j]
      BY <1>1, <2>1 DEF Within, Above
    <3>2. a[i] < n BY <3>1
    <3>3. \A j \in DOMAIN a : j \in DOMAIN q \/ a[j] = n BY <1>1
    <3>4. \A j \in DOMAIN a : i < j => a[i] < a[j] BY <1>1, <3>1, <3>2, <3>3
    <3>5. low < a[i] /\ a[i] <= n BY <3>1, <3>2
    <3> QED BY <3>4, <3>5
  <2>2. CASE i \notin DOMAIN q
    <3>1. i = Len(q) + 1 /\ a[i] = n BY <1>1, <2>2
    <3>2. \A j \in DOMAIN a : ~(i < j) BY <1>1, <3>1
    <3>3. low < n BY DEF Within
    <3> QED BY <3>1, <3>2, <3>3
  <2> QED BY <2>1, <2>2
<1> QED BY <1>1, <1>2 DEF Within, Above, a

LEMMA TailAbove ==
  ASSUME NEW q \in Seq(Nat), q # <<>>, NEW low \in Nat, Above(q, low)
  PROVE  low < Head(q) /\ Above(Tail(q), Head(q))
<1> DEFINE t == Tail(q)
<1>1. /\ Head(q) = q[1] /\ Head(q) \in Nat /\ 1 \in DOMAIN q /\ Len(q) \in Nat
      /\ DOMAIN q = 1..Len(q) /\ DOMAIN t = 1..(Len(q) - 1)
      /\ \A i \in DOMAIN t : t[i] = q[i + 1] /\ i + 1 \in DOMAIN q
  BY HeadAndRest
<1> HIDE DEF t
<1>2. ASSUME NEW i \in DOMAIN t
      PROVE  q[1] < t[i] /\ \A j \in DOMAIN t : i < j => t[i] < t[j]
  <2>1. i \in Nat /\ 1 < i + 1 BY <1>1
  <2>2. ASSUME NEW j \in DOMAIN t, i < j PROVE t[i] < t[j]
    <3>1. j \in Nat /\ i + 1 < j + 1 BY <1>1, <2>1, <2>2
    <3> QED BY <1>1, <3>1 DEF Above
  <2> QED BY <1>1, <2>1, <2>2 DEF Above
<1> QED BY <1>1, <1>2 DEF Above, t

\* The queue is written in two parts.
LEMMA CutWithin ==
  ASSUME NEW q \in Seq(Nat), NEW low \in Nat, NEW high \in Nat, NEW k \in 0..Len(q),
         low <= high, Within(q, low, high)
  PROVE  /\ SubSeq(q, 1, k) \in Seq(Nat) /\ SubSeq(q, k + 1, Len(q)) \in Seq(Nat)
         /\ LastOf(SubSeq(q, 1, k), low) \in Nat
         /\ LastOf(SubSeq(q, 1, k), low) >= low /\ LastOf(SubSeq(q, 1, k), low) <= high
         /\ Within(SubSeq(q, k + 1, Len(q)), LastOf(SubSeq(q, 1, k), low), high)
<1> DEFINE one == SubSeq(q, 1, k)
           two == SubSeq(q, k + 1, Len(q))
           at == LastOf(one, low)
<1>1. Len(q) \in Nat /\ DOMAIN q = 1..Len(q) /\ k \in Nat /\ k <= Len(q) /\ \A i \in DOMAIN q : q[i] \in Nat
  OBVIOUS
<1>2. one \in Seq(Nat) /\ Len(one) = k /\ \A i \in 1..k : one[i] = q[i]
  BY <1>1, SubSeqProperties
<1>3. /\ two \in Seq(Nat) /\ DOMAIN two = 1..(Len(q) - k)
      /\ \A i \in 1..(Len(q) - k) : two[i] = q[i + k] /\ i + k \in DOMAIN q
  BY <1>1, SubSeqProperties
<1>4. at = IF k = 0 THEN low ELSE q[k] BY <1>1, <1>2 DEF LastOf
<1> HIDE DEF one, two, at
<1>5. at \in Nat /\ at >= low /\ at <= high
  BY <1>1, <1>4 DEF Within, Above
<1>6. ASSUME NEW i \in DOMAIN two
      PROVE  at < two[i] /\ two[i] <= high /\ \A j \in DOMAIN two : i < j => two[i] < two[j]
  <2>0. i \in 1..(Len(q) - k) BY <1>3
  <2>1. i \in Nat /\ k < i + k /\ i + k \in DOMAIN q /\ two[i] = q[i + k]
    <3>1. i \in Nat /\ k < i + k BY <1>1, <2>0
    <3> QED BY <1>3, <2>0, <3>1
  <2>2. ASSUME NEW j \in DOMAIN two, i < j PROVE two[i] < two[j]
    <3>1. j \in 1..(Len(q) - k) /\ j \in Nat BY <1>1, <1>3
    <3>2. j + k \in DOMAIN q /\ two[j] = q[j + k] BY <1>3, <3>1
    <3>3. i + k < j + k BY <1>1, <2>1, <2>2, <3>1
    <3> QED BY <2>1, <3>2, <3>3 DEF Within, Above
  <2>3. at < two[i]
    <3>1. CASE k = 0 BY <1>4, <2>1, <3>1 DEF Within, Above
    <3>2. CASE k # 0
      <4>1. k \in DOMAIN q BY <1>1, <3>2
      <4> QED BY <1>4, <2>1, <3>2, <4>1 DEF Within, Above
    <3> QED BY <3>1, <3>2
  <2> QED BY <2>1, <2>2, <2>3 DEF Within
<1>7. Within(two, at, high) BY <1>6 DEF Within, Above
<1> QED BY <1>2, <1>3, <1>5, <1>7 DEF one, two, at

\* The rows of a set, in order.
LEMMA RowsAbove ==
  ASSUME NEW m \in Nat, NEW S \in SUBSET (1..m), NEW low \in Nat, \A n \in S : low < n
  PROVE  Ascending(S) \in Seq(Nat) /\ Above(Ascending(S), low)
<1> DEFINE b == Ascending(S)
           K == Cardinality(S)
<1>1. S \in SUBSET Nat OBVIOUS
<1>2. IsFiniteSet(S)
  <2>1. IsFiniteSet(1..m) BY FS_Interval
  <2> QED BY <2>1, FS_Subset
<1>3. /\ K \in Nat /\ b \in [1..K -> S] /\ \A i, j \in 1..K : i < j => b[i] < b[j]
  BY <1>1, <1>2, AscendingLists
<1> HIDE DEF K, b
<1>4. b \in [1..K -> Nat] /\ DOMAIN b = 1..K BY <1>1, <1>3
<1>5. b \in Seq(Nat) BY <1>3, <1>4, FunctionIsSequence
<1>6. Above(b, low) BY <1>3, <1>4 DEF Above
<1> QED BY <1>5, <1>6 DEF b

LEMMA OthersType ==
  ASSUME NEW c, NEW q \in Seq(Client) PROVE Others(q, c) \in Seq(Client)
BY AtKeeps, {i \in DOMAIN q : q[i] # c} \in SUBSET (DOMAIN q) DEF Others

-----------------------------------------------------------------------------
(* The broadcasts keep their type.                                              *)

LEMMA FansType ==
  ASSUME NEW fs \in SUBSET FanType, NEW c \in Client
  PROVE  Gone(fs, c) \in SUBSET FanType /\ Freed(fs, c) \in SUBSET FanType
<1>1. ASSUME NEW f \in fs
      PROVE  /\ [f EXCEPT !.todo = Others(@, c), !.held = IF @ = c THEN None ELSE @] \in FanType
             /\ [f EXCEPT !.held = IF @ = c THEN None ELSE @] \in FanType
  <2>1. f \in FanType /\ f.todo \in Seq(Client) BY DEF FanType
  <2>2. Others(f.todo, c) \in Seq(Client) BY <2>1, OthersType
  <2> QED BY <2>1, <2>2 DEF FanType
<1> QED BY <1>1 DEF Gone, Freed, Active

LEMMA MovedType ==
  ASSUME StreamType, NEW f \in fans, NEW held \in Client \cup {None}, Targets(f) # <<>>
  PROVE  Moved(f, held) \in SUBSET FanType /\ Head(Targets(f)) \in Client /\ f.seq \in Nat
<1>1. f \in FanType /\ fans \in SUBSET FanType /\ Targets(f) \in Seq(Client)
  BY DEF StreamType, FanType, Targets
<1>2. Tail(Targets(f)) \in Seq(Client) /\ Head(Targets(f)) \in Client BY <1>1, HeadAndRest
<1>3. [f EXCEPT !.started = TRUE, !.todo = Tail(Targets(f)), !.held = held, !.late = @ \/ held # None]
        \in FanType
  BY <1>1, <1>2 DEF FanType
<1>4. f.seq \in Nat BY <1>1 DEF FanType
<1> QED BY <1>1, <1>2, <1>3, <1>4 DEF Moved, Active

-----------------------------------------------------------------------------
(* A connection.                                                                *)

LEMMA WroteKeeps ==
  ASSUME StreamType, NEW c \in Client, NEW gap, NEW ns \in Seq(Nat), NEW rest \in Seq(Nat),
         Wrote(c, gap, ns, rest)
  PROVE  /\ conn' \in [Client -> ConnType] /\ cursor' \in [Client -> Nat]
         /\ cursor'[c] = LastOf(ns, cursor[c]) /\ conn'[c].queue = rest
         /\ \A d \in Client \ {c} : cursor'[d] = cursor[d] /\ conn'[d] = conn[d]
<1> DEFINE at == LastOf(ns, cursor[c])
<1>1. at \in Nat BY DEF StreamType, LastOf
<1>2. cursor' = [cursor EXCEPT ![c] = at] BY DEF Wrote, LastOf
<1>3. PICK full \in BOOLEAN :
        conn' = [conn EXCEPT ![c] = [congested |-> full, queue |-> rest, gap |-> {}]]
  BY DEF Wrote
<1> HIDE DEF at
<1>4. [congested |-> full, queue |-> rest, gap |-> {}] \in ConnType BY DEF ConnType
<1> QED BY <1>1, <1>2, <1>3, <1>4 DEF StreamType, at

LEMMA DeliverKeeps ==
  ASSUME StreamType, NEW c \in Client, NEW n \in Nat, NEW mark \in Nat, mark < n, cursor[c] <= mark,
         Within(conn[c].queue, cursor[c], mark), Deliver(c, n)
  PROVE  /\ conn' \in [Client -> ConnType] /\ cursor' \in [Client -> Nat]
         /\ cursor'[c] >= cursor[c] /\ cursor'[c] <= n
         /\ Within(conn'[c].queue, cursor'[c], n)
         /\ \A d \in Client \ {c} : cursor'[d] = cursor[d] /\ conn'[d] = conn[d]
<1>1. conn \in [Client -> ConnType] /\ cursor \in [Client -> Nat] /\ cursor[c] \in Nat
      /\ conn[c] \in ConnType /\ conn[c].queue \in Seq(Nat)
  BY DEF StreamType, ConnType
<1>2. CASE ~Stalled(c) /\ Wrote(c, {}, <<n>>, <<>>)
  <2>1. <<n>> \in Seq(Nat) /\ <<>> \in Seq(Nat) /\ <<n>> # <<>> /\ Len(<<n>>) = 1 /\ <<n>>[1] = n OBVIOUS
  <2>2. /\ conn' \in [Client -> ConnType] /\ cursor' \in [Client -> Nat]
        /\ cursor'[c] = n /\ conn'[c].queue = <<>>
        /\ \A d \in Client \ {c} : cursor'[d] = cursor[d] /\ conn'[d] = conn[d]
    <3>1. LastOf(<<n>>, cursor[c]) = n BY <2>1 DEF LastOf
    <3>2. /\ conn' \in [Client -> ConnType] /\ cursor' \in [Client -> Nat]
          /\ cursor'[c] = LastOf(<<n>>, cursor[c]) /\ conn'[c].queue = <<>>
          /\ \A d \in Client \ {c} : cursor'[d] = cursor[d] /\ conn'[d] = conn[d]
      BY <1>2, <2>1, WroteKeeps
    <3> QED BY <3>1, <3>2
  <2>3. Within(conn'[c].queue, cursor'[c], n) BY <2>2, EmptyWithin
  <2>4. n >= cursor[c] /\ n <= n BY <1>1
  <2> QED BY <2>2, <2>3, <2>4
<1>3. CASE conn' = [conn EXCEPT ![c].gap = @ \cup {n}] /\ UNCHANGED <<cursor, told, holes>>
  <2>1. conn' \in [Client -> ConnType] /\ conn'[c].queue = conn[c].queue
        /\ \A d \in Client \ {c} : conn'[d] = conn[d]
    BY <1>1, <1>3 DEF ConnType
  <2>2. \A i \in DOMAIN conn[c].queue : conn[c].queue[i] \in Nat BY <1>1
  <2>3. Within(conn[c].queue, cursor[c], n) BY <2>2 DEF Within
  <2> QED BY <1>1, <1>3, <2>1, <2>3
<1>4. CASE conn' = [conn EXCEPT ![c].queue = Append(@, n)] /\ UNCHANGED <<cursor, told, holes>>
  <2>1. Append(conn[c].queue, n) \in Seq(Nat) /\ Within(Append(conn[c].queue, n), cursor[c], n)
    BY <1>1, AppendWithin
  <2>2. conn' \in [Client -> ConnType] /\ conn'[c].queue = Append(conn[c].queue, n)
        /\ \A d \in Client \ {c} : conn'[d] = conn[d]
    BY <1>1, <1>4, <2>1 DEF ConnType
  <2> QED BY <1>1, <1>4, <2>1, <2>2
<1> QED BY <1>2, <1>3, <1>4 DEF Deliver

\* The connection of c ends.
LEMMA LeftKeeps ==
  ASSUME StreamType, NEW c \in Client, NEW fs \in SUBSET FanType, Left(c, fs), cursor' = cursor
  PROVE  /\ fans' \in SUBSET FanType /\ order' \in Seq(Client)
         /\ sub' \in [Client -> SubType] /\ conn' \in [Client -> ConnType] /\ cursor' \in [Client -> Nat]
         /\ InLine(sub'[c], conn'[c].queue, cursor'[c]) /\ cursor'[c] >= cursor[c]
         /\ \A d \in Client \ {c} : sub'[d] = sub[d] /\ conn'[d] = conn[d] /\ cursor'[d] = cursor[d]
<1>1. Away \in SubType /\ Fresh \in ConnType /\ Away.phase = "away" /\ Fresh.queue = <<>>
  <2>1. <<>> \in Seq(Nat) /\ 0 \in Nat OBVIOUS
  <2> QED BY <2>1 DEF Away, Fresh, SubType, ConnType
<1>2. order' \in Seq(Client) BY OthersType DEF Left, StreamType
<1>3. fans' \in SUBSET FanType BY FansType DEF Left
<1>4. sub'[c] = Away /\ conn'[c] = Fresh BY DEF Left, StreamType
<1>5. InLine(sub'[c], conn'[c].queue, cursor'[c]) BY <1>1, <1>4, EmptyWithin DEF InLine
<1> QED BY <1>1, <1>2, <1>3, <1>5 DEF Left, StreamType

\* What an action does to one client decides it.
LEMMA OneMoves ==
  ASSUME StreamInv, StreamType', NEW c \in Client,
         \A d \in Client \ {c} : sub'[d] = sub[d] /\ conn'[d] = conn[d] /\ cursor'[d] = cursor[d],
         InLine(sub'[c], conn'[c].queue, cursor'[c]), cursor'[c] >= cursor[c]
  PROVE  StreamInv' /\ Forward
<1>1. \A d \in Client \ {c} : InLine(sub'[d], conn'[d].queue, cursor'[d]) BY DEF StreamInv
<1>2. \A d \in Client : cursor[d] >= cursor[d] BY DEF StreamInv, StreamType
<1> QED BY <1>1, <1>2 DEF StreamInv, Forward

\* None of the clients moves.
LEMMA NoneMoves ==
  ASSUME StreamInv, StreamType', UNCHANGED <<sub, conn, cursor>>
  PROVE  StreamInv' /\ Forward
<1>1. \A d \in Client : cursor[d] >= cursor[d] BY DEF StreamInv, StreamType
<1> QED BY <1>1 DEF StreamInv, Forward

-----------------------------------------------------------------------------
(* The actions.                                                                 *)

LEMMA StoreMoves ==
  ASSUME StreamInv, OutboxType, Commit \/ Sweep \/ Refuse \/ \E e \in Event : Write(e)
  PROVE  StreamInv' /\ Forward
<1>1. UNCHANGED <<sub, conn, cursor, order>>
  BY DEF Commit, Sweep, Refuse, Write, subVars, clientVars
<1>2. CASE Commit
  <2>1. pending \in Seq(SUBSET Event) /\ pending # <<>> BY <1>2 DEF OutboxType, Commit
  <2>2. Head(pending) \in SUBSET Event BY <2>1, HeadAndRest
  <2>3. log' = Append(log, Head(pending)) /\ kept' = kept \cup {Len(log) + 1}
        /\ fans' = fans \cup {[seq |-> Len(log) + 1, started |-> FALSE, todo |-> <<>>,
                               held |-> None, late |-> FALSE]}
    BY <1>2 DEF Commit
  <2>4. log' \in Seq(SUBSET Event) /\ Len(log') = Len(log) + 1 /\ Len(log) \in Nat
    BY <2>2, <2>3 DEF StreamType, StreamInv
  <2>5. kept' \in SUBSET (1..Len(log'))
    <3>1. \A n \in 1..Len(log) : n \in 1..Len(log') BY <2>4
    <3>2. Len(log) + 1 \in 1..Len(log') BY <2>4
    <3>3. \A n \in kept : n \in 1..Len(log) BY DEF StreamType, StreamInv
    <3> QED BY <2>3, <3>1, <3>2, <3>3
  <2>6. [seq |-> Len(log) + 1, started |-> FALSE, todo |-> <<>>, held |-> None, late |-> FALSE] \in FanType
    <3>1. <<>> \in Seq(Client) /\ None \in Client \cup {None} OBVIOUS
    <3>2. Len(log) + 1 \in Nat BY <2>4
    <3> QED BY <3>1, <3>2 DEF FanType
  <2>7. fans' \in SUBSET FanType BY <2>3, <2>6 DEF StreamType, StreamInv
  <2> QED BY <1>1, <2>4, <2>5, <2>7, NoneMoves DEF StreamType, StreamInv
<1>3. CASE Sweep
  <2>1. UNCHANGED <<log, fans>> /\ kept' \in SUBSET kept BY <1>3 DEF Sweep
  <2> QED BY <1>1, <2>1, NoneMoves DEF StreamType, StreamInv
<1>4. CASE Refuse \/ \E e \in Event : Write(e)
  <2>1. UNCHANGED <<log, kept, fans>> BY <1>4 DEF Refuse, Write, storeVars
  <2> QED BY <1>1, <2>1, NoneMoves DEF StreamType, StreamInv
<1> QED BY <1>2, <1>3, <1>4

LEMMA ConnectMoves ==
  ASSUME StreamInv, NEW c \in Client, Connect(c) PROVE StreamInv' /\ Forward
<1>1. /\ sub[c].phase = "away" /\ order' = Append(order, c)
      /\ UNCHANGED <<log, kept, fans, conn, cursor>>
      /\ IF cursor[c] = 0 /\ c \notin FromZero THEN sub' = [sub EXCEPT ![c].phase = "live"]
         ELSE sub' = [sub EXCEPT ![c].phase = "replaying", ![c].mark = cursor[c]]
  BY DEF Connect, Told, storeVars
<1>2. /\ sub \in [Client -> SubType] /\ sub[c] \in SubType /\ sub[c].mark \in Nat
      /\ cursor \in [Client -> Nat] /\ cursor[c] \in Nat /\ conn[c].queue = <<>>
  BY <1>1 DEF StreamInv, StreamType, InLine, SubType
<1>3. sub' \in [Client -> SubType]
  <2>1. CASE cursor[c] = 0 /\ c \notin FromZero
    <3>1. sub' = [sub EXCEPT ![c].phase = "live"] BY <1>1, <2>1
    <3> QED BY <1>2, <3>1 DEF SubType
  <2>2. CASE ~(cursor[c] = 0 /\ c \notin FromZero)
    <3>1. sub' = [sub EXCEPT ![c].phase = "replaying", ![c].mark = cursor[c]] BY <1>1, <2>2
    <3> QED BY <1>2, <3>1 DEF SubType
  <2> QED BY <2>1, <2>2
<1>4. order' \in Seq(Client) BY <1>1 DEF StreamInv, StreamType
<1>5. StreamType' BY <1>1, <1>3, <1>4 DEF StreamInv, StreamType
<1>6. \A d \in Client \ {c} : sub'[d] = sub[d] BY <1>1, <1>2
<1>7. InLine(sub'[c], conn'[c].queue, cursor'[c])
  <2>1. Within(conn'[c].queue, cursor'[c], sub'[c].mark) BY <1>1, <1>2, EmptyWithin
  <2>2. CASE cursor[c] = 0 /\ c \notin FromZero
    <3>1. sub'[c].phase = "live" /\ sub'[c].mark = sub[c].mark BY <1>1, <1>2, <2>2 DEF SubType
    <3> QED BY <1>1, <1>2, <2>1, <2>2, <3>1 DEF InLine
  <2>3. CASE ~(cursor[c] = 0 /\ c \notin FromZero)
    <3>1. sub'[c].phase = "replaying" /\ sub'[c].mark = cursor[c] BY <1>1, <1>2, <2>3 DEF SubType
    <3> QED BY <1>1, <1>2, <2>1, <3>1 DEF InLine
  <2> QED BY <2>2, <2>3
<1> QED BY <1>1, <1>2, <1>5, <1>6, <1>7, OneMoves

LEMMA DisconnectMoves ==
  ASSUME StreamInv, NEW c \in Client, Disconnect(c) PROVE StreamInv' /\ Forward
<1>1. Left(c, fans) /\ UNCHANGED <<log, kept, cursor>> BY DEF Disconnect, storeVars, clientVars
<1>2. StreamType BY DEF StreamInv
<1>3. fans \in SUBSET FanType BY <1>2 DEF StreamType
<1>4. /\ fans' \in SUBSET FanType /\ order' \in Seq(Client)
      /\ sub' \in [Client -> SubType] /\ conn' \in [Client -> ConnType] /\ cursor' \in [Client -> Nat]
      /\ InLine(sub'[c], conn'[c].queue, cursor'[c]) /\ cursor'[c] >= cursor[c]
      /\ \A d \in Client \ {c} : sub'[d] = sub[d] /\ conn'[d] = conn[d] /\ cursor'[d] = cursor[d]
  BY <1>1, <1>2, <1>3, LeftKeeps
<1>5. StreamType' BY <1>1, <1>2, <1>4 DEF StreamType
<1> QED BY <1>4, <1>5, OneMoves

LEMMA DrainMoves ==
  ASSUME StreamInv, NEW c \in Client, Drain(c) PROVE StreamInv' /\ Forward
<1> DEFINE all == conn[c].queue
           gap == IF conn[c].gap = {} THEN {} ELSE First(conn[c].gap)..Top(conn[c].gap)
<1>1. PICK k \in 0..Len(all) :
        LET rest == SubSeq(all, k + 1, Len(all))
        IN  /\ Wrote(c, gap, SubSeq(all, 1, k), rest)
            /\ IF rest = <<>> THEN fans' = Freed(fans, c) /\ sub' = [sub EXCEPT ![c].waits = FALSE]
               ELSE UNCHANGED <<fans, sub>>
  BY DEF Drain
<1>2. UNCHANGED <<log, kept, order>> /\ sub[c].phase # "away" BY DEF Drain, storeVars
<1> DEFINE one == SubSeq(all, 1, k)
           rest == SubSeq(all, k + 1, Len(all))
           at == LastOf(one, cursor[c])
<1>3. /\ StreamType /\ sub[c] \in SubType /\ sub[c].mark \in Nat /\ all \in Seq(Nat)
      /\ cursor[c] \in Nat /\ InLine(sub[c], all, cursor[c])
  BY DEF StreamInv, StreamType, SubType, ConnType
<1>4. /\ one \in Seq(Nat) /\ rest \in Seq(Nat) /\ at \in Nat /\ at >= cursor[c]
      /\ Within(rest, at, sub[c].mark) /\ at <= sub[c].mark
  <2>1. Within(all, cursor[c], sub[c].mark) /\ cursor[c] <= sub[c].mark /\ all \in Seq(Nat)
        /\ k \in 0..Len(all) /\ cursor[c] \in Nat /\ sub[c].mark \in Nat
    BY <1>2, <1>3 DEF InLine
  <2> HIDE DEF all
  <2> QED BY <2>1, CutWithin
<1>5. /\ conn' \in [Client -> ConnType] /\ cursor' \in [Client -> Nat]
      /\ cursor'[c] = at /\ conn'[c].queue = rest
      /\ \A d \in Client \ {c} : cursor'[d] = cursor[d] /\ conn'[d] = conn[d]
  BY <1>1, <1>3, <1>4, WroteKeeps
<1> HIDE DEF one, rest, at, all, gap
<1>6. /\ sub' \in [Client -> SubType] /\ \A d \in Client \ {c} : sub'[d] = sub[d]
      /\ sub'[c].phase = sub[c].phase /\ sub'[c].mark = sub[c].mark /\ sub'[c].todo = sub[c].todo
  <2>1. sub' = sub \/ sub' = [sub EXCEPT ![c].waits = FALSE] BY <1>1
  <2>2. sub \in [Client -> SubType] BY <1>3 DEF StreamType
  <2>3. CASE sub' = sub BY <2>2, <2>3
  <2>4. CASE sub' = [sub EXCEPT ![c].waits = FALSE] BY <1>3, <2>2, <2>4 DEF SubType
  <2> QED BY <2>1, <2>3, <2>4
<1>7. fans' \in SUBSET FanType
  <2>1. fans' = fans \/ fans' = Freed(fans, c) BY <1>1
  <2> QED BY <1>3, <2>1, FansType DEF StreamType
<1>8. StreamType' BY <1>2, <1>3, <1>5, <1>6, <1>7 DEF StreamType
<1>9. sub[c].phase = "replaying" => at = sub[c].mark BY <1>3, <1>4 DEF InLine
<1>10. InLine(sub'[c], conn'[c].queue, cursor'[c])
  BY <1>2, <1>3, <1>4, <1>5, <1>6, <1>9 DEF InLine
<1> QED BY <1>4, <1>5, <1>6, <1>8, <1>10, OneMoves

\* A row goes to a client: it takes it, or its connection is shed.
LEMMA GoesTo ==
  ASSUME StreamInv, NEW c \in Client, NEW n \in Nat, sub[c].mark < n,
         sub[c].phase # "away", sub[c].phase # "replaying",
         UNCHANGED <<log, kept, order>>, fans' \in SUBSET FanType, Deliver(c, n),
         NEW todo \in Seq(Nat), NEW waits \in BOOLEAN,
         sub[c].phase \in {"checking", "delivering"} => Above(todo, n),
         sub' = [sub EXCEPT ![c].todo = todo, ![c].mark = n, ![c].waits = waits]
  PROVE  StreamInv' /\ Forward
<1>1. /\ StreamType /\ sub \in [Client -> SubType] /\ sub[c] \in SubType /\ sub[c].mark \in Nat
      /\ InLine(sub[c], conn[c].queue, cursor[c])
  BY DEF StreamInv, StreamType, SubType
<1>2. /\ conn' \in [Client -> ConnType] /\ cursor' \in [Client -> Nat]
      /\ cursor'[c] >= cursor[c] /\ cursor'[c] <= n
      /\ Within(conn'[c].queue, cursor'[c], n)
      /\ \A d \in Client \ {c} : cursor'[d] = cursor[d] /\ conn'[d] = conn[d]
  BY <1>1, DeliverKeeps DEF InLine
<1>3. /\ sub' \in [Client -> SubType] /\ \A d \in Client \ {c} : sub'[d] = sub[d]
      /\ sub'[c].phase = sub[c].phase /\ sub'[c].mark = n /\ sub'[c].todo = todo
  BY <1>1 DEF SubType
<1>4. StreamType' BY <1>1, <1>2, <1>3 DEF StreamType
<1>5. InLine(sub'[c], conn'[c].queue, cursor'[c]) BY <1>2, <1>3 DEF InLine
<1> QED BY <1>2, <1>3, <1>4, <1>5, OneMoves

LEMMA RaisedIs ==
  ASSUME NEW c \in Client, NEW n \in Nat, sub[c].mark \in Nat, sub[c].mark < n PROVE Raised(c, n) = n
<1> DEFINE m == sub[c].mark
           S == {m, n}
<1>1. \A x \in S : x <= n OBVIOUS
<1>2. \A y \in S \cup {0} : (\A x \in S : x <= y) => y = n
  <2> SUFFICES ASSUME NEW y \in S \cup {0}, \A x \in S : x <= y PROVE y = n OBVIOUS
  <2>1. n <= y /\ (y = m \/ y = n \/ y = 0) OBVIOUS
  <2> QED BY <2>1
<1>3. n \in S \cup {0} OBVIOUS
<1> HIDE DEF S
<1>4. Top(S) = n BY <1>1, <1>2, <1>3 DEF Top
<1> QED BY <1>4 DEF Raised, S

LEMMA FanOutMoves ==
  ASSUME StreamInv, NEW f \in fans, FanOut(f) PROVE StreamInv' /\ Forward
<1> DEFINE c == Head(Targets(f))
           n == f.seq
<1>1. StreamType /\ Targets(f) # <<>> /\ UNCHANGED <<log, kept>> BY DEF StreamInv, FanOut, storeVars
<1>2. /\ c \in Client /\ n \in Nat /\ Moved(f, None) \in SUBSET FanType
      /\ Moved(f, c) \in SUBSET FanType
  <2>1. c \in Client /\ None \in Client \cup {None} BY <1>1, MovedType
  <2> HIDE DEF c, n
  <2>2. c \in Client \cup {None} BY <2>1
  <2>3. Moved(f, None) \in SUBSET FanType /\ f.seq \in Nat BY <1>1, <2>1, MovedType
  <2>4. Moved(f, c) \in SUBSET FanType BY <1>1, <2>2, MovedType
  <2> QED BY <2>1, <2>3, <2>4 DEF n
<1>3. \/ /\ sub[c].phase # "live" /\ sub' = [sub EXCEPT ![c].buffer = Append(@, n)]
         /\ fans' = Moved(f, None) /\ UNCHANGED <<order, conn, cursor>>
      \/ sub[c].phase = "live" /\ fans' = Moved(f, None) /\ UNCHANGED <<order, sub, conn, cursor>>
      \/ /\ sub[c].phase = "live" /\ n > sub[c].mark /\ sub' = [sub EXCEPT ![c].mark = n]
         /\ Deliver(c, n) /\ fans' = Moved(f, IF Queues(c, n) THEN c ELSE None) /\ UNCHANGED order
      \/ Left(c, Moved(f, None)) /\ UNCHANGED cursor
  BY DEF FanOut
<1> HIDE DEF c, n
<1>4. sub \in [Client -> SubType] /\ sub[c] \in SubType /\ sub[c].mark \in Nat
      /\ sub[c].buffer \in Seq(Nat) /\ sub[c].todo \in Seq(Nat) /\ sub[c].waits \in BOOLEAN
  BY <1>1, <1>2 DEF StreamType, SubType
<1>5. \A d \in Client : cursor[d] >= cursor[d] BY <1>1 DEF StreamType
<1>6. CASE /\ sub[c].phase # "live" /\ sub' = [sub EXCEPT ![c].buffer = Append(@, n)]
           /\ fans' = Moved(f, None) /\ UNCHANGED <<order, conn, cursor>>
  <2>1. Append(sub[c].buffer, n) \in Seq(Nat) BY <1>2, <1>4
  <2>2. /\ sub' \in [Client -> SubType] /\ \A d \in Client \ {c} : sub'[d] = sub[d]
        /\ sub'[c].phase = sub[c].phase /\ sub'[c].mark = sub[c].mark /\ sub'[c].todo = sub[c].todo
    BY <1>2, <1>4, <1>6, <2>1 DEF SubType
  <2>3. StreamType' BY <1>1, <1>2, <1>6, <2>2 DEF StreamType
  <2>4. InLine(sub'[c], conn'[c].queue, cursor'[c]) BY <1>2, <1>6, <2>2 DEF StreamInv, InLine
  <2> QED BY <1>2, <1>5, <1>6, <2>2, <2>3, <2>4, OneMoves
<1>7. CASE fans' = Moved(f, None) /\ UNCHANGED <<order, sub, conn, cursor>>
  <2>1. StreamType' BY <1>1, <1>2, <1>7 DEF StreamType
  <2> QED BY <1>7, <2>1, NoneMoves
<1>8. CASE /\ sub[c].phase = "live" /\ n > sub[c].mark /\ sub' = [sub EXCEPT ![c].mark = n]
           /\ Deliver(c, n) /\ fans' = Moved(f, IF Queues(c, n) THEN c ELSE None) /\ UNCHANGED order
  <2>1. fans' \in SUBSET FanType BY <1>2, <1>8
  <2>2. sub' = [sub EXCEPT ![c].todo = sub[c].todo, ![c].mark = n, ![c].waits = sub[c].waits]
    BY <1>2, <1>4, <1>8 DEF SubType
  <2>3. /\ sub[c].mark < n /\ sub[c].phase # "away" /\ sub[c].phase # "replaying"
        /\ sub[c].phase \in {"checking", "delivering"} => Above(sub[c].todo, n)
        /\ Deliver(c, n) /\ UNCHANGED <<log, kept, order>>
    BY <1>1, <1>2, <1>4, <1>8
  <2> QED BY <1>2, <1>4, <2>1, <2>2, <2>3, GoesTo
<1>9. CASE Left(c, Moved(f, None)) /\ UNCHANGED cursor
  <2>1. /\ fans' \in SUBSET FanType /\ order' \in Seq(Client)
        /\ sub' \in [Client -> SubType] /\ conn' \in [Client -> ConnType] /\ cursor' \in [Client -> Nat]
        /\ InLine(sub'[c], conn'[c].queue, cursor'[c]) /\ cursor'[c] >= cursor[c]
        /\ \A d \in Client \ {c} : sub'[d] = sub[d] /\ conn'[d] = conn[d] /\ cursor'[d] = cursor[d]
    BY <1>1, <1>2, <1>9, LeftKeeps
  <2>2. StreamType' BY <1>1, <2>1 DEF StreamType
  <2> QED BY <1>2, <2>1, <2>2, OneMoves
<1> QED BY <1>3, <1>6, <1>7, <1>8, <1>9

LEMMA FanOutToNoneMoves ==
  ASSUME StreamInv, NEW f \in fans, FanOutToNone(f) PROVE StreamInv' /\ Forward
<1>1. UNCHANGED <<log, kept, order, sub, conn, cursor>> /\ fans' \in SUBSET fans
  BY DEF FanOutToNone, storeVars, subVars, clientVars
<1>2. StreamType' BY <1>1 DEF StreamInv, StreamType
<1> QED BY <1>1, <1>2, NoneMoves

LEMMA HandMoves ==
  ASSUME StreamInv, NEW c \in Client, Hand(c) PROVE StreamInv' /\ Forward
<1> DEFINE n == Head(sub[c].todo)
           t == Tail(sub[c].todo)
<1>1. /\ StreamType /\ sub[c].phase \in {"delivering", "flushing"} /\ sub[c].todo # <<>>
      /\ UNCHANGED <<log, kept>>
  BY DEF StreamInv, Hand, storeVars
<1>2. sub \in [Client -> SubType] /\ sub[c] \in SubType /\ sub[c].mark \in Nat
      /\ sub[c].todo \in Seq(Nat) /\ InLine(sub[c], conn[c].queue, cursor[c])
  BY <1>1 DEF StreamInv, StreamType, SubType
<1>3. /\ n \in Nat /\ t \in Seq(Nat)
      /\ sub[c].phase = "delivering" => sub[c].mark < n /\ Above(t, n)
  <2>1. n \in Nat /\ t \in Seq(Nat) BY <1>1, <1>2, HeadAndRest
  <2>2. sub[c].phase = "delivering" => Above(sub[c].todo, sub[c].mark) BY <1>2 DEF InLine
  <2> QED BY <1>1, <1>2, <2>1, <2>2, TailAbove
<1>4. \/ /\ sub[c].phase = "flushing" /\ sub' = [sub EXCEPT ![c].todo = t]
         /\ UNCHANGED <<fans, order, conn, cursor>>
      \/ /\ (sub[c].phase = "flushing" => n > sub[c].mark) /\ Deliver(c, n)
         /\ sub' = [sub EXCEPT ![c].todo = t, ![c].mark = Raised(c, n), ![c].waits = Queues(c, n)]
         /\ UNCHANGED <<fans, order>>
      \/ Left(c, fans) /\ UNCHANGED cursor
  BY DEF Hand
<1> HIDE DEF n, t
<1>5. CASE /\ sub[c].phase = "flushing" /\ sub' = [sub EXCEPT ![c].todo = t]
           /\ UNCHANGED <<fans, order, conn, cursor>>
  <2>1. /\ sub' \in [Client -> SubType] /\ \A d \in Client \ {c} : sub'[d] = sub[d]
        /\ sub'[c].phase = sub[c].phase /\ sub'[c].mark = sub[c].mark
    BY <1>2, <1>3, <1>5 DEF SubType
  <2>2. StreamType' BY <1>1, <1>5, <2>1 DEF StreamType
  <2>3. InLine(sub'[c], conn'[c].queue, cursor'[c]) BY <1>2, <1>5, <2>1 DEF InLine
  <2>4. cursor[c] >= cursor[c] BY <1>1 DEF StreamType
  <2> QED BY <1>5, <2>1, <2>2, <2>3, <2>4, OneMoves
<1>6. CASE /\ (sub[c].phase = "flushing" => n > sub[c].mark) /\ Deliver(c, n)
           /\ sub' = [sub EXCEPT ![c].todo = t, ![c].mark = Raised(c, n), ![c].waits = Queues(c, n)]
           /\ UNCHANGED <<fans, order>>
  <2>1. sub[c].mark < n BY <1>1, <1>2, <1>3, <1>6
  <2>2. Raised(c, n) = n BY <1>2, <1>3, <2>1, RaisedIs
  <2>3. Queues(c, n) \in BOOLEAN BY DEF Queues
  <2>4. sub' = [sub EXCEPT ![c].todo = t, ![c].mark = n, ![c].waits = Queues(c, n)] BY <1>6, <2>2
  <2>5. /\ sub[c].phase # "away" /\ sub[c].phase # "replaying"
        /\ sub[c].phase \in {"checking", "delivering"} => Above(t, n)
    BY <1>1, <1>3
  <2>6. fans' \in SUBSET FanType /\ Deliver(c, n) /\ UNCHANGED <<log, kept, order>>
    BY <1>1, <1>6 DEF StreamType
  <2> QED BY <1>3, <2>1, <2>3, <2>4, <2>5, <2>6, GoesTo
<1>7. CASE Left(c, fans) /\ UNCHANGED cursor
  <2>1. fans \in SUBSET FanType BY <1>1 DEF StreamType
  <2>2. /\ fans' \in SUBSET FanType /\ order' \in Seq(Client)
        /\ sub' \in [Client -> SubType] /\ conn' \in [Client -> ConnType] /\ cursor' \in [Client -> Nat]
        /\ InLine(sub'[c], conn'[c].queue, cursor'[c]) /\ cursor'[c] >= cursor[c]
        /\ \A d \in Client \ {c} : sub'[d] = sub[d] /\ conn'[d] = conn[d] /\ cursor'[d] = cursor[d]
    BY <1>1, <1>7, <2>1, LeftKeeps
  <2>3. StreamType' BY <1>1, <2>2 DEF StreamType
  <2> QED BY <2>2, <2>3, OneMoves
<1> QED BY <1>4, <1>5, <1>6, <1>7

\* The steps of a resume that hand nothing over.
LEMMA ResumeMoves ==
  ASSUME StreamInv, NEW c \in Client, Replay(c) \/ Check(c) \/ Flush(c) \/ GoLive(c)
  PROVE  StreamInv' /\ Forward
<1>1. /\ StreamType /\ UNCHANGED <<log, kept, fans, order, conn, cursor>>
      /\ cursor[c] \in Nat /\ cursor[c] >= cursor[c]
  <2>1. UNCHANGED <<log, kept, fans, order, conn, cursor>>
    BY DEF Replay, Check, Flush, GoLive, Told, storeVars, clientVars
  <2>2. StreamType /\ cursor[c] \in Nat BY DEF StreamInv, StreamType
  <2> QED BY <2>1, <2>2
<1>2. /\ sub \in [Client -> SubType] /\ sub[c] \in SubType /\ sub[c].mark \in Nat
      /\ sub[c].buffer \in Seq(Nat) /\ InLine(sub[c], conn[c].queue, cursor[c])
  BY <1>1 DEF StreamInv, StreamType, SubType
<1>3. ASSUME NEW phase \in {"checking", "delivering", "flushing", "live"}, NEW todo \in Seq(Nat),
             NEW buffer \in Seq(Nat), sub[c].phase # "away",
             sub' = [sub EXCEPT ![c].phase = phase, ![c].todo = todo, ![c].buffer = buffer],
             phase \in {"checking", "delivering"} => Above(todo, sub[c].mark)
      PROVE  StreamInv' /\ Forward
  <2>1. /\ sub' \in [Client -> SubType] /\ \A d \in Client \ {c} : sub'[d] = sub[d]
        /\ sub'[c].phase = phase /\ sub'[c].mark = sub[c].mark /\ sub'[c].todo = todo
    BY <1>2, <1>3 DEF SubType
  <2>2. StreamType' BY <1>1, <2>1 DEF StreamType
  <2>3. InLine(sub'[c], conn'[c].queue, cursor'[c]) BY <1>1, <1>2, <1>3, <2>1 DEF InLine
  <2> QED BY <1>1, <2>1, <2>2, <2>3, OneMoves
<1>4. CASE Replay(c)
  <2> DEFINE after == {n \in kept : n > cursor[c]}
             S == {n \in after : Rank(after, n) < ReplayLimit}
  <2>1. Len(log) \in Nat /\ S \in SUBSET (1..Len(log)) /\ \A n \in S : cursor[c] < n
    <3>1. Len(log) \in Nat /\ kept \in SUBSET (1..Len(log)) BY <1>1 DEF StreamType
    <3>2. \A n \in S : n \in kept /\ n > cursor[c] OBVIOUS
    <3>3. \A n \in S : n \in 1..Len(log) BY <3>1, <3>2
    <3>4. \A n \in S : cursor[c] < n BY <1>1, <3>2, <3>3
    <3> HIDE DEF S
    <3> QED BY <3>1, <3>3, <3>4
  <2>2. Replayed(c) = Ascending(S) BY DEF Replayed
  <2> HIDE DEF S
  <2>3. Replayed(c) \in Seq(Nat) /\ Above(Replayed(c), cursor[c]) BY <1>1, <2>1, <2>2, RowsAbove
  <2>4. sub[c].phase = "replaying" /\ sub[c].mark = cursor[c] BY <1>2, <1>4 DEF Replay, InLine
  <2>5. sub' = [sub EXCEPT ![c].phase = "checking", ![c].todo = Replayed(c), ![c].buffer = sub[c].buffer]
    BY <1>2, <1>4 DEF Replay, SubType
  <2> QED BY <1>2, <1>3, <2>3, <2>4, <2>5
<1>5. CASE Check(c)
  <2>1. sub[c].phase = "checking" /\ sub[c].todo \in Seq(Nat) /\ Above(sub[c].todo, sub[c].mark)
    BY <1>2, <1>5 DEF Check, InLine, SubType
  <2>2. sub' = [sub EXCEPT ![c].phase = "delivering", ![c].todo = sub[c].todo, ![c].buffer = sub[c].buffer]
    BY <1>2, <1>5 DEF Check, SubType
  <2> QED BY <1>2, <1>3, <2>1, <2>2
<1>6. CASE Flush(c)
  <2> DEFINE all == sub[c].buffer
             rows == At(all, {i \in DOMAIN all : all[i] > sub[c].mark})
             to == IF rows = <<>> THEN "live" ELSE "flushing"
  <2>1. rows \in Seq(Nat) BY <1>2, AtKeeps, {i \in DOMAIN all : all[i] > sub[c].mark} \in SUBSET (DOMAIN all)
  <2>2. /\ sub[c].phase = "delivering" /\ to \in {"flushing", "live"}
        /\ sub' = [sub EXCEPT ![c].phase = to, ![c].todo = rows, ![c].buffer = <<>>]
    BY <1>6 DEF Flush
  <2> HIDE DEF rows, to
  <2>3. <<>> \in Seq(Nat) OBVIOUS
  <2> QED BY <1>3, <2>1, <2>2, <2>3
<1>7. CASE GoLive(c)
  <2>1. sub[c].phase = "flushing" /\ sub[c].todo \in Seq(Nat) /\ <<>> \in Seq(Nat)
    BY <1>2, <1>7 DEF GoLive, SubType
  <2>2. sub' = [sub EXCEPT ![c].phase = "live", ![c].todo = sub[c].todo, ![c].buffer = <<>>]
    BY <1>2, <1>7 DEF GoLive, SubType
  <2> QED BY <1>3, <2>1, <2>2
<1> QED BY <1>4, <1>5, <1>6, <1>7

LEMMA CrashMoves == ASSUME StreamInv, BrokerCrash PROVE StreamInv' /\ Forward
<1>1. /\ UNCHANGED <<log, kept, cursor>> /\ fans' = {} /\ order' = <<>>
      /\ sub' = [c \in Client |-> Away] /\ conn' = [c \in Client |-> Fresh]
  BY DEF BrokerCrash, storeVars, clientVars
<1>2. Away \in SubType /\ Fresh \in ConnType /\ Away.phase = "away" /\ Fresh.queue = <<>>
  <2>1. <<>> \in Seq(Nat) /\ 0 \in Nat OBVIOUS
  <2> QED BY <2>1 DEF Away, Fresh, SubType, ConnType
<1>3. StreamType' BY <1>1, <1>2 DEF StreamInv, StreamType
<1>4. \A c \in Client : cursor[c] >= cursor[c] BY DEF StreamInv, StreamType
<1>5. \A c \in Client : InLine(sub'[c], conn'[c].queue, cursor'[c]) BY <1>1, <1>2, EmptyWithin DEF InLine
<1> QED BY <1>1, <1>3, <1>4, <1>5 DEF StreamInv, Forward

-----------------------------------------------------------------------------
(* The specification.                                                           *)

LEMMA InitStream == Init => StreamInv
<1> SUFFICES ASSUME Init PROVE StreamInv OBVIOUS
<1>1. /\ log = <<>> /\ kept = {} /\ fans = {} /\ order = <<>>
      /\ sub = [c \in Client |-> Away] /\ conn = [c \in Client |-> Fresh] /\ cursor = [c \in Client |-> 0]
  BY DEF Init, BrokerInit
<1>2. Away \in SubType /\ Fresh \in ConnType /\ Away.phase = "away" /\ Fresh.queue = <<>>
  <2>1. <<>> \in Seq(Nat) /\ 0 \in Nat OBVIOUS
  <2> QED BY <2>1 DEF Away, Fresh, SubType, ConnType
<1>3. StreamType BY <1>1, <1>2 DEF StreamType
<1>4. \A c \in Client : InLine(sub[c], conn[c].queue, cursor[c]) BY <1>1, <1>2, EmptyWithin DEF InLine
<1> QED BY <1>3, <1>4 DEF StreamInv

LEMMA RunEvent == ASSUME OutboxInv, NEW n \in 1..emitted PROVE n \in Event
<1>1. emitted \in 0..MaxEmits /\ MaxEmits \in Nat BY DeliveryAssumption DEF OutboxInv, OutboxType
<1>2. n \in 1..MaxEmits BY <1>1
<1> QED BY <1>2, Kinds DEF RunEvents

LEMMA StepStream == StreamInv /\ OutboxInv /\ [Next]_vars => StreamInv' /\ (Forward \/ UNCHANGED brokerVars)
<1> SUFFICES ASSUME StreamInv, OutboxInv, [Next]_vars
             PROVE  StreamInv' /\ (Forward \/ UNCHANGED brokerVars)
  OBVIOUS
<1>0. OutboxType BY DEF OutboxInv
<1>1. CASE UNCHANGED brokerVars
  <2>1. UNCHANGED <<log, kept, fans, order, sub, conn, cursor>>
    BY <1>1 DEF brokerVars, storeVars, subVars, clientVars
  <2>2. StreamType' BY <2>1 DEF StreamInv, StreamType
  <2> QED BY <1>1, <2>1, <2>2, NoneMoves
<1>2. ASSUME NEW n, Publish(n), n \in Event PROVE UNCHANGED brokerVars \/ \E e \in Event : Write(e)
  BY <1>2 DEF Publish
<1>3. CASE Emit \/ RetryFires \/ Broadcast \/ Failed \/ Thrown \/ Stop \/ UNCHANGED vars
  BY <1>1, <1>3 DEF Emit, RetryFires, Broadcast, Failed, Thrown, Stop, vars
<1>4. CASE List
  <2>1. CASE stopped \/ Pending = {} BY <1>1, <1>4, <2>1 DEF List
  <2>2. CASE ~(stopped \/ Pending = {})
    <3>1. batch' = Ascending(Pending) /\ Publish(Head(batch')) BY <1>4, <2>2 DEF List
    <3>2. batch' \in Seq(1..emitted) /\ batch' # <<>> BY <2>2, <3>1, BatchListed
    <3>3. Head(batch') \in 1..emitted BY <3>2, HeadAndRest
    <3>4. Head(batch') \in Event BY <3>3, RunEvent
    <3> QED BY <1>0, <1>1, <1>2, <3>1, <3>4, StoreMoves
  <2> QED BY <2>1, <2>2
<1>5. CASE Mark
  <2>1. CASE Tail(batch) = <<>> BY <1>1, <1>5, <2>1 DEF Mark
  <2>2. CASE Tail(batch) # <<>>
    <3>1. Publish(Head(Tail(batch))) /\ drain = "emitting" BY <1>5, <2>2 DEF Mark
    <3>2. batch \in Seq(1..emitted) /\ batch # <<>> BY <3>1 DEF OutboxInv, OutboxType
    <3>3. Tail(batch) \in Seq(1..emitted) BY <3>2, HeadAndRest
    <3>4. Head(Tail(batch)) \in 1..emitted BY <2>2, <3>3, HeadAndRest
    <3>5. Head(Tail(batch)) \in Event BY <3>4, RunEvent
    <3> QED BY <1>0, <1>1, <1>2, <3>1, <3>5, StoreMoves
  <2> QED BY <2>1, <2>2
<1>6. CASE Stored \/ Refused \/ Sweep
  <2>1. Commit \/ Refuse \/ Sweep BY <1>6 DEF Stored, Refused
  <2> QED BY <1>0, <2>1, StoreMoves
<1>7. ASSUME NEW e \in Bridge, Bridged(e) PROVE StreamInv' /\ (Forward \/ UNCHANGED brokerVars)
  <2>1. e \in Event BY Kinds
  <2>2. Write(e) \/ UNCHANGED brokerVars BY <1>7 DEF Bridged
  <2> QED BY <1>0, <1>1, <2>1, <2>2, StoreMoves
<1>8. CASE \E c \in Client : Connect(c) \/ Disconnect(c) \/ Drain(c) \/ Resumes(c)
  BY <1>8, ConnectMoves, DisconnectMoves, DrainMoves, HandMoves, ResumeMoves DEF Resumes
<1>9. CASE \E f \in fans : FanOutToNone(f) \/ FanOut(f)
  BY <1>9, FanOutMoves, FanOutToNoneMoves
<1>10. CASE Crash BY <1>10, CrashMoves DEF Crash
<1> QED BY <1>3, <1>4, <1>5, <1>6, <1>7, <1>8, <1>9, <1>10 DEF Next

\* Over all of its connections, whatever is replayed, put aside, dropped, queued or
\* swept, a client receives the rows of its scope in their order (the watermark of
\* StreamBroker.ts:268-270 and the queue of sseConnection.ts:215).
THEOREM ReceivedInOrder == Spec => InOrder
<1>1. Init => OutboxInv BY InitOutbox
<1>2. OutboxInv /\ [Next]_vars => OutboxInv' BY StepOutbox
<1>3. StreamInv /\ OutboxInv /\ [Next]_vars =>
        StreamInv' /\ [\A c \in Client : cursor'[c] >= cursor[c]]_brokerVars
  BY StepStream DEF Forward
<1> QED BY <1>1, <1>2, <1>3, InitStream, PTL DEF Spec, InOrder

-----------------------------------------------------------------------------
(* The types: every number a client or a broadcast holds is that of a row.      *)

PlacedIn(rows, s, k, at) ==
  /\ s.mark \in rows \cup {0} /\ at \in rows \cup {0}
  /\ s.todo \in Seq(rows) /\ s.buffer \in Seq(rows)
  /\ k.queue \in Seq(rows) /\ k.gap \in SUBSET rows /\ Len(k.queue) <= MaxQueue

SeenType == /\ told \in [Client -> SUBSET Rows] /\ holes \in [Client -> SUBSET Rows]
            /\ escaped \in [Client -> SUBSET Rows]

BrokerBounds ==
  /\ Len(pending) <= MaxPending /\ connects \in 0..MaxConnects /\ sweeps \in 0..MaxSweeps
  /\ \A f \in fans : f.seq \in Rows
  /\ SeenType
  /\ \A c \in Client : PlacedIn(Rows, sub[c], conn[c], cursor[c])

Drains == {"idle", "listing", "writing", "fanning", "emitting", "refused", "rejected"}

OutboxBounds ==
  /\ drain \in Drains /\ place \in 0..Len(log)
  /\ chained \in BOOLEAN /\ retry \in BOOLEAN /\ stopped \in BOOLEAN
  /\ sent \in SUBSET Bridge /\ fails \in 0..MaxFails /\ crashes \in 0..MaxCrashes

Bounds == BrokerBounds /\ OutboxBounds

LEMMA RowNumbers ==
  ASSUME StreamType PROVE Len(log) \in Nat /\ Rows \in SUBSET Nat /\ 0 \notin Rows /\ Rows = 1..Len(log)
BY DEF StreamType, Rows

LEMMA BoundsAreTypes == StreamInv /\ OutboxInv /\ Bounds => TypeOK
<1> SUFFICES ASSUME StreamInv, OutboxInv, Bounds PROVE TypeOK OBVIOUS
<1>0. StreamType /\ OutboxType /\ BrokerBounds /\ SeenType
  BY DEF StreamInv, OutboxInv, Bounds, BrokerBounds
<1>1. /\ pending \in Seq(SUBSET Event) /\ Len(pending) <= MaxPending /\ log \in Seq(SUBSET Event)
      /\ kept \subseteq Rows /\ order \in Seq(Client)
      /\ connects \in 0..MaxConnects /\ sweeps \in 0..MaxSweeps
  BY <1>0 DEF StreamType, OutboxType, BrokerBounds, Rows
<1>2. \A f \in fans : f.seq \in Rows /\ f.todo \in Seq(Client) /\ f.held \in Client \cup {None}
  BY <1>0 DEF StreamType, BrokerBounds, FanType
<1>3. ASSUME NEW c \in Client
      PROVE  /\ sub[c] \in [phase : {"away", "replaying", "checking", "delivering", "flushing", "live"},
                            mark : 0..Len(log), todo : Seq(Rows), buffer : Seq(Rows), waits : BOOLEAN]
             /\ conn[c] \in [congested : BOOLEAN, queue : Seq(Rows), gap : SUBSET Rows]
             /\ Len(conn[c].queue) <= MaxQueue /\ cursor[c] \in 0..Len(log)
  <2>1. PlacedIn(Rows, sub[c], conn[c], cursor[c]) BY <1>0 DEF BrokerBounds
  <2>2. \A n \in Rows \cup {0} : n \in 0..Len(log) BY <1>0, RowNumbers
  <2>3. sub[c] \in SubType /\ conn[c] \in ConnType BY <1>0 DEF StreamType
  <2>4. sub[c].mark \in 0..Len(log) /\ cursor[c] \in 0..Len(log) BY <2>1, <2>2 DEF PlacedIn
  <2>5. sub[c].todo \in Seq(Rows) /\ sub[c].buffer \in Seq(Rows) /\ conn[c].queue \in Seq(Rows)
        /\ conn[c].gap \in SUBSET Rows /\ Len(conn[c].queue) <= MaxQueue
    BY <2>1 DEF PlacedIn
  <2>6. sub[c] \in [phase : {"away", "replaying", "checking", "delivering", "flushing", "live"},
                    mark : 0..Len(log), todo : Seq(Rows), buffer : Seq(Rows), waits : BOOLEAN]
    BY <2>3, <2>4, <2>5 DEF SubType
  <2>7. conn[c] \in [congested : BOOLEAN, queue : Seq(Rows), gap : SUBSET Rows]
    BY <2>3, <2>5 DEF ConnType
  <2> QED BY <2>4, <2>5, <2>6, <2>7
<1>4. /\ sub \in [Client -> [phase : {"away", "replaying", "checking", "delivering", "flushing", "live"},
                             mark : 0..Len(log), todo : Seq(Rows), buffer : Seq(Rows), waits : BOOLEAN]]
      /\ conn \in [Client -> [congested : BOOLEAN, queue : Seq(Rows), gap : SUBSET Rows]]
      /\ cursor \in [Client -> 0..Len(log)]
  BY <1>0, <1>3, Zenon DEF StreamType
<1>5. \A v \in {told, holes, escaped} : v \in [Client -> SUBSET Rows] BY <1>0 DEF SeenType
<1>6. BrokerType BY <1>1, <1>2, <1>3, <1>4, <1>5, Zenon DEF BrokerType
<1>7. batch \in Seq(RunEvents)
  <2>1. batch \in Seq(1..emitted) /\ emitted \in 0..MaxEmits BY <1>0 DEF OutboxType
  <2>2. 1..emitted \subseteq RunEvents BY <2>1, DeliveryAssumption DEF RunEvents
  <2> QED BY <2>1, <2>2
<1>8. emitted \in 0..MaxEmits /\ marked \subseteq 1..emitted BY <1>0 DEF OutboxType
<1> QED BY <1>6, <1>7, <1>8 DEF TypeOK, Bounds, OutboxBounds, Drains

-----------------------------------------------------------------------------
(* What an action does to one client.                                           *)

\* The rows are the same, and the other clients.
OnlyTouches(c) ==
  /\ UNCHANGED <<log, pending, sweeps>>
  /\ \A d \in Client \ {c} : sub'[d] = sub[d] /\ conn'[d] = conn[d] /\ cursor'[d] = cursor[d]

LEMMA TouchBounds ==
  ASSUME BrokerBounds, NEW c \in Client, OnlyTouches(c), connects' \in 0..MaxConnects,
         SeenType', PlacedIn(Rows, sub'[c], conn'[c], cursor'[c]), \A f \in fans' : f.seq \in Rows
  PROVE  BrokerBounds'
<1>1. Rows' = Rows BY DEF OnlyTouches, Rows
<1>2. \A d \in Client \ {c} : PlacedIn(Rows, sub'[d], conn'[d], cursor'[d])
  BY DEF BrokerBounds, OnlyTouches
<1>3. \A d \in Client : PlacedIn(Rows, sub'[d], conn'[d], cursor'[d]) BY <1>2
<1> QED BY <1>1, <1>3 DEF BrokerBounds, OnlyTouches

\* The broadcasts are of the same rows.
LEMMA FanSeqs ==
  ASSUME NEW c, NEW R, NEW fs, \A f \in fs : f \in FanType /\ f.seq \in R
  PROVE  /\ \A f \in Gone(fs, c) : f.seq \in R
         /\ \A f \in Freed(fs, c) : f.seq \in R
<1>1. ASSUME NEW f \in fs
      PROVE  /\ [f EXCEPT !.todo = Others(@, c), !.held = IF @ = c THEN None ELSE @].seq \in R
             /\ [f EXCEPT !.held = IF @ = c THEN None ELSE @].seq \in R
  BY DEF FanType
<1> QED BY <1>1 DEF Gone, Freed, Active

LEMMA MovedSeqs ==
  ASSUME StreamType, NEW f \in fans, NEW held, \A g \in fans : g.seq \in Rows
  PROVE  \A g \in Moved(f, held) : g.seq \in Rows
<1>1. f \in FanType BY DEF StreamType
<1>2. [f EXCEPT !.started = TRUE, !.todo = Tail(Targets(f)), !.held = held, !.late = @ \/ held # None].seq
        \in Rows
  BY <1>1 DEF FanType
<1> QED BY <1>2 DEF Moved, Active

LEMMA ToldTypes ==
  ASSUME SeenType, StreamType, NEW c \in Client, Told(c, Rows), UNCHANGED log
  PROVE  told' \in [Client -> SUBSET Rows] /\ holes' \in [Client -> SUBSET Rows] /\ cursor' = cursor
<1>1. told' = [told EXCEPT ![c] = @ \cup {n \in Rows : n > cursor[c]}]
      /\ holes' = [holes EXCEPT ![c] = @ \ Rows] /\ cursor' = cursor
  BY DEF Told
<1>2. {n \in Rows : n > cursor[c]} \in SUBSET Rows OBVIOUS
<1> QED BY <1>1, <1>2 DEF SeenType

LEMMA WroteTypes ==
  ASSUME SeenType, StreamType, NEW c \in Client, NEW gap \in SUBSET Rows, NEW ns \in Seq(Rows),
         NEW rest \in Seq(Rows), Len(rest) <= MaxQueue, cursor[c] \in Rows \cup {0},
         Wrote(c, gap, ns, rest)
  PROVE  /\ told' \in [Client -> SUBSET Rows] /\ holes' \in [Client -> SUBSET Rows]
         /\ cursor'[c] \in Rows \cup {0} /\ conn'[c].queue = rest /\ conn'[c].gap = {}
<1> DEFINE has == {ns[i] : i \in DOMAIN ns}
           at == IF ns = <<>> THEN cursor[c] ELSE ns[Len(ns)]
<1>1. at \in Rows \cup {0} OBVIOUS
<1>2. /\ cursor' = [cursor EXCEPT ![c] = at]
      /\ told' = [told EXCEPT ![c] = {n \in @ \cup gap : n > at}]
      /\ holes' = [holes EXCEPT ![c] =
                     (@ \cup {n \in Rows : cursor[c] < n /\ n < at}) \ (has \cup told[c] \cup gap)]
  BY DEF Wrote
<1>3. PICK full : conn' = [conn EXCEPT ![c] = [congested |-> full, queue |-> rest, gap |-> {}]]
  BY DEF Wrote
<1> HIDE DEF has, at
<1>4. {n \in told[c] \cup gap : n > at} \in SUBSET Rows BY DEF SeenType
<1>5. (holes[c] \cup {n \in Rows : cursor[c] < n /\ n < at}) \ (has \cup told[c] \cup gap) \in SUBSET Rows
  BY DEF SeenType
<1>6. told' \in [Client -> SUBSET Rows] BY <1>2, <1>4 DEF SeenType
<1>7. holes' \in [Client -> SUBSET Rows] BY <1>2, <1>5 DEF SeenType
<1> QED BY <1>1, <1>2, <1>3, <1>6, <1>7 DEF StreamType

LEMMA DeliverTypes ==
  ASSUME SeenType, StreamType, NEW c \in Client, NEW n \in Rows,
         NEW s, PlacedIn(Rows, s, conn[c], cursor[c]), Deliver(c, n)
  PROVE  /\ told' \in [Client -> SUBSET Rows] /\ holes' \in [Client -> SUBSET Rows]
         /\ cursor'[c] \in Rows \cup {0} /\ conn'[c].queue \in Seq(Rows)
         /\ conn'[c].gap \in SUBSET Rows /\ Len(conn'[c].queue) <= MaxQueue
<1>1. /\ conn \in [Client -> ConnType] /\ conn[c] \in ConnType /\ cursor[c] \in Rows \cup {0}
      /\ conn[c].queue \in Seq(Rows) /\ conn[c].gap \in SUBSET Rows /\ Len(conn[c].queue) <= MaxQueue
  BY DEF StreamType, PlacedIn
<1>2. CASE Wrote(c, {}, <<n>>, <<>>)
  <2>1. {} \in SUBSET Rows /\ <<n>> \in Seq(Rows) /\ <<>> \in Seq(Rows) /\ Len(<<>>) <= MaxQueue
    BY BrokerAssumption
  <2>2. /\ told' \in [Client -> SUBSET Rows] /\ holes' \in [Client -> SUBSET Rows]
        /\ cursor'[c] \in Rows \cup {0} /\ conn'[c].queue = <<>> /\ conn'[c].gap = {}
    BY <1>1, <1>2, <2>1, WroteTypes
  <2> QED BY <2>1, <2>2
<1>3. CASE conn' = [conn EXCEPT ![c].gap = @ \cup {n}] /\ UNCHANGED <<cursor, told, holes>>
  <2>1. conn'[c].gap = conn[c].gap \cup {n} /\ conn'[c].queue = conn[c].queue BY <1>1, <1>3 DEF ConnType
  <2> QED BY <1>1, <1>3, <2>1 DEF SeenType
<1>4. CASE /\ Queues(c, n) /\ conn' = [conn EXCEPT ![c].queue = Append(@, n)]
           /\ UNCHANGED <<cursor, told, holes>>
  <2>1. conn'[c].gap = conn[c].gap /\ conn'[c].queue = Append(conn[c].queue, n)
    BY <1>1, <1>4 DEF ConnType
  <2>2. Len(conn[c].queue) < MaxQueue /\ MaxQueue \in Nat BY <1>4, BrokerAssumption DEF Queues
  <2>3. Append(conn[c].queue, n) \in Seq(Rows) /\ Len(Append(conn[c].queue, n)) <= MaxQueue
    BY <1>1, <2>2
  <2> QED BY <1>1, <1>4, <2>1, <2>3 DEF SeenType
<1> QED BY <1>2, <1>3, <1>4 DEF Deliver

\* A connection that ends holds nothing.
LEMMA LeftTypes ==
  ASSUME StreamType, NEW c \in Client, NEW fs \in SUBSET FanType, Left(c, fs), cursor' = cursor,
         \A f \in fs : f.seq \in Rows, cursor[c] \in Rows \cup {0}
  PROVE  /\ PlacedIn(Rows, sub'[c], conn'[c], cursor'[c])
         /\ \A f \in fans' : f.seq \in Rows
         /\ \A d \in Client \ {c} : sub'[d] = sub[d] /\ conn'[d] = conn[d] /\ cursor'[d] = cursor[d]
<1>1. /\ sub' = [sub EXCEPT ![c] = Away] /\ conn' = [conn EXCEPT ![c] = Fresh] /\ fans' = Gone(fs, c)
  BY DEF Left
<1>2. PlacedIn(Rows, Away, Fresh, cursor[c])
  <2>1. <<>> \in Seq(Rows) /\ Len(<<>>) <= MaxQueue BY BrokerAssumption
  <2> QED BY <2>1 DEF PlacedIn, Away, Fresh
<1>3. sub'[c] = Away /\ conn'[c] = Fresh BY <1>1 DEF StreamType
<1>4. \A f \in fans' : f.seq \in Rows BY <1>1, FanSeqs
<1> QED BY <1>1, <1>2, <1>3, <1>4 DEF StreamType

\* The rows from the first to the last of a set of them.
LEMMA Spans ==
  ASSUME NEW m \in Nat, NEW S \in SUBSET (1..m), S # {}
  PROVE  /\ First(S) \in S /\ Top(S) \in S
         /\ \A n \in S : First(S) <= n /\ n <= Top(S)
<1> DEFINE K == Cardinality(S)
           a == Ascending(S)
           lo == a[1]
           hi == a[K]
<1>1. S \in SUBSET Nat /\ IsFiniteSet(S)
  <2>1. 1 \in Int /\ m \in Int /\ \A n \in 1..m : n \in Nat OBVIOUS
  <2>2. IsFiniteSet(1..m) BY <2>1, FS_Interval
  <2>3. IsFiniteSet(S) BY <2>2, FS_Subset
  <2> QED BY <2>1, <2>3
<1>2. /\ K \in Nat /\ a \in [1..K -> S] /\ \A i, j \in 1..K : i < j => a[i] < a[j]
      /\ \A n \in S : \E i \in 1..K : a[i] = n
  BY <1>1, AscendingLists
<1>3. 1 \in 1..K /\ K \in 1..K
  <2>1. PICK n \in S : TRUE OBVIOUS
  <2>2. PICK i \in 1..K : a[i] = n BY <1>2
  <2> HIDE DEF K
  <2> QED BY <1>2, <2>2
<1>4. lo \in S /\ hi \in S BY <1>2, <1>3
<1>5. ASSUME NEW n \in S PROVE lo <= n /\ n <= hi
  <2>1. PICK i \in 1..K : a[i] = n BY <1>2
  <2> HIDE DEF K, a
  <2>2. 1 = i \/ 1 < i BY <1>2
  <2>3. i = K \/ i < K BY <1>2
  <2>4. lo \in Nat /\ n \in Nat /\ hi \in Nat BY <1>1, <1>4
  <2>5. lo <= n BY <1>2, <1>3, <2>1, <2>2, <2>4
  <2>6. n <= hi BY <1>2, <1>3, <2>1, <2>3, <2>4
  <2> QED BY <2>5, <2>6
<1> HIDE DEF lo, hi
<1>6. First(S) \in S /\ \A n \in S : First(S) <= n BY <1>4, <1>5 DEF First
<1>7. \A n \in S : n \in Nat /\ n > 0 OBVIOUS
<1>8. hi \in S \cup {0} /\ \A n \in S : n <= hi BY <1>4, <1>5
<1>9. Top(S) \in S \cup {0} /\ \A n \in S : n <= Top(S)
  <2> DEFINE P(x) == \A n \in S : n <= x
  <2>1. hi \in S \cup {0} /\ P(hi) BY <1>8
  <2>2. Top(S) = CHOOSE x \in S \cup {0} : P(x) BY DEF Top
  <2> HIDE DEF P
  <2>3. Top(S) \in S \cup {0} /\ P(Top(S)) BY <2>1, <2>2
  <2> QED BY <2>3 DEF P
<1>10. Top(S) # 0
  <2>1. lo <= Top(S) /\ lo > 0 /\ lo \in Nat BY <1>4, <1>7, <1>9
  <2> QED BY <2>1
<1> QED BY <1>6, <1>9, <1>10

\* What is announced of a connection that dropped rows.
GapOf(k) == IF k.gap = {} THEN {} ELSE First(k.gap)..Top(k.gap)

LEMMA GapIsOfRows ==
  ASSUME NEW m \in Nat, NEW k, k.gap \in SUBSET (1..m)
  PROVE  GapOf(k) \in SUBSET (1..m) /\ k.gap \subseteq GapOf(k)
<1>1. CASE k.gap = {} BY <1>1 DEF GapOf
<1>2. CASE k.gap # {}
  <2> DEFINE S == k.gap
  <2>1. /\ First(S) \in S /\ Top(S) \in S /\ \A n \in S : First(S) <= n /\ n <= Top(S)
    BY <1>2, Spans
  <2>2. GapOf(k) = First(S)..Top(S) BY <1>2 DEF GapOf
  <2>3. S \in SUBSET (1..m) OBVIOUS
  <2> HIDE DEF S
  <2>4. First(S) \in 1..m /\ Top(S) \in 1..m /\ \A n \in S : n \in Nat
    <3>1. \A n \in S : n \in 1..m BY <2>3
    <3>2. \A n \in 1..m : n \in Nat OBVIOUS
    <3> QED BY <2>1, <3>1, <3>2
  <2>5. First(S)..Top(S) \in SUBSET (1..m) BY <2>4
  <2>6. S \subseteq First(S)..Top(S) BY <2>1, <2>4
  <2> QED BY <2>2, <2>5, <2>6 DEF S
<1> QED BY <1>1, <1>2

-----------------------------------------------------------------------------
(* The steps keep the types.                                                    *)

LEMMA ConnectTypes ==
  ASSUME StreamInv, BrokerBounds, NEW c \in Client, Connect(c) PROVE BrokerBounds'
<1>1. /\ StreamType /\ SeenType /\ connects \in Nat /\ MaxConnects \in Nat
      /\ PlacedIn(Rows, sub[c], conn[c], cursor[c]) /\ \A f \in fans : f.seq \in Rows
      /\ sub \in [Client -> SubType] /\ sub[c] \in SubType
  BY BrokerAssumption DEF StreamInv, BrokerBounds, StreamType
<1>2. /\ connects < MaxConnects /\ connects' = connects + 1
      /\ UNCHANGED <<pending, log, kept, sweeps, fans, conn, escaped>>
      /\ IF cursor[c] = 0 /\ c \notin FromZero
           THEN sub' = [sub EXCEPT ![c].phase = "live"] /\ Told(c, Rows)
           ELSE /\ sub' = [sub EXCEPT ![c].phase = "replaying", ![c].mark = cursor[c]]
                /\ UNCHANGED <<cursor, told, holes>>
  BY DEF Connect, storeVars
<1>3. connects' \in 0..MaxConnects BY <1>1, <1>2
<1>4. Rows' = Rows /\ cursor' = cursor BY <1>2 DEF Rows, Told
<1>5. SeenType' BY <1>1, <1>2, <1>4, ToldTypes DEF SeenType
<1>6. /\ \A d \in Client \ {c} : sub'[d] = sub[d]
      /\ sub'[c].todo = sub[c].todo /\ sub'[c].buffer = sub[c].buffer
      /\ sub'[c].mark \in {sub[c].mark, cursor[c]}
  <2>1. CASE cursor[c] = 0 /\ c \notin FromZero
    <3>1. sub' = [sub EXCEPT ![c].phase = "live"] BY <1>2, <2>1
    <3> QED BY <1>1, <3>1 DEF SubType
  <2>2. CASE ~(cursor[c] = 0 /\ c \notin FromZero)
    <3>1. sub' = [sub EXCEPT ![c].phase = "replaying", ![c].mark = cursor[c]] BY <1>2, <2>2
    <3> QED BY <1>1, <3>1 DEF SubType
  <2> QED BY <2>1, <2>2
<1>7. PlacedIn(Rows, sub'[c], conn'[c], cursor'[c]) BY <1>1, <1>2, <1>4, <1>6 DEF PlacedIn
<1>8. OnlyTouches(c) BY <1>2, <1>4, <1>6 DEF OnlyTouches
<1> QED BY <1>1, <1>2, <1>3, <1>5, <1>7, <1>8, TouchBounds

LEMMA DisconnectTypes ==
  ASSUME StreamInv, BrokerBounds, NEW c \in Client, Disconnect(c) PROVE BrokerBounds'
<1>1. /\ Left(c, fans)
      /\ UNCHANGED <<pending, log, kept, sweeps, connects, cursor, told, holes, escaped>>
  BY DEF Disconnect, storeVars, clientVars
<1>2. /\ StreamType /\ SeenType /\ fans \in SUBSET FanType /\ connects \in 0..MaxConnects
      /\ PlacedIn(Rows, sub[c], conn[c], cursor[c]) /\ \A f \in fans : f.seq \in Rows
  BY DEF StreamInv, BrokerBounds, StreamType
<1>3. cursor[c] \in Rows \cup {0} BY <1>2 DEF PlacedIn
<1>4. /\ PlacedIn(Rows, sub'[c], conn'[c], cursor'[c]) /\ \A f \in fans' : f.seq \in Rows
      /\ \A d \in Client \ {c} : sub'[d] = sub[d] /\ conn'[d] = conn[d] /\ cursor'[d] = cursor[d]
  BY <1>1, <1>2, <1>3, LeftTypes
<1>5. SeenType' BY <1>1, <1>2 DEF SeenType, Rows
<1>6. OnlyTouches(c) BY <1>1, <1>4 DEF OnlyTouches
<1> QED BY <1>1, <1>2, <1>4, <1>5, <1>6, TouchBounds

LEMMA DrainTypes ==
  ASSUME StreamInv, BrokerBounds, NEW c \in Client, Drain(c) PROVE BrokerBounds'
<1> DEFINE all == conn[c].queue
           gap == GapOf(conn[c])
<1>1. PICK k \in 0..Len(all) :
        LET rest == SubSeq(all, k + 1, Len(all))
        IN  /\ Wrote(c, gap, SubSeq(all, 1, k), rest)
            /\ IF rest = <<>> THEN fans' = Freed(fans, c) /\ sub' = [sub EXCEPT ![c].waits = FALSE]
               ELSE UNCHANGED <<fans, sub>>
  BY DEF Drain, GapOf
<1>2. UNCHANGED <<pending, log, kept, sweeps, order, connects, escaped>> BY DEF Drain, storeVars
<1>3. /\ StreamType /\ SeenType /\ connects \in 0..MaxConnects
      /\ PlacedIn(Rows, sub[c], conn[c], cursor[c]) /\ \A f \in fans : f.seq \in Rows /\ f \in FanType
      /\ sub \in [Client -> SubType] /\ sub[c] \in SubType
  BY DEF StreamInv, BrokerBounds, StreamType
<1>4. /\ cursor[c] \in Rows \cup {0} /\ all \in Seq(Rows) /\ conn[c].gap \in SUBSET Rows
      /\ Len(all) <= MaxQueue
  BY <1>3 DEF PlacedIn
<1>5. gap \in SUBSET Rows BY <1>3, <1>4, RowNumbers, GapIsOfRows
<1> DEFINE one == SubSeq(all, 1, k)
           rest == SubSeq(all, k + 1, Len(all))
<1>6. one \in Seq(Rows) /\ rest \in Seq(Rows) /\ Len(rest) <= MaxQueue
  <2>1. all \in Seq(Rows) /\ Len(all) \in Nat /\ k \in Nat /\ k <= Len(all) /\ MaxQueue \in Nat
    BY <1>4, BrokerAssumption
  <2> HIDE DEF all
  <2>2. one \in Seq(Rows)
    <3>1. \A i \in 1..k : all[i] \in Rows BY <2>1
    <3> QED BY <2>1, <3>1, SubSeqProperties
  <2>3. rest \in Seq(Rows) /\ Len(rest) = Len(all) - k
    <3>1. \A i \in (k + 1)..Len(all) : all[i] \in Rows BY <2>1
    <3> QED BY <2>1, <3>1, SubSeqProperties
  <2>4. Len(rest) <= Len(all) BY <2>1, <2>3
  <2> QED BY <1>4, <2>1, <2>2, <2>3, <2>4 DEF all
<1>7. Wrote(c, gap, one, rest) BY <1>1
<1>8. \A d \in Client \ {c} : cursor'[d] = cursor[d] /\ conn'[d] = conn[d]
  BY <1>7 DEF Wrote, StreamType
<1>9. sub' = sub \/ sub' = [sub EXCEPT ![c].waits = FALSE] BY <1>1
<1>10. \A f \in fans' : f.seq \in Rows
  <2>1. fans' = fans \/ fans' = Freed(fans, c) BY <1>1
  <2> QED BY <1>3, <2>1, FanSeqs
<1> HIDE DEF one, rest, all, gap
<1>11. /\ told' \in [Client -> SUBSET Rows] /\ holes' \in [Client -> SUBSET Rows]
       /\ cursor'[c] \in Rows \cup {0} /\ conn'[c].queue = rest /\ conn'[c].gap = {}
  BY <1>3, <1>4, <1>5, <1>6, <1>7, WroteTypes
<1>12. SeenType' BY <1>2, <1>3, <1>11 DEF SeenType, Rows
<1>13. /\ \A d \in Client \ {c} : sub'[d] = sub[d]
       /\ sub'[c].mark = sub[c].mark /\ sub'[c].todo = sub[c].todo /\ sub'[c].buffer = sub[c].buffer
  <2>1. CASE sub' = sub BY <2>1
  <2>2. CASE sub' = [sub EXCEPT ![c].waits = FALSE] BY <1>3, <2>2 DEF SubType
  <2> QED BY <1>9, <2>1, <2>2
<1>14. PlacedIn(Rows, sub'[c], conn'[c], cursor'[c]) BY <1>3, <1>6, <1>11, <1>13 DEF PlacedIn
<1>15. OnlyTouches(c) BY <1>2, <1>8, <1>13 DEF OnlyTouches
<1> QED BY <1>2, <1>3, <1>10, <1>12, <1>14, <1>15, TouchBounds

LEMMA ResumeTypes ==
  ASSUME StreamInv, BrokerBounds, NEW c \in Client, Replay(c) \/ Check(c) \/ Flush(c) \/ GoLive(c)
  PROVE  BrokerBounds'
<1>1. /\ StreamType /\ SeenType /\ connects \in 0..MaxConnects
      /\ PlacedIn(Rows, sub[c], conn[c], cursor[c]) /\ \A f \in fans : f.seq \in Rows
      /\ sub \in [Client -> SubType] /\ sub[c] \in SubType
  BY DEF StreamInv, BrokerBounds, StreamType
<1>2. UNCHANGED <<pending, log, kept, sweeps, fans, order, conn, connects, cursor>>
  BY DEF Replay, Check, Flush, GoLive, storeVars, clientVars, Told
<1>3. SeenType'
  <2>1. CASE Check(c)
    <3>1. /\ Told(c, Rows) \/ UNCHANGED <<cursor, told, holes>>
          /\ escaped' = [escaped EXCEPT ![c] = IF kept = {} \/ cursor[c] = 0 THEN @ \cup (Rows \ kept) ELSE @]
      BY <2>1 DEF Check
    <3>2. escaped' \in [Client -> SUBSET Rows] BY <1>1, <3>1 DEF SeenType
    <3> QED BY <1>1, <1>2, <3>1, <3>2, ToldTypes DEF SeenType, Rows
  <2>2. CASE Replay(c) \/ Flush(c) \/ GoLive(c)
    <3>1. UNCHANGED <<told, holes, escaped>> BY <2>2 DEF Replay, Flush, GoLive, clientVars
    <3> QED BY <1>1, <1>2, <3>1 DEF SeenType, Rows
  <2> QED BY <2>1, <2>2
<1>4. ASSUME NEW phase, NEW todo \in Seq(Rows), NEW buffer \in Seq(Rows),
             sub' = [sub EXCEPT ![c].phase = phase, ![c].todo = todo, ![c].buffer = buffer]
      PROVE  BrokerBounds'
  <2>1. /\ \A d \in Client \ {c} : sub'[d] = sub[d]
        /\ sub'[c].mark = sub[c].mark /\ sub'[c].todo = todo /\ sub'[c].buffer = buffer
    BY <1>1, <1>4 DEF SubType
  <2>2. PlacedIn(Rows, sub'[c], conn'[c], cursor'[c]) BY <1>1, <1>2, <1>4, <2>1 DEF PlacedIn
  <2>3. OnlyTouches(c) BY <1>2, <2>1 DEF OnlyTouches
  <2> QED BY <1>1, <1>2, <1>3, <2>2, <2>3, TouchBounds
<1>5. sub[c].todo \in Seq(Rows) /\ sub[c].buffer \in Seq(Rows) /\ <<>> \in Seq(Rows)
  BY <1>1 DEF PlacedIn
<1>6. CASE Replay(c)
  <2> DEFINE after == {n \in kept : n > cursor[c]}
             S == {n \in after : Rank(after, n) < ReplayLimit}
  <2>1. S \in SUBSET Rows BY <1>1 DEF StreamType, Rows
  <2>2. Replayed(c) = Ascending(S) BY DEF Replayed
  <2> HIDE DEF S
  <2>3. /\ Cardinality(S) \in Nat /\ Ascending(S) \in [1..Cardinality(S) -> S]
    <3>1. Rows \in SUBSET Nat /\ Len(log) \in Nat /\ Rows = 1..Len(log) BY <1>1, RowNumbers
    <3>2. IsFiniteSet(Rows) BY <3>1, FS_Interval
    <3>3. IsFiniteSet(S) /\ S \in SUBSET Nat BY <2>1, <3>1, <3>2, FS_Subset
    <3> QED BY <3>3, AscendingLists
  <2>4. Ascending(S) \in [1..Cardinality(S) -> Rows] BY <2>1, <2>3
  <2>5. Replayed(c) \in Seq(Rows) BY <2>2, <2>3, <2>4, FunctionIsSequence
  <2>6. sub' = [sub EXCEPT ![c].phase = "checking", ![c].todo = Replayed(c), ![c].buffer = sub[c].buffer]
    BY <1>1, <1>6 DEF Replay, SubType
  <2> QED BY <1>4, <1>5, <2>5, <2>6
<1>7. CASE Check(c)
  <2>1. sub' = [sub EXCEPT ![c].phase = "delivering", ![c].todo = sub[c].todo, ![c].buffer = sub[c].buffer]
    BY <1>1, <1>7 DEF Check, SubType
  <2> QED BY <1>4, <1>5, <2>1
<1>8. CASE Flush(c)
  <2> DEFINE all == sub[c].buffer
             rows == At(all, {i \in DOMAIN all : all[i] > sub[c].mark})
  <2>1. rows \in Seq(Rows)
    BY <1>5, AtKeeps, {i \in DOMAIN all : all[i] > sub[c].mark} \in SUBSET (DOMAIN all)
  <2>2. sub' = [sub EXCEPT ![c].phase = IF rows = <<>> THEN "live" ELSE "flushing",
                           ![c].todo = rows, ![c].buffer = <<>>]
    BY <1>8 DEF Flush
  <2> HIDE DEF rows
  <2> QED BY <1>4, <1>5, <2>1, <2>2
<1>9. CASE GoLive(c)
  <2>1. sub' = [sub EXCEPT ![c].phase = "live", ![c].todo = sub[c].todo, ![c].buffer = <<>>]
    BY <1>1, <1>9 DEF GoLive, SubType
  <2> QED BY <1>4, <1>5, <2>1
<1> QED BY <1>6, <1>7, <1>8, <1>9

\* A row goes to a client, or the connection is shed.
LEMMA TakenTypes ==
  ASSUME StreamInv, BrokerBounds, NEW c \in Client, NEW n \in Rows, Deliver(c, n),
         UNCHANGED <<log, pending, sweeps, connects>>, NEW todo \in Seq(Rows), NEW waits,
         sub' = [sub EXCEPT ![c].todo = todo, ![c].mark = n, ![c].waits = waits],
         escaped' \in [Client -> SUBSET Rows], \A f \in fans' : f.seq \in Rows
  PROVE  BrokerBounds'
<1>1. /\ StreamType /\ SeenType /\ connects \in 0..MaxConnects
      /\ PlacedIn(Rows, sub[c], conn[c], cursor[c])
      /\ sub \in [Client -> SubType] /\ sub[c] \in SubType
  BY DEF StreamInv, BrokerBounds, StreamType
<1>2. /\ told' \in [Client -> SUBSET Rows] /\ holes' \in [Client -> SUBSET Rows]
      /\ cursor'[c] \in Rows \cup {0} /\ conn'[c].queue \in Seq(Rows)
      /\ conn'[c].gap \in SUBSET Rows /\ Len(conn'[c].queue) <= MaxQueue
  BY <1>1, DeliverTypes
<1>3. SeenType' BY <1>2 DEF SeenType, Rows
<1>4. \A d \in Client \ {c} : cursor'[d] = cursor[d] /\ conn'[d] = conn[d]
  BY <1>1 DEF Deliver, Wrote, StreamType
<1>5. /\ \A d \in Client \ {c} : sub'[d] = sub[d]
      /\ sub'[c].mark = n /\ sub'[c].todo = todo /\ sub'[c].buffer = sub[c].buffer
  BY <1>1 DEF SubType
<1>6. PlacedIn(Rows, sub'[c], conn'[c], cursor'[c]) BY <1>1, <1>2, <1>5 DEF PlacedIn
<1>7. OnlyTouches(c) BY <1>4, <1>5 DEF OnlyTouches
<1> QED BY <1>1, <1>3, <1>6, <1>7, TouchBounds

LEMMA ShedTypes ==
  ASSUME StreamInv, BrokerBounds, NEW c \in Client, NEW fs \in SUBSET FanType, Left(c, fs),
         UNCHANGED <<log, pending, sweeps, connects, cursor, told, holes>>,
         escaped' \in [Client -> SUBSET Rows], \A f \in fs : f.seq \in Rows
  PROVE  BrokerBounds'
<1>1. /\ StreamType /\ SeenType /\ connects \in 0..MaxConnects
      /\ PlacedIn(Rows, sub[c], conn[c], cursor[c])
  BY DEF StreamInv, BrokerBounds
<1>2. cursor[c] \in Rows \cup {0} BY <1>1 DEF PlacedIn
<1>3. /\ PlacedIn(Rows, sub'[c], conn'[c], cursor'[c]) /\ \A f \in fans' : f.seq \in Rows
      /\ \A d \in Client \ {c} : sub'[d] = sub[d] /\ conn'[d] = conn[d] /\ cursor'[d] = cursor[d]
  BY <1>1, <1>2, LeftTypes
<1>4. SeenType' BY <1>1 DEF SeenType, Rows
<1>5. OnlyTouches(c) BY <1>3 DEF OnlyTouches
<1> QED BY <1>1, <1>3, <1>4, <1>5, TouchBounds

LEMMA HandTypes ==
  ASSUME StreamInv, BrokerBounds, NEW c \in Client, Hand(c) PROVE BrokerBounds'
<1> DEFINE n == Head(sub[c].todo)
           t == Tail(sub[c].todo)
<1>1. /\ StreamType /\ SeenType /\ connects \in 0..MaxConnects
      /\ PlacedIn(Rows, sub[c], conn[c], cursor[c]) /\ \A f \in fans : f.seq \in Rows
      /\ sub \in [Client -> SubType] /\ sub[c] \in SubType /\ sub[c].mark \in Nat
      /\ fans \in SUBSET FanType /\ InLine(sub[c], conn[c].queue, cursor[c])
      /\ sub[c].todo \in Seq(Nat)
  BY DEF StreamInv, BrokerBounds, StreamType, SubType
<1>2. /\ sub[c].phase \in {"delivering", "flushing"} /\ sub[c].todo # <<>>
      /\ UNCHANGED <<pending, log, kept, sweeps, connects, escaped>>
  BY DEF Hand, storeVars
<1>3. /\ sub[c].todo \in Seq(Rows) /\ n \in Rows /\ t \in Seq(Rows) /\ n \in Nat
      /\ sub[c].phase = "delivering" => sub[c].mark < n
  <2>1. sub[c].todo \in Seq(Rows) BY <1>1 DEF PlacedIn
  <2>2. n \in Rows /\ t \in Seq(Rows) BY <1>2, <2>1, HeadAndRest
  <2>3. n \in Nat BY <1>1, <2>2, RowNumbers
  <2>4. sub[c].phase = "delivering" => Above(sub[c].todo, sub[c].mark) BY <1>1 DEF InLine
  <2> QED BY <1>1, <1>2, <2>1, <2>2, <2>3, <2>4, TailAbove
<1>4. \/ sub' = [sub EXCEPT ![c].todo = t] /\ UNCHANGED <<fans, order, conn, cursor, told, holes>>
      \/ /\ (sub[c].phase = "flushing" => n > sub[c].mark) /\ Deliver(c, n)
         /\ sub' = [sub EXCEPT ![c].todo = t, ![c].mark = Raised(c, n), ![c].waits = Queues(c, n)]
         /\ UNCHANGED <<fans, order>>
      \/ Left(c, fans) /\ UNCHANGED <<cursor, told, holes>>
  BY DEF Hand
<1>5. escaped' \in [Client -> SUBSET Rows] BY <1>1, <1>2 DEF SeenType
<1> HIDE DEF n, t
<1>6. CASE sub' = [sub EXCEPT ![c].todo = t] /\ UNCHANGED <<fans, order, conn, cursor, told, holes>>
  <2>1. /\ \A d \in Client \ {c} : sub'[d] = sub[d]
        /\ sub'[c].mark = sub[c].mark /\ sub'[c].todo = t /\ sub'[c].buffer = sub[c].buffer
    BY <1>1, <1>6 DEF SubType
  <2>2. PlacedIn(Rows, sub'[c], conn'[c], cursor'[c]) BY <1>1, <1>3, <1>6, <2>1 DEF PlacedIn
  <2>3. OnlyTouches(c) BY <1>2, <1>6, <2>1 DEF OnlyTouches
  <2>4. SeenType' BY <1>1, <1>2, <1>6 DEF SeenType, Rows
  <2> QED BY <1>1, <1>2, <1>6, <2>2, <2>3, <2>4, TouchBounds
<1>7. CASE /\ (sub[c].phase = "flushing" => n > sub[c].mark) /\ Deliver(c, n)
           /\ sub' = [sub EXCEPT ![c].todo = t, ![c].mark = Raised(c, n), ![c].waits = Queues(c, n)]
           /\ UNCHANGED <<fans, order>>
  <2>1. sub[c].mark < n BY <1>1, <1>2, <1>3, <1>7
  <2>2. Raised(c, n) = n BY <1>1, <1>3, <2>1, RaisedIs
  <2>3. sub' = [sub EXCEPT ![c].todo = t, ![c].mark = n, ![c].waits = Queues(c, n)] BY <1>7, <2>2
  <2>4. /\ n \in Rows /\ Deliver(c, n) /\ UNCHANGED <<log, pending, sweeps, connects>> /\ t \in Seq(Rows)
        /\ \A f \in fans' : f.seq \in Rows
    BY <1>1, <1>2, <1>3, <1>7
  <2> QED BY <1>5, <2>3, <2>4, TakenTypes
<1>8. CASE Left(c, fans) /\ UNCHANGED <<cursor, told, holes>>
  BY <1>1, <1>2, <1>5, <1>8, ShedTypes
<1> QED BY <1>4, <1>6, <1>7, <1>8

LEMMA FanOutTypes ==
  ASSUME StreamInv, BrokerBounds, NEW f \in fans, FanOut(f) PROVE BrokerBounds'
<1> DEFINE c == Head(Targets(f))
           n == f.seq
           Lost == IF sub[c].phase = "flushing" THEN {n} ELSE {}
           over == Overtaken(f, c)
<1>1. /\ StreamType /\ SeenType /\ connects \in 0..MaxConnects /\ \A g \in fans : g.seq \in Rows
      /\ Targets(f) # <<>> /\ UNCHANGED <<pending, log, kept, sweeps, connects>>
  BY DEF StreamInv, BrokerBounds, FanOut, storeVars
<1>2. /\ c \in Client /\ n \in Rows
      /\ Moved(f, None) \in SUBSET FanType /\ \A g \in Moved(f, None) : g.seq \in Rows
      /\ \A held : \A g \in Moved(f, held) : g.seq \in Rows
  <2>1. c \in Client /\ None \in Client \cup {None} BY <1>1, MovedType
  <2>2. n \in Rows BY <1>1
  <2> HIDE DEF c, n
  <2>3. Moved(f, None) \in SUBSET FanType BY <1>1, MovedType
  <2> QED BY <1>1, <2>1, <2>2, <2>3, MovedSeqs
<1>3. /\ escaped' = [escaped EXCEPT ![c] = @ \cup Lost \cup over]
      /\ \/ /\ sub' = [sub EXCEPT ![c].buffer = Append(@, n)]
            /\ fans' = Moved(f, None) /\ UNCHANGED <<order, conn, cursor, told, holes>>
         \/ fans' = Moved(f, None) /\ UNCHANGED <<order, sub, conn, cursor, told, holes>>
         \/ /\ sub' = [sub EXCEPT ![c].mark = n] /\ Deliver(c, n)
            /\ fans' = Moved(f, IF Queues(c, n) THEN c ELSE None) /\ UNCHANGED order
         \/ Left(c, Moved(f, None)) /\ UNCHANGED <<cursor, told, holes>>
  BY DEF FanOut
<1>4. escaped' \in [Client -> SUBSET Rows]
  <2>1. over \in SUBSET Rows BY <1>1 DEF Overtaken
  <2>2. Lost \in SUBSET Rows BY <1>2
  <2> HIDE DEF c, n, Lost, over
  <2> QED BY <1>1, <1>3, <2>1, <2>2 DEF SeenType
<1> HIDE DEF c, n, Lost, over
<1>5. /\ sub \in [Client -> SubType] /\ sub[c] \in SubType
      /\ PlacedIn(Rows, sub[c], conn[c], cursor[c]) /\ sub[c].todo \in Seq(Rows) /\ sub[c].buffer \in Seq(Rows)
  BY <1>1, <1>2 DEF StreamType, BrokerBounds, PlacedIn
<1>6. CASE /\ sub' = [sub EXCEPT ![c].buffer = Append(@, n)]
           /\ fans' = Moved(f, None) /\ UNCHANGED <<order, conn, cursor, told, holes>>
  <2>1. /\ \A d \in Client \ {c} : sub'[d] = sub[d] /\ sub'[c].mark = sub[c].mark
        /\ sub'[c].todo = sub[c].todo /\ sub'[c].mark = sub[c].mark
        /\ sub'[c].buffer = Append(sub[c].buffer, n)
    BY <1>2, <1>5, <1>6 DEF SubType
  <2>2. Append(sub[c].buffer, n) \in Seq(Rows) BY <1>2, <1>5
  <2>3. PlacedIn(Rows, sub'[c], conn'[c], cursor'[c]) BY <1>5, <1>6, <2>1, <2>2 DEF PlacedIn
  <2>4. OnlyTouches(c) BY <1>1, <1>6, <2>1 DEF OnlyTouches
  <2>5. SeenType' BY <1>1, <1>4, <1>6 DEF SeenType, Rows
  <2> QED BY <1>1, <1>2, <1>6, <2>3, <2>4, <2>5, TouchBounds
<1>7. CASE fans' = Moved(f, None) /\ UNCHANGED <<order, sub, conn, cursor, told, holes>>
  <2>1. OnlyTouches(c) BY <1>1, <1>7 DEF OnlyTouches
  <2>2. SeenType' BY <1>1, <1>4, <1>7 DEF SeenType, Rows
  <2>3. PlacedIn(Rows, sub'[c], conn'[c], cursor'[c]) BY <1>5, <1>7
  <2> QED BY <1>1, <1>2, <1>7, <2>1, <2>2, <2>3, TouchBounds
<1>8. CASE /\ sub' = [sub EXCEPT ![c].mark = n] /\ Deliver(c, n)
           /\ fans' = Moved(f, IF Queues(c, n) THEN c ELSE None) /\ UNCHANGED order
  <2>1. sub' = [sub EXCEPT ![c].todo = sub[c].todo, ![c].mark = n, ![c].waits = sub[c].waits]
    BY <1>2, <1>5, <1>8 DEF SubType
  <2>2. /\ n \in Rows /\ Deliver(c, n) /\ UNCHANGED <<log, pending, sweeps, connects>>
        /\ \A g \in fans' : g.seq \in Rows
    BY <1>1, <1>2, <1>8
  <2> QED BY <1>2, <1>4, <1>5, <2>1, <2>2, TakenTypes
<1>9. CASE Left(c, Moved(f, None)) /\ UNCHANGED <<cursor, told, holes>>
  BY <1>1, <1>2, <1>4, <1>9, ShedTypes
<1> QED BY <1>3, <1>6, <1>7, <1>8, <1>9

\* No client moves, and the rows stay.
LEMMA StillBounds ==
  ASSUME BrokerBounds, UNCHANGED <<log, sweeps, sub, conn, connects, clientVars>>,
         Len(pending') <= MaxPending, fans' \in SUBSET fans
  PROVE  BrokerBounds'
<1>1. Rows' = Rows /\ UNCHANGED <<cursor, told, holes, escaped>> BY DEF Rows, clientVars
<1> QED BY <1>1 DEF BrokerBounds, SeenType

LEMMA MadeRoomFits ==
  ASSUME pending \in Seq(SUBSET Event), Len(pending) <= MaxPending, HasRoom, NEW e \in Event
  PROVE  Len(Append(MadeRoom, {e})) <= MaxPending
<1>0. MaxPending \in Nat /\ Len(pending) \in Nat BY BrokerAssumption
<1>1. MadeRoom \in Seq(SUBSET Event) BY MadeRoomKeeps
<1>2. Len(MadeRoom) < MaxPending
  <2>1. CASE Len(pending) < MaxPending BY <2>1 DEF MadeRoom
  <2>2. CASE ~(Len(pending) < MaxPending) /\ Foldable # {}
    <3> DEFINE i == First(Foldable)
               q == [pending EXCEPT ![i + 1] = @ \cup pending[i]]
    <3>1. Foldable \in SUBSET DOMAIN pending BY DEF Foldable, Deltas
    <3>2. i \in Foldable BY <2>2, <3>1, FirstIsOne
    <3>3. i \in DOMAIN pending /\ i + 1 \in DOMAIN pending BY <3>2 DEF Foldable, Deltas
    <3>4. MadeRoom = Without(q, i) BY <2>2 DEF MadeRoom
    <3> HIDE DEF i
    <3>5. q \in Seq(SUBSET Event) /\ Len(q) = Len(pending) /\ i \in DOMAIN q BY <3>3
    <3> HIDE DEF q
    <3>6. DOMAIN Without(q, i) = 1..(Len(pending) - 1) BY <3>5, WithoutOne
    <3>7. Len(pending) \in Nat /\ Len(pending) > 0 BY <1>0, <3>3
    <3>8. Len(MadeRoom) = Len(pending) - 1 BY <1>1, <3>4, <3>6, <3>7
    <3> QED BY <1>0, <3>8
  <2>3. CASE ~(Len(pending) < MaxPending) /\ Foldable = {}
    <3>1. Deltas # {} BY <2>3 DEF HasRoom
    <3>2. Deltas \in SUBSET DOMAIN pending BY DEF Deltas
    <3>3. First(Deltas) \in DOMAIN pending BY <3>1, <3>2, FirstIsOne
    <3>4. MadeRoom = Without(pending, First(Deltas)) BY <2>3 DEF MadeRoom
    <3>5. DOMAIN MadeRoom = 1..(Len(pending) - 1) BY <3>3, <3>4, WithoutOne
    <3>6. Len(pending) > 0 BY <1>0, <3>3
    <3>7. Len(MadeRoom) = Len(pending) - 1 BY <1>0, <1>1, <3>5, <3>6
    <3> QED BY <1>0, <3>7
  <2> QED BY <2>1, <2>2, <2>3
<1> QED BY <1>0, <1>1, <1>2

LEMMA StoreTypes ==
  ASSUME StreamInv, OutboxType, BrokerBounds, Commit \/ Sweep \/ Refuse \/ (HasRoom /\ \E e \in Event : Write(e))
  PROVE  BrokerBounds'
<1>0. /\ StreamType /\ SeenType /\ pending \in Seq(SUBSET Event) /\ Len(pending) <= MaxPending
      /\ Len(pending) \in Nat /\ MaxPending \in Nat
  BY BrokerAssumption DEF StreamInv, BrokerBounds, OutboxType
<1>1. pending # <<>> => Len(Tail(pending)) <= MaxPending BY <1>0
<1>2. CASE Commit
  <2>1. /\ pending # <<>> /\ log' = Append(log, Head(pending)) /\ pending' = Tail(pending)
        /\ fans' = fans \cup {[seq |-> Len(log) + 1, started |-> FALSE, todo |-> <<>>,
                               held |-> None, late |-> FALSE]}
        /\ UNCHANGED <<sweeps, sub, conn, connects, cursor, told, holes, escaped>>
    BY <1>2 DEF Commit, subVars, clientVars
  <2>2. Len(log) \in Nat /\ Len(log') = Len(log) + 1 BY <1>0, <2>1 DEF StreamType
  <2>3. Rows \subseteq Rows' /\ Len(log) + 1 \in Rows' BY <2>2 DEF Rows
  <2>4. \A f \in fans' : f.seq \in Rows' BY <2>1, <2>3 DEF BrokerBounds
  <2>5. \A q \in Seq(Rows) : q \in Seq(Rows')
    <3>1. \A q \in Seq(Rows) : \A i \in 1..Len(q) : q[i] \in Rows' BY <2>3
    <3> QED BY <3>1
  <2>6. ASSUME NEW c \in Client PROVE PlacedIn(Rows', sub[c], conn[c], cursor[c])
    <3>1. PlacedIn(Rows, sub[c], conn[c], cursor[c]) BY DEF BrokerBounds
    <3> QED BY <2>3, <2>5, <3>1 DEF PlacedIn
  <2>7. SeenType' BY <1>0, <2>1, <2>3 DEF SeenType
  <2> QED BY <1>1, <2>1, <2>4, <2>6, <2>7 DEF BrokerBounds
<1>3. CASE Sweep
  <2>1. /\ sweeps < MaxSweeps /\ sweeps' = sweeps + 1
        /\ UNCHANGED <<pending, log, fans, sub, conn, connects, cursor, told, holes, escaped>>
    BY <1>3 DEF Sweep, subVars, clientVars
  <2>2. sweeps' \in 0..MaxSweeps BY <2>1, BrokerAssumption DEF BrokerBounds
  <2>3. Rows' = Rows BY <2>1 DEF Rows
  <2> QED BY <2>1, <2>2, <2>3 DEF BrokerBounds, SeenType
<1>4. CASE Refuse
  BY <1>1, <1>4, StillBounds DEF Refuse, storeVars, subVars
<1>5. ASSUME HasRoom, NEW e \in Event, Write(e) PROVE BrokerBounds'
  <2>1. Len(pending') <= MaxPending BY <1>0, <1>5, MadeRoomFits DEF Write
  <2> QED BY <1>5, <2>1, StillBounds DEF Write, storeVars, subVars
<1> QED BY <1>2, <1>3, <1>4, <1>5

LEMMA CrashTypes == ASSUME StreamInv, BrokerBounds, BrokerCrash PROVE BrokerBounds'
<1>1. /\ UNCHANGED <<log, sweeps, connects, cursor, told, holes, escaped>> /\ fans' = {} /\ pending' = <<>>
      /\ sub' = [c \in Client |-> Away] /\ conn' = [c \in Client |-> Fresh]
  BY DEF BrokerCrash, storeVars, clientVars
<1>2. Rows' = Rows BY <1>1 DEF Rows
<1>3. Len(pending') <= MaxPending BY <1>1, BrokerAssumption
<1>4. ASSUME NEW c \in Client PROVE PlacedIn(Rows, sub'[c], conn'[c], cursor'[c])
  <2>1. cursor[c] \in Rows \cup {0} BY DEF BrokerBounds, PlacedIn
  <2>2. <<>> \in Seq(Rows) /\ Len(<<>>) <= MaxQueue BY BrokerAssumption
  <2>3. sub'[c] = Away /\ conn'[c] = Fresh BY <1>1
  <2> QED BY <1>1, <2>1, <2>2, <2>3 DEF PlacedIn, Away, Fresh
<1> QED BY <1>1, <1>2, <1>3, <1>4 DEF BrokerBounds, SeenType

LEMMA BrokerStands == ASSUME BrokerBounds, UNCHANGED brokerVars PROVE BrokerBounds'
<1>1. /\ UNCHANGED <<pending, log, sweeps, fans, sub, conn, connects, cursor, told, holes, escaped>>
  BY DEF brokerVars, storeVars, subVars, clientVars
<1> QED BY <1>1 DEF BrokerBounds, SeenType, Rows

LEMMA PublishedTypes ==
  ASSUME StreamInv, OutboxInv, BrokerBounds, NEW n \in Event, Publish(n)
  PROVE  BrokerBounds' /\ drain' \in {"writing", "refused"} /\ UNCHANGED log
<1>1. CASE HasRoom
  <2>1. Write(n) /\ drain' = "writing" BY <1>1 DEF Publish
  <2>2. UNCHANGED log BY <2>1 DEF Write, storeVars
  <2> QED BY <1>1, <2>1, <2>2, StoreTypes DEF OutboxInv
<1>2. CASE ~HasRoom
  <2>1. UNCHANGED brokerVars /\ drain' = "refused" BY <1>2 DEF Publish
  <2> QED BY <2>1, BrokerStands DEF brokerVars, storeVars
<1> QED BY <1>1, <1>2

LEMMA KickTypes ==
  ASSUME drain \in Drains, chained \in BOOLEAN, Kick PROVE drain' \in Drains /\ chained' \in BOOLEAN
BY DEF Kick, Drains

LEMMA FailsTypes ==
  ASSUME fails \in 0..MaxFails, fails' = fails \/ (fails < MaxFails /\ fails' = fails + 1)
  PROVE  fails' \in 0..MaxFails
BY DeliveryAssumption

LEMMA OutboxTypes ==
  ASSUME StreamInv, OutboxInv, BrokerBounds, OutboxBounds,
         \/ Emit \/ RetryFires \/ List \/ Broadcast \/ Mark \/ Failed \/ Thrown \/ Stop
         \/ Stored \/ Refused \/ \E e \in Bridge : Bridged(e)
  PROVE  BrokerBounds' /\ OutboxBounds'
<1>0. Len(log) \in Nat /\ OutboxType /\ StreamType /\ MaxFails \in Nat
  BY RowNumbers, DeliveryAssumption DEF StreamInv, OutboxInv
<1>1. CASE Emit \/ RetryFires
  <2>1. /\ Kick /\ UNCHANGED brokerVars /\ retry' \in {retry, FALSE}
        /\ UNCHANGED <<place, stopped, sent, fails, crashes>>
    BY <1>1 DEF Emit, RetryFires
  <2>2. drain' \in Drains /\ chained' \in BOOLEAN BY <2>1, KickTypes DEF OutboxBounds
  <2>3. UNCHANGED log BY <2>1 DEF brokerVars, storeVars
  <2> QED BY <2>1, <2>2, <2>3, BrokerStands DEF OutboxBounds
<1>2. CASE List
  <2>1. UNCHANGED <<place, retry, stopped, sent, fails, crashes>> BY <1>2 DEF List
  <2>2. CASE stopped \/ Pending = {}
    <3>1. DrainEnds /\ UNCHANGED brokerVars BY <1>2, <2>2 DEF List
    <3>2. UNCHANGED log BY <3>1 DEF brokerVars, storeVars
    <3> QED BY <2>1, <3>1, <3>2, BrokerStands DEF OutboxBounds, DrainEnds, Drains
  <2>3. CASE ~(stopped \/ Pending = {})
    <3>1. batch' = Ascending(Pending) /\ Publish(Head(batch')) /\ UNCHANGED chained BY <1>2, <2>3 DEF List
    <3>2. batch' \in Seq(1..emitted) /\ batch' # <<>> BY <2>3, <3>1, BatchListed
    <3>3. Head(batch') \in 1..emitted BY <3>2, HeadAndRest
    <3>4. Head(batch') \in Event BY <3>3, RunEvent
    <3>5. BrokerBounds' /\ drain' \in {"writing", "refused"} /\ UNCHANGED log BY <3>1, <3>4, PublishedTypes
    <3> QED BY <2>1, <3>1, <3>5 DEF OutboxBounds, Drains
  <2> QED BY <2>2, <2>3
<1>3. CASE Broadcast \/ Stop
  <2>1. /\ UNCHANGED <<brokerVars, place, chained, retry, sent, fails, crashes>>
        /\ drain' \in {drain, "emitting"} /\ stopped' \in {stopped, TRUE}
    BY <1>3 DEF Broadcast, Stop
  <2>2. UNCHANGED log BY <2>1 DEF brokerVars, storeVars
  <2> QED BY <2>1, <2>2, BrokerStands DEF OutboxBounds, Drains
<1>4. CASE Mark
  <2>1. UNCHANGED <<place, chained, retry, stopped, sent, fails, crashes>> BY <1>4 DEF Mark
  <2>2. CASE Tail(batch) = <<>>
    <3>1. drain' = "listing" /\ UNCHANGED brokerVars BY <1>4, <2>2 DEF Mark
    <3>2. UNCHANGED log BY <3>1 DEF brokerVars, storeVars
    <3> QED BY <2>1, <3>1, <3>2, BrokerStands DEF OutboxBounds, Drains
  <2>3. CASE Tail(batch) # <<>>
    <3>1. Publish(Head(Tail(batch))) /\ drain = "emitting" BY <1>4, <2>3 DEF Mark
    <3>2. batch \in Seq(1..emitted) /\ batch # <<>> BY <3>1 DEF OutboxInv, OutboxType
    <3>3. Tail(batch) \in Seq(1..emitted) BY <3>2, HeadAndRest
    <3>4. Head(Tail(batch)) \in 1..emitted BY <2>3, <3>3, HeadAndRest
    <3>5. Head(Tail(batch)) \in Event BY <3>4, RunEvent
    <3>6. BrokerBounds' /\ drain' \in {"writing", "refused"} /\ UNCHANGED log BY <3>1, <3>5, PublishedTypes
    <3> QED BY <2>1, <3>6 DEF OutboxBounds, Drains
  <2> QED BY <2>2, <2>3
<1>5. CASE Failed \/ Thrown
  <2>1. /\ fails' = fails \/ (fails < MaxFails /\ fails' = fails + 1)
        /\ retry' \in {retry, TRUE} /\ drain' \in {"idle", "listing", "rejected"} /\ chained' = FALSE
        /\ UNCHANGED <<brokerVars, place, stopped, sent, crashes>>
    BY <1>5 DEF Failed, Thrown, DrainEnds
  <2>2. fails' \in 0..MaxFails BY <2>1, FailsTypes DEF OutboxBounds
  <2>3. UNCHANGED log BY <2>1 DEF brokerVars, storeVars
  <2> QED BY <2>1, <2>2, <2>3, BrokerStands DEF OutboxBounds, Drains
<1>6. CASE Stored
  <2>1. Commit /\ BrokerBounds' BY <1>0, <1>6, StoreTypes DEF Stored
  <2>2. Len(log') = Len(log) + 1
    <3>1. log' = Append(log, Head(pending)) BY <2>1 DEF Commit
    <3> QED BY <1>0, <3>1 DEF StreamType
  <2>3. /\ drain' \in {drain, "fanning"} /\ place' \in {place, Len(log')}
        /\ UNCHANGED <<chained, retry, stopped, sent, fails, crashes>>
    BY <1>6 DEF Stored
  <2>4. place' \in 0..Len(log') BY <1>0, <2>2, <2>3 DEF OutboxBounds
  <2> QED BY <2>1, <2>3, <2>4 DEF OutboxBounds, Drains
<1>7. CASE Refused
  <2>1. Refuse /\ BrokerBounds' BY <1>0, <1>7, StoreTypes DEF Refused
  <2>2. /\ fails < MaxFails /\ fails' = fails + 1 /\ drain' \in {drain, "refused"}
        /\ UNCHANGED <<place, chained, retry, stopped, sent, crashes>>
    BY <1>7 DEF Refused
  <2>3. fails' \in 0..MaxFails BY <2>2, FailsTypes DEF OutboxBounds
  <2>4. UNCHANGED log BY <2>1 DEF Refuse, storeVars
  <2> QED BY <2>1, <2>2, <2>3, <2>4 DEF OutboxBounds, Drains
<1>8. ASSUME NEW e \in Bridge, Bridged(e) PROVE BrokerBounds' /\ OutboxBounds'
  <2>1. sent' = sent \cup {e} /\ UNCHANGED <<outboxVars, fails, crashes>> BY <1>8 DEF Bridged
  <2>2. (HasRoom /\ Write(e)) \/ UNCHANGED brokerVars BY <1>8 DEF Bridged
  <2>3. e \in Event BY Kinds
  <2>4. BrokerBounds' BY <1>0, <2>2, <2>3, StoreTypes, BrokerStands
  <2>5. UNCHANGED log BY <2>2 DEF Write, brokerVars, storeVars
  <2> QED BY <2>1, <2>4, <2>5 DEF OutboxBounds, outboxVars
<1> QED BY <1>1, <1>2, <1>3, <1>4, <1>5, <1>6, <1>7, <1>8

LEMMA InitBounds == Init => Bounds
<1> SUFFICES ASSUME Init PROVE Bounds OBVIOUS
<1>1. BrokerBounds
  <2>1. /\ pending = <<>> /\ log = <<>> /\ fans = {} /\ connects = 0 /\ sweeps = 0
        /\ sub = [c \in Client |-> Away] /\ conn = [c \in Client |-> Fresh]
        /\ cursor = [c \in Client |-> 0] /\ told = [c \in Client |-> {}]
        /\ holes = [c \in Client |-> {}] /\ escaped = [c \in Client |-> {}]
    BY DEF Init, BrokerInit
  <2>2. ASSUME NEW c \in Client PROVE PlacedIn(Rows, sub[c], conn[c], cursor[c])
    <3>1. <<>> \in Seq(Rows) /\ Len(<<>>) <= MaxQueue BY BrokerAssumption
    <3> QED BY <2>1, <3>1 DEF PlacedIn, Away, Fresh
  <2>3. SeenType BY <2>1 DEF SeenType
  <2> QED BY <2>1, <2>2, <2>3, BrokerAssumption DEF BrokerBounds
<1>2. OutboxBounds
  <2>1. /\ log = <<>> /\ drain = "idle" /\ place = 0 /\ chained = FALSE /\ retry = FALSE
        /\ stopped = FALSE /\ sent = {} /\ fails = 0 /\ crashes = 0
    BY DEF Init, BrokerInit
  <2>2. 0 \in 0..MaxFails /\ 0 \in 0..MaxCrashes /\ 0 \in 0..Len(<<>>) BY DeliveryAssumption
  <2> QED BY <2>1, <2>2 DEF OutboxBounds, Drains
<1> QED BY <1>1, <1>2 DEF Bounds

LEMMA StepBounds ==
  ASSUME StreamInv, OutboxInv, BrokerBounds, OutboxBounds, [Next]_vars
  PROVE  BrokerBounds' /\ OutboxBounds'
<1>0. OutboxType BY DEF OutboxInv
<1>1. ASSUME OfBroker, UNCHANGED log PROVE OutboxBounds'
  BY <1>1 DEF OfBroker, outboxVars, OutboxBounds
<1>2. CASE UNCHANGED vars
  <2>1. UNCHANGED brokerVars /\ OfBroker BY <1>2 DEF vars, OfBroker
  <2>2. UNCHANGED log BY <2>1 DEF brokerVars, storeVars
  <2> QED BY <1>1, <2>1, <2>2, BrokerStands
<1>3. CASE Sweep /\ OfBroker
  <2>1. UNCHANGED log BY <1>3 DEF Sweep
  <2> QED BY <1>0, <1>1, <1>3, <2>1, StoreTypes
<1>4. ASSUME NEW c \in Client, Connect(c) \/ Disconnect(c) \/ Drain(c) \/ Resumes(c), OfBroker
      PROVE  BrokerBounds' /\ OutboxBounds'
  <2>1. UNCHANGED log
    BY <1>4 DEF Connect, Disconnect, Drain, Resumes, Replay, Check, Hand, Flush, GoLive, storeVars
  <2>2. BrokerBounds'
    BY <1>4, ConnectTypes, DisconnectTypes, DrainTypes, HandTypes, ResumeTypes DEF Resumes
  <2> QED BY <1>1, <1>4, <2>1, <2>2
<1>5. ASSUME NEW f \in fans, FanOutToNone(f) \/ FanOut(f), OfBroker
      PROVE  BrokerBounds' /\ OutboxBounds'
  <2>1. UNCHANGED log BY <1>5 DEF FanOut, FanOutToNone, storeVars
  <2>2. CASE FanOut(f) BY <1>1, <1>5, <2>1, <2>2, FanOutTypes
  <2>3. CASE FanOutToNone(f)
    <3>1. /\ fans' \in SUBSET fans /\ UNCHANGED <<pending, log, sweeps, sub, conn, connects, clientVars>>
      BY <2>3 DEF FanOutToNone, storeVars, subVars
    <3>2. Len(pending') <= MaxPending BY <3>1 DEF BrokerBounds
    <3> QED BY <1>1, <1>5, <2>1, <3>1, <3>2, StillBounds
  <2> QED BY <1>5, <2>2, <2>3
<1>6. CASE Crash
  <2>1. /\ BrokerCrash /\ crashes < MaxCrashes /\ crashes' = crashes + 1
        /\ drain' \in {"listing", "idle"} /\ chained' = FALSE /\ retry' = FALSE /\ stopped' = FALSE
        /\ UNCHANGED <<place, sent, fails>>
    BY <1>6 DEF Crash
  <2>2. UNCHANGED log BY <2>1 DEF BrokerCrash, storeVars
  <2>3. crashes' \in 0..MaxCrashes BY <2>1, DeliveryAssumption DEF OutboxBounds
  <2> QED BY <2>1, <2>2, <2>3, CrashTypes DEF OutboxBounds, Drains
<1> QED BY <1>2, <1>3, <1>4, <1>5, <1>6, OutboxTypes DEF Next

\* The types of the stream and of the outbox, with every bound: the writer holds no
\* more than its limit (StreamWriteBatcher.ts, makeRoom), a congested connection no
\* more than its own (sseConnection.ts, deliver), and every number that a client, a
\* broadcast or a connection holds is that of a row that was committed.
THEOREM StreamIsTyped == Spec => []TypeOK
<1>1. Init => StreamInv /\ OutboxInv /\ Bounds BY InitStream, InitOutbox, InitBounds
<1>2. StreamInv /\ OutboxInv /\ Bounds /\ [Next]_vars => (StreamInv /\ OutboxInv /\ Bounds)'
  BY StepStream, StepOutbox, StepBounds DEF Bounds
<1> QED BY <1>1, <1>2, BoundsAreTypes, PTL DEF Spec

-----------------------------------------------------------------------------
(* The holes of a client.  A row it has still to get is on one of these ways.   *)

\* The broadcast of row n has still to reach c.
ComingIn(fs, ord, c, n) == \E f \in fs : f.seq = n /\ Among(IF f.started THEN f.todo ELSE ord, c)
Coming(c, n) == ComingIn(fans, order, c, n)

\* A later row that comes before an earlier one: the earlier one may be missed.
Ordered(q, E) == \A i, j \in DOMAIN q : i < j /\ q[j] < q[i] => q[j] \in E

LateStarted(fs) == \A f \in fs : f.late => f.started

-----------------------------------------------------------------------------
(* What is among the elements of a list.                                        *)

LEMMA AmongAppend ==
  ASSUME NEW T, NEW q \in Seq(T), NEW x \in T, NEW n
  PROVE  Among(Append(q, x), n) <=> Among(q, n) \/ n = x
<1> DEFINE a == Append(q, x)
<1>1. /\ Len(q) \in Nat /\ DOMAIN q = 1..Len(q) /\ DOMAIN a = 1..(Len(q) + 1)
      /\ a[Len(q) + 1] = x /\ \A i \in DOMAIN q : a[i] = q[i]
  OBVIOUS
<1> HIDE DEF a
<1>2. Len(q) + 1 \in DOMAIN a /\ \A i \in DOMAIN q : i \in DOMAIN a BY <1>1
<1>3. \A i \in DOMAIN a : i \in DOMAIN q \/ i = Len(q) + 1 BY <1>1
<1> QED BY <1>1, <1>2, <1>3 DEF Among, a

LEMMA AmongTail ==
  ASSUME NEW T, NEW q \in Seq(T), q # <<>>, NEW n
  PROVE  Among(q, n) <=> n = Head(q) \/ Among(Tail(q), n)
<1>1. /\ Head(q) = q[1] /\ Len(q) \in Nat /\ DOMAIN q = 1..Len(q) /\ 1 \in DOMAIN q
      /\ DOMAIN Tail(q) = 1..(Len(q) - 1)
      /\ \A i \in DOMAIN Tail(q) : Tail(q)[i] = q[i + 1] /\ i + 1 \in DOMAIN q
  BY HeadAndRest
<1>2. ASSUME NEW i \in DOMAIN q, i # 1 PROVE i - 1 \in DOMAIN Tail(q) /\ Tail(q)[i - 1] = q[i]
  <2>1. i - 1 \in 1..(Len(q) - 1) /\ (i - 1) + 1 = i BY <1>1, <1>2
  <2> QED BY <1>1, <2>1
<1>3. ASSUME Among(q, n) PROVE n = Head(q) \/ Among(Tail(q), n)
  <2>1. PICK i \in DOMAIN q : q[i] = n BY <1>3 DEF Among
  <2>2. CASE i = 1 BY <1>1, <2>1, <2>2
  <2>3. CASE i # 1 BY <1>2, <2>1, <2>3 DEF Among
  <2> QED BY <2>2, <2>3
<1>4. ASSUME n = Head(q) PROVE Among(q, n) BY <1>1, <1>4 DEF Among
<1>5. ASSUME Among(Tail(q), n) PROVE Among(q, n)
  <2>1. PICK i \in DOMAIN Tail(q) : Tail(q)[i] = n BY <1>5 DEF Among
  <2> QED BY <1>1, <2>1 DEF Among
<1> QED BY <1>3, <1>4, <1>5

\* What At keeps, as a set.
LEMMA AmongAt ==
  ASSUME NEW T, NEW q \in Seq(T), NEW S \in SUBSET (DOMAIN q), NEW n
  PROVE  Among(At(q, S), n) <=> \E i \in S : q[i] = n
<1>1. PICK a \in [DOMAIN At(q, S) -> S] :
        /\ \A i \in DOMAIN At(q, S) : At(q, S)[i] = q[a[i]]
        /\ \A i, j \in DOMAIN At(q, S) : i < j => a[i] < a[j]
        /\ \A k \in S : \E i \in DOMAIN At(q, S) : a[i] = k
  BY ONLY S \in SUBSET (DOMAIN q), q \in Seq(T), AtKeeps
<1>2. ASSUME NEW i \in DOMAIN At(q, S), At(q, S)[i] = n PROVE \E k \in S : q[k] = n
  <2>1. a[i] \in S /\ q[a[i]] = n BY <1>1, <1>2
  <2> QED BY <2>1
<1>3. ASSUME NEW k \in S, q[k] = n PROVE \E i \in DOMAIN At(q, S) : At(q, S)[i] = n
  <2>1. PICK i \in DOMAIN At(q, S) : a[i] = k BY <1>1
  <2> QED BY <1>1, <1>3, <2>1
<1> QED BY <1>2, <1>3 DEF Among

LEMMA AmongOthers ==
  ASSUME NEW q \in Seq(Client), NEW c, NEW d
  PROVE  Among(Others(q, c), d) <=> Among(q, d) /\ d # c
<1> DEFINE S == {i \in DOMAIN q : q[i] # c}
<1>1. S \in SUBSET (DOMAIN q) OBVIOUS
<1>2. Among(At(q, S), d) <=> \E i \in S : q[i] = d BY <1>1, AmongAt
<1>3. (\E i \in S : q[i] = d) <=> Among(q, d) /\ d # c BY DEF Among
<1> QED BY <1>2, <1>3 DEF Others

LEMMA AmongAscending ==
  ASSUME NEW m \in Nat, NEW S \in SUBSET (1..m), NEW n
  PROVE  Among(Ascending(S), n) <=> n \in S
<1>1. S \in SUBSET Nat /\ IsFiniteSet(S)
  <2>1. 1 \in Int /\ m \in Int /\ \A k \in 1..m : k \in Nat OBVIOUS
  <2>2. IsFiniteSet(1..m) BY <2>1, FS_Interval
  <2>3. IsFiniteSet(S) BY <2>2, FS_Subset
  <2> QED BY <2>1, <2>3
<1>2. /\ Ascending(S) \in [1..Cardinality(S) -> S]
      /\ \A k \in S : \E i \in 1..Cardinality(S) : Ascending(S)[i] = k
  BY <1>1, AscendingLists
<1>3. DOMAIN Ascending(S) = 1..Cardinality(S) BY <1>2
<1> QED BY <1>2, <1>3 DEF Among

LEMMA OrderedAppend ==
  ASSUME NEW q \in Seq(Nat), NEW n \in Nat, NEW E, NEW F, E \subseteq F, Ordered(q, E),
         \A i \in DOMAIN q : n < q[i] => n \in F
  PROVE  Ordered(Append(q, n), F)
<1> DEFINE a == Append(q, n)
<1>1. /\ Len(q) \in Nat /\ DOMAIN q = 1..Len(q) /\ DOMAIN a = 1..(Len(q) + 1)
      /\ a[Len(q) + 1] = n /\ \A i \in DOMAIN q : a[i] = q[i] /\ q[i] \in Nat
  OBVIOUS
<1> HIDE DEF a
<1>2. ASSUME NEW i \in DOMAIN a, NEW j \in DOMAIN a, i < j, a[j] < a[i] PROVE a[j] \in F
  <2>1. i \in DOMAIN q BY <1>1, <1>2
  <2>2. CASE j \in DOMAIN q BY <1>1, <1>2, <2>1, <2>2 DEF Ordered
  <2>3. CASE j = Len(q) + 1 BY <1>1, <1>2, <2>1, <2>3
  <2> QED BY <1>1, <2>2, <2>3
<1> QED BY <1>2 DEF Ordered, a

LEMMA OrderedTail ==
  ASSUME NEW q \in Seq(Nat), q # <<>>, NEW E, Ordered(q, E)
  PROVE  /\ Ordered(Tail(q), E)
         /\ \A n : Among(Tail(q), n) /\ n < Head(q) => n \in E
<1>1. /\ Head(q) = q[1] /\ Len(q) \in Nat /\ DOMAIN q = 1..Len(q) /\ 1 \in DOMAIN q
      /\ DOMAIN Tail(q) = 1..(Len(q) - 1)
      /\ \A i \in DOMAIN Tail(q) : Tail(q)[i] = q[i + 1] /\ i + 1 \in DOMAIN q
  BY HeadAndRest
<1>2. ASSUME NEW i \in DOMAIN Tail(q), NEW j \in DOMAIN Tail(q), i < j, Tail(q)[j] < Tail(q)[i]
      PROVE  Tail(q)[j] \in E
  <2>1. i + 1 < j + 1 BY <1>1, <1>2
  <2> QED BY <1>1, <1>2, <2>1 DEF Ordered
<1>3. ASSUME NEW j \in DOMAIN Tail(q), Tail(q)[j] < Head(q) PROVE Tail(q)[j] \in E
  <2>1. 1 < j + 1 BY <1>1
  <2> QED BY <1>1, <1>3, <2>1 DEF Ordered
<1> QED BY <1>2, <1>3 DEF Ordered, Among

LEMMA OrderedAt ==
  ASSUME NEW T, NEW q \in Seq(T), NEW S \in SUBSET (DOMAIN q), NEW E, Ordered(q, E)
  PROVE  Ordered(At(q, S), E)
<1>1. PICK a \in [DOMAIN At(q, S) -> S] :
        /\ \A i \in DOMAIN At(q, S) : At(q, S)[i] = q[a[i]]
        /\ \A i, j \in DOMAIN At(q, S) : i < j => a[i] < a[j]
        /\ \A k \in S : \E i \in DOMAIN At(q, S) : a[i] = k
  BY ONLY S \in SUBSET (DOMAIN q), q \in Seq(T), AtKeeps
<1>2. ASSUME NEW i \in DOMAIN At(q, S), NEW j \in DOMAIN At(q, S), i < j, At(q, S)[j] < At(q, S)[i]
      PROVE  At(q, S)[j] \in E
  <2>1. a[i] \in DOMAIN q /\ a[j] \in DOMAIN q /\ a[i] < a[j] BY <1>1, <1>2
  <2>2. At(q, S)[i] = q[a[i]] /\ At(q, S)[j] = q[a[j]] BY <1>1
  <2> QED BY <1>2, <2>1, <2>2 DEF Ordered
<1> QED BY <1>2 DEF Ordered

LEMMA AboveOrdered ==
  ASSUME NEW q \in Seq(Nat), NEW low \in Nat, Above(q, low), NEW E PROVE Ordered(q, E)
<1>1. ASSUME NEW i \in DOMAIN q, NEW j \in DOMAIN q, i < j PROVE ~(q[j] < q[i])
  <2>1. q[i] < q[j] /\ q[i] \in Nat /\ q[j] \in Nat BY <1>1 DEF Above
  <2> QED BY <2>1
<1> QED BY <1>1 DEF Ordered

LEMMA OrderedGrows == ASSUME NEW q, NEW E, NEW F, E \subseteq F, Ordered(q, E) PROVE Ordered(q, F)
BY DEF Ordered

LEMMA NothingListed ==
  /\ \A n : ~Among(<<>>, n)
  /\ \A E : Ordered(<<>>, E)
  /\ \A T : \A q \in Seq(T) : q # <<>> => \E n : Among(q, n)
<1>1. \A n : ~Among(<<>>, n) BY DEF Among
<1>2. \A E : Ordered(<<>>, E) BY DEF Ordered
<1>3. ASSUME NEW T, NEW q \in Seq(T), q # <<>> PROVE \E n : Among(q, n)
  <2>1. 1 \in DOMAIN q BY <1>3, HeadAndRest
  <2> QED BY <2>1 DEF Among
<1> QED BY <1>1, <1>2, <1>3

-----------------------------------------------------------------------------
(* The broadcasts.                                                              *)

LEMMA MovedComing ==
  ASSUME StreamType, LateStarted(fans), NEW f \in fans, NEW held, Targets(f) # <<>>
  PROVE  /\ \A d, n : ComingIn(Moved(f, held), order, d, n) => ComingIn(fans, order, d, n)
         /\ \A d, n : ComingIn(fans, order, d, n) /\ (d # Head(Targets(f)) \/ n # f.seq)
                        => ComingIn(Moved(f, held), order, d, n)
         /\ LateStarted(Moved(f, held))
<1> DEFINE g == [f EXCEPT !.started = TRUE, !.todo = Tail(Targets(f)), !.held = held,
                          !.late = @ \/ held # None]
           c == Head(Targets(f))
<1>1. f \in FanType /\ Targets(f) \in Seq(Client) /\ \A h \in fans : h.todo \in Seq(Client)
  BY DEF StreamType, FanType, Targets
<1>2. g.seq = f.seq /\ g.started = TRUE /\ g.todo = Tail(Targets(f)) BY <1>1 DEF FanType
<1>3. Moved(f, held) = {h \in (fans \ {f}) \cup {g} : ~h.started \/ h.todo # <<>> \/ h.held # None}
  BY DEF Moved, Active
<1> HIDE DEF g
<1>4. \A d : Among(Targets(f), d) <=> d = c \/ Among(g.todo, d) BY <1>1, <1>2, AmongTail
<1>5. g.todo \in Seq(Client) BY <1>1, <1>2, HeadAndRest
<1>6. ASSUME NEW h \in Moved(f, held), NEW d, Among(IF h.started THEN h.todo ELSE order, d)
      PROVE  ComingIn(fans, order, d, h.seq)
  <2>1. CASE h \in fans BY <1>6, <2>1 DEF ComingIn
  <2>2. CASE h = g
    <3>1. Among(Targets(f), d) BY <1>2, <1>4, <1>6, <2>2
    <3> QED BY <1>2, <2>2, <3>1 DEF ComingIn, Targets
  <2> QED BY <1>3, <2>1, <2>2
<1>7. ASSUME NEW h \in fans, NEW d, Among(IF h.started THEN h.todo ELSE order, d),
             d # c \/ h.seq # f.seq
      PROVE  ComingIn(Moved(f, held), order, d, h.seq)
  <2>1. CASE h # f
    <3>1. ~h.started \/ h.todo # <<>> BY <1>7, NothingListed
    <3> QED BY <1>3, <1>7, <2>1, <3>1 DEF ComingIn
  <2>2. CASE h = f
    <3>1. Among(g.todo, d) BY <1>4, <1>7, <2>2 DEF Targets
    <3>2. g.todo # <<>> BY <3>1, NothingListed
    <3> QED BY <1>2, <1>3, <2>2, <3>1, <3>2 DEF ComingIn
  <2> QED BY <2>1, <2>2
<1>8. LateStarted(Moved(f, held)) BY <1>2, <1>3 DEF LateStarted
<1> QED BY <1>6, <1>7, <1>8 DEF ComingIn

LEMMA GoneComing ==
  ASSUME NEW fs \in SUBSET FanType, NEW ord \in Seq(Client), NEW c
  PROVE  /\ \A d, n : ComingIn(Gone(fs, c), Others(ord, c), d, n) <=> d # c /\ ComingIn(fs, ord, d, n)
         /\ LateStarted(fs) => LateStarted(Gone(fs, c))
<1> DEFINE g(f) == [f EXCEPT !.todo = Others(@, c), !.held = IF @ = c THEN None ELSE @]
<1>1. ASSUME NEW f \in fs
      PROVE  /\ g(f).seq = f.seq /\ g(f).started = f.started /\ g(f).late = f.late
             /\ g(f).todo = Others(f.todo, c) /\ f.todo \in Seq(Client)
  BY DEF FanType
<1>2. \A h : h \in Gone(fs, c) <=>
               /\ \E f \in fs : h = g(f)
               /\ ~h.started \/ h.todo # <<>> \/ h.held # None
  BY DEF Gone, Active
<1> HIDE DEF g
<1>3. ASSUME NEW h \in Gone(fs, c), NEW d, Among(IF h.started THEN h.todo ELSE Others(ord, c), d)
      PROVE  d # c /\ ComingIn(fs, ord, d, h.seq)
  <2>1. PICK f \in fs : h = g(f) BY <1>2
  <2>2. Among(Others(IF f.started THEN f.todo ELSE ord, c), d) BY <1>1, <1>3, <2>1
  <2>3. d # c /\ Among(IF f.started THEN f.todo ELSE ord, d) BY <1>1, <2>2, AmongOthers
  <2> QED BY <1>1, <2>1, <2>3 DEF ComingIn
<1>4. ASSUME NEW f \in fs, NEW d, d # c, Among(IF f.started THEN f.todo ELSE ord, d)
      PROVE  ComingIn(Gone(fs, c), Others(ord, c), d, f.seq)
  <2>1. Among(Others(IF f.started THEN f.todo ELSE ord, c), d) BY <1>1, <1>4, AmongOthers
  <2>2. Among(IF g(f).started THEN g(f).todo ELSE Others(ord, c), d) BY <1>1, <2>1
  <2>3. ~g(f).started \/ g(f).todo # <<>> BY <2>2, NothingListed
  <2>4. g(f) \in Gone(fs, c) BY <1>2, <2>3
  <2> QED BY <1>1, <2>2, <2>4 DEF ComingIn
<1>5. LateStarted(fs) => LateStarted(Gone(fs, c)) BY <1>1, <1>2 DEF LateStarted
<1> QED BY <1>3, <1>4, <1>5 DEF ComingIn

LEMMA FreedComing ==
  ASSUME NEW fs \in SUBSET FanType, NEW ord, NEW c
  PROVE  /\ \A d, n : ComingIn(Freed(fs, c), ord, d, n) <=> ComingIn(fs, ord, d, n)
         /\ LateStarted(fs) => LateStarted(Freed(fs, c))
<1> DEFINE g(f) == [f EXCEPT !.held = IF @ = c THEN None ELSE @]
<1>1. ASSUME NEW f \in fs
      PROVE  /\ g(f).seq = f.seq /\ g(f).started = f.started /\ g(f).late = f.late /\ g(f).todo = f.todo
  BY DEF FanType
<1>2. \A h : h \in Freed(fs, c) <=>
               /\ \E f \in fs : h = g(f)
               /\ ~h.started \/ h.todo # <<>> \/ h.held # None
  BY DEF Freed, Active
<1> HIDE DEF g
<1>3. ASSUME NEW h \in Freed(fs, c), NEW d, Among(IF h.started THEN h.todo ELSE ord, d)
      PROVE  ComingIn(fs, ord, d, h.seq)
  <2>1. PICK f \in fs : h = g(f) BY <1>2
  <2> QED BY <1>1, <1>3, <2>1 DEF ComingIn
<1>4. ASSUME NEW f \in fs, NEW d, Among(IF f.started THEN f.todo ELSE ord, d)
      PROVE  ComingIn(Freed(fs, c), ord, d, f.seq)
  <2>1. ~g(f).started \/ g(f).todo # <<>> BY <1>1, <1>4, NothingListed
  <2>2. g(f) \in Freed(fs, c) BY <1>2, <2>1
  <2> QED BY <1>1, <1>4, <2>2 DEF ComingIn
<1>5. LateStarted(fs) => LateStarted(Freed(fs, c)) BY <1>1, <1>2 DEF LateStarted
<1> QED BY <1>3, <1>4, <1>5 DEF ComingIn

\* In step, only a broadcast that was held up brings an earlier row later.
LEMMA LateOnes ==
  ASSUME LateStarted(fans), NEW f, NEW c, InTurn(f, c), NEW m, Coming(c, m), m < f.seq
  PROVE  m \in Overtaken(f, c)
<1>1. PICK g \in fans : g.seq = m /\ Among(IF g.started THEN g.todo ELSE order, c)
  BY DEF Coming, ComingIn
<1>2. g.late
  <2> SUFFICES ASSUME ~g.late PROVE FALSE OBVIOUS
  <2>1. g.started /\ ~Among(g.todo, c) BY <1>1 DEF InTurn
  <2> QED BY <1>1, <2>1
<1>3. g.started /\ Among(g.todo, c) BY <1>1, <1>2 DEF LateStarted
<1> QED BY <1>1, <1>2, <1>3 DEF Overtaken

-----------------------------------------------------------------------------
(* The inductive invariant.                                                     *)

Swept(n) == n \notin kept /\ IsDelta(log[n])
Aged(n) == n \notin kept /\ ~IsDelta(log[n])

\* What c knows it must fetch, what it may miss, and what retention took for all.
Known(c, n) == n \in told[c] \/ n \in escaped[c] \/ Swept(n)

\* Before the floor is read, what is gone by its age may be unknown.
Excusable(c, n) == Known(c, n) \/ (sub[c].phase = "checking" /\ Aged(n))

Open(c) == sub[c].phase # "away"

\* Broadcasts reach those that are attached; a connection that is over holds nothing.
Attached(c) ==
  /\ Open(c) => Among(order, c)
  /\ ~Open(c) => sub[c] = Away /\ conn[c] = Fresh /\ ~Among(order, c) /\ \A n \in Rows : ~Coming(c, n)

Emptied(c) ==
  /\ sub[c].phase = "live" => sub[c].todo = <<>> /\ sub[c].buffer = <<>>
  /\ sub[c].phase = "replaying" => sub[c].todo = <<>>
  /\ sub[c].phase = "flushing" => \A n \in Rows : Among(sub[c].buffer, n) => n \in escaped[c]

\* What was dropped is announced when the connection drains.
Announced(c) == conn[c].gap # {} => Stalled(c)

\* Up to the watermark: received, known, or with the connection.
Behind(c) ==
  \A n \in Rows : Open(c) /\ cursor[c] < n /\ n <= sub[c].mark =>
    Known(c, n) \/ Among(conn[c].queue, n) \/ n \in conn[c].gap

\* The rows of a replay are read, and are not cut off at the limit.
Read(c) ==
  /\ Open(c) /\ sub[c].phase # "replaying"
  /\ sub[c].phase = "checking" => Len(sub[c].todo) < ReplayLimit

\* Above the watermark: known, under way, to be handed over, or put aside.
Ahead(c) ==
  \A n \in Rows : Read(c) /\ sub[c].mark < n =>
    Excusable(c, n) \/ Coming(c, n) \/ Among(sub[c].todo, n) \/ Among(sub[c].buffer, n)

\* What is to be handed over leaves nothing out.
Contiguous(c) ==
  \A h, n \in Rows : Among(sub[c].todo, h) /\ sub[c].mark < n /\ n < h =>
    Excusable(c, n) \/ Among(sub[c].todo, n)

\* A row that comes after a later one is among those that may be missed.
PutAside(c) ==
  /\ Ordered(sub[c].todo, escaped[c]) /\ Ordered(sub[c].buffer, escaped[c])
  /\ \A h, n \in Rows : Among(sub[c].buffer, h) /\ Coming(c, n) /\ n < h => n \in escaped[c]

Excused(c) == Missing(c) \subseteq escaped[c]

Accounted(c) ==
  /\ Attached(c) /\ Emptied(c) /\ Announced(c) /\ Behind(c) /\ Ahead(c) /\ Contiguous(c)
  /\ PutAside(c) /\ Excused(c)

\* What is gone by its age is below all that is kept.
Floor == \A n \in Rows : Aged(n) => \A m \in kept : n < m

HoleInv == Floor /\ LateStarted(fans) /\ \A c \in Client : Accounted(c)

LEMMA Excuses == HoleInv => HolesTold
BY DEF HoleInv, Accounted, Excused, HolesTold

-----------------------------------------------------------------------------
(* What stays as it is.                                                         *)

LEMMA ClientFacts ==
  ASSUME StreamInv, BrokerBounds, NEW c \in Client
  PROVE  /\ Len(log) \in Nat /\ Rows = 1..Len(log) /\ Rows \in SUBSET Nat
         /\ sub \in [Client -> SubType] /\ conn \in [Client -> ConnType] /\ cursor \in [Client -> Nat]
         /\ sub[c] \in SubType /\ conn[c] \in ConnType /\ InLine(sub[c], conn[c].queue, cursor[c])
         /\ sub[c].mark \in Nat /\ cursor[c] \in Nat
         /\ sub[c].todo \in Seq(Rows) /\ sub[c].buffer \in Seq(Rows) /\ conn[c].queue \in Seq(Rows)
         /\ sub[c].todo \in Seq(Nat) /\ sub[c].buffer \in Seq(Nat) /\ conn[c].queue \in Seq(Nat)
         /\ conn[c].gap \in SUBSET Rows
         /\ told \in [Client -> SUBSET Rows] /\ holes \in [Client -> SUBSET Rows]
         /\ escaped \in [Client -> SUBSET Rows]
<1>1. StreamType /\ SeenType /\ PlacedIn(Rows, sub[c], conn[c], cursor[c])
      /\ InLine(sub[c], conn[c].queue, cursor[c])
  BY DEF StreamInv, BrokerBounds
<1>2. Len(log) \in Nat /\ Rows = 1..Len(log) /\ Rows \in SUBSET Nat BY <1>1, RowNumbers
<1>3. /\ sub \in [Client -> SubType] /\ conn \in [Client -> ConnType] /\ cursor \in [Client -> Nat]
      /\ sub[c] \in SubType /\ conn[c] \in ConnType /\ cursor[c] \in Nat
  BY <1>1 DEF StreamType
<1>4. /\ sub[c].mark \in Nat /\ sub[c].todo \in Seq(Nat) /\ sub[c].buffer \in Seq(Nat)
      /\ conn[c].queue \in Seq(Nat)
  BY <1>3 DEF SubType, ConnType
<1> QED BY <1>1, <1>2, <1>3, <1>4 DEF PlacedIn, SeenType

\* The state of d, and what comes to it, is the same.
Aside(d) ==
  /\ sub'[d] = sub[d] /\ conn'[d] = conn[d] /\ cursor'[d] = cursor[d]
  /\ told'[d] = told[d] /\ holes'[d] = holes[d] /\ escaped'[d] = escaped[d]
  /\ Among(order', d) <=> Among(order, d)
  /\ \A n : Coming(d, n)' <=> Coming(d, n)

LEMMA Bystander ==
  ASSUME NEW d \in Client, Accounted(d), UNCHANGED <<log, kept>>, Aside(d) PROVE Accounted(d)'
<1>1. Rows' = Rows BY DEF Rows
<1>2. /\ sub'[d] = sub[d] /\ conn'[d] = conn[d] /\ cursor'[d] = cursor[d]
      /\ told'[d] = told[d] /\ holes'[d] = holes[d] /\ escaped'[d] = escaped[d]
      /\ Among(order', d) <=> Among(order, d)
  BY DEF Aside
<1>3. /\ \A n : Swept(n)' = Swept(n) /\ Aged(n)' = Aged(n)
      /\ \A n : Known(d, n)' <=> Known(d, n)
      /\ \A n : Excusable(d, n)' <=> Excusable(d, n)
      /\ \A n : Coming(d, n)' <=> Coming(d, n)
  <2>1. \A n : Swept(n)' = Swept(n) /\ Aged(n)' = Aged(n) BY DEF Swept, Aged, IsDelta
  <2>2. \A n : Known(d, n)' <=> Known(d, n) BY <1>2, <2>1 DEF Known
  <2>3. \A n : Excusable(d, n)' <=> Excusable(d, n) BY <1>2, <2>1, <2>2 DEF Excusable
  <2>4. \A n : Coming(d, n)' <=> Coming(d, n) BY DEF Aside
  <2> QED BY <2>1, <2>2, <2>3, <2>4
<1>4. (Open(d)' <=> Open(d)) /\ (Read(d)' <=> Read(d)) BY <1>2 DEF Open, Read
<1>5. Attached(d)' BY <1>1, <1>3, <1>2, <1>4 DEF Accounted, Attached
<1>6. Emptied(d)' BY <1>1, <1>2 DEF Accounted, Emptied
<1>7. Announced(d)' BY <1>2 DEF Accounted, Announced, Stalled
<1>8. Behind(d)' BY <1>1, <1>3, <1>2, <1>4 DEF Accounted, Behind
<1>9. Ahead(d)' BY <1>1, <1>3, <1>2, <1>4 DEF Accounted, Ahead
<1>10. Contiguous(d)' BY <1>1, <1>3, <1>2 DEF Accounted, Contiguous
<1>11. PutAside(d)' BY <1>1, <1>3, <1>2 DEF Accounted, PutAside
<1>12. Excused(d)' BY <1>2 DEF Accounted, Excused, Missing, IsDelta
<1> QED BY <1>5, <1>6, <1>7, <1>8, <1>9, <1>10, <1>11, <1>12 DEF Accounted

\* What an action does to one client decides it.
LEMMA OneAccounted ==
  ASSUME HoleInv, NEW c \in Client, UNCHANGED <<log, kept>>, LateStarted(fans'), Accounted(c)',
         \A d \in Client \ {c} : Aside(d)
  PROVE  HoleInv'
<1>1. Floor' BY DEF HoleInv, Floor, Aged, Rows, IsDelta
<1>2. \A d \in Client \ {c} : Accounted(d)' BY Bystander DEF HoleInv
<1>3. \A d \in Client : Accounted(d)' BY <1>2
<1> QED BY <1>1, <1>3 DEF HoleInv

\* The connection of c does nothing, and its watermark stays.
LEMMA Steady ==
  ASSUME NEW c \in Client, Accounted(c), UNCHANGED <<log, kept, conn, cursor, told, holes>>,
         escaped[c] \subseteq escaped'[c], Open(c), sub'[c].mark = sub[c].mark
  PROVE  /\ Behind(c)' /\ Announced(c)' /\ Excused(c)'
         /\ \A n : Swept(n)' = Swept(n) /\ Aged(n)' = Aged(n)
         /\ \A n : Known(c, n) => Known(c, n)'
         /\ Rows' = Rows
<1>1. Rows' = Rows /\ \A n : Swept(n)' = Swept(n) /\ Aged(n)' = Aged(n) BY DEF Rows, Swept, Aged, IsDelta
<1>2. \A n : Known(c, n) => Known(c, n)' BY <1>1 DEF Known
<1>3. Behind(c)' BY <1>1, <1>2 DEF Accounted, Behind
<1>4. Announced(c)' BY DEF Accounted, Announced, Stalled
<1>5. Excused(c)' BY DEF Accounted, Excused, Missing, IsDelta
<1> QED BY <1>1, <1>2, <1>3, <1>4, <1>5

\* A client that is gone: nothing is to be said of it but what it missed.
LEMMA GoneAccounted ==
  ASSUME NEW c \in Client, UNCHANGED <<log, kept>>, Excused(c), holes'[c] = holes[c],
         escaped[c] \subseteq escaped'[c],
         sub'[c] = Away, conn'[c] = Fresh, ~Among(order', c), \A n : ~Coming(c, n)'
  PROVE  Accounted(c)'
<1>1. /\ sub'[c].phase = "away" /\ sub'[c].todo = <<>> /\ sub'[c].buffer = <<>> /\ conn'[c].gap = {}
  BY DEF Away, Fresh
<1>2. ~Open(c)' /\ ~Read(c)' BY <1>1 DEF Open, Read
<1>3. Attached(c)' BY <1>2 DEF Attached
<1>4. Emptied(c)' BY <1>1 DEF Emptied
<1>5. Announced(c)' BY <1>1 DEF Announced
<1>6. Behind(c)' /\ Ahead(c)' BY <1>2 DEF Behind, Ahead
<1>7. Contiguous(c)' /\ PutAside(c)' BY <1>1, NothingListed DEF Contiguous, PutAside
<1>8. Excused(c)' BY DEF Excused, Missing, IsDelta
<1> QED BY <1>3, <1>4, <1>5, <1>6, <1>7, <1>8 DEF Accounted

LEMMA ShedAccounted ==
  ASSUME StreamInv, BrokerBounds, HoleInv, NEW c \in Client, NEW fs \in SUBSET FanType,
         LateStarted(fs), \A d \in Client \ {c} : \A n : ComingIn(fs, order, d, n) <=> Coming(d, n),
         Left(c, fs), UNCHANGED <<log, kept, cursor, told, holes>>,
         escaped[c] \subseteq escaped'[c], \A d \in Client \ {c} : escaped'[d] = escaped[d]
  PROVE  HoleInv'
<1>1. /\ fans' = Gone(fs, c) /\ order' = Others(order, c)
      /\ sub' = [sub EXCEPT ![c] = Away] /\ conn' = [conn EXCEPT ![c] = Fresh]
  BY DEF Left
<1>2. /\ order \in Seq(Client) /\ sub \in [Client -> SubType] /\ conn \in [Client -> ConnType]
  BY DEF StreamInv, StreamType
<1>3. /\ \A d, n : ComingIn(fans', order', d, n) <=> d # c /\ ComingIn(fs, order, d, n)
      /\ LateStarted(fans')
  BY <1>1, <1>2, GoneComing
<1>4. \A d : Among(order', d) <=> Among(order, d) /\ d # c BY <1>1, <1>2, AmongOthers
<1>5. ASSUME NEW d \in Client \ {c} PROVE Aside(d)
  <2>1. sub'[d] = sub[d] /\ conn'[d] = conn[d] BY <1>1, <1>2
  <2>2. \A n : Coming(d, n)' <=> Coming(d, n) BY <1>3 DEF Coming
  <2> QED BY <1>4, <2>1, <2>2 DEF Aside
<1>6. Accounted(c)'
  <2>1. sub'[c] = Away /\ conn'[c] = Fresh /\ ~Among(order', c) BY <1>1, <1>2, <1>4
  <2>2. \A n : ~Coming(c, n)' BY <1>3 DEF Coming
  <2>3. Excused(c) BY DEF HoleInv, Accounted
  <2> QED BY <2>1, <2>2, <2>3, GoneAccounted
<1> QED BY <1>3, <1>5, <1>6, OneAccounted

-----------------------------------------------------------------------------
(* A connection writes, drops or queues.                                        *)

\* A client that received the rows ns, told of the rows gap, passes only such rows.
Crosses(c, gap, ns) ==
  \A n \in Rows : cursor[c] < n /\ n < LastOf(ns, cursor[c]) =>
    n \in told[c] \/ n \in escaped'[c] \/ Swept(n) \/ Among(ns, n) \/ n \in gap

\* What is so once it did.
Received(c, gap, ns, rest) ==
  /\ Excused(c)' /\ cursor'[c] = LastOf(ns, cursor[c])
  /\ \A n \in told[c] \cup gap : n > cursor'[c] => n \in told'[c]
  /\ conn'[c].queue = rest /\ conn'[c].gap = {}
  /\ \A d \in Client \ {c} : /\ cursor'[d] = cursor[d] /\ conn'[d] = conn[d]
                             /\ told'[d] = told[d] /\ holes'[d] = holes[d]

\* What a client has missed once it received the rows ns, told of the rows gap.
LEMMA WroteTells ==
  ASSUME StreamInv, BrokerBounds, NEW c \in Client, Excused(c), UNCHANGED <<log, kept>>,
         NEW gap \in SUBSET Rows, NEW ns \in Seq(Rows), NEW rest, Wrote(c, gap, ns, rest),
         escaped[c] \subseteq escaped'[c], Crosses(c, gap, ns)
  PROVE  Received(c, gap, ns, rest)
<1> DEFINE has == {ns[i] : i \in DOMAIN ns}
           at == LastOf(ns, cursor[c])
<1>1. /\ cursor \in [Client -> Nat] /\ conn \in [Client -> ConnType]
      /\ told \in [Client -> SUBSET Rows] /\ holes \in [Client -> SUBSET Rows]
  BY ClientFacts
<1>2. /\ cursor' = [cursor EXCEPT ![c] = at]
      /\ told' = [told EXCEPT ![c] = {n \in @ \cup gap : n > at}]
      /\ holes' = [holes EXCEPT ![c] =
                     (@ \cup {n \in Rows : cursor[c] < n /\ n < at}) \ (has \cup told[c] \cup gap)]
  BY DEF Wrote, LastOf
<1>3. PICK full \in BOOLEAN :
        /\ rest # <<>> => full
        /\ conn' = [conn EXCEPT ![c] = [congested |-> full, queue |-> rest, gap |-> {}]]
  BY DEF Wrote
<1>4. \A n : n \in has <=> Among(ns, n) BY DEF Among
<1> HIDE DEF has, at
<1>5. /\ cursor'[c] = at /\ conn'[c].queue = rest /\ conn'[c].gap = {}
      /\ rest # <<>> => conn'[c].congested = TRUE
      /\ \A d \in Client \ {c} : /\ cursor'[d] = cursor[d] /\ conn'[d] = conn[d]
                                 /\ told'[d] = told[d] /\ holes'[d] = holes[d]
      /\ told'[c] = {n \in told[c] \cup gap : n > at}
      /\ holes'[c] = (holes[c] \cup {n \in Rows : cursor[c] < n /\ n < at}) \ (has \cup told[c] \cup gap)
  BY <1>1, <1>2, <1>3
<1>6. ASSUME NEW n \in Missing(c)' PROVE n \in escaped'[c]
  <2>1. n \in holes'[c] /\ (n \in kept \/ ~IsDelta(log[n])) BY DEF Missing, IsDelta
  <2>2. n \notin told[c] /\ ~Among(ns, n) /\ n \notin gap BY <1>4, <1>5, <2>1
  <2>3. ~Swept(n) BY <2>1 DEF Swept
  <2>4. CASE n \in holes[c]
    <3>1. n \in Missing(c) BY <2>1, <2>4 DEF Missing
    <3> QED BY <3>1 DEF Excused
  <2>5. CASE n \in Rows /\ cursor[c] < n /\ n < at BY <2>2, <2>3, <2>5 DEF at, Crosses
  <2> QED BY <1>5, <2>1, <2>4, <2>5
<1>7. Excused(c)' BY <1>6 DEF Excused
<1> QED BY <1>5, <1>7 DEF at, Received

\* A row is handed to a connection, when those before it are accounted for.
LEMMA DeliverTells ==
  ASSUME StreamInv, BrokerBounds, NEW c \in Client, Accounted(c), Open(c), NEW n \in Rows,
         sub[c].mark < n, UNCHANGED <<log, kept>>, Deliver(c, n), escaped[c] \subseteq escaped'[c],
         \A m \in Rows : sub[c].mark < m /\ m < n => m \in told[c] \/ m \in escaped'[c] \/ Swept(m)
  PROVE  /\ Excused(c)' /\ Announced(c)'
         /\ \A m \in Rows : cursor'[c] < m /\ m <= n =>
              Known(c, m)' \/ Among(conn'[c].queue, m) \/ m \in conn'[c].gap
         /\ \A m \in told[c] : m > n => m \in told'[c]
         /\ \A d \in Client \ {c} : /\ cursor'[d] = cursor[d] /\ conn'[d] = conn[d]
                                    /\ told'[d] = told[d] /\ holes'[d] = holes[d]
<1>1. /\ Len(log) \in Nat /\ Rows \in SUBSET Nat /\ sub[c].mark \in Nat /\ cursor[c] \in Nat
      /\ conn \in [Client -> ConnType] /\ conn[c] \in ConnType /\ conn[c].queue \in Seq(Rows)
      /\ cursor \in [Client -> Nat] /\ told \in [Client -> SUBSET Rows]
  BY ClientFacts
<1>2. \A m : Swept(m)' = Swept(m) BY DEF Swept, IsDelta
<1>3. ASSUME NEW m \in Rows, cursor[c] < m, m < n
      PROVE  \/ m \in told[c] \/ m \in escaped'[c] \/ Swept(m)
             \/ Among(conn[c].queue, m) \/ m \in conn[c].gap
  <2>1. m \in Nat /\ n \in Nat BY <1>1
  <2>2. CASE sub[c].mark < m BY <1>3, <2>2
  <2>3. CASE m <= sub[c].mark BY <1>3, <2>3 DEF Accounted, Behind, Known
  <2> QED BY <1>1, <2>1, <2>2, <2>3
<1>4. CASE ~Stalled(c) /\ Wrote(c, {}, <<n>>, <<>>)
  <2>1. <<n>> \in Seq(Rows) /\ {} \in SUBSET Rows /\ LastOf(<<n>>, cursor[c]) = n BY DEF LastOf
  <2>2. conn[c].queue = <<>> /\ conn[c].gap = {} BY <1>4 DEF Stalled, Accounted, Announced
  <2>3. \A m \in Rows : cursor[c] < m /\ m < n => m \in told[c] \/ m \in escaped'[c] \/ Swept(m)
    BY <1>3, <2>2, NothingListed
  <2>4. Excused(c) /\ Crosses(c, {}, <<n>>) BY <2>1, <2>3 DEF Accounted, Crosses
  <2>5. /\ Excused(c)' /\ cursor'[c] = n /\ conn'[c].gap = {}
        /\ \A m \in told[c] \cup {} : m > n => m \in told'[c]
        /\ \A d \in Client \ {c} : /\ cursor'[d] = cursor[d] /\ conn'[d] = conn[d]
                                   /\ told'[d] = told[d] /\ holes'[d] = holes[d]
    <3>1. Received(c, {}, <<n>>, <<>>) BY <1>4, <2>1, <2>4, WroteTells
    <3> QED BY <2>1, <3>1 DEF Received
  <2>6. \A m \in Rows : ~(n < m /\ m <= n) BY <1>1
  <2>7. Announced(c)' BY <2>5 DEF Announced
  <2> QED BY <2>5, <2>6, <2>7
<1>5. ASSUME UNCHANGED <<cursor, told, holes>>, Stalled(c)',
             \A m : Among(conn[c].queue, m) => Among(conn'[c].queue, m),
             conn[c].gap \subseteq conn'[c].gap,
             Among(conn'[c].queue, n) \/ n \in conn'[c].gap,
             \A d \in Client \ {c} : conn'[d] = conn[d]
      PROVE  /\ Excused(c)' /\ Announced(c)'
             /\ \A m \in Rows : cursor'[c] < m /\ m <= n =>
                  Known(c, m)' \/ Among(conn'[c].queue, m) \/ m \in conn'[c].gap
             /\ \A m \in told[c] : m > n => m \in told'[c]
             /\ \A d \in Client \ {c} : /\ cursor'[d] = cursor[d] /\ conn'[d] = conn[d]
                                        /\ told'[d] = told[d] /\ holes'[d] = holes[d]
  <2>1. Excused(c)' BY <1>5 DEF Accounted, Excused, Missing, IsDelta
  <2>2. Announced(c)' BY <1>5 DEF Announced
  <2>3. ASSUME NEW m \in Rows, cursor'[c] < m, m <= n
        PROVE  Known(c, m)' \/ Among(conn'[c].queue, m) \/ m \in conn'[c].gap
    <3>1. CASE m = n BY <1>5, <3>1
    <3>2. CASE m # n
      <4>1. m < n /\ cursor[c] < m BY <1>1, <1>5, <2>3, <3>2
      <4> QED BY <1>2, <1>3, <1>5, <4>1 DEF Known
    <3> QED BY <3>1, <3>2
  <2> QED BY <1>5, <2>1, <2>2, <2>3
<1>6. CASE /\ Stalled(c) /\ IsDelta(log[n])
           /\ conn' = [conn EXCEPT ![c].gap = @ \cup {n}] /\ UNCHANGED <<cursor, told, holes>>
  <2>1. /\ conn'[c].gap = conn[c].gap \cup {n} /\ conn'[c].queue = conn[c].queue
        /\ conn'[c].congested = conn[c].congested /\ \A d \in Client \ {c} : conn'[d] = conn[d]
    BY <1>1, <1>6 DEF ConnType
  <2>2. Stalled(c)' BY <1>6, <2>1 DEF Stalled
  <2> QED BY <1>5, <1>6, <2>1, <2>2
<1>7. CASE /\ Queues(c, n)
           /\ conn' = [conn EXCEPT ![c].queue = Append(@, n)] /\ UNCHANGED <<cursor, told, holes>>
  <2>1. /\ conn'[c].gap = conn[c].gap /\ conn'[c].queue = Append(conn[c].queue, n)
        /\ \A d \in Client \ {c} : conn'[d] = conn[d]
    BY <1>1, <1>7 DEF ConnType
  <2>2. \A m : Among(conn'[c].queue, m) <=> Among(conn[c].queue, m) \/ m = n
    BY <1>1, <2>1, AmongAppend
  <2>3. conn'[c].queue # <<>> BY <2>2, NothingListed
  <2>4. Stalled(c)' BY <2>3 DEF Stalled
  <2> QED BY <1>5, <1>7, <2>1, <2>2, <2>4
<1> QED BY <1>4, <1>6, <1>7 DEF Deliver

\* A subscription takes a row: its watermark rises over rows that are accounted for.
LEMMA TakenAccounted ==
  ASSUME StreamInv, BrokerBounds, HoleInv, NEW c \in Client, NEW n \in Rows, sub[c].mark < n,
         sub[c].phase \in {"delivering", "flushing", "live"},
         Deliver(c, n), UNCHANGED <<log, kept, order>>, LateStarted(fans'),
         NEW todo \in Seq(Nat), NEW waits,
         sub' = [sub EXCEPT ![c].todo = todo, ![c].mark = n, ![c].waits = waits],
         \A m : Among(todo, m) => Among(sub[c].todo, m),
         \A m : Among(sub[c].todo, m) /\ m # n => Among(todo, m),
         Ordered(todo, escaped'[c]), sub[c].phase = "live" => todo = <<>>,
         escaped[c] \subseteq escaped'[c], \A d \in Client \ {c} : escaped'[d] = escaped[d],
         \A d, m : Coming(d, m)' => Coming(d, m),
         \A d, m : Coming(d, m) /\ (d # c \/ m # n) => Coming(d, m)',
         \A m \in Rows : sub[c].mark < m /\ m < n => m \in told[c] \/ m \in escaped'[c] \/ Swept(m)
  PROVE  HoleInv'
<1>0. Accounted(c) /\ Open(c) BY DEF HoleInv, Open
<1>1. /\ Rows \in SUBSET Nat /\ sub[c].mark \in Nat /\ sub \in [Client -> SubType] /\ sub[c] \in SubType
  BY ClientFacts
<1>2. /\ Excused(c)' /\ Announced(c)'
      /\ \A m \in Rows : cursor'[c] < m /\ m <= n =>
           Known(c, m)' \/ Among(conn'[c].queue, m) \/ m \in conn'[c].gap
      /\ \A m \in told[c] : m > n => m \in told'[c]
      /\ \A d \in Client \ {c} : /\ cursor'[d] = cursor[d] /\ conn'[d] = conn[d]
                                 /\ told'[d] = told[d] /\ holes'[d] = holes[d]
  BY <1>0, DeliverTells
<1>3. /\ sub'[c].phase = sub[c].phase /\ sub'[c].mark = n /\ sub'[c].todo = todo
      /\ sub'[c].buffer = sub[c].buffer /\ \A d \in Client \ {c} : sub'[d] = sub[d]
  BY <1>1 DEF SubType
<1>4. /\ Rows' = Rows /\ (Open(c)' <=> Open(c)) /\ sub[c].phase # "checking"
      /\ \A m : Swept(m)' = Swept(m)
  BY <1>3 DEF Rows, Open, Swept, IsDelta
<1>5. \A m \in Rows : n < m /\ Excusable(c, m) => Excusable(c, m)'
  <2> SUFFICES ASSUME NEW m \in Rows, n < m, Excusable(c, m) PROVE Known(c, m)'
    BY DEF Excusable
  <2>1. Known(c, m) BY <1>4 DEF Excusable
  <2>2. m > n BY <1>1
  <2> QED BY <1>2, <1>4, <2>1, <2>2 DEF Known
<1>6. \A m \in Rows : n < m => sub[c].mark < m /\ m # n BY <1>1
<1>7. Attached(c)' BY <1>0, <1>3, <1>4 DEF Accounted, Attached
<1>8. Emptied(c)' BY <1>0, <1>3, <1>4 DEF Accounted, Emptied
<1>9. Behind(c)' BY <1>2, <1>3, <1>4 DEF Behind
<1>10. Ahead(c)'
  <2> SUFFICES ASSUME NEW m \in Rows, n < m
               PROVE  Excusable(c, m)' \/ Coming(c, m)' \/ Among(todo, m) \/ Among(sub[c].buffer, m)
    BY <1>3, <1>4 DEF Ahead
  <2>1. Read(c) BY DEF Read, Open
  <2>2. Excusable(c, m) \/ Coming(c, m) \/ Among(sub[c].todo, m) \/ Among(sub[c].buffer, m)
    BY <1>0, <1>6, <2>1 DEF Accounted, Ahead
  <2> QED BY <1>5, <1>6, <2>2
<1>11. Contiguous(c)'
  <2> SUFFICES ASSUME NEW h \in Rows, NEW m \in Rows, Among(todo, h), n < m, m < h
               PROVE  Excusable(c, m)' \/ Among(todo, m)
    BY <1>3, <1>4 DEF Contiguous
  <2>1. Excusable(c, m) \/ Among(sub[c].todo, m) BY <1>0, <1>6 DEF Accounted, Contiguous
  <2> QED BY <1>5, <1>6, <2>1
<1>12. PutAside(c)'
  <2>1. Ordered(sub[c].buffer, escaped'[c]) BY <1>0, OrderedGrows DEF Accounted, PutAside
  <2> QED BY <1>0, <1>3, <1>4, <2>1 DEF Accounted, PutAside
<1>13. Accounted(c)'
  BY <1>2, <1>7, <1>8, <1>9, <1>10, <1>11, <1>12 DEF Accounted
<1>14. \A d \in Client \ {c} : Aside(d) BY <1>2, <1>3 DEF Aside
<1> QED BY <1>13, <1>14, OneAccounted

LEMMA DrainAccounted ==
  ASSUME StreamInv, BrokerBounds, HoleInv, NEW c \in Client, Drain(c) PROVE HoleInv'
<1> DEFINE all == conn[c].queue
           gap == GapOf(conn[c])
<1>1. PICK k \in 0..Len(all) :
        LET rest == SubSeq(all, k + 1, Len(all))
        IN  /\ k > 0 \/ rest = <<>>
            /\ Wrote(c, gap, SubSeq(all, 1, k), rest)
            /\ IF rest = <<>> THEN fans' = Freed(fans, c) /\ sub' = [sub EXCEPT ![c].waits = FALSE]
               ELSE UNCHANGED <<fans, sub>>
  BY DEF Drain, GapOf
<1> DEFINE one == SubSeq(all, 1, k)
           rest == SubSeq(all, k + 1, Len(all))
           at == LastOf(one, cursor[c])
<1>2. UNCHANGED <<log, kept, order, escaped>> /\ Open(c) BY DEF Drain, storeVars, Open
<1>3. /\ Len(log) \in Nat /\ Rows = 1..Len(log) /\ Rows \in SUBSET Nat
      /\ sub[c].mark \in Nat /\ cursor[c] \in Nat /\ all \in Seq(Rows) /\ all \in Seq(Nat)
      /\ conn[c].gap \in SUBSET Rows /\ sub \in [Client -> SubType] /\ sub[c] \in SubType
      /\ InLine(sub[c], all, cursor[c]) /\ fans \in SUBSET FanType
  BY ClientFacts DEF StreamInv, StreamType
<1>4. gap \in SUBSET Rows /\ conn[c].gap \subseteq gap BY <1>3, GapIsOfRows
<1>5. Accounted(c) BY DEF HoleInv
<1>6. /\ one \in Seq(Rows) /\ at \in Nat /\ at <= sub[c].mark
      /\ \A n : Among(all, n) /\ n <= at => Among(one, n)
      /\ \A n : Among(all, n) /\ n > at => Among(rest, n)
  <2>1. /\ k \in Nat /\ k <= Len(all) /\ Len(all) \in Nat /\ DOMAIN all = 1..Len(all)
        /\ Within(all, cursor[c], sub[c].mark) /\ cursor[c] <= sub[c].mark
        /\ all \in Seq(Nat) /\ all \in Seq(Rows)
    BY <1>2, <1>3 DEF InLine, Open
  <2> HIDE DEF all
  <2>2. one \in Seq(Rows) /\ Len(one) = k /\ \A i \in 1..k : one[i] = all[i] /\ i \in DOMAIN one
    <3>1. \A i \in 1..k : all[i] \in Rows BY <2>1
    <3> QED BY <2>1, <3>1, SubSeqProperties
  <2>3. /\ DOMAIN rest = 1..(Len(all) - k) /\ \A i \in 1..(Len(all) - k) : rest[i] = all[i + k]
    <3>1. \A i \in (k + 1)..Len(all) : all[i] \in Nat BY <2>1
    <3>2. k + 1 \in Int /\ Len(all) \in Int BY <2>1
    <3>3. /\ rest \in Seq(Nat) /\ Len(rest) = IF k + 1 <= Len(all) THEN Len(all) - (k + 1) + 1 ELSE 0
          /\ \A i \in 1..(Len(all) - (k + 1) + 1) : rest[i] = all[(k + 1) + i - 1]
      BY <3>1, <3>2, SubSeqProperties
    <3> HIDE DEF rest
    <3>4. Len(rest) = Len(all) - k
      <4>1. k \in Nat /\ k <= Len(all) /\ Len(all) \in Nat BY <2>1
      <4>2. k + 1 <= Len(all) \/ k = Len(all) BY <4>1
      <4>3. Len(rest) = IF k + 1 <= Len(all) THEN Len(all) - (k + 1) + 1 ELSE 0 BY <3>3
      <4> QED BY <4>1, <4>2, <4>3
    <3>5. \A i \in 1..(Len(all) - k) : rest[i] = all[i + k]
      <4> SUFFICES ASSUME NEW i \in 1..(Len(all) - k) PROVE rest[i] = all[i + k] OBVIOUS
      <4>1. i \in 1..(Len(all) - (k + 1) + 1) /\ (k + 1) + i - 1 = i + k BY <2>1
      <4> QED BY <3>3, <4>1
    <3> QED BY <3>3, <3>4, <3>5
  <2>4. at \in Nat /\ at <= sub[c].mark BY <1>3, <2>1, CutWithin
  <2>5. at = IF k = 0 THEN cursor[c] ELSE all[k] BY <2>1, <2>2 DEF LastOf
  <2> HIDE DEF one, rest, at
  <2>6. ASSUME NEW i \in DOMAIN all, all[i] <= at PROVE Among(one, all[i])
    <3>1. i <= k
      <4> SUFFICES ASSUME k < i PROVE FALSE BY <2>1
      <4>1. cursor[c] < all[i] /\ all[i] \in Nat BY <2>1 DEF Within, Above
      <4>2. CASE k = 0 BY <1>3, <2>5, <2>6, <4>1, <4>2
      <4>3. CASE k # 0
        <5>1. k \in DOMAIN all BY <2>1, <4>3
        <5>2. all[k] < all[i] /\ all[k] \in Nat BY <2>1, <5>1 DEF Within, Above
        <5> QED BY <2>5, <2>6, <4>1, <4>3, <5>2
      <4> QED BY <4>2, <4>3
    <3>2. i \in 1..k BY <2>1, <3>1
    <3> QED BY <2>2, <3>2 DEF Among
  <2>7. ASSUME NEW i \in DOMAIN all, all[i] > at PROVE Among(rest, all[i])
    <3>1. k < i
      <4> SUFFICES ASSUME i <= k PROVE FALSE BY <2>1
      <4>1. k # 0 /\ k \in DOMAIN all /\ all[k] = at /\ all[i] \in Nat /\ all[k] \in Nat BY <2>1, <2>5
      <4>2. i = k \/ i < k BY <2>1
      <4>3. i < k => all[i] < all[k] BY <2>1, <4>1 DEF Within, Above
      <4> QED BY <2>7, <4>1, <4>2, <4>3
    <3>2. i - k \in 1..(Len(all) - k) /\ (i - k) + k = i BY <2>1, <3>1
    <3> QED BY <2>3, <3>2 DEF Among
  <2> QED BY <2>2, <2>4, <2>6, <2>7 DEF Among
<1>7. Wrote(c, gap, one, rest) BY <1>1
<1>8. fans' = fans \/ fans' = Freed(fans, c) BY <1>1
<1>9. sub' = sub \/ sub' = [sub EXCEPT ![c].waits = FALSE] BY <1>1
<1>0. at = LastOf(one, cursor[c]) OBVIOUS
<1> HIDE DEF one, rest, at, gap
<1>10. \A n \in Rows : cursor[c] < n /\ n <= sub[c].mark =>
         n \in told[c] \/ n \in escaped[c] \/ Swept(n) \/ Among(all, n) \/ n \in gap
  BY <1>2, <1>4, <1>5 DEF Accounted, Behind, Known
<1>11. \A n \in Rows : cursor[c] < n /\ n < at =>
         n \in told[c] \/ n \in escaped'[c] \/ Swept(n) \/ Among(one, n) \/ n \in gap
  <2> SUFFICES ASSUME NEW n \in Rows, cursor[c] < n, n < at
               PROVE  n \in told[c] \/ n \in escaped'[c] \/ Swept(n) \/ Among(one, n) \/ n \in gap
    OBVIOUS
  <2>1. n <= sub[c].mark /\ n <= at BY <1>3, <1>6
  <2> QED BY <1>2, <1>6, <1>10, <2>1
<1>12. /\ Excused(c)' /\ cursor'[c] = at /\ conn'[c].queue = rest /\ conn'[c].gap = {}
       /\ \A n \in told[c] \cup gap : n > cursor'[c] => n \in told'[c]
       /\ \A d \in Client \ {c} : /\ cursor'[d] = cursor[d] /\ conn'[d] = conn[d]
                                  /\ told'[d] = told[d] /\ holes'[d] = holes[d]
  <2>1. Excused(c) /\ escaped[c] \subseteq escaped'[c] BY <1>2, <1>5 DEF Accounted
  <2>2. Crosses(c, gap, one) BY <1>0, <1>11 DEF Crosses
  <2>3. /\ Excused(c)' /\ cursor'[c] = LastOf(one, cursor[c]) /\ conn'[c].queue = rest /\ conn'[c].gap = {}
        /\ \A n \in told[c] \cup gap : n > cursor'[c] => n \in told'[c]
        /\ \A d \in Client \ {c} : /\ cursor'[d] = cursor[d] /\ conn'[d] = conn[d]
                                   /\ told'[d] = told[d] /\ holes'[d] = holes[d]
    <3>1. gap \in SUBSET Rows /\ one \in Seq(Rows) /\ UNCHANGED <<log, kept>> BY <1>2, <1>4, <1>6
    <3>2. Received(c, gap, one, rest) BY <1>7, <2>1, <2>2, <3>1, WroteTells
    <3> QED BY <3>2 DEF Received
  <2> QED BY <1>0, <2>3
<1>13. /\ \A d \in Client \ {c} : sub'[d] = sub[d]
       /\ sub'[c].phase = sub[c].phase /\ sub'[c].mark = sub[c].mark
       /\ sub'[c].todo = sub[c].todo /\ sub'[c].buffer = sub[c].buffer
  <2>1. CASE sub' = sub BY <2>1
  <2>2. CASE sub' = [sub EXCEPT ![c].waits = FALSE] BY <1>3, <2>2 DEF SubType
  <2> QED BY <1>9, <2>1, <2>2
<1>14. (\A d, n : Coming(d, n)' <=> Coming(d, n)) /\ LateStarted(fans')
  BY <1>2, <1>3, <1>8, FreedComing DEF Coming, HoleInv
<1>15. /\ Rows' = Rows /\ (Open(c)' <=> Open(c)) /\ (Read(c)' <=> Read(c))
       /\ \A n : Swept(n)' = Swept(n) /\ Aged(n)' = Aged(n)
  BY <1>2, <1>13 DEF Rows, Open, Read, Swept, Aged, IsDelta
<1>16. \A n \in Rows : n > at /\ Known(c, n) => Known(c, n)' BY <1>2, <1>12, <1>15 DEF Known
<1>17. \A n \in Rows : sub[c].mark < n => n > at BY <1>3, <1>6
<1>18. \A n \in Rows : sub[c].mark < n /\ Excusable(c, n) => Excusable(c, n)'
  BY <1>13, <1>15, <1>16, <1>17 DEF Excusable
<1>19. Attached(c)' BY <1>2, <1>5, <1>15 DEF Accounted, Attached
<1>20. Emptied(c)' BY <1>2, <1>5, <1>13, <1>15 DEF Accounted, Emptied
<1>21. Announced(c)' BY <1>12 DEF Announced
<1>22. Behind(c)'
  <2> SUFFICES ASSUME NEW n \in Rows, at < n, n <= sub[c].mark
               PROVE  Known(c, n)' \/ Among(rest, n)
    BY <1>12, <1>13, <1>15 DEF Behind
  <2>1. n > at /\ cursor[c] < n
    <3>1. at >= cursor[c] BY <1>3, <1>6, <1>12, DrainMoves DEF Forward
    <3> QED BY <1>3, <1>6, <3>1
  <2>2. n \in told[c] \cup gap => n \in told'[c] BY <1>12, <2>1
  <2> QED BY <1>2, <1>6, <1>10, <1>15, <2>1, <2>2 DEF Known
<1>23. Ahead(c)' BY <1>5, <1>13, <1>14, <1>15, <1>18 DEF Accounted, Ahead
<1>24. Contiguous(c)' BY <1>5, <1>13, <1>15, <1>18 DEF Accounted, Contiguous
<1>25. PutAside(c)' BY <1>2, <1>5, <1>13, <1>14, <1>15 DEF Accounted, PutAside
<1>26. Accounted(c)'
  BY <1>12, <1>19, <1>20, <1>21, <1>22, <1>23, <1>24, <1>25 DEF Accounted
<1>27. \A d \in Client \ {c} : Aside(d) BY <1>2, <1>12, <1>13, <1>14 DEF Aside
<1> QED BY <1>2, <1>14, <1>26, <1>27, OneAccounted

-----------------------------------------------------------------------------
(* A subscription begins, reads its rows and ends.                              *)

\* A step of the subscription of c: the broadcasts and the connections stay.
LEMMA OnlySubscribes ==
  ASSUME NEW c \in Client, UNCHANGED <<fans, conn, cursor>>,
         \A d \in Client \ {c} : /\ sub'[d] = sub[d] /\ told'[d] = told[d] /\ holes'[d] = holes[d]
                                 /\ escaped'[d] = escaped[d] /\ (Among(order', d) <=> Among(order, d))
  PROVE  \A d \in Client \ {c} : Aside(d)
<1> SUFFICES ASSUME NEW d \in Client \ {c} PROVE Aside(d) OBVIOUS
<1>1. \A f \in fans : Among(IF f.started THEN f.todo ELSE order', d)
                        <=> Among(IF f.started THEN f.todo ELSE order, d)
  OBVIOUS
<1>2. \A n : Coming(d, n)' <=> Coming(d, n) BY <1>1 DEF Coming, ComingIn
<1> QED BY <1>2 DEF Aside

LEMMA ConnectAccounted ==
  ASSUME StreamInv, BrokerBounds, HoleInv, NEW c \in Client, Connect(c) PROVE HoleInv'
<1>1. /\ sub[c].phase = "away" /\ order' = Append(order, c) /\ UNCHANGED <<log, kept, fans, conn, escaped>>
      /\ IF cursor[c] = 0 /\ c \notin FromZero
           THEN sub' = [sub EXCEPT ![c].phase = "live"] /\ Told(c, Rows)
           ELSE /\ sub' = [sub EXCEPT ![c].phase = "replaying", ![c].mark = cursor[c]]
                /\ UNCHANGED <<cursor, told, holes>>
  BY DEF Connect, storeVars
<1>2. /\ Accounted(c) /\ sub[c] = Away /\ conn[c] = Fresh BY <1>1 DEF HoleInv, Accounted, Attached, Open
<1>3. /\ Rows \in SUBSET Nat /\ cursor[c] \in Nat /\ sub \in [Client -> SubType] /\ order \in Seq(Client)
      /\ told \in [Client -> SUBSET Rows] /\ holes \in [Client -> SUBSET Rows]
  BY ClientFacts DEF StreamInv, StreamType
<1>4. \A d : Among(order', d) <=> Among(order, d) \/ d = c BY <1>1, <1>3, AmongAppend
<1>5. /\ UNCHANGED cursor /\ sub'[c].todo = <<>> /\ sub'[c].buffer = <<>>
      /\ sub'[c].mark = cursor[c] /\ sub'[c].phase \in {"live", "replaying"}
      /\ sub'[c].phase = "live" => holes'[c] = {} /\ \A n \in Rows : n \in told'[c]
      /\ sub'[c].phase # "live" => holes'[c] = holes[c]
      /\ \A d \in Client \ {c} : sub'[d] = sub[d] /\ told'[d] = told[d] /\ holes'[d] = holes[d]
  <2>1. CASE cursor[c] = 0 /\ c \notin FromZero
    <3>1. /\ sub' = [sub EXCEPT ![c].phase = "live"] /\ UNCHANGED cursor
          /\ told' = [told EXCEPT ![c] = @ \cup {n \in Rows : n > cursor[c]}]
          /\ holes' = [holes EXCEPT ![c] = @ \ Rows]
      BY <1>1, <2>1 DEF Told
    <3>2. told'[c] = told[c] \cup {n \in Rows : n > cursor[c]} /\ holes'[c] = {} BY <1>3, <3>1
    <3>3. \A n \in Rows : n > cursor[c] BY <2>1, RowNumbers DEF StreamInv
    <3>4. sub'[c] = [Away EXCEPT !.phase = "live"] /\ \A d \in Client \ {c} : sub'[d] = sub[d]
      BY <1>2, <1>3, <3>1
    <3>5. /\ sub'[c].todo = <<>> /\ sub'[c].buffer = <<>> /\ sub'[c].mark = 0 /\ sub'[c].phase = "live"
      BY <3>4 DEF Away
    <3>6. \A d \in Client \ {c} : told'[d] = told[d] /\ holes'[d] = holes[d] BY <1>3, <3>1
    <3> QED BY <2>1, <3>1, <3>2, <3>3, <3>4, <3>5, <3>6
  <2>2. CASE ~(cursor[c] = 0 /\ c \notin FromZero)
    <3>1. /\ sub' = [sub EXCEPT ![c].phase = "replaying", ![c].mark = cursor[c]]
          /\ UNCHANGED <<cursor, told, holes>>
      BY <1>1, <2>2
    <3>2. sub'[c] = [Away EXCEPT !.phase = "replaying", !.mark = cursor[c]]
          /\ \A d \in Client \ {c} : sub'[d] = sub[d]
      BY <1>2, <1>3, <3>1
    <3>3. /\ sub'[c].todo = <<>> /\ sub'[c].buffer = <<>> /\ sub'[c].mark = cursor[c]
          /\ sub'[c].phase = "replaying"
      BY <3>2 DEF Away
    <3> QED BY <3>1, <3>2, <3>3
  <2> QED BY <2>1, <2>2
<1>6. Rows' = Rows BY <1>1 DEF Rows
<1>7. Attached(c)' BY <1>4, <1>5 DEF Attached, Open
<1>8. Emptied(c)' BY <1>5 DEF Emptied
<1>9. Announced(c)' BY <1>1, <1>2 DEF Announced, Fresh
<1>10. Behind(c)'
  <2>1. \A n \in Rows : ~(cursor[c] < n /\ n <= cursor[c]) BY <1>3
  <2> QED BY <1>5, <1>6, <2>1 DEF Behind
<1>11. Ahead(c)' BY <1>5, <1>6 DEF Ahead, Read, Excusable, Known
<1>12. Contiguous(c)' /\ PutAside(c)' BY <1>5, NothingListed DEF Contiguous, PutAside
<1>13. Excused(c)'
  <2>1. CASE holes'[c] = {} BY <2>1 DEF Excused, Missing
  <2>2. CASE holes'[c] = holes[c] BY <1>1, <1>2, <2>2 DEF Accounted, Excused, Missing, IsDelta
  <2> QED BY <1>5, <2>1, <2>2
<1>14. Accounted(c)'
  BY <1>7, <1>8, <1>9, <1>10, <1>11, <1>12, <1>13 DEF Accounted
<1>15. \A d \in Client \ {c} : Aside(d) BY <1>1, <1>4, <1>5, OnlySubscribes
<1>16. LateStarted(fans') BY <1>1 DEF HoleInv
<1> QED BY <1>1, <1>14, <1>15, <1>16, OneAccounted

LEMMA DisconnectAccounted ==
  ASSUME StreamInv, BrokerBounds, HoleInv, NEW c \in Client, Disconnect(c) PROVE HoleInv'
<1>1. Left(c, fans) /\ UNCHANGED <<log, kept, cursor, told, holes, escaped>>
  BY DEF Disconnect, storeVars, clientVars
<1>2. fans \in SUBSET FanType /\ LateStarted(fans) BY DEF StreamInv, StreamType, HoleInv
<1>3. \A d \in Client \ {c} : \A n : ComingIn(fans, order, d, n) <=> Coming(d, n) BY DEF Coming
<1> QED BY <1>1, <1>2, <1>3, ShedAccounted

\* The first L of a set of rows: all of them, if they are fewer.
FirstOf(S, L) == {n \in S : Rank(S, n) < L}

LEMMA FirstOnes ==
  ASSUME NEW m \in Nat, NEW S \in SUBSET (1..m), NEW L \in Nat
  PROVE  /\ \A n : Among(Ascending(FirstOf(S, L)), n) <=> n \in FirstOf(S, L)
         /\ \A h \in FirstOf(S, L) : \A n \in S : n < h => n \in FirstOf(S, L)
         /\ Len(Ascending(FirstOf(S, L))) < L => FirstOf(S, L) = S
<1> DEFINE T == FirstOf(S, L)
<1>0. T = {n \in S : Rank(S, n) < L} BY DEF FirstOf
<1> HIDE DEF T
<1>1. S \in SUBSET Nat /\ IsFiniteSet(S) /\ T \in SUBSET Nat /\ IsFiniteSet(T) /\ T \in SUBSET (1..m)
  <2>1. 1 \in Int /\ m \in Int /\ \A k \in 1..m : k \in Nat OBVIOUS
  <2>2. IsFiniteSet(1..m) BY <2>1, FS_Interval
  <2>3. T \in SUBSET S BY <1>0
  <2>4. IsFiniteSet(S) BY <2>2, FS_Subset
  <2>5. IsFiniteSet(T) BY <2>3, <2>4, FS_Subset
  <2> QED BY <2>1, <2>3, <2>4, <2>5
<1>2. \A n : Among(Ascending(T), n) <=> n \in T BY <1>1, AmongAscending
<1>3. \A n \in S : Rank(S, n) \in 0..(Cardinality(S) - 1) /\ Cardinality(S) \in Nat BY <1>1, RankType
<1>4. ASSUME NEW h \in T, NEW n \in S, n < h PROVE n \in T
  <2>0. h \in S /\ Rank(S, h) < L BY <1>0
  <2>1. Rank(S, n) < Rank(S, h) BY <1>1, <1>4, <2>0, RankGrows
  <2>2. Rank(S, n) \in Nat /\ Rank(S, h) \in Nat BY <1>3, <2>0
  <2>3. Rank(S, n) < L BY <2>0, <2>1, <2>2
  <2> QED BY <1>0, <2>3
<1>5. ASSUME T # S PROVE ~(Len(Ascending(T)) < L)
  <2>1. PICK n \in S : ~(Rank(S, n) < L) BY <1>0, <1>5
  <2>2. L + 1 \in 1..Cardinality(S) BY <1>3, <2>1
  <2>3. PICK k \in S : Rank(S, k) = (L + 1) - 1 BY <1>1, <2>2, RankTaken
  <2> DEFINE B == {x \in S : x < k}
  <2>4. B \in SUBSET T
    <3> SUFFICES ASSUME NEW x \in S, x < k PROVE x \in T OBVIOUS
    <3>1. Rank(S, x) < Rank(S, k) BY <1>1, RankGrows
    <3>2. Rank(S, x) \in Nat /\ Rank(S, k) = L BY <1>3, <2>3
    <3>3. Rank(S, x) < L BY <3>1, <3>2
    <3> QED BY <1>0, <3>3
  <2>5. Cardinality(B) = L BY <2>3 DEF Rank
  <2>6. Cardinality(B) <= Cardinality(T) BY <1>1, <2>4, FS_Subset
  <2>7. Cardinality(T) \in Nat BY <1>1, FS_CardinalityType
  <2>8. Len(Ascending(T)) = Cardinality(T)
    <3>1. Ascending(T) \in [1..Cardinality(T) -> T] BY <1>1, AscendingLists
    <3> QED BY <2>7, <3>1
  <2> HIDE DEF B
  <2> QED BY <2>5, <2>6, <2>7, <2>8
<1> QED BY <1>2, <1>4, <1>5 DEF T

LEMMA ReplayAccounted ==
  ASSUME StreamInv, BrokerBounds, HoleInv, NEW c \in Client, Replay(c) PROVE HoleInv'
<1> DEFINE after == {n \in kept : n > cursor[c]}
           first == FirstOf(after, ReplayLimit)
<1>1. /\ sub[c].phase = "replaying"
      /\ sub' = [sub EXCEPT ![c].phase = "checking", ![c].todo = Ascending(first)]
      /\ UNCHANGED <<log, kept, fans, order, conn, cursor, told, holes, escaped>>
  BY DEF Replay, Replayed, FirstOf, storeVars, clientVars
<1>2. /\ Len(log) \in Nat /\ Rows = 1..Len(log) /\ Rows \in SUBSET Nat /\ sub[c].mark \in Nat
      /\ sub \in [Client -> SubType] /\ sub[c] \in SubType /\ kept \in SUBSET Rows
      /\ sub[c].mark = cursor[c] /\ Accounted(c) /\ ReplayLimit \in Nat
  BY <1>1, ClientFacts, BrokerAssumption DEF InLine, HoleInv, StreamInv, StreamType, Rows
<1>3. /\ sub'[c].phase = "checking" /\ sub'[c].todo = Ascending(first) /\ sub'[c].mark = sub[c].mark
      /\ sub'[c].buffer = sub[c].buffer /\ \A d \in Client \ {c} : sub'[d] = sub[d]
  BY <1>1, <1>2 DEF SubType
<1>4. /\ \A n : Among(Ascending(first), n) <=> n \in first
      /\ \A h \in first : \A n \in after : n < h => n \in first
      /\ Len(Ascending(first)) < ReplayLimit => first = after
  <2>1. after \in SUBSET (1..Len(log)) BY <1>2
  <2> HIDE DEF after
  <2> QED BY <1>2, <2>1, FirstOnes
<1>5. Ordered(Ascending(first), escaped'[c]) /\ Ascending(first) \in Seq(Nat)
  <2>1. StreamInv' BY ResumeMoves
  <2>2. /\ InLine(sub'[c], conn'[c].queue, cursor'[c]) /\ sub'[c] \in SubType
    BY <2>1 DEF StreamInv, StreamType
  <2>3. Above(Ascending(first), sub[c].mark) /\ Ascending(first) \in Seq(Nat)
    BY <1>3, <2>2 DEF InLine, SubType
  <2> QED BY <1>2, <2>3, AboveOrdered
<1> HIDE DEF first
<1>6. Open(c) /\ Open(c)' BY <1>1, <1>3 DEF Open
<1>7. /\ Behind(c)' /\ Announced(c)' /\ Excused(c)' /\ Rows' = Rows
      /\ \A n : Swept(n)' = Swept(n) /\ Aged(n)' = Aged(n)
  BY <1>1, <1>2, <1>3, <1>6, Steady
<1>8. ASSUME NEW n \in Rows, sub[c].mark < n PROVE Excusable(c, n)' \/ n \in after
  <2>1. CASE n \in kept BY <1>2, <1>8, <2>1
  <2>2. CASE n \notin kept
    <3>1. Swept(n) \/ Aged(n) BY <2>2 DEF Swept, Aged
    <3> QED BY <1>3, <1>7, <3>1 DEF Excusable, Known
  <2> QED BY <2>1, <2>2
<1> HIDE DEF after
<1>9. Attached(c)' BY <1>1, <1>2, <1>6 DEF Accounted, Attached
<1>10. Emptied(c)' BY <1>3 DEF Emptied
<1>11. Ahead(c)'
  <2> SUFFICES ASSUME NEW n \in Rows, Len(Ascending(first)) < ReplayLimit, sub[c].mark < n
               PROVE  Excusable(c, n)' \/ Among(Ascending(first), n)
    BY <1>3, <1>7 DEF Ahead, Read
  <2> QED BY <1>4, <1>8
<1>12. Contiguous(c)'
  <2> SUFFICES ASSUME NEW h \in Rows, NEW n \in Rows, Among(Ascending(first), h), sub[c].mark < n, n < h
               PROVE  Excusable(c, n)' \/ Among(Ascending(first), n)
    BY <1>3, <1>7 DEF Contiguous
  <2> QED BY <1>4, <1>8
<1>13. PutAside(c)' BY <1>1, <1>2, <1>3, <1>5, <1>7 DEF Accounted, PutAside, Coming
<1>14. Accounted(c)'
  BY <1>7, <1>9, <1>10, <1>11, <1>12, <1>13 DEF Accounted
<1>15. \A d \in Client \ {c} : Aside(d) BY <1>1, <1>3, OnlySubscribes
<1>16. LateStarted(fans') BY <1>1 DEF HoleInv
<1> QED BY <1>1, <1>14, <1>15, <1>16, OneAccounted

LEMMA CheckAccounted ==
  ASSUME StreamInv, BrokerBounds, HoleInv, NEW c \in Client, Check(c) PROVE HoleInv'
<1>1. /\ sub[c].phase = "checking" /\ sub' = [sub EXCEPT ![c].phase = "delivering"]
      /\ IF Expired(c) \/ Len(sub[c].todo) >= ReplayLimit THEN Told(c, Rows)
         ELSE UNCHANGED <<cursor, told, holes>>
      /\ escaped' = [escaped EXCEPT ![c] = IF kept = {} \/ cursor[c] = 0 THEN @ \cup (Rows \ kept) ELSE @]
      /\ UNCHANGED <<log, kept, fans, order, conn>>
  BY DEF Check, storeVars
<1>2. /\ Len(log) \in Nat /\ Rows = 1..Len(log) /\ Rows \in SUBSET Nat /\ sub[c].mark \in Nat
      /\ cursor[c] \in Nat /\ cursor[c] <= sub[c].mark /\ sub[c].todo \in Seq(Rows)
      /\ sub \in [Client -> SubType] /\ sub[c] \in SubType /\ kept \in SUBSET Rows
      /\ told \in [Client -> SUBSET Rows] /\ holes \in [Client -> SUBSET Rows]
      /\ escaped \in [Client -> SUBSET Rows] /\ Accounted(c) /\ ReplayLimit \in Nat
  BY <1>1, ClientFacts, BrokerAssumption DEF InLine, HoleInv, StreamInv, StreamType, Rows
<1>3. /\ sub'[c].phase = "delivering" /\ sub'[c].todo = sub[c].todo /\ sub'[c].mark = sub[c].mark
      /\ sub'[c].buffer = sub[c].buffer /\ \A d \in Client \ {c} : sub'[d] = sub[d]
  BY <1>1, <1>2 DEF SubType
<1>4. /\ escaped[c] \subseteq escaped'[c]
      /\ kept = {} \/ cursor[c] = 0 => Rows \ kept \subseteq escaped'[c]
      /\ \A d \in Client \ {c} : escaped'[d] = escaped[d]
  BY <1>1, <1>2
<1>5. /\ UNCHANGED cursor /\ told[c] \subseteq told'[c] /\ holes'[c] \subseteq holes[c]
      /\ Expired(c) \/ Len(sub[c].todo) >= ReplayLimit => \A n \in Rows : n > cursor[c] => n \in told'[c]
      /\ \A d \in Client \ {c} : told'[d] = told[d] /\ holes'[d] = holes[d]
  <2>1. CASE Told(c, Rows)
    <3>1. /\ told' = [told EXCEPT ![c] = @ \cup {n \in Rows : n > cursor[c]}]
          /\ holes' = [holes EXCEPT ![c] = @ \ Rows] /\ UNCHANGED cursor
      BY <2>1 DEF Told
    <3> QED BY <1>2, <3>1
  <2>2. CASE ~(Expired(c) \/ Len(sub[c].todo) >= ReplayLimit) BY <1>1, <2>2
  <2> QED BY <1>1, <2>1, <2>2
<1>6. /\ Rows' = Rows /\ Open(c) /\ Open(c)' /\ \A n : Swept(n)' = Swept(n)
  BY <1>1, <1>3 DEF Rows, Open, Swept, IsDelta
<1>7. \A n : Known(c, n) => Known(c, n)' BY <1>4, <1>5, <1>6 DEF Known
\* What retention took before the floor was read is known, for all that is to come.
<1>8. ASSUME NEW n \in Rows, sub[c].mark < n,
             Excusable(c, n) \/ Expired(c) \/ Len(sub[c].todo) >= ReplayLimit
      PROVE  Known(c, n)'
  <2>1. n > cursor[c] BY <1>2, <1>8
  <2>2. CASE Expired(c) \/ Len(sub[c].todo) >= ReplayLimit BY <1>5, <2>1, <2>2 DEF Known
  <2>3. CASE kept = {} BY <1>4, <2>3 DEF Known
  <2>4. CASE Known(c, n) BY <1>7, <2>4
  <2>5. CASE Aged(n) /\ cursor[c] = 0
    <3>1. n \in Rows \ kept BY <2>5 DEF Aged
    <3> QED BY <1>4, <1>6, <2>5, <3>1 DEF Known
  <2>6. CASE Aged(n) /\ kept # {} /\ cursor[c] # 0 /\ ~Expired(c)
    <3>1. First(kept) \in kept BY <1>2, <2>6, Spans
    <3>2. n < First(kept) BY <2>6, <3>1 DEF HoleInv, Floor
    <3>3. ~(First(kept) > cursor[c] + 1) BY <1>2, <2>6 DEF Expired
    <3>4. First(kept) \in Nat /\ n \in Nat BY <1>2, <3>1
    <3> HIDE DEF First
    <3> QED BY <1>2, <2>1, <3>2, <3>3, <3>4
  <2> QED BY <1>8, <2>2, <2>3, <2>4, <2>5, <2>6 DEF Excusable
<1>9. Attached(c)' BY <1>1, <1>2, <1>6 DEF Accounted, Attached
<1>10. Emptied(c)' BY <1>3 DEF Emptied
<1>11. Announced(c)' BY <1>1, <1>2 DEF Accounted, Announced, Stalled
<1>12. Behind(c)' BY <1>1, <1>2, <1>3, <1>5, <1>6, <1>7 DEF Accounted, Behind
<1>13. Ahead(c)'
  <2> SUFFICES ASSUME NEW n \in Rows, sub[c].mark < n
               PROVE  Known(c, n)' \/ Coming(c, n)' \/ Among(sub[c].todo, n) \/ Among(sub[c].buffer, n)
    BY <1>3, <1>6 DEF Ahead, Excusable
  <2>1. Coming(c, n)' <=> Coming(c, n) BY <1>1 DEF Coming
  <2>2. CASE Len(sub[c].todo) >= ReplayLimit BY <1>8, <2>2
  <2>3. CASE ~(Len(sub[c].todo) >= ReplayLimit)
    <3>1. Read(c) BY <1>1, <1>2, <1>6, <2>3 DEF Read
    <3> QED BY <1>2, <1>8, <2>1, <3>1 DEF Accounted, Ahead
  <2> QED BY <2>2, <2>3
<1>14. Contiguous(c)'
  <2> SUFFICES ASSUME NEW h \in Rows, NEW n \in Rows, Among(sub[c].todo, h), sub[c].mark < n, n < h
               PROVE  Known(c, n)' \/ Among(sub[c].todo, n)
    BY <1>3, <1>6 DEF Contiguous, Excusable
  <2> QED BY <1>2, <1>8 DEF Accounted, Contiguous
<1>15. PutAside(c)'
  <2>1. Ordered(sub[c].todo, escaped'[c]) /\ Ordered(sub[c].buffer, escaped'[c])
    BY <1>2, <1>4, OrderedGrows DEF Accounted, PutAside
  <2>2. \A n : Coming(c, n)' <=> Coming(c, n) BY <1>1 DEF Coming
  <2> QED BY <1>2, <1>3, <1>4, <1>6, <2>1, <2>2 DEF Accounted, PutAside
<1>16. Excused(c)' BY <1>1, <1>2, <1>4, <1>5 DEF Accounted, Excused, Missing, IsDelta
<1>17. Accounted(c)'
  BY <1>9, <1>10, <1>11, <1>12, <1>13, <1>14, <1>15, <1>16 DEF Accounted
<1>18. \A d \in Client \ {c} : Aside(d) BY <1>1, <1>3, <1>4, <1>5, OnlySubscribes
<1>19. LateStarted(fans') BY <1>1 DEF HoleInv
<1> QED BY <1>1, <1>17, <1>18, <1>19, OneAccounted

-----------------------------------------------------------------------------
(* What was put aside is flushed, and each row is handed over.                  *)

LEMMA FlushAccounted ==
  ASSUME StreamInv, BrokerBounds, HoleInv, NEW c \in Client, Flush(c) PROVE HoleInv'
<1> DEFINE all == sub[c].buffer
           S == {i \in DOMAIN all : all[i] > sub[c].mark}
           rows == At(all, S)
<1>1. /\ sub[c].phase = "delivering" /\ sub[c].todo = <<>>
      /\ sub' = [sub EXCEPT ![c].phase = IF rows = <<>> THEN "live" ELSE "flushing",
                            ![c].todo = rows, ![c].buffer = <<>>]
      /\ UNCHANGED <<log, kept, fans, order, conn, cursor, told, holes, escaped>>
  BY DEF Flush, storeVars, clientVars
<1>2. /\ Rows \in SUBSET Nat /\ sub[c].mark \in Nat /\ sub \in [Client -> SubType] /\ sub[c] \in SubType
      /\ all \in Seq(Rows) /\ Accounted(c)
  BY ClientFacts DEF HoleInv
<1>3. S \in SUBSET (DOMAIN all) OBVIOUS
<1>4. \A n \in Rows : sub[c].mark < n => (Among(rows, n) <=> Among(all, n))
  <2>1. \A n : Among(rows, n) <=> \E i \in S : all[i] = n BY <1>2, <1>3, AmongAt
  <2>2. \A n \in Rows : sub[c].mark < n => n > sub[c].mark BY <1>2
  <2> QED BY <2>1, <2>2 DEF Among
<1>5. \A n : Among(rows, n) => Among(all, n)
  <2>1. \A n : Among(rows, n) <=> \E i \in S : all[i] = n BY <1>2, <1>3, AmongAt
  <2> QED BY <2>1 DEF Among
<1>6. Ordered(rows, escaped[c])
  <2>1. Ordered(all, escaped[c]) BY <1>2 DEF Accounted, PutAside
  <2> QED BY <1>2, <1>3, <2>1, OrderedAt
<1> HIDE DEF rows, S
<1>7. /\ sub'[c].phase = (IF rows = <<>> THEN "live" ELSE "flushing") /\ sub'[c].todo = rows
      /\ sub'[c].mark = sub[c].mark /\ sub'[c].buffer = <<>>
      /\ \A d \in Client \ {c} : sub'[d] = sub[d]
  BY <1>1, <1>2 DEF SubType
<1>8. Open(c) /\ Open(c)' /\ Read(c) BY <1>1, <1>7 DEF Open, Read
<1>9. /\ Behind(c)' /\ Announced(c)' /\ Excused(c)' /\ Rows' = Rows
      /\ \A n : Known(c, n) => Known(c, n)'
  BY <1>1, <1>2, <1>7, <1>8, Steady
<1>10. \A n \in Rows : sub[c].mark < n => Known(c, n) \/ Coming(c, n) \/ Among(all, n)
  BY <1>1, <1>2, <1>8, NothingListed DEF Accounted, Ahead, Excusable
<1>11. \A h, n \in Rows : Among(all, h) /\ Coming(c, n) /\ n < h => Known(c, n)
  BY <1>2 DEF Accounted, PutAside, Known
<1> HIDE DEF all
<1>12. Attached(c)' BY <1>1, <1>2, <1>8 DEF Accounted, Attached
<1>13. Emptied(c)' BY <1>7, NothingListed DEF Emptied
<1>14. Ahead(c)'
  <2> SUFFICES ASSUME NEW n \in Rows, sub[c].mark < n
               PROVE  Known(c, n)' \/ Coming(c, n)' \/ Among(rows, n)
    BY <1>7, <1>9 DEF Ahead, Excusable
  <2>1. Coming(c, n)' <=> Coming(c, n) BY <1>1 DEF Coming
  <2> QED BY <1>4, <1>9, <1>10, <2>1
<1>15. Contiguous(c)'
  <2> SUFFICES ASSUME NEW h \in Rows, NEW n \in Rows, Among(rows, h), sub[c].mark < n, n < h
               PROVE  Known(c, n)' \/ Among(rows, n)
    BY <1>7, <1>9 DEF Contiguous, Excusable
  <2>1. Among(all, h) BY <1>5
  <2> QED BY <1>4, <1>9, <1>10, <1>11, <2>1
<1>16. PutAside(c)' BY <1>1, <1>6, <1>7, NothingListed DEF PutAside
<1>17. Accounted(c)'
  BY <1>9, <1>12, <1>13, <1>14, <1>15, <1>16 DEF Accounted
<1>18. \A d \in Client \ {c} : Aside(d) BY <1>1, <1>7, OnlySubscribes
<1>19. LateStarted(fans') BY <1>1 DEF HoleInv
<1> QED BY <1>1, <1>17, <1>18, <1>19, OneAccounted

LEMMA GoLiveAccounted ==
  ASSUME StreamInv, BrokerBounds, HoleInv, NEW c \in Client, GoLive(c) PROVE HoleInv'
<1>1. /\ sub[c].phase = "flushing" /\ sub[c].todo = <<>>
      /\ sub' = [sub EXCEPT ![c].phase = "live", ![c].buffer = <<>>]
      /\ UNCHANGED <<log, kept, fans, order, conn, cursor, told, holes, escaped>>
  BY DEF GoLive, storeVars, clientVars
<1>2. /\ sub \in [Client -> SubType] /\ sub[c] \in SubType /\ Accounted(c)
  BY ClientFacts DEF HoleInv
<1>3. /\ sub'[c].phase = "live" /\ sub'[c].todo = <<>> /\ sub'[c].mark = sub[c].mark
      /\ sub'[c].buffer = <<>> /\ \A d \in Client \ {c} : sub'[d] = sub[d]
  BY <1>1, <1>2 DEF SubType
<1>4. Open(c) /\ Open(c)' /\ Read(c) BY <1>1, <1>3 DEF Open, Read
<1>5. /\ Behind(c)' /\ Announced(c)' /\ Excused(c)' /\ Rows' = Rows
      /\ \A n : Known(c, n) => Known(c, n)'
  BY <1>1, <1>2, <1>3, <1>4, Steady
<1>6. Attached(c)' BY <1>1, <1>2, <1>4 DEF Accounted, Attached
<1>7. Emptied(c)' BY <1>3 DEF Emptied
<1>8. Ahead(c)'
  <2> SUFFICES ASSUME NEW n \in Rows, sub[c].mark < n PROVE Known(c, n)' \/ Coming(c, n)'
    BY <1>3, <1>5 DEF Ahead, Excusable
  <2>1. Coming(c, n)' <=> Coming(c, n) BY <1>1 DEF Coming
  <2>2. Known(c, n) \/ Coming(c, n) \/ Among(sub[c].buffer, n)
    BY <1>1, <1>2, <1>4, NothingListed DEF Accounted, Ahead, Excusable
  <2>3. Among(sub[c].buffer, n) => Known(c, n) BY <1>1, <1>2 DEF Accounted, Emptied, Known
  <2> QED BY <1>5, <2>1, <2>2, <2>3
<1>9. Contiguous(c)' /\ PutAside(c)' BY <1>3, NothingListed DEF Contiguous, PutAside
<1>10. Accounted(c)' BY <1>5, <1>6, <1>7, <1>8, <1>9 DEF Accounted
<1>11. \A d \in Client \ {c} : Aside(d) BY <1>1, <1>3, OnlySubscribes
<1>12. LateStarted(fans') BY <1>1 DEF HoleInv
<1> QED BY <1>1, <1>10, <1>11, <1>12, OneAccounted

LEMMA HandAccounted ==
  ASSUME StreamInv, BrokerBounds, HoleInv, NEW c \in Client, Hand(c) PROVE HoleInv'
<1> DEFINE n == Head(sub[c].todo)
           t == Tail(sub[c].todo)
<1>1. /\ sub[c].phase \in {"delivering", "flushing"} /\ sub[c].todo # <<>>
      /\ \/ /\ sub[c].phase = "flushing" /\ n <= sub[c].mark
            /\ sub' = [sub EXCEPT ![c].todo = Tail(@)] /\ UNCHANGED <<fans, order, conn, cursor, told, holes>>
         \/ /\ (sub[c].phase = "flushing" => n > sub[c].mark)
            /\ sub' = [sub EXCEPT ![c].todo = Tail(@), ![c].mark = Raised(c, n), ![c].waits = Queues(c, n)]
            /\ Deliver(c, n) /\ UNCHANGED <<fans, order>>
         \/ Left(c, fans) /\ UNCHANGED <<cursor, told, holes>>
      /\ UNCHANGED <<log, kept, escaped>>
  BY DEF Hand, storeVars
<1>2. /\ Rows \in SUBSET Nat /\ sub[c].mark \in Nat /\ sub \in [Client -> SubType] /\ sub[c] \in SubType
      /\ sub[c].todo \in Seq(Rows) /\ sub[c].todo \in Seq(Nat) /\ Accounted(c)
      /\ InLine(sub[c], conn[c].queue, cursor[c])
  BY ClientFacts DEF HoleInv
<1>3. /\ n \in Rows /\ n \in Nat /\ t \in Seq(Nat) /\ Among(sub[c].todo, n)
      /\ \A m : Among(sub[c].todo, m) <=> m = n \/ Among(t, m)
  BY <1>1, <1>2, HeadAndRest, AmongTail
<1>4. Ordered(t, escaped[c]) /\ \A m : Among(t, m) /\ m < n => m \in escaped[c]
  <2>1. Ordered(sub[c].todo, escaped[c]) BY <1>2 DEF Accounted, PutAside
  <2> QED BY <1>1, <1>2, <2>1, OrderedTail
<1>5. sub[c].phase = "delivering" => sub[c].mark < n
  <2> SUFFICES ASSUME sub[c].phase = "delivering" PROVE sub[c].mark < n OBVIOUS
  <2>1. Above(sub[c].todo, sub[c].mark) BY <1>2 DEF InLine
  <2> QED BY <1>1, <1>2, <2>1, TailAbove
<1> HIDE DEF n, t
<1>6. Open(c) /\ sub[c].phase # "checking" BY <1>1 DEF Open
<1>7. LateStarted(fans) BY DEF HoleInv
<1>8. CASE /\ sub[c].phase = "flushing" /\ n <= sub[c].mark
           /\ sub' = [sub EXCEPT ![c].todo = Tail(@)] /\ UNCHANGED <<fans, order, conn, cursor, told, holes>>
  <2>1. /\ sub'[c].phase = sub[c].phase /\ sub'[c].todo = t /\ sub'[c].mark = sub[c].mark
        /\ sub'[c].buffer = sub[c].buffer /\ \A d \in Client \ {c} : sub'[d] = sub[d]
    BY <1>2, <1>8 DEF SubType, t
  <2>2. Open(c)' /\ Read(c) BY <1>6, <1>8, <2>1 DEF Open, Read
  <2>3. /\ Behind(c)' /\ Announced(c)' /\ Excused(c)' /\ Rows' = Rows
        /\ \A m : Known(c, m) => Known(c, m)'
    BY <1>1, <1>2, <1>6, <1>8, <2>1, Steady
  <2>4. \A m \in Rows : sub[c].mark < m => m # n BY <1>2, <1>3, <1>8
  <2>5. \A m : Coming(c, m)' <=> Coming(c, m) BY <1>8 DEF Coming
  <2>6. Attached(c)' BY <1>2, <1>6, <1>8, <2>2 DEF Accounted, Attached
  <2>7. Emptied(c)' BY <1>1, <1>2, <1>8, <2>1, <2>3 DEF Accounted, Emptied
  <2>8. Ahead(c)'
    <3> SUFFICES ASSUME NEW m \in Rows, sub[c].mark < m
                 PROVE  Known(c, m)' \/ Coming(c, m)' \/ Among(t, m) \/ Among(sub[c].buffer, m)
      BY <2>1, <2>3 DEF Ahead, Excusable
    <3> QED BY <1>2, <1>3, <1>6, <2>2, <2>3, <2>4, <2>5 DEF Accounted, Ahead, Excusable
  <2>9. Contiguous(c)'
    <3> SUFFICES ASSUME NEW h \in Rows, NEW m \in Rows, Among(t, h), sub[c].mark < m, m < h
                 PROVE  Known(c, m)' \/ Among(t, m)
      BY <2>1, <2>3 DEF Contiguous, Excusable
    <3> QED BY <1>2, <1>3, <1>6, <2>3, <2>4 DEF Accounted, Contiguous, Excusable
  <2>10. PutAside(c)' BY <1>1, <1>2, <1>4, <2>1, <2>3, <2>5 DEF Accounted, PutAside
  <2>11. Accounted(c)' BY <2>3, <2>6, <2>7, <2>8, <2>9, <2>10 DEF Accounted
  <2>12. \A d \in Client \ {c} : Aside(d) BY <1>1, <1>8, <2>1, OnlySubscribes
  <2> QED BY <1>1, <1>7, <1>8, <2>11, <2>12, OneAccounted
<1>9. CASE /\ (sub[c].phase = "flushing" => n > sub[c].mark)
           /\ sub' = [sub EXCEPT ![c].todo = Tail(@), ![c].mark = Raised(c, n), ![c].waits = Queues(c, n)]
           /\ Deliver(c, n) /\ UNCHANGED <<fans, order>>
  <2>1. sub[c].mark < n BY <1>1, <1>2, <1>3, <1>5, <1>9
  <2>2. Raised(c, n) = n BY <1>2, <1>3, <2>1, RaisedIs
  <2>3. sub' = [sub EXCEPT ![c].todo = t, ![c].mark = n, ![c].waits = Queues(c, n)]
    BY <1>2, <1>9, <2>2 DEF t
  <2>4. \A m \in Rows : sub[c].mark < m /\ m < n => m \in told[c] \/ m \in escaped'[c] \/ Swept(m)
    <3> SUFFICES ASSUME NEW m \in Rows, sub[c].mark < m, m < n
                 PROVE  m \in told[c] \/ m \in escaped[c] \/ Swept(m)
      BY <1>1
    <3>1. Known(c, m) \/ Among(sub[c].todo, m) BY <1>2, <1>3, <1>6 DEF Accounted, Contiguous, Excusable
    <3>2. m # n BY <1>2, <1>3
    <3> QED BY <1>3, <1>4, <3>1, <3>2 DEF Known
  <2>5. \A d, m : Coming(d, m)' <=> Coming(d, m) BY <1>9 DEF Coming
  <2>6. /\ sub[c].phase \in {"delivering", "flushing", "live"} /\ sub[c].phase # "live"
        /\ UNCHANGED <<log, kept, order>> /\ LateStarted(fans') /\ Ordered(t, escaped'[c])
        /\ escaped[c] \subseteq escaped'[c] /\ \A d \in Client \ {c} : escaped'[d] = escaped[d]
    BY <1>1, <1>4, <1>7, <1>9
  <2>7. (\A m : Among(t, m) => Among(sub[c].todo, m)) /\ \A m : Among(sub[c].todo, m) /\ m # n => Among(t, m)
    BY <1>3
  <2> QED BY <1>3, <1>9, <2>1, <2>3, <2>4, <2>5, <2>6, <2>7, TakenAccounted
<1>10. CASE Left(c, fans) /\ UNCHANGED <<cursor, told, holes>>
  <2>1. fans \in SUBSET FanType BY DEF StreamInv, StreamType
  <2>2. \A d \in Client \ {c} : \A m : ComingIn(fans, order, d, m) <=> Coming(d, m) BY DEF Coming
  <2> QED BY <1>1, <1>7, <1>10, <2>1, <2>2, ShedAccounted
<1> QED BY <1>1, <1>8, <1>9, <1>10

-----------------------------------------------------------------------------
(* A broadcast reaches a subscription.                                          *)

LEMMA ReachedAccounted ==
  ASSUME StreamInv, BrokerBounds, HoleInv, NEW f \in fans, NEW c \in Client, NEW n \in Rows,
         c = Head(Targets(f)), n = f.seq, FanOut(f)
  PROVE  HoleInv'
<1> DEFINE Lost == IF sub[c].phase = "flushing" THEN {n} ELSE {}
           over == Overtaken(f, c)
<1>1. /\ Targets(f) # <<>> /\ InTurn(f, c) /\ escaped' = [escaped EXCEPT ![c] = @ \cup Lost \cup over]
      /\ \/ /\ sub[c].phase # "live" /\ sub' = [sub EXCEPT ![c].buffer = Append(@, n)]
            /\ fans' = Moved(f, None) /\ UNCHANGED <<order, conn, cursor, told, holes>>
         \/ /\ sub[c].phase = "live" /\ n <= sub[c].mark
            /\ fans' = Moved(f, None) /\ UNCHANGED <<order, sub, conn, cursor, told, holes>>
         \/ /\ sub[c].phase = "live" /\ n > sub[c].mark
            /\ sub' = [sub EXCEPT ![c].mark = n] /\ Deliver(c, n)
            /\ fans' = Moved(f, IF Queues(c, n) THEN c ELSE None) /\ UNCHANGED order
         \/ Left(c, Moved(f, None)) /\ UNCHANGED <<cursor, told, holes>>
      /\ UNCHANGED <<log, kept>>
  BY DEF FanOut, storeVars
<1>2. /\ c \in Client /\ n \in Rows /\ Moved(f, None) \in SUBSET FanType /\ Among(Targets(f), c)
      /\ Targets(f) \in Seq(Client)
  <2>1. StreamType /\ None \in Client \cup {None} /\ f.seq \in Rows BY DEF StreamInv, BrokerBounds
  <2>2. Moved(f, None) \in SUBSET FanType BY <1>1, <2>1, MovedType
  <2>3. Targets(f) \in Seq(Client) BY <2>1 DEF StreamType, FanType, Targets
  <2>4. Among(Targets(f), c) BY <1>1, <2>3, AmongTail
  <2> QED BY <2>1, <2>2, <2>3, <2>4
<1>3. \A held : /\ \A d, m : ComingIn(Moved(f, held), order, d, m) => Coming(d, m)
                /\ \A d, m : Coming(d, m) /\ (d # c \/ m # n) => ComingIn(Moved(f, held), order, d, m)
                /\ LateStarted(Moved(f, held))
  BY <1>1, MovedComing DEF StreamInv, HoleInv, Coming
<1>4. Coming(c, n) BY <1>2 DEF Coming, ComingIn, Targets
<1>5. \A m : Coming(c, m) /\ m < n => m \in over BY <1>1, LateOnes DEF HoleInv
<1> HIDE DEF over
<1>6. /\ Rows \in SUBSET Nat /\ sub[c].mark \in Nat /\ sub \in [Client -> SubType] /\ sub[c] \in SubType
      /\ sub[c].buffer \in Seq(Rows) /\ sub[c].buffer \in Seq(Nat) /\ sub[c].todo \in Seq(Nat)
      /\ escaped \in [Client -> SUBSET Rows] /\ Accounted(c)
  BY <1>2, ClientFacts DEF HoleInv
<1>7. /\ escaped[c] \subseteq escaped'[c] /\ over \subseteq escaped'[c]
      /\ sub[c].phase = "flushing" => n \in escaped'[c]
      /\ \A d \in Client \ {c} : escaped'[d] = escaped[d]
  BY <1>1, <1>2, <1>6
<1>8. Open(c) BY <1>2, <1>4, <1>6 DEF Accounted, Attached
<1>9. CASE /\ sub[c].phase # "live" /\ sub' = [sub EXCEPT ![c].buffer = Append(@, n)]
           /\ fans' = Moved(f, None) /\ UNCHANGED <<order, conn, cursor, told, holes>>
  <2>1. /\ sub'[c].phase = sub[c].phase /\ sub'[c].todo = sub[c].todo /\ sub'[c].mark = sub[c].mark
        /\ sub'[c].buffer = Append(sub[c].buffer, n) /\ \A d \in Client \ {c} : sub'[d] = sub[d]
    BY <1>2, <1>6, <1>9 DEF SubType
  <2>2. Open(c)' /\ (Read(c)' <=> Read(c)) BY <1>8, <2>1 DEF Open, Read
  <2>3. /\ Behind(c)' /\ Announced(c)' /\ Excused(c)' /\ Rows' = Rows
        /\ \A m : Swept(m)' = Swept(m) /\ Aged(m)' = Aged(m)
        /\ \A m : Known(c, m) => Known(c, m)'
    BY <1>1, <1>2, <1>6, <1>7, <1>8, <1>9, <2>1, Steady
  <2>4. \A m : Excusable(c, m) => Excusable(c, m)' BY <2>1, <2>3 DEF Excusable
  <2>5. \A m : Among(sub'[c].buffer, m) <=> Among(sub[c].buffer, m) \/ m = n
    BY <1>2, <1>6, <2>1, AmongAppend
  <2>6. /\ \A d, m : Coming(d, m)' => Coming(d, m)
        /\ \A d, m : Coming(d, m) /\ (d # c \/ m # n) => Coming(d, m)'
        /\ LateStarted(fans')
    BY <1>3, <1>9 DEF Coming
  <2>7. Attached(c)' BY <1>6, <1>8, <1>9, <2>2 DEF Accounted, Attached
  <2>8. Emptied(c)' BY <1>6, <1>7, <1>9, <2>1, <2>3, <2>5 DEF Accounted, Emptied
  <2>9. Ahead(c)'
    <3> SUFFICES ASSUME NEW m \in Rows, Read(c), sub[c].mark < m
                 PROVE  \/ Excusable(c, m)' \/ Coming(c, m)' \/ Among(sub[c].todo, m)
                        \/ Among(sub'[c].buffer, m)
      BY <2>1, <2>2, <2>3 DEF Ahead
    <3> QED BY <1>6, <2>4, <2>5, <2>6 DEF Accounted, Ahead
  <2>10. Contiguous(c)' BY <1>6, <2>1, <2>3, <2>4 DEF Accounted, Contiguous
  <2>11. PutAside(c)'
    <3>1. /\ Ordered(sub[c].todo, escaped[c]) /\ Ordered(sub[c].buffer, escaped[c])
          /\ \A h, m \in Rows : Among(sub[c].buffer, h) /\ Coming(c, m) /\ m < h => m \in escaped[c]
      BY <1>6 DEF Accounted, PutAside
    <3>2. Ordered(sub'[c].todo, escaped'[c]) BY <1>7, <2>1, <3>1, OrderedGrows
    <3>3. \A i \in DOMAIN sub[c].buffer : n < sub[c].buffer[i] => n \in escaped'[c]
      <4> SUFFICES ASSUME NEW i \in DOMAIN sub[c].buffer, n < sub[c].buffer[i] PROVE n \in escaped'[c]
        OBVIOUS
      <4>1. sub[c].buffer[i] \in Rows /\ Among(sub[c].buffer, sub[c].buffer[i]) BY <1>6 DEF Among
      <4> QED BY <1>2, <1>4, <1>7, <3>1, <4>1
    <3>4. Ordered(Append(sub[c].buffer, n), escaped'[c])
      <4>1. n \in Nat /\ sub[c].buffer \in Seq(Nat) /\ escaped[c] \subseteq escaped'[c] BY <1>6, <1>7
      <4>2. Ordered(sub[c].buffer, escaped[c]) BY <3>1
      <4> QED BY <3>3, <4>1, <4>2, OrderedAppend
    <3>5. \A h, m \in Rows : Among(sub'[c].buffer, h) /\ Coming(c, m)' /\ m < h => m \in escaped'[c]
      BY <1>5, <1>7, <2>5, <2>6, <3>1
    <3> QED BY <2>1, <2>3, <3>2, <3>4, <3>5 DEF PutAside
  <2>12. Accounted(c)' BY <2>3, <2>7, <2>8, <2>9, <2>10, <2>11 DEF Accounted
  <2>13. \A d \in Client \ {c} : Aside(d) BY <1>7, <1>9, <2>1, <2>6 DEF Aside
  <2> QED BY <1>1, <1>2, <2>6, <2>12, <2>13, OneAccounted
<1>10. CASE /\ sub[c].phase = "live" /\ n <= sub[c].mark
            /\ fans' = Moved(f, None) /\ UNCHANGED <<order, sub, conn, cursor, told, holes>>
  <2>1. Open(c)' /\ Read(c) /\ Read(c)' BY <1>8, <1>10 DEF Open, Read
  <2>2. /\ Behind(c)' /\ Announced(c)' /\ Excused(c)' /\ Rows' = Rows
        /\ \A m : Swept(m)' = Swept(m) /\ Aged(m)' = Aged(m)
        /\ \A m : Known(c, m) => Known(c, m)'
    BY <1>1, <1>2, <1>6, <1>7, <1>8, <1>10, Steady
  <2>3. sub[c].todo = <<>> /\ sub[c].buffer = <<>> BY <1>6, <1>10 DEF Accounted, Emptied
  <2>4. /\ \A d, m : Coming(d, m)' => Coming(d, m)
        /\ \A d, m : Coming(d, m) /\ (d # c \/ m # n) => Coming(d, m)'
        /\ LateStarted(fans')
    BY <1>3, <1>10 DEF Coming
  <2>5. \A m \in Rows : sub[c].mark < m => m # n BY <1>2, <1>6, <1>10
  <2>6. Attached(c)' BY <1>6, <1>8, <1>10, <2>1 DEF Accounted, Attached
  <2>7. Emptied(c)' BY <1>10, <2>3 DEF Emptied
  <2>8. Ahead(c)'
    <3> SUFFICES ASSUME NEW m \in Rows, sub[c].mark < m PROVE Known(c, m)' \/ Coming(c, m)'
      BY <1>10, <2>2 DEF Ahead, Excusable
    <3>1. Known(c, m) \/ Coming(c, m)
      BY <1>6, <1>10, <2>1, <2>3, NothingListed DEF Accounted, Ahead, Excusable
    <3> QED BY <2>2, <2>4, <2>5, <3>1
  <2>9. Contiguous(c)' /\ PutAside(c)' BY <1>10, <2>3, NothingListed DEF Contiguous, PutAside
  <2>10. Accounted(c)' BY <2>2, <2>6, <2>7, <2>8, <2>9 DEF Accounted
  <2>11. \A d \in Client \ {c} : Aside(d) BY <1>7, <1>10, <2>4 DEF Aside
  <2> QED BY <1>1, <1>2, <2>4, <2>10, <2>11, OneAccounted
<1>11. CASE /\ sub[c].phase = "live" /\ n > sub[c].mark
            /\ sub' = [sub EXCEPT ![c].mark = n] /\ Deliver(c, n)
            /\ fans' = Moved(f, IF Queues(c, n) THEN c ELSE None) /\ UNCHANGED order
  <2>1. sub[c].mark < n /\ sub[c].todo = <<>> /\ sub[c].buffer = <<>> /\ Read(c)
    BY <1>2, <1>6, <1>8, <1>11 DEF Accounted, Emptied, Read
  <2>2. sub' = [sub EXCEPT ![c].todo = sub[c].todo, ![c].mark = n, ![c].waits = sub[c].waits]
    BY <1>2, <1>6, <1>11 DEF SubType
  <2>3. /\ \A d, m : Coming(d, m)' => Coming(d, m)
        /\ \A d, m : Coming(d, m) /\ (d # c \/ m # n) => Coming(d, m)'
        /\ LateStarted(fans')
    BY <1>3, <1>11 DEF Coming
  <2>4. \A m \in Rows : sub[c].mark < m /\ m < n => m \in told[c] \/ m \in escaped'[c] \/ Swept(m)
    <3> SUFFICES ASSUME NEW m \in Rows, sub[c].mark < m, m < n
                 PROVE  m \in told[c] \/ m \in escaped'[c] \/ Swept(m)
      OBVIOUS
    <3>1. Known(c, m) \/ Coming(c, m)
      BY <1>6, <1>11, <2>1, NothingListed DEF Accounted, Ahead, Excusable
    <3> QED BY <1>5, <1>7, <3>1 DEF Known
  <2>5. Ordered(sub[c].todo, escaped'[c]) /\ sub[c].phase \in {"delivering", "flushing", "live"}
    BY <1>11, <2>1, NothingListed
  <2>6. /\ UNCHANGED <<log, kept, order>>
        /\ \A m : Among(sub[c].todo, m) /\ m # n => Among(sub[c].todo, m)
    BY <1>1, <1>11
  <2> QED BY <1>2, <1>6, <1>7, <1>11, <2>1, <2>2, <2>3, <2>4, <2>5, <2>6, TakenAccounted
<1>12. CASE Left(c, Moved(f, None)) /\ UNCHANGED <<cursor, told, holes>>
  <2>1. \A d \in Client \ {c} : \A m : ComingIn(Moved(f, None), order, d, m) <=> Coming(d, m)
    BY <1>3
  <2> QED BY <1>1, <1>2, <1>3, <1>7, <1>12, <2>1, ShedAccounted
<1> QED BY <1>1, <1>9, <1>10, <1>11, <1>12

LEMMA FanOutAccounted ==
  ASSUME StreamInv, BrokerBounds, HoleInv, NEW f \in fans, FanOut(f) PROVE HoleInv'
<1>1. StreamType /\ Targets(f) # <<>> /\ f.seq \in Rows /\ None \in Client \cup {None}
  BY DEF StreamInv, BrokerBounds, FanOut
<1>2. Head(Targets(f)) \in Client BY <1>1, MovedType
<1>3. PICK c \in Client : c = Head(Targets(f)) BY <1>2
<1> QED BY <1>1, <1>3, ReachedAccounted

LEMMA AllAside ==
  ASSUME HoleInv, UNCHANGED <<log, kept>>, LateStarted(fans'), \A d \in Client : Aside(d) PROVE HoleInv'
<1>1. Floor' BY DEF HoleInv, Floor, Aged, Rows, IsDelta
<1>2. \A d \in Client : Accounted(d)' BY Bystander DEF HoleInv
<1> QED BY <1>1, <1>2 DEF HoleInv

LEMMA FanOutToNoneAccounted ==
  ASSUME HoleInv, NEW f \in fans, FanOutToNone(f) PROVE HoleInv'
<1>1. /\ Targets(f) = <<>> /\ fans' = fans \ {f}
      /\ UNCHANGED <<log, kept, order, sub, conn, cursor, told, holes, escaped>>
  BY DEF FanOutToNone, storeVars, subVars, clientVars
<1>2. \A d, n : Coming(d, n)' <=> Coming(d, n) BY <1>1, NothingListed DEF Coming, ComingIn, Targets
<1>3. LateStarted(fans') BY <1>1 DEF HoleInv, LateStarted
<1>4. \A d \in Client : Aside(d) BY <1>1, <1>2 DEF Aside
<1> QED BY <1>1, <1>3, <1>4, AllAside

-----------------------------------------------------------------------------
(* The writer, retention and a crash.                                           *)

\* A row that is committed is on its way to every subscription.
LEMMA CommitAccounted ==
  ASSUME StreamInv, BrokerBounds, OutboxType, HoleInv, Commit PROVE HoleInv'
<1>0. Len(log) \in Nat BY RowNumbers DEF StreamInv
<1> PICK new \in Nat : new = Len(log) + 1 BY <1>0
<1> DEFINE b == [seq |-> new, started |-> FALSE, todo |-> <<>>, held |-> None, late |-> FALSE]
<1>1. /\ log' = Append(log, Head(pending)) /\ kept' = kept \cup {new} /\ fans' = fans \cup {b}
      /\ UNCHANGED <<order, sub, conn, cursor, told, holes, escaped>> /\ pending # <<>>
  BY DEF Commit, subVars, clientVars
<1>2. /\ StreamType /\ Len(log) \in Nat /\ Rows = 1..Len(log) /\ Rows \in SUBSET Nat /\ kept \in SUBSET Rows
      /\ new \notin Rows /\ 0 < new /\ \A n \in Rows : n < new
  BY RowNumbers DEF StreamInv, StreamType, Rows
<1>3. /\ Rows' = Rows \cup {new} /\ \A n \in Rows : log'[n] = log[n]
  <2>1. pending \in Seq(SUBSET Event) BY DEF OutboxType
  <2>2. Head(pending) \in SUBSET Event BY <1>1, <2>1, HeadAndRest
  <2>3. Len(log') = new /\ \A n \in Rows : log'[n] = log[n] BY <1>1, <1>2, <2>2 DEF StreamType
  <2>4. Rows' = 1..new BY <2>3 DEF Rows
  <2> QED BY <1>2, <2>3, <2>4
<1>4. b.seq = new /\ b.started = FALSE /\ b.late = FALSE OBVIOUS
<1> HIDE DEF b
<1>5. \A n \in Rows : Swept(n)' = Swept(n) /\ Aged(n)' = Aged(n)
  BY <1>1, <1>2, <1>3 DEF Swept, Aged, IsDelta
<1>6. ~Swept(new)' /\ ~Aged(new)' BY <1>1 DEF Swept, Aged
<1>7. Floor'
  <2> SUFFICES ASSUME NEW n \in Rows, Aged(n), NEW m \in kept \cup {new} PROVE n < m
    BY <1>1, <1>3, <1>5, <1>6 DEF Floor
  <2> QED BY <1>2 DEF HoleInv, Floor
<1>8. \A c, n : Coming(c, n)' <=> Coming(c, n) \/ (n = new /\ Among(order, c))
  BY <1>1, <1>4 DEF Coming, ComingIn
<1>9. LateStarted(fans') BY <1>1, <1>4 DEF HoleInv, LateStarted
<1>10. ASSUME NEW c \in Client PROVE Accounted(c)'
  <2>1. /\ Accounted(c) /\ holes[c] \in SUBSET Rows
        /\ sub[c].buffer \in Seq(Rows) /\ sub[c].todo \in Seq(Rows)
    BY ClientFacts DEF HoleInv
  <2>2. /\ (Open(c)' <=> Open(c)) /\ (Read(c)' <=> Read(c)) BY <1>1 DEF Open, Read
  <2>3. \A n \in Rows : (Known(c, n)' <=> Known(c, n)) /\ (Excusable(c, n)' <=> Excusable(c, n))
    BY <1>1, <1>5 DEF Known, Excusable
  <2>4. \A n : Among(sub[c].buffer, n) \/ Among(sub[c].todo, n) => n \in Rows BY <2>1 DEF Among
  <2>5. Open(c) => Coming(c, new)' BY <1>8, <2>1 DEF Accounted, Attached
  <2>6. Attached(c)'
    <3> SUFFICES ASSUME ~Open(c) PROVE \A n \in Rows' : ~Coming(c, n)'
      BY <1>1, <2>1, <2>2 DEF Accounted, Attached
    <3>1. ~Among(order, c) /\ \A n \in Rows : ~Coming(c, n) BY <2>1 DEF Accounted, Attached
    <3>2. ~Coming(c, new)
      <4>1. \A f \in fans : f.seq \in Rows BY DEF BrokerBounds
      <4> QED BY <1>2, <4>1 DEF Coming, ComingIn
    <3> QED BY <1>3, <1>8, <3>1, <3>2
  <2>7. Emptied(c)' BY <1>1, <1>3, <2>1, <2>4 DEF Accounted, Emptied
  <2>8. Announced(c)' BY <1>1, <2>1 DEF Accounted, Announced, Stalled
  <2>9. Behind(c)'
    <3>1. PlacedIn(Rows, sub[c], conn[c], cursor[c]) /\ sub[c].mark \in Nat
      BY ClientFacts DEF BrokerBounds
    <3>2. ~(new <= sub[c].mark)
      <4>1. sub[c].mark \in Rows \cup {0} BY <3>1 DEF PlacedIn
      <4>2. sub[c].mark < new BY <1>2, <4>1
      <4> QED BY <1>2, <3>1, <4>2
    <3> QED BY <1>1, <1>3, <2>1, <2>2, <2>3, <3>2 DEF Accounted, Behind
  <2>10. Ahead(c)'
    <3> SUFFICES ASSUME NEW n \in Rows', Read(c), sub[c].mark < n
                 PROVE  \/ Excusable(c, n)' \/ Coming(c, n)'
                        \/ Among(sub[c].todo, n) \/ Among(sub[c].buffer, n)
      BY <1>1, <2>2 DEF Ahead
    <3>1. CASE n = new BY <2>5, <3>1 DEF Read
    <3>2. CASE n \in Rows BY <1>8, <2>1, <2>3, <3>2 DEF Accounted, Ahead
    <3> QED BY <1>3, <3>1, <3>2
  <2>11. Contiguous(c)'
    <3> SUFFICES ASSUME NEW h \in Rows, NEW n \in Rows', Among(sub[c].todo, h), sub[c].mark < n, n < h
                 PROVE  Excusable(c, n)' \/ Among(sub[c].todo, n)
      BY <1>1, <2>4 DEF Contiguous
    <3>1. n # new
      <4>1. h < new /\ h \in Nat BY <1>2
      <4> QED BY <1>2, <4>1
    <3> QED BY <1>3, <2>1, <2>3, <3>1 DEF Accounted, Contiguous
  <2>12. PutAside(c)'
    <3> SUFFICES ASSUME NEW h \in Rows, NEW n \in Rows', Among(sub[c].buffer, h), Coming(c, n)', n < h
                 PROVE  n \in escaped[c]
      BY <1>1, <2>1, <2>4 DEF Accounted, PutAside
    <3>1. n # new
      <4>1. h < new /\ h \in Nat BY <1>2
      <4> QED BY <1>2, <4>1
    <3> QED BY <1>3, <1>8, <2>1, <3>1 DEF Accounted, PutAside
  <2>13. Excused(c)'
    <3> SUFFICES ASSUME NEW n \in Missing(c)' PROVE n \in escaped[c] BY <1>1 DEF Excused
    <3>1. n \in holes[c] /\ (n \in kept' \/ ~IsDelta(log[n])') BY <1>1 DEF Missing
    <3>2. n \in Rows /\ n # new BY <1>2, <2>1, <3>1
    <3>3. n \in kept \/ ~IsDelta(log[n]) BY <1>1, <1>3, <3>1, <3>2 DEF IsDelta
    <3> QED BY <2>1, <3>1, <3>3 DEF Accounted, Excused, Missing
  <2> QED BY <2>6, <2>7, <2>8, <2>9, <2>10, <2>11, <2>12, <2>13 DEF Accounted
<1> QED BY <1>7, <1>9, <1>10 DEF HoleInv

\* Retention takes the oldest rows, and of the deltas as many again.
LEMMA SweepAccounted == ASSUME StreamInv, BrokerBounds, HoleInv, Sweep PROVE HoleInv'
<1>1. PICK low \in kept : \/ kept' = {m \in kept : m > low}
                          \/ kept' = {m \in kept : m > low \/ ~IsDelta(log[m])}
  BY DEF Sweep
<1>2. UNCHANGED <<log, fans, order, sub, conn, cursor, told, holes, escaped>>
  BY DEF Sweep, subVars, clientVars
<1>3. /\ Rows \in SUBSET Nat /\ kept \in SUBSET Rows /\ Rows' = Rows
  BY <1>2, RowNumbers DEF StreamInv, StreamType, Rows
<1>4. kept' \in SUBSET kept BY <1>1
<1>5. \A n : (Swept(n) => Swept(n)') /\ (Aged(n) => Aged(n)') BY <1>2, <1>4 DEF Swept, Aged, IsDelta
<1>6. Floor'
  <2> SUFFICES ASSUME NEW n \in Rows, Aged(n)', NEW m \in kept' PROVE n < m BY <1>3 DEF Floor
  <2>1. m \in kept /\ n \in Nat /\ m \in Nat /\ low \in Nat BY <1>3, <1>4
  <2>2. CASE n \notin kept
    <3>1. Aged(n) BY <1>2, <2>2 DEF Aged, IsDelta
    <3> QED BY <2>1, <3>1 DEF HoleInv, Floor
  <2>3. CASE n \in kept
    <3>1. n \notin kept' /\ ~IsDelta(log[n]) BY <1>2 DEF Aged, IsDelta
    <3>2. kept' = {k \in kept : k > low} BY <1>1, <2>3, <3>1
    <3> QED BY <2>1, <2>3, <3>1, <3>2
  <2> QED BY <2>2, <2>3
<1>7. ASSUME NEW c \in Client PROVE Accounted(c)'
  <2>1. Accounted(c) BY DEF HoleInv
  <2>2. (Open(c)' <=> Open(c)) /\ (Read(c)' <=> Read(c)) BY <1>2 DEF Open, Read
  <2>3. \A n : (Known(c, n) => Known(c, n)') /\ (Excusable(c, n) => Excusable(c, n)')
    BY <1>2, <1>5 DEF Known, Excusable
  <2>4. \A n : Coming(c, n)' <=> Coming(c, n) BY <1>2 DEF Coming
  <2>5. Attached(c)' BY <1>2, <1>3, <2>1, <2>2, <2>4 DEF Accounted, Attached
  <2>6. Emptied(c)' BY <1>2, <1>3, <2>1 DEF Accounted, Emptied
  <2>7. Announced(c)' BY <1>2, <2>1 DEF Accounted, Announced, Stalled
  <2>8. Behind(c)' BY <1>2, <1>3, <2>1, <2>2, <2>3 DEF Accounted, Behind
  <2>9. Ahead(c)' BY <1>2, <1>3, <2>1, <2>2, <2>3, <2>4 DEF Accounted, Ahead
  <2>10. Contiguous(c)' BY <1>2, <1>3, <2>1, <2>3 DEF Accounted, Contiguous
  <2>11. PutAside(c)' BY <1>2, <1>3, <2>1, <2>4 DEF Accounted, PutAside
  <2>12. Excused(c)' BY <1>2, <1>4, <2>1 DEF Accounted, Excused, Missing, IsDelta
  <2> QED BY <2>5, <2>6, <2>7, <2>8, <2>9, <2>10, <2>11, <2>12 DEF Accounted
<1> QED BY <1>2, <1>6, <1>7 DEF HoleInv

LEMMA CrashAccounted == ASSUME StreamInv, BrokerBounds, HoleInv, BrokerCrash PROVE HoleInv'
<1>1. /\ UNCHANGED <<log, kept, cursor, told, holes, escaped>> /\ fans' = {} /\ order' = <<>>
      /\ sub' = [c \in Client |-> Away] /\ conn' = [c \in Client |-> Fresh]
  BY DEF BrokerCrash, storeVars, clientVars
<1>2. Floor' BY <1>1 DEF HoleInv, Floor, Aged, Rows, IsDelta
<1>3. LateStarted(fans') BY <1>1 DEF LateStarted
<1>4. ASSUME NEW c \in Client PROVE Accounted(c)'
  <2>1. /\ sub'[c] = Away /\ conn'[c] = Fresh /\ ~Among(order', c) BY <1>1, NothingListed
  <2>2. \A n : ~Coming(c, n)' BY <1>1 DEF Coming, ComingIn
  <2>3. Excused(c) BY DEF HoleInv, Accounted
  <2> QED BY <1>1, <2>1, <2>2, <2>3, GoneAccounted
<1> QED BY <1>2, <1>3, <1>4 DEF HoleInv

\* Neither the outbox nor the queue of the writer is of any account.
LEMMA StillAccounted ==
  ASSUME HoleInv, UNCHANGED <<log, kept, fans, order, sub, conn, cursor, told, holes, escaped>> PROVE HoleInv'
<1>1. \A d, n : Coming(d, n)' <=> Coming(d, n) BY DEF Coming
<1>2. \A d \in Client : Aside(d) BY <1>1 DEF Aside
<1>3. LateStarted(fans') BY DEF HoleInv
<1> QED BY <1>2, <1>3, AllAside

-----------------------------------------------------------------------------
(* The specification.                                                           *)

LEMMA InitHoles == Init => HoleInv
<1> SUFFICES ASSUME Init PROVE HoleInv OBVIOUS
<1>1. /\ log = <<>> /\ kept = {} /\ fans = {} /\ order = <<>>
      /\ sub = [c \in Client |-> Away] /\ conn = [c \in Client |-> Fresh]
      /\ holes = [c \in Client |-> {}]
  BY DEF Init, BrokerInit
<1>2. Floor BY <1>1 DEF Floor, Rows
<1>3. LateStarted(fans) BY <1>1 DEF LateStarted
<1>4. ASSUME NEW c \in Client PROVE Accounted(c)
  <2>1. /\ sub[c] = Away /\ conn[c] = Fresh /\ ~Among(order, c) /\ holes[c] = {} BY <1>1, NothingListed
  <2>2. /\ sub[c].phase = "away" /\ sub[c].todo = <<>> /\ sub[c].buffer = <<>> /\ conn[c].gap = {}
    BY <2>1 DEF Away, Fresh
  <2>3. ~Open(c) /\ ~Read(c) /\ \A n : ~Coming(c, n) BY <1>1, <2>2 DEF Open, Read, Coming, ComingIn
  <2>4. Attached(c) /\ Emptied(c) /\ Announced(c) BY <2>1, <2>2, <2>3 DEF Attached, Emptied, Announced
  <2>5. Behind(c) /\ Ahead(c) BY <2>3 DEF Behind, Ahead
  <2>6. Contiguous(c) /\ PutAside(c) BY <2>2, NothingListed DEF Contiguous, PutAside
  <2>7. Excused(c) BY <2>1 DEF Excused, Missing
  <2> QED BY <2>4, <2>5, <2>6, <2>7 DEF Accounted
<1> QED BY <1>2, <1>3, <1>4 DEF HoleInv

LEMMA StepHoles ==
  ASSUME StreamInv, OutboxInv, BrokerBounds, HoleInv, [Next]_vars PROVE HoleInv'
<1>0. OutboxType BY DEF OutboxInv
<1>1. ASSUME UNCHANGED brokerVars \/ Refuse \/ \E e \in Event : Write(e) PROVE HoleInv'
  <2>1. UNCHANGED <<log, kept, fans, order, sub, conn, cursor, told, holes, escaped>>
    BY <1>1 DEF brokerVars, storeVars, subVars, clientVars, Refuse, Write
  <2> QED BY <2>1, StillAccounted
<1>2. ASSUME NEW n, Publish(n) PROVE UNCHANGED brokerVars \/ Write(n) BY <1>2 DEF Publish
<1>3. CASE Emit \/ RetryFires \/ Broadcast \/ Failed \/ Thrown \/ Stop \/ UNCHANGED vars
  <2>1. UNCHANGED brokerVars BY <1>3 DEF Emit, RetryFires, Broadcast, Failed, Thrown, Stop, vars
  <2> QED BY <1>1, <2>1
<1>4. CASE List \/ Mark
  <2>1. UNCHANGED brokerVars \/ \E n : Publish(n) BY <1>4 DEF List, Mark
  <2>2. ASSUME NEW n, Write(n) PROVE HoleInv'
    <3>1. UNCHANGED <<log, kept, fans, order, sub, conn, cursor, told, holes, escaped>>
      BY <2>2 DEF storeVars, subVars, clientVars, Write
    <3> QED BY <3>1, StillAccounted
  <2> QED BY <1>1, <1>2, <2>1, <2>2
<1>5. CASE \E e \in Bridge : Bridged(e)
  <2>1. UNCHANGED brokerVars \/ \E e \in Event : Write(e) BY <1>5, DeliveryAssumption DEF Bridged
  <2> QED BY <1>1, <2>1
<1>6. CASE Stored
  <2>1. Commit BY <1>6 DEF Stored
  <2> QED BY <1>0, <2>1, CommitAccounted
<1>7. CASE Refused
  <2>1. Refuse BY <1>7 DEF Refused
  <2> QED BY <1>1, <2>1
<1>8. CASE Sweep /\ OfBroker BY <1>8, SweepAccounted
<1>9. CASE \E c \in Client : (Connect(c) \/ Disconnect(c) \/ Drain(c)) /\ OfBroker
  BY <1>9, ConnectAccounted, DisconnectAccounted, DrainAccounted
<1>10. CASE \E f \in fans : (FanOutToNone(f) \/ FanOut(f)) /\ OfBroker
  BY <1>10, FanOutToNoneAccounted, FanOutAccounted
<1>11. CASE \E c \in Client : Resumes(c) /\ OfBroker
  BY <1>11, ReplayAccounted, CheckAccounted, HandAccounted, FlushAccounted, GoLiveAccounted DEF Resumes
<1>12. CASE Crash
  <2>1. BrokerCrash BY <1>12 DEF Crash
  <2> QED BY <2>1, CrashAccounted
<1> QED
  BY <1>3, <1>4, <1>5, <1>6, <1>7, <1>8, <1>9, <1>10, <1>11, <1>12 DEF Next

\* Whatever the writer, its clients, retention and the process do, a client is
\* told of every row it did not receive, but for the causes that are known:
\* "Loss is always VISIBLE" (sseConnection.ts:27); the alternative "is a silent,
\* permanent hole" (StreamBroker.ts:65).
THEOREM HolesAreTold == Spec => []HolesTold
<1>1. Init => StreamInv /\ OutboxInv /\ Bounds /\ HoleInv
  BY InitStream, InitOutbox, InitBounds, InitHoles
<1>2. StreamInv /\ OutboxInv /\ Bounds /\ HoleInv /\ [Next]_vars
        => (StreamInv /\ OutboxInv /\ Bounds /\ HoleInv)'
  BY StepStream, StepOutbox, StepBounds, StepHoles DEF Bounds
<1> QED BY <1>1, <1>2, Excuses, PTL DEF Spec

=============================================================================
