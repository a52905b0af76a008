---------------------------- MODULE StreamBroker ----------------------------
(* One scope of the durable event stream: the micro-batched writer             *)
(* (StreamWriteBatcher), the stored rows and their retention                    *)
(* (StreamCursorRepository, EventRetentionService), the fan-out to subscribers  *)
(* and their resume (StreamBroker), and the connection of each (SseConnection). *)
(* A row is the set of events folded into it; its number is its place in `log`. *)
(* A frame that is written has reached its client: one lost on the wire with    *)
(* its connection is as if the client had gone before it.                       *)
EXTENDS Positions

CONSTANTS
  Event,        \* what is published on the scope
  Delta,        \* the events that are deltas: text that an item supersedes
  Client,       \* the clients that follow the scope
  FromZero,     \* those that name the cursor 0 while they have nothing
  MaxPending,   \* events the writer may hold
  ReplayLimit,  \* rows of one replay
  MaxQueue,     \* items a congested connection may hold
  MaxConnects,  \* connections, in all
  MaxSweeps     \* retention sweeps

None == "none"

ASSUME BrokerAssumption ==
  /\ Delta \subseteq Event /\ None \notin Client /\ FromZero \subseteq Client
  /\ MaxPending \in Nat \ {0} /\ ReplayLimit \in Nat \ {0} /\ MaxQueue \in Nat
  /\ MaxConnects \in Nat /\ MaxSweeps \in Nat

VARIABLES
  pending,    \* rows the writer holds, oldest first
  log,        \* every row committed, by number
  kept,       \* the numbers of those still stored
  fans,       \* the broadcasts under way
  order,      \* the subscribers, in the order they attached
  sub,        \* the subscription of each client
  conn,       \* its connection
  cursor,     \* the last row each client received
  told,       \* the rows after it that the client knows it must fetch elsewhere
  holes,      \* the rows before it that it neither received nor knows of
  escaped,    \* the rows it may miss for one of the causes named below
  connects, sweeps

storeVars == <<log, kept, sweeps>>
clientVars == <<cursor, told, holes, escaped>>
subVars == <<order, sub, conn, connects>>
brokerVars == <<pending, storeVars, fans, subVars, clientVars>>

Rows == 1..Len(log)
IsDelta(row) == row \subseteq Delta
Top(S) == CHOOSE n \in S \cup {0} : \A m \in S : m <= n

Away == [phase |-> "away", mark |-> 0, todo |-> <<>>, buffer |-> <<>>, waits |-> FALSE]
Fresh == [congested |-> FALSE, queue |-> <<>>, gap |-> {}]

BrokerInit ==
  /\ pending = <<>> /\ log = <<>> /\ kept = {} /\ fans = {} /\ order = <<>>
  /\ sub = [c \in Client |-> Away] /\ conn = [c \in Client |-> Fresh]
  /\ cursor = [c \in Client |-> 0] /\ told = [c \in Client |-> {}]
  /\ holes = [c \in Client |-> {}] /\ escaped = [c \in Client |-> {}]
  /\ connects = 0 /\ sweeps = 0

-----------------------------------------------------------------------------
(* The writer.                                                                  *)

Without(s, i) == SubSeq(s, 1, i - 1) \o SubSeq(s, i + 1, Len(s))
Deltas == {i \in DOMAIN pending : IsDelta(pending[i])}
Foldable == {i \in Deltas : i + 1 \in Deltas}
First(S) == CHOOSE i \in S : \A j \in S : i <= j

HasRoom == Len(pending) < MaxPending \/ Deltas # {}

\* Mutant: what was folded stays in the queue.
MadeRoomNot ==
  IF Len(pending) < MaxPending \/ Foldable = {} THEN pending
  ELSE [pending EXCEPT ![First(Foldable) + 1] = @ \cup pending[First(Foldable)]]

\* makeRoom: the oldest delta is folded into the one after it, or else dropped.
MadeRoom ==
  IF Len(pending) < MaxPending THEN pending
  ELSE IF Foldable # {}
    THEN LET i == First(Foldable)
         IN Without([pending EXCEPT ![i + 1] = @ \cup pending[i]], i)
  ELSE Without(pending, First(Deltas))

Write(e) ==
  /\ HasRoom
  /\ pending' = Append(MadeRoom, {e})
  /\ UNCHANGED <<storeVars, fans, subVars, clientVars>>

\* Rows are committed in the order they were written; the broadcast follows.
Commit ==
  /\ pending # <<>>
  /\ log' = Append(log, Head(pending)) /\ kept' = kept \cup {Len(log) + 1}
  /\ pending' = Tail(pending)
  /\ fans' = fans \cup {[seq |-> Len(log) + 1, started |-> FALSE, todo |-> <<>>,
                         held |-> None, late |-> FALSE]}
  /\ UNCHANGED <<sweeps, subVars, clientVars>>

\* The transaction fails, and with it everything in its batch.
Refuse ==
  /\ pending # <<>> /\ pending' = Tail(pending)
  /\ UNCHANGED <<storeVars, fans, subVars, clientVars>>

\* Retention: the deltas of finished turns go early, everything else by its age.
Sweep ==
  /\ sweeps < MaxSweeps /\ sweeps' = sweeps + 1
  /\ \E n \in kept :
       \/ kept' = {m \in kept : m > n}
       \/ kept' = {m \in kept : m > n \/ ~IsDelta(log[m])}
  /\ UNCHANGED <<pending, log, fans, subVars, clientVars>>

-----------------------------------------------------------------------------
(* A connection: a delta is dropped while it is congested, an item is queued.   *)

\* What a client knows once it is told of the rows ns.
Told(c, ns) ==
  /\ told' = [told EXCEPT ![c] = @ \cup {n \in ns : n > cursor[c]}]
  /\ holes' = [holes EXCEPT ![c] = @ \ ns]
  /\ UNCHANGED cursor

\* A client is told of the rows gap, then receives the rows ns; its connection
\* has the rest to write, and may be congested again.
Wrote(c, gap, ns, rest) ==
  LET has == {ns[i] : i \in DOMAIN ns}
      at == IF ns = <<>> THEN cursor[c] ELSE ns[Len(ns)]
  IN /\ cursor' = [cursor EXCEPT ![c] = at]
     /\ told' = [told EXCEPT ![c] = {n \in @ \cup gap : n > at}]
     /\ holes' = [holes EXCEPT ![c] =
                    (@ \cup {n \in Rows : cursor[c] < n /\ n < at}) \ (has \cup told[c] \cup gap)]
     /\ \E full \in BOOLEAN :
          /\ rest # <<>> => full
          /\ conn' = [conn EXCEPT ![c] = [congested |-> full, queue |-> rest, gap |-> {}]]

Stalled(c) == conn[c].congested \/ conn[c].queue # <<>>
Sheds(c, n) == Stalled(c) /\ ~IsDelta(log[n]) /\ Len(conn[c].queue) = MaxQueue
Queues(c, n) == Stalled(c) /\ ~IsDelta(log[n]) /\ Len(conn[c].queue) < MaxQueue

\* deliver, to a connection that is not shed by it.
Deliver(c, n) ==
  \/ ~Stalled(c) /\ Wrote(c, {}, <<n>>, <<>>)
  \/ /\ Stalled(c) /\ IsDelta(log[n])
     /\ conn' = [conn EXCEPT ![c].gap = @ \cup {n}] /\ UNCHANGED <<cursor, told, holes>>
  \/ /\ Queues(c, n)
     /\ conn' = [conn EXCEPT ![c].queue = Append(@, n)] /\ UNCHANGED <<cursor, told, holes>>

\* A broadcast is over when every subscriber it was copied for has taken it.
Active(fs) == {f \in fs : ~f.started \/ f.todo # <<>> \/ f.held # None}

Others(s, c) == At(s, {i \in DOMAIN s : s[i] # c})

\* Mutant: who waits for a connection is not released when it closes.
GoneHeld(fs, c) == Active({[f EXCEPT !.todo = Others(@, c)] : f \in fs})

\* The broadcasts once c is gone, and once what it queued is written.
Gone(fs, c) ==
  Active({[f EXCEPT !.todo = Others(@, c),
                    !.held = IF @ = c THEN None ELSE @] : f \in fs})
Freed(fs, c) == Active({[f EXCEPT !.held = IF @ = c THEN None ELSE @] : f \in fs})

\* The connection ends: nothing is sent to it or waits for it any more.
Left(c, fs) ==
  /\ fans' = Gone(fs, c)
  /\ order' = Others(order, c)
  /\ sub' = [sub EXCEPT ![c] = Away] /\ conn' = [conn EXCEPT ![c] = Fresh]

Disconnect(c) ==
  /\ sub[c].phase # "away" /\ Left(c, fans)
  /\ UNCHANGED <<pending, storeVars, connects, clientVars>>

\* onDrain: what was dropped is announced, then the queue is written until the
\* socket fills again; who waits for the queue goes on when it is empty.
Drain(c) ==
  LET gap == IF conn[c].gap = {} THEN {} ELSE First(conn[c].gap)..Top(conn[c].gap)
      all == conn[c].queue
  IN /\ sub[c].phase # "away" /\ Stalled(c)
     /\ \E k \in 0..Len(all) :
          LET rest == SubSeq(all, k + 1, Len(all))
          IN /\ k > 0 \/ rest = <<>>
             /\ Wrote(c, gap, SubSeq(all, 1, k), rest)
             /\ IF rest = <<>>
                  THEN fans' = Freed(fans, c) /\ sub' = [sub EXCEPT ![c].waits = FALSE]
                  ELSE UNCHANGED <<fans, sub>>
     /\ UNCHANGED <<pending, storeVars, order, connects, escaped>>

-----------------------------------------------------------------------------
(* The broadcast of a row.                                                      *)

Targets(f) == IF f.started THEN f.todo ELSE order
Among(s, c) == \E i \in DOMAIN s : s[i] = c

\* Broadcasts that nobody holds up take their turns in step, oldest first.
InTurn(f, c) ==
  \A g \in fans : g.seq < f.seq /\ ~g.late => g.started /\ ~Among(g.todo, c)

Moved(f, held) ==
  Active((fans \ {f}) \cup {[f EXCEPT !.started = TRUE, !.todo = Tail(Targets(f)),
                                      !.held = held, !.late = @ \/ held # None]})

\* Nobody follows the scope.
FanOutToNone(f) ==
  /\ f.held = None /\ Targets(f) = <<>>
  /\ fans' = fans \ {f}
  /\ UNCHANGED <<pending, storeVars, subVars, clientVars>>

\* Rows that c has still to take, and that a held broadcast left behind this one.
Overtaken(f, c) == {g.seq : g \in {h \in fans : h.seq < f.seq /\ h.late /\ Among(h.todo, c)}}

\* While a subscription resumes its rows are put aside; the ones it has are skipped.
FanOut(f) ==
  LET c == Head(Targets(f))
      n == f.seq
      s == sub[c]
      Lost == IF s.phase = "flushing" THEN {n} ELSE {}
  IN /\ f.held = None /\ Targets(f) # <<>> /\ InTurn(f, c)
     /\ escaped' = [escaped EXCEPT ![c] = @ \cup Lost \cup Overtaken(f, c)]
     /\ \/ /\ s.phase # "live"
           /\ sub' = [sub EXCEPT ![c].buffer = Append(@, n)]
           /\ fans' = Moved(f, None) /\ UNCHANGED <<order, conn, cursor, told, holes>>
        \/ /\ s.phase = "live" /\ n <= s.mark
           /\ fans' = Moved(f, None) /\ UNCHANGED <<order, sub, conn, cursor, told, holes>>
        \/ /\ s.phase = "live" /\ n > s.mark /\ ~Sheds(c, n)
           /\ sub' = [sub EXCEPT ![c].mark = n] /\ Deliver(c, n)
           /\ fans' = Moved(f, IF Queues(c, n) THEN c ELSE None) /\ UNCHANGED order
        \/ /\ s.phase = "live" /\ n > s.mark /\ Sheds(c, n)
           /\ Left(c, Moved(f, None)) /\ UNCHANGED <<cursor, told, holes>>
     /\ UNCHANGED <<pending, storeVars, connects>>

-----------------------------------------------------------------------------
(* A subscription (subscribe, with the cursor of what the client received).     *)

\* A client that names no cursor is told so, and is live at once.
Connect(c) ==
  /\ sub[c].phase = "away" /\ connects < MaxConnects /\ connects' = connects + 1
  /\ order' = Append(order, c)
  /\ IF cursor[c] = 0 /\ c \notin FromZero
       THEN sub' = [sub EXCEPT ![c].phase = "live"] /\ Told(c, Rows)
       ELSE /\ sub' = [sub EXCEPT ![c].phase = "replaying", ![c].mark = cursor[c]]
            /\ UNCHANGED <<cursor, told, holes>>
  /\ UNCHANGED <<pending, storeVars, fans, conn, escaped>>

\* The first rows after the cursor, at most ReplayLimit of them.
Replayed(c) ==
  LET after == {n \in kept : n > cursor[c]}
  IN Ascending({n \in after : Rank(after, n) < ReplayLimit})

Replay(c) ==
  /\ sub[c].phase = "replaying"
  /\ sub' = [sub EXCEPT ![c].phase = "checking", ![c].todo = Replayed(c)]
  /\ UNCHANGED <<pending, storeVars, fans, order, conn, connects, clientVars>>

\* Mutant: off by one.
ExpiredLate(c) == kept # {} /\ cursor[c] > 0 /\ First(kept) > cursor[c] + 2

\* The floor is read after the rows, and the client is told before it gets them.
\* The cursor 0 never expires.
Expired(c) == kept # {} /\ cursor[c] > 0 /\ First(kept) > cursor[c] + 1

Check(c) ==
  /\ sub[c].phase = "checking"
  /\ sub' = [sub EXCEPT ![c].phase = "delivering"]
  /\ IF Expired(c) \/ Len(sub[c].todo) >= ReplayLimit THEN Told(c, Rows)
     ELSE UNCHANGED <<cursor, told, holes>>
  /\ escaped' = [escaped EXCEPT ![c] = IF kept = {} \/ cursor[c] = 0 THEN @ \cup (Rows \ kept) ELSE @]
  /\ UNCHANGED <<pending, storeVars, fans, order, conn, connects>>

\* Mutant: a replay does not raise the watermark.
RaisedByFlush(c, n) == IF sub[c].phase = "flushing" THEN n ELSE sub[c].mark

\* The watermark once row n was handed over.
Raised(c, n) == Top({sub[c].mark, n})

\* One row of the replay, or of what was put aside; the next waits for this one.
Hand(c) ==
  LET n == Head(sub[c].todo)
  IN /\ sub[c].phase \in {"delivering", "flushing"} /\ ~sub[c].waits /\ sub[c].todo # <<>>
     /\ \/ /\ sub[c].phase = "flushing" /\ n <= sub[c].mark
           /\ sub' = [sub EXCEPT ![c].todo = Tail(@)] /\ UNCHANGED <<fans, order, conn, cursor, told, holes>>
        \/ /\ (sub[c].phase = "flushing" => n > sub[c].mark) /\ ~Sheds(c, n)
           /\ sub' = [sub EXCEPT ![c].todo = Tail(@), ![c].mark = Raised(c, n),
                                 ![c].waits = Queues(c, n)]
           /\ Deliver(c, n) /\ UNCHANGED <<fans, order>>
        \/ /\ (sub[c].phase = "flushing" => n > sub[c].mark) /\ Sheds(c, n)
           /\ Left(c, fans) /\ UNCHANGED <<cursor, told, holes>>
     /\ UNCHANGED <<pending, storeVars, connects, escaped>>

\* The replay is over: what was put aside is flushed, once.
Flush(c) ==
  LET all == sub[c].buffer
      rows == At(all, {i \in DOMAIN all : all[i] > sub[c].mark})
  IN /\ sub[c].phase = "delivering" /\ sub[c].todo = <<>> /\ ~sub[c].waits
     /\ sub' = [sub EXCEPT ![c].phase = IF rows = <<>> THEN "live" ELSE "flushing",
                           ![c].todo = rows, ![c].buffer = <<>>]
     /\ UNCHANGED <<pending, storeVars, fans, order, conn, connects, clientVars>>

GoLive(c) ==
  /\ sub[c].phase = "flushing" /\ sub[c].todo = <<>> /\ ~sub[c].waits
  /\ sub' = [sub EXCEPT ![c].phase = "live", ![c].buffer = <<>>]
  /\ UNCHANGED <<pending, storeVars, fans, order, conn, connects, clientVars>>

\* The process dies: the rows stay, and what the clients have.
BrokerCrash ==
  /\ pending' = <<>> /\ fans' = {} /\ order' = <<>>
  /\ sub' = [c \in Client |-> Away] /\ conn' = [c \in Client |-> Fresh]
  /\ UNCHANGED <<storeVars, connects, clientVars>>

-----------------------------------------------------------------------------
BrokerType ==
  /\ pending \in Seq(SUBSET Event) /\ Len(pending) <= MaxPending
  /\ log \in Seq(SUBSET Event) /\ kept \subseteq Rows
  /\ \A f \in fans :
       f.seq \in Rows /\ f.todo \in Seq(Client) /\ f.held \in Client \cup {None}
  /\ order \in Seq(Client)
  /\ sub \in [Client -> [phase : {"away", "replaying", "checking", "delivering", "flushing", "live"},
                         mark : 0..Len(log), todo : Seq(Rows), buffer : Seq(Rows), waits : BOOLEAN]]
  /\ conn \in [Client -> [congested : BOOLEAN, queue : Seq(Rows), gap : SUBSET Rows]]
  /\ \A c \in Client : Len(conn[c].queue) <= MaxQueue
  /\ cursor \in [Client -> 0..Len(log)]
  /\ \A v \in {told, holes, escaped} : v \in [Client -> SUBSET Rows]
  /\ connects \in 0..MaxConnects /\ sweeps \in 0..MaxSweeps

\* A row before the last one a client received is one it has, or knows it must
\* fetch, or is a delta that retention took: "Loss is always VISIBLE"
\* (sseConnection.ts:27), the alternative "is a silent, permanent hole"
\* (StreamBroker.ts:65).
Missing(c) == {n \in holes[c] : n \in kept \/ ~IsDelta(log[n])}

NoSilentHole == \A c \in Client : Missing(c) = {}

\* The same, but for the causes that are known: a row that came while its
\* subscriber flushed what it had put aside, one that a held broadcast brought
\* after a later one, and what retention took of a scope that it emptied or that is
\* asked for from the cursor 0.
HolesTold == \A c \in Client : Missing(c) \subseteq escaped[c]

\* A client receives the rows of its scope in their order, over all of its
\* connections: it takes one that is not above its cursor for one it has seen
\* (sseConnection.ts, deliver).
InOrder == [][\A c \in Client : cursor'[c] >= cursor[c]]_brokerVars

=============================================================================
