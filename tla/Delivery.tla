------------------------------ MODULE Delivery ------------------------------
(* The events of a run on their way to its clients.  The engine commits them to *)
(* the outbox with the state they describe; OutboxDispatcher publishes them in  *)
(* order on the run's stream, awaits each, and marks it.  The bridge of the     *)
(* event bus publishes on the same stream and awaits nothing.                   *)
EXTENDS StreamBroker

CONSTANTS
  Bridge,     \* events of the bridge
  MaxEmits,   \* events of the run
  MaxFails,   \* publishes that fail
  MaxCrashes

RunEvents == 1..MaxEmits

ASSUME DeliveryAssumption ==
  /\ MaxEmits \in Nat /\ MaxFails \in Nat /\ MaxCrashes \in Nat
  /\ Event = RunEvents \cup Bridge /\ Bridge \cap Nat = {} /\ Delta \subseteq Bridge

VARIABLES
  emitted,    \* the last run sequence that was committed
  marked,     \* the sequences marked dispatched
  drain,      \* where the drain of the run is
  batch,      \* the rows it listed and has still to publish
  place,      \* the number of the row its event got
  chained,    \* another drain waits for this one
  retry,      \* the timer of a failed drain
  stopped,    \* the dispatcher is stopped
  sent,       \* events the bridge published
  fails, crashes

outboxVars == <<emitted, marked, drain, batch, place, chained, retry, stopped>>
vars == <<brokerVars, outboxVars, sent, fails, crashes>>

Init ==
  /\ BrokerInit
  /\ emitted = 0 /\ marked = {} /\ drain = "idle" /\ batch = <<>> /\ place = 0
  /\ chained = FALSE /\ retry = FALSE /\ stopped = FALSE
  /\ sent = {} /\ fails = 0 /\ crashes = 0

-----------------------------------------------------------------------------
\* kick: one drain of the run at a time.
Kick ==
  IF stopped THEN UNCHANGED <<drain, chained>>
  ELSE IF drain \in {"idle", "rejected"} THEN drain' = "listing" /\ UNCHANGED chained
  ELSE chained' = TRUE /\ UNCHANGED drain

\* The engine commits an event, and kicks.
Emit ==
  /\ emitted < MaxEmits /\ emitted' = emitted + 1 /\ Kick
  /\ UNCHANGED <<brokerVars, marked, batch, place, retry, stopped, sent, fails, crashes>>

RetryFires ==
  /\ retry /\ retry' = FALSE /\ Kick
  /\ UNCHANGED <<brokerVars, emitted, marked, batch, place, stopped, sent, fails, crashes>>

\* The drain ends; one that waits for it begins.
DrainEnds ==
  /\ drain' = IF chained THEN "listing" ELSE "idle"
  /\ chained' = FALSE /\ batch' = <<>>

\* The writer takes the event, or refuses it at once.
Publish(n) ==
  IF HasRoom THEN Write(n) /\ drain' = "writing"
  ELSE drain' = "refused" /\ UNCHANGED brokerVars

Pending == {n \in 1..emitted : n \notin marked}

List ==
  /\ drain = "listing"
  /\ IF stopped \/ Pending = {}
       THEN DrainEnds /\ UNCHANGED brokerVars
       ELSE /\ batch' = Ascending(Pending) /\ Publish(Head(batch')) /\ UNCHANGED chained
  /\ UNCHANGED <<emitted, marked, place, retry, stopped, sent, fails, crashes>>

\* The row is broadcast, then the event is emitted on the global bus.
Broadcast ==
  /\ drain = "fanning" /\ \A f \in fans : f.seq # place
  /\ drain' = "emitting"
  /\ UNCHANGED <<brokerVars, emitted, marked, batch, place, chained, retry, stopped, sent, fails, crashes>>

\* Mark the event, and publish the next of the batch.
Mark ==
  /\ drain = "emitting" /\ marked' = marked \cup {Head(batch)}
  /\ batch' = Tail(batch)
  /\ IF Tail(batch) = <<>> THEN drain' = "listing" /\ UNCHANGED brokerVars
     ELSE Publish(Head(Tail(batch)))
  /\ UNCHANGED <<emitted, place, chained, retry, stopped, sent, fails, crashes>>

\* Mutant: the drain goes on behind the event that failed.
FailedGoesOn ==
  /\ \/ drain = "refused" /\ UNCHANGED fails
     \/ drain = "emitting" /\ fails < MaxFails /\ fails' = fails + 1
  /\ retry' = TRUE
  /\ IF Tail(batch) = <<>> THEN DrainEnds /\ UNCHANGED brokerVars
     ELSE batch' = Tail(batch) /\ Publish(Head(Tail(batch))) /\ UNCHANGED chained
  /\ UNCHANGED <<emitted, marked, place, stopped, sent, crashes>>

\* A publish that fails ends the drain; the timer starts another from its row.
Failed ==
  /\ \/ drain = "refused" /\ UNCHANGED fails
     \/ drain = "emitting" /\ fails < MaxFails /\ fails' = fails + 1
  /\ retry' = TRUE /\ DrainEnds
  /\ UNCHANGED <<brokerVars, emitted, marked, place, stopped, sent, crashes>>

\* The store throws while the drain lists or marks: it is rejected, with the one
\* that waits for it, and no timer is set.
Thrown ==
  /\ drain = "emitting" \/ (drain = "listing" /\ ~stopped)
  /\ fails < MaxFails /\ fails' = fails + 1
  /\ drain' = "rejected" /\ chained' = FALSE /\ batch' = <<>>
  /\ UNCHANGED <<brokerVars, emitted, marked, place, retry, stopped, sent, crashes>>

Stop ==
  /\ ~stopped /\ crashes < MaxCrashes /\ stopped' = TRUE
  /\ UNCHANGED <<brokerVars, emitted, marked, drain, batch, place, chained, retry, sent, fails, crashes>>

-----------------------------------------------------------------------------
\* The writer commits or fails the row at its head, and its publisher goes on.
OfRun(row) == row \cap RunEvents # {}

Stored ==
  /\ Commit
  /\ IF OfRun(Head(pending)) THEN drain' = "fanning" /\ place' = Len(log')
     ELSE UNCHANGED <<drain, place>>
  /\ UNCHANGED <<emitted, marked, batch, chained, retry, stopped, sent, fails, crashes>>

Refused ==
  /\ fails < MaxFails /\ fails' = fails + 1 /\ Refuse
  /\ drain' = IF OfRun(Head(pending)) THEN "refused" ELSE drain
  /\ UNCHANGED <<emitted, marked, batch, place, chained, retry, stopped, sent, crashes>>

\* publishToBroker: what cannot be written is logged and forgotten.
Bridged(e) ==
  /\ e \notin sent /\ sent' = sent \cup {e}
  /\ IF HasRoom THEN Write(e) ELSE UNCHANGED brokerVars
  /\ UNCHANGED <<outboxVars, fails, crashes>>

\* The process dies and starts again: recovery drains what is not marked.
Crash ==
  /\ crashes < MaxCrashes /\ crashes' = crashes + 1
  /\ BrokerCrash
  /\ drain' = IF Pending # {} THEN "listing" ELSE "idle"
  /\ batch' = <<>> /\ chained' = FALSE /\ retry' = FALSE /\ stopped' = FALSE
  /\ UNCHANGED <<emitted, marked, place, sent, fails>>

-----------------------------------------------------------------------------
Fan == \E f \in fans : FanOutToNone(f) \/ FanOut(f)
Resumes(c) == Replay(c) \/ Check(c) \/ Hand(c) \/ Flush(c) \/ GoLive(c)
OfBroker == UNCHANGED <<outboxVars, sent, fails, crashes>>

Next ==
  \/ Emit \/ RetryFires \/ List \/ Broadcast \/ Mark \/ Failed \/ Thrown \/ Stop
  \/ Stored \/ Refused \/ \E e \in Bridge : Bridged(e)
  \/ Sweep /\ OfBroker
  \/ \E c \in Client : (Connect(c) \/ Disconnect(c) \/ Drain(c)) /\ OfBroker
  \/ \E f \in fans : (FanOutToNone(f) \/ FanOut(f)) /\ OfBroker
  \/ \E c \in Client : Resumes(c) /\ OfBroker
  \/ Crash

Spec == Init /\ [][Next]_vars

\* Promises go on and timers fire.  A client owes nothing: nothing in the server
\* ends a connection whose client does not read.
Fairness ==
  /\ WF_vars(RetryFires) /\ WF_vars(List) /\ WF_vars(Broadcast) /\ WF_vars(Mark \/ Failed)
  /\ WF_vars(Stored) /\ WF_vars(Fan /\ OfBroker)

FairSpec == Spec /\ Fairness

-----------------------------------------------------------------------------
TypeOK ==
  /\ BrokerType
  /\ emitted \in 0..MaxEmits /\ marked \subseteq 1..emitted
  /\ drain \in {"idle", "listing", "writing", "fanning", "emitting", "refused", "rejected"}
  /\ batch \in Seq(RunEvents) /\ place \in 0..Len(log)
  /\ chained \in BOOLEAN /\ retry \in BOOLEAN /\ stopped \in BOOLEAN
  /\ sent \subseteq Bridge /\ fails \in 0..MaxFails /\ crashes \in 0..MaxCrashes

Streamed == {n \in RunEvents : \E i \in DOMAIN log : n \in log[i]}

\* The outbox keeps its promise: through failed publishes, a writer that is full,
\* a stop and a crash between the publish and the mark (OutboxDispatcher.ts:5-12).
Outbox == INSTANCE OutboxPromise WITH streamed <- Streamed, done <- marked
InRunOrder == Outbox!Spec

\* A broadcast waits for a socket that is full: the client does not read.
Holds(c) == Stalled(c) /\ \E f \in fans : f.held = c

\* Every event the run commits is dispatched, through clients that stall, come,
\* go and are shed, a writer that refuses and a process that dies.  Three things
\* may end that: a connected client that for ever does not read what a broadcast
\* waits for (nothing in the server gives up on it, sseConnection.ts:245-258), a
\* dispatcher that is stopped, and a store that threw, after which nobody drains
\* until the next event (OutboxDispatcher.ts:72, 83).
AllDispatched ==
  (\A c \in Client : []<>~Holds(c))
    => \A n \in RunEvents :
         emitted >= n ~> n \in marked \/ stopped \/ (drain = "rejected" /\ ~retry)

=============================================================================
