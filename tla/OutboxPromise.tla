---------------------------- MODULE OutboxPromise ----------------------------
(* What the outbox of a run promises about its events (OutboxDispatcher.ts):    *)
(* each is stored on the run's stream for the first time after the ones before  *)
(* it, and is marked dispatched only when it is.  A repetition is a stutter:    *)
(* "at-least-once; the consumers key on the run's sequence".                    *)
EXTENDS Naturals

VARIABLES
  emitted,    \* how many events the run has committed
  streamed,   \* the run sequences the stream has
  done        \* those that are marked

vars == <<emitted, streamed, done>>

Init == emitted = 0 /\ streamed = {} /\ done = {}

Emit == emitted' = emitted + 1 /\ UNCHANGED <<streamed, done>>

Stream ==
  \E n \in 1..emitted :
    /\ \A m \in 1..(n - 1) : m \in streamed
    /\ streamed' = streamed \cup {n}
    /\ UNCHANGED <<emitted, done>>

Mark == \E n \in streamed : done' = done \cup {n} /\ UNCHANGED <<emitted, streamed>>

Next == Emit \/ Stream \/ Mark

Spec == Init /\ [][Next]_vars

=============================================================================
