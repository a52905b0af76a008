----------------------- MODULE EngineOwnership_proofs -----------------------
(* For any set of processes and runs, and however often locks go stale: a run  *)
(* has one writer, its batches come in the order of the claims, and a run that  *)
(* is over stays so.  The inductive invariant relates every actor and every     *)
(* write to the last claim: no epoch is ahead of the row, and the row's epoch   *)
(* belongs to the process it names.                                             *)
EXTENDS EngineOwnership, TLAPS

Behind ==
  \A r \in Run :
    /\ wrote[r].epoch <= owner[r].epoch
    /\ \A p \in Proc : actor[p][r].epoch <= owner[r].epoch

Named ==
  \A r \in Run :
    /\ wrote[r].epoch = owner[r].epoch => wrote[r].by = owner[r].by
    /\ \A p \in Proc : actor[p][r] # NoActor /\ actor[p][r].epoch = owner[r].epoch => owner[r].by = p

OwnershipInv == TypeOK /\ Behind /\ Named /\ OverIsFinal

USE DEF NoActor, Actor, Owner

\* At the start nothing was claimed.
LEMMA InitOwned == Init => OwnershipInv
<1> SUFFICES ASSUME Init PROVE OwnershipInv OBVIOUS
<1>1. TypeOK BY OwnershipAssumption DEF Init, TypeOK
<1>2. Behind BY DEF Init, Behind
<1>3. Named BY DEF Init, Named
<1>4. OverIsFinal BY DEF Init, OverIsFinal
<1> QED BY <1>1, <1>2, <1>3, <1>4 DEF OwnershipInv

\* A claim takes an epoch nobody has.
LEMMA ClaimOwned ==
  ASSUME OwnershipInv, NEW p \in Proc, NEW r \in Run, Claim(p, r), run[r] # "over",
         UNCHANGED <<run, wrote>>
  PROVE  /\ owner' \in [Run -> Owner] /\ actor' \in [Proc -> [Run -> Actor \cup {NoActor}]]
         /\ Behind' /\ Named' /\ OverIsFinal'
<1> DEFINE e == owner[r].epoch + 1
<1>1. owner' \in [Run -> Owner] BY DEF Claim, OwnershipInv, TypeOK
<1>2. actor' \in [Proc -> [Run -> Actor \cup {NoActor}]] BY DEF Claim, OwnershipInv, TypeOK
<1>3. /\ owner'[r] = [by |-> p, epoch |-> e]
      /\ \A x \in Run : x # r => owner'[x] = owner[x]
  BY DEF Claim, OwnershipInv, TypeOK
<1>4. /\ actor'[p][r] = [is |-> "creating", epoch |-> e]
      /\ \A q \in Proc, x \in Run : q # p \/ x # r => actor'[q][x] = actor[q][x]
  BY DEF Claim, OwnershipInv, TypeOK
<1>5. /\ e \in Nat /\ owner[r].epoch \in Nat /\ wrote[r].epoch \in Nat
      /\ e > owner[r].epoch /\ \A q \in Proc : actor[q][r].epoch \in Nat
  BY DEF OwnershipInv, TypeOK
<1> HIDE DEF e
<1>6. Behind' BY <1>3, <1>4, <1>5 DEF OwnershipInv, Behind
<1>7. Named' BY <1>3, <1>4, <1>5 DEF OwnershipInv, Behind, Named
<1>8. OverIsFinal' BY <1>3, <1>4 DEF OwnershipInv, OverIsFinal, Current, Decides
<1> QED BY <1>1, <1>2, <1>6, <1>7, <1>8

LEMMA CreateOwned ==
  ASSUME OwnershipInv, NEW p \in Proc, NEW r \in Run, Create(p, r) PROVE OwnershipInv'
<1>1. Claim(p, r) /\ run[r] # "over" /\ UNCHANGED <<run, wrote, lock, phase, todo, stalls>>
  BY DEF Create
<1>2. /\ owner' \in [Run -> Owner] /\ actor' \in [Proc -> [Run -> Actor \cup {NoActor}]]
      /\ Behind' /\ Named' /\ OverIsFinal'
  BY <1>1, ClaimOwned
<1> QED BY <1>1, <1>2 DEF OwnershipInv, TypeOK

LEMMA RecoverOwned ==
  ASSUME OwnershipInv, NEW p \in Proc, NEW r \in Run, Recover(p, r) PROVE OwnershipInv'
<1>1. todo' \in [Proc -> SUBSET Run] BY DEF Recover, OwnershipInv, TypeOK
<1>2. CASE Claim(p, r) /\ run[r] = "live"
  <2>1. /\ run[r] # "over" /\ UNCHANGED <<run, wrote>>
        /\ UNCHANGED <<lock, phase, stalls>>
    BY <1>2 DEF Recover
  <2>2. /\ owner' \in [Run -> Owner] /\ actor' \in [Proc -> [Run -> Actor \cup {NoActor}]]
        /\ Behind' /\ Named' /\ OverIsFinal'
    BY <1>2, <2>1, ClaimOwned
  <2> QED BY <1>1, <2>1, <2>2 DEF OwnershipInv, TypeOK
<1>3. CASE UNCHANGED <<owner, actor>>
  BY <1>1, <1>3 DEF Recover, OwnershipInv, TypeOK, Behind, Named, OverIsFinal, Current, Decides
<1> QED BY <1>2, <1>3 DEF Recover

\* A batch that passes the fence is the last claim's.
LEMMA WriteOwned ==
  ASSUME OwnershipInv, NEW p \in Proc, NEW r \in Run, NEW next \in {"live", "over"},
         Write(p, r, next)
  PROVE  OwnershipInv'
<1> DEFINE e == owner[r].epoch
<1>1. /\ actor[p][r].is \in {"creating", "live"} /\ actor[p][r].epoch = e
      /\ e \in Nat \ {0} /\ actor[p][r] # NoActor
  BY DEF Write, Current, Decides, OwnershipInv, TypeOK
<1>2. TypeOK' BY <1>1 DEF Write, After, OwnershipInv, TypeOK
<1>3. /\ wrote'[r] = [by |-> p, epoch |-> e] /\ run'[r] = next
      /\ \A x \in Run : x # r => wrote'[x] = wrote[x] /\ run'[x] = run[x]
      /\ owner' = owner
  BY <1>1 DEF Write, OwnershipInv, TypeOK
<1>4. /\ \A q \in Proc, x \in Run : q # p \/ x # r => actor'[q][x] = actor[q][x]
      /\ \/ actor'[p][r] = NoActor
         \/ actor'[p][r].epoch = e /\ next # "over"
  BY <1>1 DEF Write, After, OwnershipInv, TypeOK
<1>5. owner[r].by = p BY <1>1 DEF OwnershipInv, Named
<1>6. Behind'
  BY <1>1, <1>3, <1>4 DEF OwnershipInv, Behind
<1>7. Named' BY <1>1, <1>3, <1>4, <1>5 DEF OwnershipInv, Named
<1>8. OverIsFinal'
  <2> SUFFICES ASSUME NEW x \in Run, NEW q \in Proc, run'[x] = "over", Current(q, x)' PROVE FALSE
    BY DEF OverIsFinal
  <2>1. CASE x # r BY <1>3, <1>4, <2>1 DEF OwnershipInv, OverIsFinal, Current, Decides
  <2>2. CASE x = r
    <3>1. next = "over" BY <1>3, <2>2
    <3>2. q # p BY <1>4, <2>2, <3>1 DEF Current, Decides
    <3>3. Current(q, r) BY <1>3, <1>4, <2>2, <3>2 DEF Current, Decides
    <3> QED BY <1>5, <3>2, <3>3 DEF OwnershipInv, Named, Current, Decides
  <2> QED BY <2>1, <2>2
<1> QED BY <1>2, <1>6, <1>7, <1>8 DEF OwnershipInv

\* What only makes an actor live, retires it or drops it.
LEMMA ActorsOwned ==
  ASSUME OwnershipInv,
         lock' \in [by : Proc \cup {NoProc}, fresh : BOOLEAN],
         phase' \in [Proc -> {"off", "recovering", "up", "stopped", "dead"}],
         actor' \in [Proc -> [Run -> Actor \cup {NoActor}]],
         \A p \in Proc, r \in Run :
           \/ actor'[p][r] = actor[p][r]
           \/ actor'[p][r] = NoActor
           \/ actor'[p][r].epoch = actor[p][r].epoch /\ Decides(p, r),
         UNCHANGED <<todo, rows, stalls>>
  PROVE  OwnershipInv'
<1>1. TypeOK' BY DEF OwnershipInv, TypeOK, rows
<1>2. Behind'
  <2>1. \A r \in Run : owner[r].epoch \in Nat BY DEF OwnershipInv, TypeOK
  <2>2. \A p \in Proc, r \in Run : actor'[p][r].epoch <= owner[r].epoch
    BY <2>1 DEF OwnershipInv, Behind
  <2> QED BY <2>2 DEF OwnershipInv, Behind, rows
<1>3. owner' = owner /\ run' = run /\ wrote' = wrote BY DEF rows
<1>4. \A p \in Proc, r \in Run : actor'[p][r] # NoActor =>
        actor[p][r] # NoActor /\ actor'[p][r].epoch = actor[p][r].epoch
  BY DEF Decides
<1>5. \A p \in Proc, r \in Run : Decides(p, r)' => actor'[p][r] # NoActor BY DEF Decides
<1>6. \A p \in Proc, r \in Run : Decides(p, r)' =>
        Decides(p, r) \/ actor'[p][r] = actor[p][r]
  BY <1>5
<1>7. Named' BY <1>3, <1>4 DEF OwnershipInv, Named
<1>8. OverIsFinal'
  <2> SUFFICES ASSUME NEW r \in Run, NEW p \in Proc, run[r] = "over", Current(p, r)' PROVE FALSE
    BY <1>3 DEF OverIsFinal
  <2>1. Decides(p, r)' /\ actor'[p][r].epoch = owner[r].epoch BY <1>3 DEF Current
  <2>2. Decides(p, r) /\ actor[p][r].epoch = owner[r].epoch
    BY <2>1, <1>4, <1>5, <1>6 DEF Decides
  <2> QED BY <2>2 DEF OwnershipInv, OverIsFinal, Current
<1> QED BY <1>1, <1>2, <1>7, <1>8 DEF OwnershipInv

LEMMA MessageOwned ==
  ASSUME OwnershipInv, NEW p \in Proc, NEW r \in Run, Fenced(p, r) \/ Created(p, r)
  PROVE  OwnershipInv'
<1> DEFINE a == [actor[p][r] EXCEPT !.is = "live"]
<1>1. actor[p][r].is \in {"creating", "live"} /\ actor[p][r] \in Actor
  BY DEF Fenced, Created, Reached, Decides, OwnershipInv, TypeOK
<1>2. a \in Actor /\ a.epoch = actor[p][r].epoch BY <1>1
<1>3. \E b \in {NoActor, a} : actor' = [actor EXCEPT ![p][r] = b]
  BY DEF Fenced, Created, After
<1>4. UNCHANGED <<lock, phase, todo, rows, stalls>> BY DEF Fenced, Created
<1> HIDE DEF a
<1> PICK b \in {NoActor, a} : actor' = [actor EXCEPT ![p][r] = b] BY <1>3
<1>5. actor' \in [Proc -> [Run -> Actor \cup {NoActor}]]
  <2>1. b \in Actor \cup {NoActor} BY <1>2
  <2>2. actor \in [Proc -> [Run -> Actor \cup {NoActor}]] BY DEF OwnershipInv, TypeOK
  <2> HIDE DEF Actor, NoActor
  <2> QED BY <2>1, <2>2
<1>6. \A q \in Proc, x \in Run :
        \/ actor'[q][x] = actor[q][x]
        \/ actor'[q][x] = NoActor
        \/ actor'[q][x].epoch = actor[q][x].epoch /\ Decides(q, x)
  <2>1. actor \in [Proc -> [Run -> Actor \cup {NoActor}]] BY DEF OwnershipInv, TypeOK
  <2> HIDE DEF Actor, NoActor
  <2>2. actor'[p][r] = b BY <2>1
  <2>3. \A q \in Proc, x \in Run : q # p \/ x # r => actor'[q][x] = actor[q][x] BY <2>1
  <2>4. Decides(p, r) BY <1>1 DEF Decides
  <2> QED BY <1>2, <2>2, <2>3, <2>4
<1>7. lock' \in [by : Proc \cup {NoProc}, fresh : BOOLEAN]
  BY <1>4 DEF OwnershipInv, TypeOK
<1>8. phase' \in [Proc -> {"off", "recovering", "up", "stopped", "dead"}]
  BY <1>4 DEF OwnershipInv, TypeOK
<1> QED BY <1>4, <1>5, <1>6, <1>7, <1>8, ActorsOwned

LEMMA RenewOwned ==
  ASSUME OwnershipInv, NEW p \in Proc, RenewHeld(p) PROVE OwnershipInv'
<1> DEFINE a == [r \in Run |->
                   IF actor[p][r].is = "live" /\ owner[r] # [by |-> p, epoch |-> actor[p][r].epoch]
                     THEN [actor[p][r] EXCEPT !.is = "retired"] ELSE actor[p][r]]
<1>1. \A r \in Run : \/ a[r] = actor[p][r]
                      \/ /\ a[r] \in Actor /\ a[r].epoch = actor[p][r].epoch
                         /\ actor[p][r].is = "live"
  BY DEF OwnershipInv, TypeOK
<1>2. a \in [Run -> Actor \cup {NoActor}] BY DEF OwnershipInv, TypeOK
<1>3. actor' = [actor EXCEPT ![p] = a] /\ UNCHANGED <<phase, todo, rows, stalls>>
  BY DEF RenewHeld
<1> HIDE DEF a
<1>4. actor' \in [Proc -> [Run -> Actor \cup {NoActor}]] BY <1>2, <1>3 DEF OwnershipInv, TypeOK
<1>5. \A q \in Proc, x \in Run :
        \/ actor'[q][x] = actor[q][x]
        \/ actor'[q][x].epoch = actor[q][x].epoch /\ Decides(q, x)
  BY <1>1, <1>3 DEF OwnershipInv, TypeOK, Decides
<1>6. lock' \in [by : Proc \cup {NoProc}, fresh : BOOLEAN]
  BY DEF RenewHeld, OwnershipInv, TypeOK
<1>7. phase' \in [Proc -> {"off", "recovering", "up", "stopped", "dead"}]
  BY <1>3 DEF OwnershipInv, TypeOK
<1> QED BY <1>3, <1>4, <1>5, <1>6, <1>7, ActorsOwned

LEMMA LeaveOwned ==
  ASSUME OwnershipInv, NEW p \in Proc, RenewLost(p) \/ Stop(p) \/ Crash(p)
  PROVE  OwnershipInv'
<1>1. \E a \in [Run -> Actor \cup {NoActor}] :
        /\ \A r \in Run : a[r] \in {actor[p][r], NoActor}
        /\ actor' = [actor EXCEPT ![p] = a]
  <2> DEFINE a == [r \in Run |-> IF actor[p][r].is = "creating" THEN actor[p][r] ELSE NoActor]
             b == [r \in Run |-> NoActor]
  <2>1. a \in [Run -> Actor \cup {NoActor}] /\ b \in [Run -> Actor \cup {NoActor}]
    BY DEF OwnershipInv, TypeOK
  <2>2. actor' = [actor EXCEPT ![p] = a] \/ actor' = [actor EXCEPT ![p] = b]
    BY DEF RenewLost, Stop, Crash, Leave
  <2>3. \A r \in Run : a[r] \in {actor[p][r], NoActor} /\ b[r] \in {actor[p][r], NoActor}
    OBVIOUS
  <2> HIDE DEF a, b
  <2> QED BY <2>1, <2>2, <2>3
<1>2. /\ lock' \in [by : Proc \cup {NoProc}, fresh : BOOLEAN]
      /\ phase' \in [Proc -> {"off", "recovering", "up", "stopped", "dead"}]
      /\ UNCHANGED <<todo, rows, stalls>>
  <2>1. lock \in [by : Proc \cup {NoProc}, fresh : BOOLEAN]
        /\ phase \in [Proc -> {"off", "recovering", "up", "stopped", "dead"}]
    BY DEF OwnershipInv, TypeOK
  <2>2. CASE RenewLost(p) BY <2>1, <2>2 DEF RenewLost
  <2>3. CASE Stop(p) BY <2>1, <2>3 DEF Stop
  <2>4. CASE Crash(p) BY <2>1, <2>4 DEF Crash
  <2> QED BY <2>2, <2>3, <2>4
<1>3. /\ actor' \in [Proc -> [Run -> Actor \cup {NoActor}]]
      /\ \A q \in Proc, x \in Run : actor'[q][x] \in {actor[q][x], NoActor}
  BY <1>1 DEF OwnershipInv, TypeOK
<1> QED BY <1>2, <1>3, ActorsOwned

LEMMA LockOwned ==
  ASSUME OwnershipInv, Abandoned \/ Stall \/ \E p \in Proc : Start(p) \/ Recovered(p)
  PROVE  OwnershipInv'
<1>1. TypeOK'
  <2>1. CASE Abandoned BY <2>1 DEF Abandoned, OwnershipInv, TypeOK, rows
  <2>2. CASE Stall
    <3>1. stalls' \in Nat BY <2>2 DEF Stall, OwnershipInv, TypeOK
    <3>2. lock' \in [by : Proc \cup {NoProc}, fresh : BOOLEAN]
      BY <2>2 DEF Stall, OwnershipInv, TypeOK
    <3>3. UNCHANGED <<phase, todo, run, owner, wrote, actor>> BY <2>2 DEF Stall, rows
    <3> QED BY <3>1, <3>2, <3>3 DEF OwnershipInv, TypeOK
  <2>3. ASSUME NEW p \in Proc, Start(p) PROVE TypeOK'
    <3>1. [by |-> p, fresh |-> TRUE] \in [by : Proc \cup {NoProc}, fresh : BOOLEAN] OBVIOUS
    <3>2. {r \in Run : run[r] = "live"} \in SUBSET Run OBVIOUS
    <3> QED BY <2>3, <3>1, <3>2 DEF Start, OwnershipInv, TypeOK, rows
  <2>4. ASSUME NEW p \in Proc, Recovered(p) PROVE TypeOK'
    BY <2>4 DEF Recovered, OwnershipInv, TypeOK, rows
  <2> QED BY <2>1, <2>2, <2>3, <2>4
<1>2. UNCHANGED <<rows, actor>> BY DEF Abandoned, Stall, Start, Recovered
<1> QED BY <1>1, <1>2 DEF OwnershipInv, Behind, Named, OverIsFinal, Current, Decides, rows

\* Every step keeps the invariant.
LEMMA StepOwned == OwnershipInv /\ [Next]_vars => OwnershipInv'
<1> SUFFICES ASSUME OwnershipInv, [Next]_vars PROVE OwnershipInv' OBVIOUS
<1>1. CASE UNCHANGED vars
  BY <1>1 DEF vars, OwnershipInv, TypeOK, Behind, Named, OverIsFinal, Current, Decides
<1>2. CASE Abandoned \/ Stall BY <1>2, LockOwned
<1>3. ASSUME NEW p \in Proc, Engine(p) \/ Stop(p) \/ Crash(p) PROVE OwnershipInv'
  BY <1>3, CreateOwned, RecoverOwned, WriteOwned, MessageOwned, RenewOwned, LeaveOwned, LockOwned
     DEF Engine
<1> QED BY <1>1, <1>2, <1>3 DEF Next

\* The rows, the locks and the actors keep their types.
THEOREM Typed == Spec => []TypeOK
<1>1. OwnershipInv => TypeOK BY DEF OwnershipInv
<1> QED BY InitOwned, StepOwned, <1>1, PTL DEF Spec

\* At most one actor of a run passes the fence, and the row names its process
\* (claimRunOwnership, RunStore.apply).
THEOREM SingleWriter == Spec => []OneWriter
<1>1. OwnershipInv => OneWriter
  BY DEF OwnershipInv, OneWriter, Named, Current, Decides
<1> QED BY InitOwned, StepOwned, <1>1, PTL DEF Spec

\* No process has an actor that could write a run that is over (onTerminal).
THEOREM OverStays == Spec => []OverIsFinal
<1>1. OwnershipInv => OverIsFinal BY DEF OwnershipInv
<1> QED BY InitOwned, StepOwned, <1>1, PTL DEF Spec

\* A batch after another process's is a later claim's: only Write writes, at the
\* epoch of the row, and the row's epoch is the last writer's or a later one.
THEOREM OrderedWrites == Spec => WritesInOrder
<1> DEFINE Ordered == \A r \in Run : wrote'[r] # wrote[r] => wrote'[r].epoch > wrote[r].epoch
<1>1. ASSUME OwnershipInv, [Next]_vars PROVE [Ordered]_vars
  <2>1. CASE wrote' = wrote BY <2>1
  <2>2. ASSUME NEW p \in Proc, NEW r \in Run, NEW next \in {"live", "over"}, Write(p, r, next)
        PROVE  Ordered
    <3>1. /\ wrote' = [wrote EXCEPT ![r] = [by |-> p, epoch |-> owner[r].epoch]]
          /\ owner[r].by = p
      BY <1>1, <2>2 DEF Write, Current, Decides, OwnershipInv, TypeOK, Named
    <3>2. /\ wrote[r] \in Owner /\ owner[r].epoch \in Nat /\ wrote \in [Run -> Owner]
          /\ wrote[r].epoch <= owner[r].epoch
          /\ wrote[r].epoch = owner[r].epoch => wrote[r].by = p
      BY <1>1, <3>1 DEF OwnershipInv, TypeOK, Behind, Named
    <3>3. wrote[r].epoch = owner[r].epoch => wrote'[r] = wrote[r] BY <3>1, <3>2
    <3> QED BY <3>1, <3>2, <3>3
  <2> QED
    BY <1>1, <2>1, <2>2
       DEF Next, Engine, Start, Create, Recover, Recovered, Created, Fenced, RenewHeld, RenewLost,
           Stop, Crash, Abandoned, Stall, rows, vars
<1>2. OwnershipInv /\ [Next]_vars => [Ordered]_vars BY <1>1
<1> QED BY InitOwned, StepOwned, <1>2, PTL DEF Spec, WritesInOrder

=============================================================================
