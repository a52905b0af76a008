------------------------ MODULE ReadinessPass_proofs ------------------------
(* The statuses a readiness pass ends with are a resolution of those it found,  *)
(* for every workflow, every order of its stages and every status.  What a      *)
(* stage was decided by stays true because nothing that ended moves again       *)
(* (Sound); what a sweep left alone stays undecided until the sweep changes     *)
(* something (Swept); and the losers of a join stay the losers of the join that *)
(* ends it in its turn (Lost, LostBoth).                                        *)
EXTENDS ReadinessPass, TLAPS

\* A join of the pass went on, and its losers are s's company.
Lost(s) ==
  \E j \in Stages : /\ from[j] = "pending" /\ st[j] = "ready"
                    /\ CancelsRest(j) /\ s \in ExclusiveLosers(j)

\* s was decided by predecessors that had ended.
Saw(s) ==
  \E unseen \in SUBSET {e.from : e \in In(s)} :
    /\ \A p \in unseen : from[p] \notin TerminalStage
    /\ \A e \in In(s) : e.from \notin unseen => st[e.from] \in TerminalStage
    /\ st[s] = Verdict(s, Before(st, unseen), As)

Sound(s) ==
  \/ st[s] = from[s]
  \/ st[s] = "cancelled" /\ from[s] \notin TerminalStage /\ Lost(s)
  \/ from[s] = "pending" /\ st[s] \in {"ready", "skipped", "failed"} /\ Saw(s)

RacesOver ==
  \A j \in Stages : from[j] = "pending" /\ st[j] = "ready" /\ CancelsRest(j) =>
    \A s \in ExclusiveLosers(j) : st[s] \in TerminalStage

Swept ==
  ~changed => \A s \in Stages : s < at /\ st[s] = "pending" => Verdict(s, st, As) = "pending"

PassInv == TypeOK /\ (\A s \in Stages : Sound(s)) /\ RacesOver /\ Swept

-----------------------------------------------------------------------------
(* The graph.                                                                   *)

LEMMA EdgeEnds ==
  ASSUME NEW s \in Stages, NEW e \in In(s)
  PROVE  e \in Edges /\ e.from \in Stages /\ e.to = s
BY GraphAssumption DEF In, EdgeType

LEMMA Losers ==
  ASSUME NEW j, NEW s \in ExclusiveLosers(j)
  PROVE  s \in Stages /\ s # j
BY DEF ExclusiveLosers

\* Who leads only into a loser of k is a loser of k.
LEMMA LostBoth ==
  ASSUME NEW j, NEW k, j \in ExclusiveLosers(k), NEW s \in ExclusiveLosers(j), s # k
  PROVE  s \in ExclusiveLosers(k)
<1>1. PICK X \in SUBSET (Stages \ {j}) :
        s \in X /\ \A m \in X : Out(m) # {} /\ \A e \in Out(m) : e.to \in X \cup {j}
  BY DEF ExclusiveLosers
<1>2. PICK Y \in SUBSET (Stages \ {k}) :
        j \in Y /\ \A m \in Y : Out(m) # {} /\ \A e \in Out(m) : e.to \in Y \cup {k}
  BY DEF ExclusiveLosers
<1> DEFINE Z == (X \cup Y) \ {k}
<1>3. Z \in SUBSET (Stages \ {k}) /\ s \in Z BY <1>1, <1>2
<1>4. ASSUME NEW m \in Z PROVE Out(m) # {} /\ \A e \in Out(m) : e.to \in Z \cup {k}
  <2>1. CASE m \in X BY <1>1, <1>2, <2>1
  <2>2. CASE m \in Y BY <1>2, <2>2
  <2> QED BY <2>1, <2>2
<1> HIDE DEF Z
<1> QED BY <1>3, <1>4 DEF ExclusiveLosers

\* A verdict depends on nothing but what the edges into the stage let through.
LEMMA SameVerdict ==
  ASSUME NEW s, NEW a, NEW b, \A e \in In(s) : PredState(e, a, As) = PredState(e, b, As)
  PROVE  Verdict(s, a, As) = Verdict(s, b, As)
<1>1. ASSUME NEW p
      PROVE  {e \in In(s) : PredState(e, a, As) = p} = {e \in In(s) : PredState(e, b, As) = p}
  OBVIOUS
<1> QED BY <1>1 DEF Verdict

LEMMA VerdictKinds ==
  ASSUME NEW s, NEW a PROVE Verdict(s, a, As) \in {"pending", "ready", "skipped", "failed"}
BY DEF Verdict

\* An edge shows the same of two statuses that agree on its source, or that both have it open.
LEMMA SamePred ==
  ASSUME NEW e, NEW a, NEW b,
         \/ a[e.from] = b[e.from]
         \/ a[e.from] \notin TerminalStage /\ b[e.from] \notin TerminalStage
  PROVE  PredState(e, a, As) = PredState(e, b, As)
<1>1. CASE a[e.from] = b[e.from] BY <1>1 DEF PredState, EdgeOnMatches, Completed
<1>2. CASE a[e.from] \notin TerminalStage /\ b[e.from] \notin TerminalStage BY <1>2 DEF PredState
<1> QED BY <1>1, <1>2

LEMMA Names ==
  /\ "pending" \notin TerminalStage /\ "ready" \notin TerminalStage
  /\ {"completed", "failed", "skipped", "cancelled"} = TerminalStage
  /\ {"pending", "ready", "skipped", "failed", "cancelled"} \subseteq StageState
BY DEF TerminalStage, StageState, Attempt

-----------------------------------------------------------------------------
(* A step.                                                                      *)

LEMMA StillOpen ==
  ASSUME NEW s \in Stages, Sound(s)
  PROVE  /\ st[s] = "pending" => from[s] = "pending"
         /\ from[s] \in TerminalStage => st[s] = from[s]
         /\ st[s] \notin TerminalStage => from[s] \notin TerminalStage
BY Names DEF Sound

\* Nothing that has ended moves.
Ends == from' = from /\ \A s \in Stages : st[s] \in TerminalStage => st'[s] = st[s]

\* What is decided by the predecessors that have ended, and not by the others.
LEMMA SeesNow ==
  ASSUME \A s \in Stages : Sound(s), Ends, NEW s \in Stages, st'[s] = Verdict(s, st, As)
  PROVE  Saw(s)'
<1> DEFINE U == {p \in {e.from : e \in In(s)} : st[p] \notin TerminalStage}
<1>1. U \in SUBSET {e.from : e \in In(s)} OBVIOUS
<1>2. ASSUME NEW p \in U PROVE from'[p] \notin TerminalStage
  <2>1. p \in Stages /\ st[p] \notin TerminalStage BY EdgeEnds
  <2> QED BY <2>1, StillOpen DEF Ends
<1>3. ASSUME NEW e \in In(s), e.from \notin U PROVE st[e.from] \in TerminalStage /\ st'[e.from] = st[e.from]
  BY <1>3, EdgeEnds DEF Ends
<1>4. ASSUME NEW e \in In(s) PROVE PredState(e, st, As) = PredState(e, Before(st', U), As)
  <2>1. e.from \in Stages BY EdgeEnds
  <2>2. CASE e.from \in U
    <3>1. Before(st', U)[e.from] = "pending" /\ st[e.from] \notin TerminalStage BY <2>1, <2>2 DEF Before
    <3> QED BY <3>1, SamePred, Names
  <2>3. CASE e.from \notin U
    <3>1. Before(st', U)[e.from] = st[e.from] BY <1>3, <2>1, <2>3 DEF Before
    <3> QED BY <3>1, SamePred
  <2> QED BY <2>2, <2>3
<1> HIDE DEF U
<1>5. st'[s] = Verdict(s, Before(st', U), As) BY <1>4, SameVerdict
<1>6. \A e \in In(s) : e.from \notin U => st'[e.from] \in TerminalStage BY <1>3
<1> QED BY <1>1, <1>2, <1>5, <1>6 DEF Saw

LEMMA SawStays ==
  ASSUME Ends, NEW s \in Stages, Saw(s), st'[s] = st[s]
  PROVE  Saw(s)'
<1>1. PICK U \in SUBSET {e.from : e \in In(s)} :
        /\ \A p \in U : from[p] \notin TerminalStage
        /\ \A e \in In(s) : e.from \notin U => st[e.from] \in TerminalStage
        /\ st[s] = Verdict(s, Before(st, U), As)
  BY DEF Saw
<1>2. ASSUME NEW e \in In(s) PROVE PredState(e, Before(st, U), As) = PredState(e, Before(st', U), As)
  <2>1. e.from \in Stages BY EdgeEnds
  <2>2. Before(st, U)[e.from] = Before(st', U)[e.from] BY <1>1, <2>1 DEF Before, Ends
  <2> QED BY <2>2, SamePred
<1>3. st'[s] = Verdict(s, Before(st', U), As) BY <1>1, <1>2, SameVerdict
<1>4. \A e \in In(s) : e.from \notin U => st'[e.from] \in TerminalStage BY <1>1, EdgeEnds DEF Ends
<1>5. \A p \in U : from'[p] \notin TerminalStage BY <1>1 DEF Ends
<1> QED BY <1>1, <1>3, <1>4, <1>5 DEF Saw

\* A stage the step leaves alone.
LEMMA SoundStays ==
  ASSUME Ends, NEW s \in Stages, Sound(s), st'[s] = st[s], Lost(s) => Lost(s)'
  PROVE  Sound(s)'
<1>1. from'[s] = from[s] BY DEF Ends
<1>2. CASE st[s] = from[s] BY <1>1, <1>2 DEF Sound
<1>3. CASE st[s] = "cancelled" /\ from[s] \notin TerminalStage /\ Lost(s) BY <1>1, <1>3 DEF Sound
<1>4. CASE from[s] = "pending" /\ st[s] \in {"ready", "skipped", "failed"} /\ Saw(s)
  BY <1>1, <1>4, SawStays DEF Sound
<1> QED BY <1>2, <1>3, <1>4 DEF Sound

LEMMA BlockedKeeps == ASSUME PassInv, Visit, Blocked PROVE PassInv'
<1>1. UNCHANGED <<from, st, changed>> /\ at \in Stages /\ at' = at + 1
      /\ (st[at] = "pending" => Verdict(at, st, As) = "pending")
  BY DEF Visit, Blocked
<1>2. TypeOK' BY <1>1, GraphAssumption DEF PassInv, TypeOK, Stages
<1>3. \A s \in Stages : Sound(s)' BY <1>1 DEF PassInv, Sound, Lost, Saw
<1>4. RacesOver' BY <1>1 DEF PassInv, RacesOver
<1>5. Swept'
  <2> SUFFICES ASSUME ~changed, NEW s \in Stages, s < at + 1, st[s] = "pending"
               PROVE  Verdict(s, st, As) = "pending"
    BY <1>1 DEF Swept
  <2>1. s < at \/ s = at BY <1>1, GraphAssumption DEF Stages
  <2> QED BY <1>1, <2>1 DEF PassInv, Swept
<1> QED BY <1>2, <1>3, <1>4, <1>5 DEF PassInv

LEMMA AwaitsKeeps == ASSUME PassInv, Visit, AwaitsSummary PROVE PassInv'
<1>1. UNCHANGED <<from, st>> /\ at \in Stages /\ at' = at + 1 /\ changed' = TRUE
  BY DEF Visit, AwaitsSummary
<1>2. TypeOK' BY <1>1, GraphAssumption DEF PassInv, TypeOK, Stages
<1>3. \A s \in Stages : Sound(s)' BY <1>1 DEF PassInv, Sound, Lost, Saw
<1>4. RacesOver' BY <1>1 DEF PassInv, RacesOver
<1>5. Swept' BY <1>1 DEF Swept
<1> QED BY <1>2, <1>3, <1>4, <1>5 DEF PassInv

LEMMA AgainKeeps == ASSUME PassInv, Again PROVE PassInv'
<1>1. UNCHANGED <<from, st>> /\ at' = 1 /\ changed' = FALSE BY DEF Again
<1>2. TypeOK'
  <2>1. 1 \in 1 .. N + 1 BY GraphAssumption
  <2> QED BY <1>1, <2>1 DEF PassInv, TypeOK
<1>3. \A s \in Stages : Sound(s)' BY <1>1 DEF PassInv, Sound, Lost, Saw
<1>4. RacesOver' BY <1>1 DEF PassInv, RacesOver
<1>5. Swept' BY <1>1, GraphAssumption DEF Swept, Stages
<1> QED BY <1>2, <1>3, <1>4, <1>5 DEF PassInv

LEMMA ClosesKeeps == ASSUME PassInv, Visit, Closes PROVE PassInv'
<1>0. PICK k \in Stages : k = at BY DEF Visit
<1> DEFINE v == Verdict(k, st, As)
<1>1. /\ k \in Stages /\ at' = k + 1 /\ from' = from /\ changed' = TRUE
      /\ st[k] = "pending" /\ v \in {"skipped", "failed"} /\ st' = [st EXCEPT ![k] = v]
      /\ st \in [Stages -> StageState]
  BY <1>0 DEF Visit, Closes, PassInv, TypeOK
<1>2. st'[k] = v /\ \A s \in Stages : s # k => st'[s] = st[s] BY <1>1
<1>3. TypeOK'
  <2>1. v \in StageState BY <1>1, Names
  <2>2. at' \in 1 .. N + 1 BY <1>1, GraphAssumption DEF Stages
  <2> HIDE DEF v
  <2>3. st' \in [Stages -> StageState] BY <1>1, <2>1
  <2> QED BY <1>1, <2>2, <2>3 DEF PassInv, TypeOK
<1>4. Ends BY <1>1, <1>2, Names DEF Ends
<1>5. ASSUME NEW s \in Stages PROVE Sound(s)'
  <2>1. CASE s = k
    <3>1. Saw(k)' BY <1>1, <1>2, <1>4, SeesNow DEF PassInv
    <3>2. from'[k] = "pending" BY <1>1, StillOpen DEF PassInv
    <3> QED BY <1>1, <1>2, <2>1, <3>1, <3>2 DEF Sound
  <2>2. CASE s # k
    <3>1. Lost(s) => Lost(s)' BY <1>1, <1>2 DEF Lost
    <3> QED BY <1>2, <1>4, <2>2, <3>1, SoundStays DEF PassInv
  <2> QED BY <2>1, <2>2
<1>6. RacesOver'
  <2> SUFFICES ASSUME NEW j \in Stages, from'[j] = "pending", st'[j] = "ready", CancelsRest(j),
                      NEW s \in ExclusiveLosers(j)
               PROVE  st'[s] \in TerminalStage
    BY DEF RacesOver
  <2>1. j # k /\ st[j] = "ready" /\ from[j] = "pending" BY <1>1, <1>2
  <2>2. st[s] \in TerminalStage BY <2>1 DEF PassInv, RacesOver
  <2> QED BY <1>4, <2>2, Losers DEF Ends
<1>7. Swept' BY <1>1 DEF Swept
<1> QED BY <1>3, <1>5, <1>6, <1>7 DEF PassInv

LEMMA OpensKeeps == ASSUME PassInv, Visit, Opens PROVE PassInv'
<1>0. PICK k \in Stages : k = at BY DEF Visit
<1>1. /\ k \in Stages /\ at' = k + 1 /\ from' = from /\ changed' = TRUE
      /\ st[k] = "pending" /\ Verdict(k, st, As) = "ready" /\ st' = Opened(k)
      /\ st \in [Stages -> StageState]
  BY <1>0 DEF Visit, Opens, PassInv, TypeOK
<1>2. /\ st'[k] = "ready"
      /\ \A s \in Stages : s # k =>
           st'[s] = IF CancelsRest(k) /\ s \in ExclusiveLosers(k) /\ st[s] \notin TerminalStage
                      THEN "cancelled" ELSE st[s]
  BY <1>1 DEF Opened
<1>3. TypeOK'
  <2>1. at' \in 1 .. N + 1 BY <1>1, GraphAssumption DEF Stages
  <2>2. \A s \in Stages : st[s] \in StageState BY <1>1
  <2>3. st' \in [Stages -> StageState] BY <1>1, <2>2, Names DEF Opened
  <2> QED BY <1>1, <2>1, <2>3 DEF PassInv, TypeOK
<1>4. Ends BY <1>1, <1>2, Names DEF Ends
<1>5. from[k] = "pending" BY <1>1, StillOpen DEF PassInv
\* Whoever lost to a join that loses now has lost to the one that is opened.
<1>6. ASSUME NEW s \in Stages, st[s] = "cancelled", Lost(s) PROVE Lost(s)'
  <2>1. PICK j \in Stages : /\ from[j] = "pending" /\ st[j] = "ready"
                            /\ CancelsRest(j) /\ s \in ExclusiveLosers(j)
    BY <1>6 DEF Lost
  <2>2. j # k /\ s # k BY <1>1, <1>6, <2>1
  <2>3. CASE st'[j] = "ready" BY <1>4, <2>1, <2>3 DEF Lost, Ends
  <2>4. CASE st'[j] # "ready"
    <3>1. CancelsRest(k) /\ j \in ExclusiveLosers(k) BY <1>2, <2>1, <2>2, <2>4
    <3>2. s \in ExclusiveLosers(k) BY <2>1, <2>2, <3>1, LostBoth
    <3> QED BY <1>1, <1>2, <1>5, <3>1, <3>2 DEF Lost
  <2> QED BY <2>3, <2>4
<1>7. ASSUME NEW s \in Stages PROVE Sound(s)'
  <2>1. CASE s = k
    <3>1. Saw(k)' BY <1>1, <1>2, <1>4, SeesNow DEF PassInv
    <3> QED BY <1>1, <1>2, <1>5, <2>1, <3>1 DEF Sound
  <2>2. CASE s # k /\ st'[s] = st[s]
    <3>1. CASE st[s] = "cancelled" BY <1>4, <1>6, <2>2, <3>1, SoundStays DEF PassInv
    <3>2. CASE st[s] = from[s] BY <1>4, <2>2, <3>2 DEF Sound, Ends
    <3>3. CASE from[s] = "pending" /\ st[s] \in {"ready", "skipped", "failed"} /\ Saw(s)
      BY <1>4, <2>2, <3>3, SawStays DEF Sound, Ends
    <3> QED BY <3>1, <3>2, <3>3 DEF PassInv, Sound
  <2>3. CASE s # k /\ st'[s] # st[s]
    <3>1. /\ CancelsRest(k) /\ s \in ExclusiveLosers(k)
          /\ st[s] \notin TerminalStage /\ st'[s] = "cancelled"
      BY <1>2, <2>3
    <3>2. Lost(s)' BY <1>1, <1>2, <1>5, <3>1 DEF Lost
    <3>3. from'[s] \notin TerminalStage BY <1>1, <3>1, StillOpen DEF PassInv
    <3> QED BY <3>1, <3>2, <3>3 DEF Sound
  <2> QED BY <2>1, <2>2, <2>3
<1>8. RacesOver'
  <2> SUFFICES ASSUME NEW j \in Stages, from'[j] = "pending", st'[j] = "ready", CancelsRest(j),
                      NEW s \in ExclusiveLosers(j)
               PROVE  st'[s] \in TerminalStage
    BY DEF RacesOver
  <2>1. s \in Stages /\ s # j BY Losers
  <2>2. CASE j = k BY <1>2, <2>1, <2>2, Names
  <2>3. CASE j # k
    <3>1. st[j] = "ready" /\ from[j] = "pending" BY <1>1, <1>2, <2>3
    <3>2. st[s] \in TerminalStage BY <3>1 DEF PassInv, RacesOver
    <3> QED BY <1>4, <2>1, <3>2 DEF Ends
  <2> QED BY <2>2, <2>3
<1>9. Swept' BY <1>1 DEF Swept
<1> QED BY <1>3, <1>7, <1>8, <1>9 DEF PassInv

-----------------------------------------------------------------------------
LEMMA InitSound == ASSUME Init PROVE PassInv
<1>1. st = from /\ at = 1 /\ changed = FALSE /\ from \in [Stages -> StageState]
  BY PassAssumption DEF Init
<1>2. TypeOK
  <2>1. 1 \in 1 .. N + 1 BY GraphAssumption
  <2> QED BY <1>1, <2>1 DEF TypeOK
<1>3. \A s \in Stages : Sound(s) BY <1>1 DEF Sound
<1>4. RacesOver BY <1>1 DEF RacesOver
<1>5. Swept BY <1>1, GraphAssumption DEF Swept, Stages
<1> QED BY <1>2, <1>3, <1>4, <1>5 DEF PassInv

LEMMA StepKeeps == ASSUME PassInv, [Next]_vars PROVE PassInv'
<1>1. CASE Visit BY <1>1, BlockedKeeps, ClosesKeeps, AwaitsKeeps, OpensKeeps DEF Visit
<1>2. CASE Again BY <1>2, AgainKeeps
<1>3. CASE UNCHANGED vars
  <2>1. UNCHANGED <<from, st, at, changed>> BY <1>3 DEF vars
  <2>2. TypeOK' BY <2>1 DEF PassInv, TypeOK
  <2>3. \A s \in Stages : Sound(s)' BY <2>1 DEF PassInv, Sound, Lost, Saw
  <2>4. RacesOver' BY <2>1 DEF PassInv, RacesOver
  <2>5. Swept' BY <2>1 DEF PassInv, Swept
  <2> QED BY <2>2, <2>3, <2>4, <2>5 DEF PassInv
<1> QED BY <1>1, <1>2, <1>3 DEF Next

\* At the end of a pass each stage has one of the ends Resolves allows it.
LEMMA EndResolves == ASSUME PassInv, Done PROVE Resolves(from, st, As)
<1>1. ASSUME NEW s \in Stages, st[s] = "pending" PROVE Verdict(s, st, As) = "pending"
  <2>1. ~changed /\ s < at BY GraphAssumption DEF Done, Stages
  <2> QED BY <1>1, <2>1 DEF PassInv, Swept
<1>2. ASSUME NEW s \in Stages, from[s] = "pending", Sound(s), st[s] # "cancelled"
      PROVE  Judged(s, from, st, As)
  <2>1. CASE st[s] = "pending" BY <1>1, <2>1 DEF Judged
  <2>2. CASE st[s] # "pending"
    <3>1. Saw(s) BY <1>2, <2>2 DEF Sound
    <3> QED BY <2>2, <3>1 DEF Saw, Judged
  <2> QED BY <2>1, <2>2
<1>3. ASSUME NEW s \in Stages
      PROVE  IF from[s] \in TerminalStage THEN st[s] = from[s]
             ELSE IF Lost(s) THEN \/ st[s] = "cancelled"
                                  \/ /\ from[s] = "pending"
                                     /\ st[s] \in TerminalStage
                                     /\ Judged(s, from, st, As)
             ELSE IF from[s] = "pending" THEN Judged(s, from, st, As)
             ELSE st[s] = from[s]
  <2>1. Sound(s) BY DEF PassInv
  <2>2. CASE from[s] \in TerminalStage BY <2>1, <2>2, StillOpen
  <2>3. CASE from[s] \notin TerminalStage /\ Lost(s)
    <3>1. st[s] \in TerminalStage BY <2>3 DEF PassInv, RacesOver, Lost
    <3>2. CASE st[s] = "cancelled" BY <2>3, <3>2
    <3>3. CASE st[s] # "cancelled"
      <4>1. from[s] = "pending" BY <2>1, <2>3, <3>1, <3>3 DEF Sound
      <4> QED BY <1>2, <2>1, <2>3, <3>1, <3>3, <4>1
    <3> QED BY <3>2, <3>3
  <2>4. CASE from[s] \notin TerminalStage /\ ~Lost(s)
    <3>1. CASE from[s] = "pending"
      <4>1. st[s] # "cancelled" BY <2>1, <2>4, <3>1 DEF Sound
      <4> QED BY <1>2, <2>1, <2>4, <3>1, <4>1
    <3>2. CASE from[s] # "pending" BY <2>1, <2>4, <3>2 DEF Sound
    <3> QED BY <3>1, <3>2
  <2> QED BY <2>2, <2>3, <2>4
<1> QED BY <1>3 DEF Resolves, Lost

\* A pass moves pending stages and losers, and nothing else.
LEMMA EndIsWhole == ASSUME PassInv, Done PROVE st \in Resolutions(from, As)
<1> DEFINE Open == {s \in Stages : from[s] = "pending"}
           d == [s \in Open |-> st[s]]
           Whole(x) ==
             [s \in Stages |->
                IF s \in Open THEN x[s]
                ELSE IF /\ from[s] \notin TerminalStage
                        /\ \E j \in Open : x[j] = "ready" /\ CancelsRest(j) /\ s \in ExclusiveLosers(j)
                       THEN "cancelled" ELSE from[s]]
<1>1. d \in [Open -> {"pending", "ready", "skipped", "failed", "cancelled"}]
  <2>1. ASSUME NEW s \in Open PROVE st[s] \in {"pending", "ready", "skipped", "failed", "cancelled"}
    BY DEF PassInv, Sound
  <2> QED BY <2>1
<1>2. ASSUME NEW s \in Stages
      PROVE  st[s] = IF s \in Open THEN d[s]
                     ELSE IF /\ from[s] \notin TerminalStage
                             /\ \E j \in Open : d[j] = "ready" /\ CancelsRest(j) /\ s \in ExclusiveLosers(j)
                            THEN "cancelled" ELSE from[s]
  <2>1. Sound(s) BY DEF PassInv
  <2>2. (\E j \in Open : d[j] = "ready" /\ CancelsRest(j) /\ s \in ExclusiveLosers(j)) <=> Lost(s)
    BY DEF Lost
  <2>3. CASE s \in Open BY <2>3
  <2>4. CASE s \notin Open /\ from[s] \in TerminalStage BY <2>1, <2>4, StillOpen
  <2>5. CASE s \notin Open /\ from[s] \notin TerminalStage /\ Lost(s)
    <3>1. st[s] \in TerminalStage BY <2>5 DEF PassInv, RacesOver, Lost
    <3>2. st[s] = "cancelled" BY <2>1, <2>5, <3>1 DEF Sound
    <3> HIDE DEF d
    <3> QED BY <2>2, <2>5, <3>2
  <2>6. CASE s \notin Open /\ ~Lost(s)
    <3>1. st[s] = from[s] BY <2>1, <2>6 DEF Sound
    <3> HIDE DEF d
    <3> QED BY <2>2, <2>6, <3>1
  <2> HIDE DEF d
  <2> QED BY <2>3, <2>4, <2>5, <2>6
<1>3. st = Whole(d)
  <2>1. st \in [Stages -> StageState] BY DEF PassInv, TypeOK
  <2> HIDE DEF d
  <2>2. \A s \in Stages : st[s] = Whole(d)[s] BY <1>2
  <2> QED BY <2>1, <2>2
<1> HIDE DEF d
<1> QED BY <1>1, <1>3, EndResolves DEF Resolutions

\* Whatever the workflow, the order of its stages and what the pass finds, what it
\* leaves is a resolution: the step RunScheduler and its theorems take for a pass
\* (resolveReadiness, decide.ts:689-758).
THEOREM PassResolves == Spec => []Resolved
<1>1. Init => PassInv BY InitSound
<1>2. PassInv /\ [Next]_vars => PassInv' BY StepKeeps
<1>3. PassInv => Resolved BY EndIsWhole DEF Resolved
<1> QED BY <1>1, <1>2, <1>3, PTL DEF Spec

\* A pass that has ended has left no stage that waits for a summary to be written: it
\* decided every stage its join lets go on (decide.ts:747 comes after changed = true).
NoneReads == Done => \A s \in Stages : ~Reading(s)

\* So as long as a stage waits for its summary the pass has not ended, and in a pass
\* that waits nothing but that stage is left to decide, the loop of decide.ts:692 spins.
THEOREM EndedUnread == Spec => []NoneReads
<1>1. Init => PassInv BY InitSound
<1>2. PassInv /\ [Next]_vars => PassInv' BY StepKeeps
<1>3. PassInv => NoneReads
  <2> SUFFICES ASSUME PassInv, Done, NEW s \in Stages, Reading(s) PROVE FALSE BY DEF NoneReads
  <2>1. st[s] = "pending" /\ Verdict(s, st, As) = "ready" BY DEF Reading
  <2>2. ~changed /\ s < at BY GraphAssumption DEF Done, Stages
  <2> QED BY <2>1, <2>2 DEF PassInv, Swept
<1> QED BY <1>1, <1>2, <1>3, PTL DEF Spec

=============================================================================
