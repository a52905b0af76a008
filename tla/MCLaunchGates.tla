---------------------------- MODULE MCLaunchGates ----------------------------
(* Small runs for LaunchGates: a writer, an isolated stage, a stage that hands  *)
(* its mounts to a child run, and two maps; two mounts, two flow keys.          *)
EXTENDS LaunchGates

CONSTANTS w1, i1, p1, m1, m2, chat1, mnt, mnt2, Global, Provider

OwnersOf == Stages \cup Maps
StyleOf == [s \in Stages |-> CASE s = w1 -> "writer"
                              [] s = i1 -> "isolated"
                              [] OTHER -> "inherit"]
Overlapping == [a \in OwnersOf |-> IF a \in {i1, m1} THEN Mount ELSE {mnt}]
Flows == [a \in Stages \cup Chats |-> IF a \in Chats THEN {Provider}
                                      ELSE IF a = p1 THEN {} ELSE Flow]
CallersOf == Launch \cup Chats
RequestsOf == {WriteOf(l) : l \in Launch} \cup {MergeOf(a) : a \in OwnersOf}
                \cup {SnapshotOf(m) : m \in Maps}
Either == {[k \in Flow |-> n] : n \in {1, 2}}
One == {[k \in Flow |-> 1]}

=============================================================================
