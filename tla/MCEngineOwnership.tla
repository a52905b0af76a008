-------------------------- MODULE MCEngineOwnership --------------------------
(* Three boots over one run: enough for a holder, one that has lost the lock   *)
(* and does not know, and one that comes after both.                            *)
EXTENDS EngineOwnership, TLC

CONSTANTS p1, p2, p3, r1

Boots == {p1, p2, p3}
OneRun == {r1}

=============================================================================
