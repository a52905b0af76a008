----------------------------- MODULE MCDelivery -----------------------------
(* Small instances of Delivery: the events of the bridge are deltas and items. *)
EXTENDS Delivery, TLC

CONSTANTS a, b, d1, d2, item

Events == RunEvents \cup Bridge
DeltasOf == Bridge \cap {d1, d2}

\* Nothing tells one client from the other, or one delta.
Alike == Permutations(Client) \cup Permutations({d1, d2})

=============================================================================
