---------------------------- MODULE MCMessageHub ----------------------------
(* A small hub for MessageHub. *)
EXTENDS MessageHub, TLC

CONSTANTS r1, r2, r3

Three == {r1, r2, r3}
Alike == Permutations(Three)
TwoTypes == {"creation", "adaption"}
==============================================================================
