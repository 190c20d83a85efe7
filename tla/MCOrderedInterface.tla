-------------------------- MODULE MCOrderedInterface --------------------------
(* Two elements and two orders, with so few ids that the counter goes round. *)
EXTENDS OrderedInterface

Orders == {[e \in Elems |-> e], [e \in Elems |-> 3 - e]}
==============================================================================
