-------------------------- MODULE MCParallelColoring --------------------------
(* All process graphs on four ranks, and some on five. *)
EXTENDS ParallelColoring

FourGraphs ==
    LET Edges == {E \in SUBSET (Procs \ {4}) : Cardinality(E) = 2}
    IN  {[p \in Procs |-> {q \in Procs \ {p} : {p, q} \in F}] : F \in SUBSET Edges}

\* A ring, a star and a ring with a chord.
Ring(n)  == [p \in Procs |-> {(p + 1) % n, (p + n - 1) % n}]
Star     == [p \in Procs |-> IF p = 0 THEN Procs \ {0} ELSE {0}]
Chord(n) == [Ring(n) EXCEPT ![0] = @ \cup {2}, ![2] = @ \cup {0}]

SmallGraphs == FourGraphs \cup {Ring(5), Star, Chord(5)}
==============================================================================
