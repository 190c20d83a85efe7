--------------------------- MODULE MCParallelVector ---------------------------
(* Small layouts for ParallelVector. *)
EXTENDS ParallelVector, TLC

CONSTANTS
    p, q, r,    \* processes
    i, j        \* dofs

VectorSymmetry == Permutations(Vectors)

\* One dof with two slaves, and one that is not shared, mastered by a process
\* that has a slave of the other.
StarMaster == i :> p @@ j :> q
StarSlaves == i :> {q, r} @@ j :> {}

\* Two processes that share i.
PairSlaves == i :> {q} @@ j :> {}

\* Entries that no storage type but additive describes.
Uneven ==
    {e \in Entries(Inputs) : e[i][p] # e[i][q] /\ e[j][q] = 1
                             /\ \A s \in Procs \ {p, q} : e[i][s] = 1}
==============================================================================
