---------------------------- MODULE GreedyColouring ----------------------------
(***************************************************************************)
(* What ParallelColoring promises: the greedy colouring of the process     *)
(* graph in the order of decreasing weight.  A process may choose as soon  *)
(* as all its heavier neighbours have chosen, so the result does not       *)
(* depend on the order in which the processes get there.                   *)
(***************************************************************************)
EXTENDS Integers, FiniteSets, FiniteSetsExt

CONSTANTS
    Procs,      \* the ranks
    Graphs      \* the neighbourhoods: symmetric, no process its own neighbour

IsProcessGraph(g) ==
    /\ g \in [Procs -> SUBSET Procs]
    /\ \A p, q \in Procs : q \in g[p] => p \in g[q] /\ p # q

ASSUME ProcsAssumption == Procs \subseteq Nat /\ IsFiniteSet(Procs)
ASSUME GraphsAssumption == \A g \in Graphs : IsProcessGraph(g)

VARIABLES
    graph,      \* the neighbours of each process
    colour      \* the colour of a process, -1 until it has chosen one

vars == <<graph, colour>>

\* A neighbour with more neighbours is heavier; ranks break ties.
IsHeavier(p, degP, q, degQ) == degP < degQ \/ (degP = degQ /\ p < q)

Heavier(g, p) ==
    {q \in g[p] : IsHeavier(p, Cardinality(g[p]), q, Cardinality(g[q]))}

\* Mutant: a new colour is introduced even when there is a gap.
AlwaysNewColour(C) == 1 + Max(C \cup {-1})

\* The scan over the sorted colours of the heavier neighbours stops at the
\* first one whose successor is not among them, starting from the guess -1.
FreeColour(C) == 1 + Min({c \in C \cup {-1} : c + 1 \notin C})

Init ==
    /\ graph \in Graphs
    /\ colour = [p \in Procs |-> -1]

Choose(p) ==
    /\ colour[p] = -1
    /\ \A q \in Heavier(graph, p) : colour[q] # -1
    /\ colour' = [colour EXCEPT ![p] = FreeColour({colour[q] : q \in Heavier(graph, p)})]
    /\ UNCHANGED graph

Next == \E p \in Procs : Choose(p)

Safety == Init /\ [][Next]_vars

Spec == Safety /\ \A p \in Procs : WF_vars(Choose(p))
==============================================================================
