--------------------------- MODULE ParallelColoring ---------------------------
(***************************************************************************)
(* ParallelColoring::color() on every process: neighbours exchange their   *)
(* degrees, every process waits for the colours of its heavier neighbours, *)
(* takes the smallest colour none of them has, sends it to all neighbours  *)
(* and finally receives the colours of the lighter ones.                   *)
(*                                                                         *)
(* Messages of an edge do not overtake each other and all sizes are known, *)
(* so the k-th message of an edge meets the k-th receive posted for it; the *)
(* first is a degree, the second a colour.  A step of a process runs from  *)
(* one blocking wait of communicate() to the next.                         *)
(***************************************************************************)
EXTENDS GreedyColouring, Sequences

VARIABLES
    step,           \* which communicate() a process is waiting in
    sent,           \* the values sent from p to q
    asked,          \* the number of receives q has posted for p
    lowerColour,    \* *p_processesWithLowerColor
    higherColour    \* *p_processesWithHigherColor

colVars == <<graph, step, sent, asked, colour, lowerColour, higherColour>>

Steps == {"start", "degrees", "heavier", "sending", "lighter", "done"}

ColInit ==
    /\ graph \in Graphs
    /\ step = [p \in Procs |-> "start"]
    /\ sent = [p \in Procs |-> [q \in Procs |-> <<>>]]
    /\ asked = [p \in Procs |-> [q \in Procs |-> 0]]
    /\ colour = [p \in Procs |-> -1]
    /\ lowerColour = [p \in Procs |-> {}]
    /\ higherColour = [p \in Procs |-> {}]

\* send_raw(q, value) for every q in Q; receive_raw(q) for every q in Q.
SendAll(p, Q, value) ==
    sent' = [sent EXCEPT ![p] = [q \in Procs |->
                IF q \in Q THEN Append(@[q], value) ELSE @[q]]]

AskAll(p, Q) ==
    asked' = [q \in Procs |-> [asked[q] EXCEPT ![p] = IF q \in Q THEN @ + 1 ELSE @]]

\* The requests of p may be complete: what it asked for was sent.  Its sends are
\* standard sends, which MPI may complete before they are received.
RequestsDone(p) == \A q \in Procs : asked[q][p] <= Len(sent[q][p])

\* MPI has no choice but to complete the sends of p.
SendsAwaited(p) == \A q \in Procs : Len(sent[p][q]) <= asked[p][q]

\* Mutant: ties are not broken by rank.
HeavierByDegreeOnly(p) == {q \in graph[p] : Cardinality(graph[p]) < sent[q][p][1]}

\* processesWithHigherWeight and processesWithLowerWeight, from the degrees
\* that were received.
HeavierHeard(p) ==
    {q \in graph[p] : IsHeavier(p, Cardinality(graph[p]), q, sent[q][p][1])}

LighterHeard(p) == graph[p] \ HeavierHeard(p)

\* Step 1: the number of neighbours to every neighbour.
SendDegrees(p) ==
    /\ step[p] = "start"
    /\ SendAll(p, graph[p], Cardinality(graph[p]))
    /\ AskAll(p, graph[p])
    /\ step' = [step EXCEPT ![p] = "degrees"]
    /\ UNCHANGED <<graph, colour, lowerColour, higherColour>>

\* Step 2: wait for the colours of the heavier neighbours, if there are any.
AskHeavier(p) ==
    /\ step[p] = "degrees"
    /\ RequestsDone(p)
    /\ HeavierHeard(p) # {}
    /\ AskAll(p, HeavierHeard(p))
    /\ step' = [step EXCEPT ![p] = "heavier"]
    /\ UNCHANGED <<graph, sent, colour, lowerColour, higherColour>>

\* Steps 3 and 4 without heavier neighbours: the colour is 0.
TakeFirstColour(p) ==
    /\ step[p] = "degrees"
    /\ RequestsDone(p)
    /\ HeavierHeard(p) = {}
    /\ colour' = [colour EXCEPT ![p] = 0]
    /\ SendAll(p, graph[p], 0)
    /\ step' = [step EXCEPT ![p] = "sending"]
    /\ UNCHANGED <<graph, asked, lowerColour, higherColour>>

\* Mutant: a colour is only sent to those who wait for it.
TakeFreeColourForLighter(p) ==
    LET heard == [q \in HeavierHeard(p) |-> sent[q][p][2]]
        mine  == FreeColour({heard[q] : q \in HeavierHeard(p)})
    IN  /\ step[p] = "heavier"
        /\ RequestsDone(p)
        /\ colour' = [colour EXCEPT ![p] = mine]
        /\ lowerColour' = [lowerColour EXCEPT ![p] =
               {q \in HeavierHeard(p) : heard[q] < mine}]
        /\ higherColour' = [higherColour EXCEPT ![p] =
               {q \in HeavierHeard(p) : heard[q] > mine}]
        /\ SendAll(p, LighterHeard(p), mine)
        /\ step' = [step EXCEPT ![p] = "sending"]
        /\ UNCHANGED <<graph, asked>>

\* Steps 3 and 4 with heavier neighbours: the smallest free colour.  The lists
\* of the caller are cleared here and filled with the heavier neighbours.
TakeFreeColour(p) ==
    LET heard == [q \in HeavierHeard(p) |-> sent[q][p][2]]
        mine  == FreeColour({heard[q] : q \in HeavierHeard(p)})
    IN  /\ step[p] = "heavier"
        /\ RequestsDone(p)
        /\ colour' = [colour EXCEPT ![p] = mine]
        /\ lowerColour' = [lowerColour EXCEPT ![p] =
               {q \in HeavierHeard(p) : heard[q] < mine}]
        /\ higherColour' = [higherColour EXCEPT ![p] =
               {q \in HeavierHeard(p) : heard[q] > mine}]
        /\ SendAll(p, graph[p], mine)
        /\ step' = [step EXCEPT ![p] = "sending"]
        /\ UNCHANGED <<graph, asked>>

\* Step 5: wait for the colours of the lighter neighbours, if there are any.
AskLighter(p) ==
    /\ step[p] = "sending"
    /\ RequestsDone(p)
    /\ LighterHeard(p) # {}
    /\ AskAll(p, LighterHeard(p))
    /\ step' = [step EXCEPT ![p] = "lighter"]
    /\ UNCHANGED <<graph, sent, colour, lowerColour, higherColour>>

ReturnWithoutLighter(p) ==
    /\ step[p] = "sending"
    /\ RequestsDone(p)
    /\ LighterHeard(p) = {}
    /\ step' = [step EXCEPT ![p] = "done"]
    /\ UNCHANGED <<graph, sent, asked, colour, lowerColour, higherColour>>

\* Mutant: the lists of the caller are cleared again.
ReturnClears(p) ==
    /\ step[p] = "lighter"
    /\ RequestsDone(p)
    /\ lowerColour' = [lowerColour EXCEPT ![p] =
           {q \in LighterHeard(p) : sent[q][p][2] < colour[p]}]
    /\ higherColour' = [higherColour EXCEPT ![p] =
           {q \in LighterHeard(p) : sent[q][p][2] > colour[p]}]
    /\ step' = [step EXCEPT ![p] = "done"]
    /\ UNCHANGED <<graph, sent, asked, colour>>

\* The lighter neighbours are added to the lists of the caller.
Return(p) ==
    /\ step[p] = "lighter"
    /\ RequestsDone(p)
    /\ lowerColour' = [lowerColour EXCEPT ![p] =
           @ \cup {q \in LighterHeard(p) : sent[q][p][2] < colour[p]}]
    /\ higherColour' = [higherColour EXCEPT ![p] =
           @ \cup {q \in LighterHeard(p) : sent[q][p][2] > colour[p]}]
    /\ step' = [step EXCEPT ![p] = "done"]
    /\ UNCHANGED <<graph, sent, asked, colour>>

ColStep(p) ==
    \/ SendDegrees(p)
    \/ AskHeavier(p)
    \/ TakeFirstColour(p)
    \/ TakeFreeColour(p)
    \/ AskLighter(p)
    \/ ReturnWithoutLighter(p)
    \/ Return(p)

AllDone == \A p \in Procs : step[p] = "done"

ColNext ==
    \/ \E p \in Procs : ColStep(p)
    \/ AllDone /\ UNCHANGED colVars

ColSpec == ColInit /\ [][ColNext]_colVars

\* A process returns from MPI_Waitall and runs on once all it sent is received;
\* that a send completes earlier is never relied on.
FairColSpec == ColSpec /\ \A p \in Procs : WF_colVars(SendsAwaited(p) /\ ColStep(p))
------------------------------------------------------------------------------
(* Properties *)

ColTypeOK ==
    /\ graph \in Graphs
    /\ step \in [Procs -> Steps]
    /\ sent \in [Procs -> [Procs -> Seq(Nat)]]
    /\ asked \in [Procs -> [Procs -> Nat]]
    /\ colour \in [Procs -> Nat \cup {-1}]
    /\ lowerColour \in [Procs -> SUBSET Procs]
    /\ higherColour \in [Procs -> SUBSET Procs]

\* No two neighbours that have chosen a colour have chosen the same one, at any
\* time and whatever the order in which messages arrive.
ProperColouring ==
    \A p \in Procs : \A q \in graph[p] :
        colour[p] # -1 /\ colour[q] # -1 => colour[p] # colour[q]

\* A colour is never larger than the number of heavier neighbours, so the number
\* of colours does not exceed the largest degree by more than one.
FewColours == \A p \in Procs : colour[p] <= Cardinality(Heavier(graph, p))

\* When color() has returned, the two lists it filled split the neighbours into
\* those of lower and those of higher colour.
ListsSplitNeighbours ==
    \A p \in Procs : step[p] = "done" =>
        /\ lowerColour[p] = {q \in graph[p] : colour[q] < colour[p]}
        /\ higherColour[p] = {q \in graph[p] : colour[q] > colour[p]}
        /\ lowerColour[p] \cup higherColour[p] = graph[p]

\* color() returns on every process, even if no send completes before the
\* matching receive is posted.
ColouringTerminates == <>AllDone

\* The protocol computes the greedy colouring in the order of the weights.
Greedy == INSTANCE GreedyColouring

ImplementsGreedyColouring == Greedy!Spec
------------------------------------------------------------------------------
(* The inductive invariant behind ProperColouring *)

\* The number of messages a process has sent to each neighbour.
Reached(p) ==
    IF step[p] = "start" THEN 0
    ELSE IF step[p] \in {"degrees", "heavier"} THEN 1 ELSE 2

\* The number of receives it has posted for its neighbour q.
Awaited(p, q) ==
    IF step[p] = "start" THEN 0
    ELSE IF step[p] = "degrees" THEN 1
    ELSE IF q \in Heavier(graph, p) \/ step[p] \in {"lighter", "done"} THEN 2 ELSE 1

FollowsStep(p) ==
    /\ colour[p] # -1 <=> Reached(p) = 2
    /\ \A q \in graph[p] :
           /\ Len(sent[p][q]) = Reached(p)
           /\ Reached(p) >= 1 => sent[p][q][1] = Cardinality(graph[p])
           /\ Reached(p) = 2 => sent[p][q][2] = colour[p]
           /\ asked[q][p] = Awaited(p, q)

\* What a process has sent, what it has asked for and whether it has a colour
\* all follow from the step it has reached.
MessagesFollowSteps == \A p \in Procs : FollowsStep(p)

\* Past step 1 a process has been sent the degree of every neighbour.
HeardDegrees(p) ==
    step[p] \notin {"start", "degrees"} => \A q \in graph[p] : Reached(q) >= 1

\* A process chooses after all heavier neighbours, and takes the free colour.
GreedyChoice(p) ==
    colour[p] # -1 =>
        /\ \A q \in Heavier(graph, p) : colour[q] # -1
        /\ colour[p] = FreeColour({colour[q] : q \in Heavier(graph, p)})

\* Every choice is the one the greedy colouring prescribes, made from the final
\* colours of all heavier neighbours.
ChoicesAreGreedy == \A p \in Procs : HeardDegrees(p) /\ GreedyChoice(p)
==============================================================================
