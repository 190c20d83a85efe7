------------------------ MODULE ParallelColoringProofs ------------------------
(***************************************************************************)
(* Theorems about ParallelColoring, for every finite process graph and     *)
(* whether or not MPI completes sends early: type correctness, that the    *)
(* colouring is proper at any time and uses few colours, and that every    *)
(* step of the protocol is a step of the greedy colouring or none.         *)
(***************************************************************************)
EXTENDS ParallelColoring, FiniteSetTheorems, TLAPS, SequenceTheorems

------------------------------------------------------------------------------
(* Sets of naturals *)

\* A non-empty set of naturals has a least element.
LEMMA LeastNat ==
    ASSUME NEW T \in SUBSET Nat, T # {}
    PROVE  \E m \in T : \A n \in T : m <= n
<1> DEFINE Less == {ss \in Nat \X Nat : ss[1] < ss[2]}
<1>1. IsWellFoundedOn(Less, Nat)
  BY NatLessThanWellFounded DEF OpToRel
<1>2. PICK m \in T : \A n \in T : <<n, m>> \notin Less
  <2> HIDE DEF Less
  <2> QED BY <1>1, WFMin
<1>3. \A n \in Nat : \A k \in Nat : <<n, k>> \notin Less => k <= n
  OBVIOUS
<1> QED BY <1>2, <1>3

\* A finite set of naturals leaves out one that is at most its cardinality.
LEMMA MissingNat ==
    ASSUME NEW C \in SUBSET Nat, IsFiniteSet(C)
    PROVE  \E k \in 0 .. Cardinality(C) : k \notin C
<1> DEFINE n == Cardinality(C)
<1>1. n \in Nat
  BY FS_CardinalityType
<1>2. Cardinality(0 .. n) = n + 1
  <2> HIDE DEF n
  <2>1. n \in Int /\ 0 \in Int /\ ~(0 > n)
    BY <1>1
  <2>2. Cardinality(0 .. n) = n - 0 + 1
    BY <2>1, FS_Interval
  <2> QED BY <1>1, <2>2
<1>3. SUFFICES ASSUME 0 .. n \subseteq C PROVE FALSE
  BY DEF n
<1>4. Cardinality(0 .. n) <= n
  BY <1>3, FS_Subset
<1> QED BY <1>1, <1>2, <1>4

------------------------------------------------------------------------------
(* The free colour *)

\* The scan finds a colour nobody among the heavier neighbours has, and none
\* larger than their number.
LEMMA FreeColourIsFree ==
    ASSUME NEW C \in SUBSET Nat, IsFiniteSet(C)
    PROVE  /\ FreeColour(C) \in Nat \ C
           /\ FreeColour(C) <= Cardinality(C)
<1> DEFINE T == Nat \ C
           stops == {c \in C \cup {-1} : c + 1 \notin C}
<1>1. PICK k \in 0 .. Cardinality(C) : k \notin C
  BY MissingNat
<1>2. Cardinality(C) \in Nat
  BY FS_CardinalityType
<1>3. k \in T
  BY <1>1, <1>2
<1>4. PICK m \in T : \A n \in T : m <= n
  BY <1>3, LeastNat
<1>5. m - 1 \in stops
  <2>1. CASE m = 0
    BY <1>4, <2>1
  <2>2. CASE m # 0
    <3>1. m - 1 \in Nat /\ ~(m <= m - 1)
      BY <1>4, <2>2
    <3>2. m - 1 \in C
      BY <1>4, <3>1
    <3> QED BY <1>4, <3>2
  <2> QED BY <2>1, <2>2
<1>6. \A c \in stops : m - 1 <= c
  <2> TAKE c \in stops
  <2>1. c + 1 \in T /\ c \in Int
    OBVIOUS
  <2> QED BY <1>4, <2>1
<1>7. Min(stops) = m - 1
  <2> HIDE DEF T
  <2>1. \A c \in stops : c \in Int
    OBVIOUS
  <2> HIDE DEF stops
  <2> QED BY <1>5, <1>6, <2>1 DEF Min
<1>8. FreeColour(C) = m
  BY <1>7, <1>4 DEF FreeColour
<1> QED BY <1>1, <1>2, <1>3, <1>4, <1>8

\* The colours of some processes form a finite set, no larger than that of the
\* processes.
LEMMA ColoursFinite ==
    ASSUME NEW H, IsFiniteSet(H), NEW f
    PROVE  /\ IsFiniteSet({f[q] : q \in H})
           /\ Cardinality({f[q] : q \in H}) <= Cardinality(H)
<1> DEFINE C == {f[q] : q \in H}
           g == [q \in H |-> f[q]]
<1>1. g \in Surjection(H, C)
  BY DEF Surjection
<1> HIDE DEF C, g
<1> QED BY <1>1, FS_Surjection DEF C

\* The choice of a process from the colours of its heavier neighbours.
LEMMA ChoiceIsFree ==
    ASSUME ColTypeOK, NEW p \in Procs, \A q \in Heavier(graph, p) : colour[q] # -1
    PROVE  LET mine == FreeColour({colour[q] : q \in Heavier(graph, p)})
           IN  /\ mine \in Nat
               /\ mine <= Cardinality(Heavier(graph, p))
               /\ \A q \in Heavier(graph, p) : mine # colour[q]
<1> DEFINE H == Heavier(graph, p)
           C == {colour[q] : q \in H}
<1>1. graph[p] \subseteq Procs /\ H \subseteq Procs
  BY GraphsAssumption DEF ColTypeOK, IsProcessGraph, Heavier
<1>2. IsFiniteSet(H)
  BY <1>1, FS_Subset, ProcsAssumption
<1>3. IsFiniteSet(C) /\ Cardinality(C) <= Cardinality(H)
  BY <1>2, ColoursFinite
<1>4. C \in SUBSET Nat
  BY <1>1 DEF ColTypeOK
<1>5. Cardinality(C) \in Nat /\ Cardinality(H) \in Nat
  BY <1>2, <1>3, FS_CardinalityType
<1>6. FreeColour(C) \in Nat \ C /\ FreeColour(C) <= Cardinality(C)
  BY <1>3, <1>4, FreeColourIsFree
<1>7. FreeColour(C) <= Cardinality(H)
  BY <1>3, <1>5, <1>6
<1> QED BY <1>6, <1>7
------------------------------------------------------------------------------
(* What a process has heard *)

CInv == ColTypeOK /\ MessagesFollowSteps /\ ChoicesAreGreedy

\* The graph is symmetric and its degrees are numbers.
LEMMA GraphFacts ==
    ASSUME ColTypeOK, NEW p \in Procs, NEW q \in graph[p]
    PROVE  /\ q \in Procs /\ p \in graph[q] /\ p # q
           /\ Cardinality(graph[p]) \in Nat /\ Cardinality(graph[q]) \in Nat
<1>1. IsProcessGraph(graph)
  BY GraphsAssumption DEF ColTypeOK
<1>2. q \in Procs /\ p \in graph[q] /\ p # q
  BY <1>1 DEF IsProcessGraph
<1>3. graph[p] \in SUBSET Procs /\ graph[q] \in SUBSET Procs
  BY <1>1, <1>2 DEF IsProcessGraph
<1> QED BY <1>2, <1>3, FS_Subset, FS_CardinalityType, ProcsAssumption

\* Once all degrees are there, the weights a process computes are the true ones.
LEMMA HeavierHeardIsHeavier ==
    ASSUME ColTypeOK, MessagesFollowSteps, NEW p \in Procs,
           \A q \in graph[p] : Reached(q) >= 1
    PROVE  HeavierHeard(p) = Heavier(graph, p)
<1>1. \A q \in graph[p] : sent[q][p][1] = Cardinality(graph[q])
  <2> TAKE q \in graph[p]
  <2>1. q \in Procs /\ p \in graph[q]
    BY GraphFacts
  <2> QED BY <2>1 DEF MessagesFollowSteps, FollowsStep
<1> QED BY <1>1 DEF HeavierHeard, Heavier

\* Completed requests mean that every neighbour has got as far as awaited.
LEMMA NeighboursReached ==
    ASSUME CInv, NEW p \in Procs, RequestsDone(p), NEW q \in graph[p]
    PROVE  Reached(q) >= Awaited(p, q)
<1>0. ColTypeOK
  BY DEF CInv
<1>1. q \in Procs /\ p \in graph[q]
  BY <1>0, GraphFacts
<1>2. asked[q][p] <= Len(sent[q][p])
  BY <1>1 DEF RequestsDone
<1>3. Len(sent[q][p]) = Reached(q)
  BY <1>1 DEF CInv, MessagesFollowSteps, FollowsStep
<1>4. asked[q][p] = Awaited(p, q)
  BY <1>1 DEF CInv, MessagesFollowSteps, FollowsStep
<1>5. Reached(q) \in Nat /\ Awaited(p, q) \in Nat
  BY DEF Reached, Awaited
<1> QED BY <1>2, <1>3, <1>4, <1>5

\* After the exchange of degrees the weights are known.
LEMMA DegreesHeard ==
    ASSUME CInv, NEW p \in Procs, step[p] = "degrees", RequestsDone(p)
    PROVE  /\ \A q \in graph[p] : Reached(q) >= 1
           /\ HeavierHeard(p) = Heavier(graph, p)
<1>0. ColTypeOK /\ MessagesFollowSteps
  BY DEF CInv
<1>1. \A q \in graph[p] : Reached(q) >= 1
  <2> TAKE q \in graph[p]
  <2>1. Reached(q) >= Awaited(p, q)
    BY NeighboursReached
  <2> QED BY <2>1 DEF Awaited
<1> QED BY <1>0, <1>1, HeavierHeardIsHeavier

\* They stay known afterwards.
LEMMA WeightsKnown ==
    ASSUME CInv, NEW p \in Procs, step[p] \notin {"start", "degrees"}
    PROVE  /\ \A q \in graph[p] : Reached(q) >= 1
           /\ HeavierHeard(p) = Heavier(graph, p)
<1>0. ColTypeOK /\ MessagesFollowSteps
  BY DEF CInv
<1>1. \A q \in graph[p] : Reached(q) >= 1
  BY DEF CInv, ChoicesAreGreedy, HeardDegrees
<1> QED BY <1>0, <1>1, HeavierHeardIsHeavier

\* When the colours of the heavier neighbours have arrived, they are final and
\* the ones those neighbours have.
LEMMA ColoursHeard ==
    ASSUME CInv, NEW p \in Procs, step[p] = "heavier", RequestsDone(p)
    PROVE  \A q \in Heavier(graph, p) : colour[q] # -1 /\ sent[q][p][2] = colour[q]
<1>0. ColTypeOK
  BY DEF CInv
<1> TAKE q \in Heavier(graph, p)
<1>1. q \in graph[p]
  BY DEF Heavier
<1>2. q \in Procs /\ p \in graph[q]
  BY <1>0, <1>1, GraphFacts
<1>3. Reached(q) >= 2
  <2>1. Reached(q) >= Awaited(p, q)
    BY <1>1, NeighboursReached
  <2> QED BY <2>1 DEF Awaited
<1>4. Reached(q) = 2
  BY <1>3 DEF Reached
<1> QED BY <1>2, <1>4 DEF CInv, MessagesFollowSteps, FollowsStep
------------------------------------------------------------------------------
(* Steps *)

\* Sending appends one value to the channels to the processes of Q.
LEMMA SendEffect ==
    ASSUME ColTypeOK, NEW p \in Procs, NEW STATE Q, NEW STATE v, v \in Nat, SendAll(p, Q, v)
    PROVE  /\ sent' \in [Procs -> [Procs -> Seq(Nat)]]
           /\ \A z \in Procs \ {p} : sent'[z] = sent[z]
           /\ \A q \in Procs : q \in Q =>
                  /\ Len(sent'[p][q]) = Len(sent[p][q]) + 1
                  /\ sent'[p][q][Len(sent[p][q]) + 1] = v
                  /\ \A i \in 1 .. Len(sent[p][q]) : sent'[p][q][i] = sent[p][q][i]
<1>1. sent \in [Procs -> [Procs -> Seq(Nat)]]
  BY DEF ColTypeOK
<1>2. sent' = [sent EXCEPT ![p] = [q \in Procs |->
          IF q \in Q THEN Append(sent[p][q], v) ELSE sent[p][q]]]
  BY <1>1 DEF SendAll
<1>3. \A q \in Procs :
         /\ Append(sent[p][q], v) \in Seq(Nat)
         /\ Len(Append(sent[p][q], v)) = Len(sent[p][q]) + 1
         /\ Append(sent[p][q], v)[Len(sent[p][q]) + 1] = v
         /\ \A i \in 1 .. Len(sent[p][q]) : Append(sent[p][q], v)[i] = sent[p][q][i]
  <2> TAKE q \in Procs
  <2>1. sent[p][q] \in Seq(Nat)
    BY <1>1
  <2> QED BY <2>1, AppendProperties
<1>4. \A q \in Procs : sent'[p][q] = IF q \in Q THEN Append(sent[p][q], v) ELSE sent[p][q]
  BY <1>1, <1>2
<1>5. sent' \in [Procs -> [Procs -> Seq(Nat)]]
  BY <1>1, <1>2, <1>3
<1>6. \A z \in Procs \ {p} : sent'[z] = sent[z]
  BY <1>1, <1>2
<1> QED BY <1>3, <1>4, <1>5, <1>6

\* Posting receives counts one more for the processes of Q.
LEMMA AskEffect ==
    ASSUME ColTypeOK, NEW p \in Procs, NEW STATE Q, AskAll(p, Q)
    PROVE  /\ asked' \in [Procs -> [Procs -> Nat]]
           /\ \A q \in Procs : asked'[q][p] = IF q \in Q THEN asked[q][p] + 1 ELSE asked[q][p]
           /\ \A q \in Procs : \A z \in Procs \ {p} : asked'[q][z] = asked[q][z]
BY DEF AskAll, ColTypeOK

\* A step of p that moves on without giving up what p has sent or chosen keeps
\* the invariant for all others.
LEMMA OthersKeep ==
    ASSUME CInv, NEW p \in Procs, graph' = graph, ColTypeOK',
           \A z \in Procs \ {p} :
               /\ step'[z] = step[z] /\ sent'[z] = sent[z] /\ colour'[z] = colour[z]
               /\ \A q \in Procs : asked'[q][z] = asked[q][z],
           Reached(p) <= Reached(p)',
           colour[p] # -1 => colour'[p] = colour[p],
           FollowsStep(p)', HeardDegrees(p)', GreedyChoice(p)'
    PROVE  CInv'
<1>1. \A z \in Procs \ {p} : Reached(z)' = Reached(z)
  BY DEF Reached
<1>2. \A z \in Procs : Heavier(graph, z)' = Heavier(graph, z)
  BY DEF Heavier
<1>3. \A z \in Procs : graph[z] \subseteq Procs
  BY GraphFacts DEF CInv
<1>4. ASSUME NEW z \in Procs \ {p} PROVE FollowsStep(z)'
  <2>1. FollowsStep(z)
    BY DEF CInv, MessagesFollowSteps
  <2>2. \A q \in graph[z] : Awaited(z, q)' = Awaited(z, q)
    BY <1>2 DEF Awaited
  <2> QED BY <1>1, <1>3, <2>1, <2>2 DEF FollowsStep
<1>5. ASSUME NEW z \in Procs \ {p} PROVE HeardDegrees(z)'
  <2>1. HeardDegrees(z)
    BY DEF CInv, ChoicesAreGreedy
  <2>2. \A q \in Procs : Reached(q) >= 1 => Reached(q)' >= 1
    <3> TAKE q \in Procs
    <3>1. CASE q = p
      <4>1. Reached(p) \in Nat /\ Reached(p)' \in Nat
        BY DEF Reached
      <4> QED BY <3>1, <4>1
    <3>2. CASE q # p
      BY <1>1, <3>2
    <3> QED BY <3>1, <3>2
  <2> QED BY <1>3, <2>1, <2>2 DEF HeardDegrees
<1>6. ASSUME NEW z \in Procs \ {p} PROVE GreedyChoice(z)'
  <2> SUFFICES ASSUME colour'[z] # -1
      PROVE  /\ \A q \in Heavier(graph, z) : colour'[q] # -1
             /\ colour'[z] = FreeColour({colour'[q] : q \in Heavier(graph, z)})
    BY <1>2 DEF GreedyChoice
  <2>1. /\ \A q \in Heavier(graph, z) : colour[q] # -1
        /\ colour[z] = FreeColour({colour[q] : q \in Heavier(graph, z)})
    BY DEF CInv, ChoicesAreGreedy, GreedyChoice
  <2>2. \A q \in Heavier(graph, z) : colour'[q] = colour[q]
    BY <1>3, <2>1 DEF Heavier
  <2>3. {colour'[q] : q \in Heavier(graph, z)} = {colour[q] : q \in Heavier(graph, z)}
    BY <2>2
  <2> QED BY <2>1, <2>2, <2>3
<1>7. MessagesFollowSteps'
  BY <1>4 DEF MessagesFollowSteps
<1>8. ChoicesAreGreedy'
  BY <1>5, <1>6 DEF ChoicesAreGreedy
<1> QED BY <1>7, <1>8 DEF CInv

\* Choosing and sending a colour: the greedy one, and a number.
LEMMA ChooseKeeps ==
    ASSUME CInv, NEW p \in Procs, step[p] \in {"degrees", "heavier"}, RequestsDone(p),
           step[p] = "degrees" => Heavier(graph, p) = {},
           NEW STATE mine,
           mine = FreeColour({colour[q] : q \in Heavier(graph, p)}),
           \A q \in Heavier(graph, p) : colour[q] # -1,
           colour' = [colour EXCEPT ![p] = mine],
           SendAll(p, graph[p], mine),
           step' = [step EXCEPT ![p] = "sending"],
           UNCHANGED <<graph, asked>>,
           lowerColour' \in [Procs -> SUBSET Procs],
           higherColour' \in [Procs -> SUBSET Procs]
    PROVE  CInv'
<1>0. ColTypeOK /\ FollowsStep(p)
  BY DEF CInv, MessagesFollowSteps
<1>1. mine \in Nat
  BY <1>0, ChoiceIsFree
<1>2. /\ sent' \in [Procs -> [Procs -> Seq(Nat)]]
      /\ \A z \in Procs \ {p} : sent'[z] = sent[z]
      /\ \A q \in Procs : q \in graph[p] =>
             /\ Len(sent'[p][q]) = Len(sent[p][q]) + 1
             /\ sent'[p][q][Len(sent[p][q]) + 1] = mine
             /\ \A i \in 1 .. Len(sent[p][q]) : sent'[p][q][i] = sent[p][q][i]
  <2>1. ColTypeOK /\ mine \in Nat /\ SendAll(p, graph[p], mine)
    BY <1>0, <1>1
  <2> QED BY ONLY p \in Procs, <2>1, SendEffect, SMTT(30)
<1>3. ColTypeOK'
  BY <1>0, <1>1, <1>2 DEF ColTypeOK, Steps
<1>4. step'[p] = "sending" /\ colour'[p] = mine /\ mine # -1
  BY <1>0, <1>1 DEF ColTypeOK
<1>5. Reached(p) = 1 /\ Reached(p)' = 2
  BY <1>4 DEF Reached
<1>6. colour[p] = -1
  BY <1>0, <1>5 DEF FollowsStep
<1>7. \A q \in Procs : Heavier(graph, q)' = Heavier(graph, q)
  BY DEF Heavier
<1>8. ASSUME NEW q \in graph[p]
      PROVE  /\ Len(sent'[p][q]) = 2 /\ sent'[p][q][2] = mine
             /\ sent'[p][q][1] = Cardinality(graph[p])
  <2>1. q \in Procs
    BY <1>0, GraphFacts
  <2>2. Len(sent[p][q]) = 1 /\ sent[p][q][1] = Cardinality(graph[p])
    BY <1>0, <1>5 DEF FollowsStep
  <2>3. 1 \in 1 .. Len(sent[p][q])
    BY <2>2
  <2>4. sent'[p][q][1] = sent[p][q][1]
    BY <1>2, <2>1, <2>3
  <2>5. Len(sent'[p][q]) = 1 + 1 /\ sent'[p][q][1 + 1] = mine
    BY <1>2, <2>1, <2>2
  <2> QED BY <2>2, <2>4, <2>5
<1>9. ASSUME NEW q \in graph[p] PROVE asked'[q][p] = Awaited(p, q)'
  BY <1>0, <1>4, <1>7 DEF FollowsStep, Awaited
<1>10. FollowsStep(p)'
  BY <1>4, <1>5, <1>8, <1>9 DEF FollowsStep
<1>11. HeardDegrees(p)'
  <2>1. \A q \in graph[p] : Reached(q) >= 1
    BY DegreesHeard, WeightsKnown
  <2>2. \A q \in graph[p] : q \in Procs /\ q # p
    BY <1>0, GraphFacts
  <2>3. \A q \in graph[p] : Reached(q)' = Reached(q)
    BY <1>0, <2>2 DEF Reached, ColTypeOK
  <2> QED BY <2>1, <2>3 DEF HeardDegrees
<1>12. GreedyChoice(p)'
  <2>1. \A q \in Heavier(graph, p) : q \in Procs /\ q # p
    BY <1>0, GraphFacts DEF Heavier
  <2>2. \A q \in Heavier(graph, p) : colour'[q] = colour[q]
    BY <1>0, <2>1 DEF ColTypeOK
  <2>3. {colour'[q] : q \in Heavier(graph, p)} = {colour[q] : q \in Heavier(graph, p)}
    BY <2>2
  <2> QED BY <1>4, <1>7, <2>2, <2>3 DEF GreedyChoice
<1>13. \A z \in Procs \ {p} :
           /\ step'[z] = step[z] /\ sent'[z] = sent[z] /\ colour'[z] = colour[z]
           /\ \A q \in Procs : asked'[q][z] = asked[q][z]
  BY <1>0, <1>2 DEF ColTypeOK
<1>14. Reached(p) <= Reached(p)' /\ (colour[p] # -1 => colour'[p] = colour[p])
  BY <1>5, <1>6
<1>15. graph' = graph
  OBVIOUS
<1> QED
  BY <1>3, <1>10, <1>11, <1>12, <1>13, <1>14, <1>15, OthersKeep

\* Posting receives and moving on: nothing is sent and no colour changes.
LEMMA AskKeeps ==
    ASSUME CInv, NEW p \in Procs, RequestsDone(p), NEW STATE Q, AskAll(p, Q),
           \/ /\ step[p] = "degrees" /\ Q = Heavier(graph, p)
              /\ step' = [step EXCEPT ![p] = "heavier"]
           \/ /\ step[p] = "sending" /\ Q = graph[p] \ Heavier(graph, p)
              /\ step' = [step EXCEPT ![p] = "lighter"],
           UNCHANGED <<graph, sent, colour, lowerColour, higherColour>>
    PROVE  CInv'
<1>0. ColTypeOK /\ FollowsStep(p)
  BY DEF CInv, MessagesFollowSteps
<1>1. /\ asked' \in [Procs -> [Procs -> Nat]]
      /\ \A q \in Procs : asked'[q][p] = IF q \in Q THEN asked[q][p] + 1 ELSE asked[q][p]
      /\ \A q \in Procs : \A z \in Procs \ {p} : asked'[q][z] = asked[q][z]
  <2>1. ColTypeOK /\ AskAll(p, Q)
    BY <1>0
  <2> QED BY ONLY p \in Procs, <2>1, AskEffect
<1>2. ColTypeOK'
  <2>1. step' \in [Procs -> Steps]
    BY <1>0 DEF ColTypeOK, Steps
  <2>2. UNCHANGED <<graph, sent, colour, lowerColour, higherColour>>
    OBVIOUS
  <2> QED BY ONLY <1>0, <1>1, <2>1, <2>2 DEF ColTypeOK
<1>3. /\ step[p] = "degrees" /\ step'[p] = "heavier" /\ Q = Heavier(graph, p)
      \/ /\ step[p] = "sending" /\ step'[p] = "lighter" /\ Q = graph[p] \ Heavier(graph, p)
  BY <1>0 DEF ColTypeOK
<1>4. Reached(p)' = Reached(p) /\ Reached(p) \in Nat
  BY <1>3 DEF Reached
<1>5. Heavier(graph, p)' = Heavier(graph, p)
  BY DEF Heavier
<1>6. ASSUME NEW q \in graph[p] PROVE asked'[q][p] = Awaited(p, q)'
  <2>1. q \in Procs
    BY <1>0, GraphFacts
  <2>2. asked[q][p] = Awaited(p, q)
    BY <1>0 DEF FollowsStep
  <2>3. asked'[q][p] = IF q \in Q THEN asked[q][p] + 1 ELSE asked[q][p]
    BY <1>1, <2>1
  <2>4. CASE step[p] = "degrees"
    BY <1>3, <1>5, <2>2, <2>3, <2>4 DEF Awaited
  <2>5. CASE step[p] = "sending"
    BY <1>3, <1>5, <2>2, <2>3, <2>5 DEF Awaited
  <2> QED BY <1>3, <2>4, <2>5
<1>7. FollowsStep(p)'
  BY <1>0, <1>4, <1>6 DEF FollowsStep
<1>8. HeardDegrees(p)'
  <2>1. \A q \in graph[p] : Reached(q) >= 1
    BY <1>3, DegreesHeard, WeightsKnown
  <2>2. \A q \in graph[p] : q \in Procs /\ q # p
    BY <1>0, GraphFacts
  <2>3. \A q \in graph[p] : Reached(q)' = Reached(q)
    BY <1>0, <2>2 DEF Reached, ColTypeOK
  <2> QED BY <2>1, <2>3 DEF HeardDegrees
<1>9. GreedyChoice(p)'
  BY <1>5 DEF CInv, ChoicesAreGreedy, GreedyChoice
<1>10. \A z \in Procs \ {p} :
           /\ step'[z] = step[z] /\ sent'[z] = sent[z] /\ colour'[z] = colour[z]
           /\ \A q \in Procs : asked'[q][z] = asked[q][z]
  BY <1>0, <1>1 DEF ColTypeOK
<1>11. Reached(p) <= Reached(p)' /\ colour'[p] = colour[p] /\ graph' = graph
  BY <1>4
<1> QED BY <1>2, <1>7, <1>8, <1>9, <1>10, <1>11, OthersKeep

\* Returning: only the lists of the caller may change.
LEMMA ReturnKeeps ==
    ASSUME CInv, NEW p \in Procs,
           step[p] = "lighter" \/ (step[p] = "sending" /\ LighterHeard(p) = {}),
           step' = [step EXCEPT ![p] = "done"],
           UNCHANGED <<graph, sent, asked, colour>>,
           lowerColour' \in [Procs -> SUBSET Procs],
           higherColour' \in [Procs -> SUBSET Procs]
    PROVE  CInv'
<1>0. ColTypeOK /\ FollowsStep(p)
  BY DEF CInv, MessagesFollowSteps
<1>1. ColTypeOK'
  BY <1>0 DEF ColTypeOK, Steps
<1>2. step'[p] = "done"
  BY <1>0 DEF ColTypeOK
<1>3. Reached(p)' = Reached(p) /\ Reached(p) \in Nat
  BY <1>2 DEF Reached
<1>4. Heavier(graph, p)' = Heavier(graph, p)
  BY DEF Heavier
<1>5. HeavierHeard(p) = Heavier(graph, p) /\ \A q \in graph[p] : Reached(q) >= 1
  BY WeightsKnown
<1>6. \A q \in graph[p] : Awaited(p, q)' = Awaited(p, q)
  BY <1>2, <1>4, <1>5 DEF Awaited, LighterHeard
<1>7. FollowsStep(p)'
  BY <1>0, <1>3, <1>6 DEF FollowsStep
<1>8. HeardDegrees(p)'
  <2>1. \A q \in graph[p] : q \in Procs /\ q # p
    BY <1>0, GraphFacts
  <2>2. \A q \in graph[p] : Reached(q)' = Reached(q)
    BY <1>0, <2>1 DEF Reached, ColTypeOK
  <2> QED BY <1>5, <2>2 DEF HeardDegrees
<1>9. GreedyChoice(p)'
  BY <1>4 DEF CInv, ChoicesAreGreedy, GreedyChoice
<1>10. \A z \in Procs \ {p} :
           /\ step'[z] = step[z] /\ sent'[z] = sent[z] /\ colour'[z] = colour[z]
           /\ \A q \in Procs : asked'[q][z] = asked[q][z]
  BY <1>0 DEF ColTypeOK
<1>11. Reached(p) <= Reached(p)' /\ colour'[p] = colour[p] /\ graph' = graph
  BY <1>3
<1> QED BY <1>1, <1>7, <1>8, <1>9, <1>10, <1>11, OthersKeep

\* The first step of a process: its degree to all neighbours.
LEMMA SendDegreesKeeps ==
    ASSUME CInv, NEW p \in Procs, SendDegrees(p)
    PROVE  CInv'
<1>0. ColTypeOK /\ FollowsStep(p)
  BY DEF CInv, MessagesFollowSteps
<1>1. \A q \in graph[p] : q \in Procs /\ q # p /\ Cardinality(graph[p]) \in Nat
  BY <1>0, GraphFacts
<1>2. Cardinality(graph[p]) \in Nat
  <2>1. graph[p] \in SUBSET Procs
    BY <1>1
  <2> QED BY <2>1, FS_Subset, FS_CardinalityType, ProcsAssumption
<1>3. /\ sent' \in [Procs -> [Procs -> Seq(Nat)]]
      /\ \A z \in Procs \ {p} : sent'[z] = sent[z]
      /\ \A q \in Procs : q \in graph[p] =>
             /\ Len(sent'[p][q]) = Len(sent[p][q]) + 1
             /\ sent'[p][q][Len(sent[p][q]) + 1] = Cardinality(graph[p])
  <2>1. ColTypeOK /\ SendAll(p, graph[p], Cardinality(graph[p]))
    BY <1>0 DEF SendDegrees
  <2> QED BY ONLY p \in Procs, <1>2, <2>1, SendEffect
<1>4. /\ asked' \in [Procs -> [Procs -> Nat]]
      /\ \A q \in Procs : asked'[q][p] =
             IF q \in graph[p] THEN asked[q][p] + 1 ELSE asked[q][p]
      /\ \A q \in Procs : \A z \in Procs \ {p} : asked'[q][z] = asked[q][z]
  <2>1. ColTypeOK /\ AskAll(p, graph[p])
    BY <1>0 DEF SendDegrees
  <2> QED BY ONLY p \in Procs, <2>1, AskEffect
<1>5. ColTypeOK'
  BY <1>0, <1>3, <1>4 DEF SendDegrees, ColTypeOK, Steps
<1>6. /\ step[p] = "start" /\ step'[p] = "degrees" /\ graph' = graph /\ colour' = colour
  BY <1>0 DEF SendDegrees, ColTypeOK
<1>7. Reached(p) = 0 /\ Reached(p)' = 1
  BY <1>6 DEF Reached
<1>8. ASSUME NEW q \in graph[p]
      PROVE  /\ Len(sent'[p][q]) = 1 /\ sent'[p][q][1] = Cardinality(graph[p])
             /\ asked'[q][p] = 1
  <2>1. Len(sent[p][q]) = 0 /\ asked[q][p] = 0
    BY <1>0, <1>6, <1>7 DEF FollowsStep, Awaited
  <2>2. q \in Procs
    BY <1>1
  <2>3. Len(sent'[p][q]) = 0 + 1 /\ sent'[p][q][0 + 1] = Cardinality(graph[p])
    BY <1>3, <2>1, <2>2
  <2>4. asked'[q][p] = 0 + 1
    BY <1>4, <2>1, <2>2
  <2> QED BY <2>3, <2>4
<1>9. FollowsStep(p)'
  <2>1. \A q \in graph[p] : Awaited(p, q)' = 1
    BY <1>6 DEF Awaited
  <2> QED BY <1>0, <1>6, <1>7, <1>8, <2>1 DEF FollowsStep
<1>10. HeardDegrees(p)'
  BY <1>6 DEF HeardDegrees
<1>11. GreedyChoice(p)'
  BY <1>0, <1>6, <1>7 DEF GreedyChoice, FollowsStep
<1>12. \A z \in Procs \ {p} :
           /\ step'[z] = step[z] /\ sent'[z] = sent[z] /\ colour'[z] = colour[z]
           /\ \A q \in Procs : asked'[q][z] = asked[q][z]
  BY <1>0, <1>3, <1>4, <1>6 DEF SendDegrees, ColTypeOK
<1>13. Reached(p) <= Reached(p)' /\ colour'[p] = colour[p] /\ graph' = graph
  BY <1>6, <1>7
<1> QED BY <1>5, <1>9, <1>10, <1>11, <1>12, <1>13, OthersKeep

\* A process that has heard the colours of its heavier neighbours takes the free
\* colour among the colours these have.
LEMMA HeardIsFree ==
    ASSUME CInv, NEW p \in Procs, TakeFreeColour(p)
    PROVE  LET mine == FreeColour({colour[q] : q \in Heavier(graph, p)})
           IN  /\ \A q \in Heavier(graph, p) : colour[q] # -1
               /\ colour' = [colour EXCEPT ![p] = mine]
               /\ SendAll(p, graph[p], mine)
<1> DEFINE H == Heavier(graph, p)
           heard == [q \in HeavierHeard(p) |-> sent[q][p][2]]
<1>1. HeavierHeard(p) = H
  BY WeightsKnown DEF TakeFreeColour
<1>2. \A q \in H : colour[q] # -1 /\ sent[q][p][2] = colour[q]
  BY ColoursHeard DEF TakeFreeColour
<1>3. {heard[q] : q \in HeavierHeard(p)} = {colour[q] : q \in H}
  BY <1>1, <1>2
<1>4. /\ colour' = [colour EXCEPT ![p] = FreeColour({heard[q] : q \in HeavierHeard(p)})]
      /\ SendAll(p, graph[p], FreeColour({heard[q] : q \in HeavierHeard(p)}))
  BY DEF TakeFreeColour
<1> QED BY <1>2, <1>3, <1>4

\* Without heavier neighbours the free colour is 0.
LEMMA FirstIsFree == FreeColour({}) = 0
<1>1. FreeColour({}) \in Nat /\ FreeColour({}) <= 0
  BY FreeColourIsFree, FS_EmptySet
<1> QED BY <1>1

\* Every step keeps the invariant.
LEMMA NextCInv == CInv /\ [ColNext]_colVars => CInv'
<1> SUFFICES ASSUME CInv, [ColNext]_colVars PROVE CInv'
  OBVIOUS
<1>0. ColTypeOK
  BY DEF CInv
<1>1. ASSUME NEW p \in Procs, AskHeavier(p) PROVE CInv'
  <2>1. HeavierHeard(p) = Heavier(graph, p)
    BY <1>1, DegreesHeard DEF AskHeavier
  <2>2. /\ RequestsDone(p) /\ AskAll(p, Heavier(graph, p))
        /\ step[p] = "degrees" /\ step' = [step EXCEPT ![p] = "heavier"]
        /\ UNCHANGED <<graph, sent, colour, lowerColour, higherColour>>
    BY <1>1, <2>1 DEF AskHeavier
  <2> QED BY ONLY CInv, p \in Procs, <2>2, AskKeeps
<1>2. ASSUME NEW p \in Procs, TakeFirstColour(p) PROVE CInv'
  <2>1. Heavier(graph, p) = {}
    BY <1>2, DegreesHeard DEF TakeFirstColour
  <2>2. 0 = FreeColour({colour[q] : q \in Heavier(graph, p)})
    BY <2>1, FirstIsFree
  <2>3. /\ step[p] = "degrees" /\ RequestsDone(p)
        /\ colour' = [colour EXCEPT ![p] = 0]
        /\ SendAll(p, graph[p], 0)
        /\ step' = [step EXCEPT ![p] = "sending"]
        /\ UNCHANGED <<graph, asked>>
        /\ lowerColour' \in [Procs -> SUBSET Procs]
        /\ higherColour' \in [Procs -> SUBSET Procs]
    BY <1>0, <1>2 DEF TakeFirstColour, ColTypeOK
  <2>4. \A q \in Heavier(graph, p) : colour[q] # -1
    BY <2>1
  <2> QED BY ONLY CInv, p \in Procs, <2>1, <2>2, <2>3, <2>4, ChooseKeeps
<1>3. ASSUME NEW p \in Procs, TakeFreeColour(p) PROVE CInv'
  <2> DEFINE mine == FreeColour({colour[q] : q \in Heavier(graph, p)})
  <2>1. /\ \A q \in Heavier(graph, p) : colour[q] # -1
        /\ colour' = [colour EXCEPT ![p] = mine]
        /\ SendAll(p, graph[p], mine)
    BY <1>3, HeardIsFree
  <2>2. HeavierHeard(p) \subseteq Procs
    BY <1>0, GraphFacts DEF HeavierHeard
  <2>3. /\ step[p] = "heavier" /\ RequestsDone(p)
        /\ step' = [step EXCEPT ![p] = "sending"]
        /\ UNCHANGED <<graph, asked>>
    BY <1>3 DEF TakeFreeColour
  <2>4. /\ lowerColour' \in [Procs -> SUBSET Procs]
        /\ higherColour' \in [Procs -> SUBSET Procs]
    <3>1. PICK low \in SUBSET Procs, high \in SUBSET Procs :
              /\ lowerColour' = [lowerColour EXCEPT ![p] = low]
              /\ higherColour' = [higherColour EXCEPT ![p] = high]
      <4> DEFINE heard == [q \in HeavierHeard(p) |-> sent[q][p][2]]
                 own == FreeColour({heard[q] : q \in HeavierHeard(p)})
                 low == {q \in HeavierHeard(p) : heard[q] < own}
                 high == {q \in HeavierHeard(p) : heard[q] > own}
      <4>1. /\ lowerColour' = [lowerColour EXCEPT ![p] = low]
            /\ higherColour' = [higherColour EXCEPT ![p] = high]
        BY <1>3 DEF TakeFreeColour
      <4>2. low \in SUBSET Procs /\ high \in SUBSET Procs
        BY <2>2
      <4> HIDE DEF low, high
      <4> QED BY <4>1, <4>2
    <3> QED BY <1>0, <3>1 DEF ColTypeOK
  <2>5. mine = FreeColour({colour[q] : q \in Heavier(graph, p)})
    OBVIOUS
  <2> HIDE DEF mine
  <2> QED BY ONLY CInv, p \in Procs, <2>1, <2>3, <2>4, <2>5, ChooseKeeps
<1>4. ASSUME NEW p \in Procs, AskLighter(p) PROVE CInv'
  <2>1. LighterHeard(p) = graph[p] \ Heavier(graph, p)
    BY <1>4, WeightsKnown DEF AskLighter, LighterHeard
  <2>2. /\ RequestsDone(p) /\ AskAll(p, graph[p] \ Heavier(graph, p))
        /\ step[p] = "sending" /\ step' = [step EXCEPT ![p] = "lighter"]
        /\ UNCHANGED <<graph, sent, colour, lowerColour, higherColour>>
    BY <1>4, <2>1 DEF AskLighter
  <2> QED BY ONLY CInv, p \in Procs, <2>2, AskKeeps
<1>5. ASSUME NEW p \in Procs, ReturnWithoutLighter(p) PROVE CInv'
  BY <1>0, <1>5, ReturnKeeps DEF ReturnWithoutLighter, ColTypeOK
<1>6. ASSUME NEW p \in Procs, Return(p) PROVE CInv'
  <2>1. LighterHeard(p) \subseteq Procs
    BY <1>0, GraphFacts DEF LighterHeard
  <2>2. /\ lowerColour' \in [Procs -> SUBSET Procs]
        /\ higherColour' \in [Procs -> SUBSET Procs]
    BY <1>0, <1>6, <2>1 DEF Return, ColTypeOK
  <2> QED BY <1>6, <2>2, ReturnKeeps DEF Return
<1>7. CASE UNCHANGED colVars
  <2>1. /\ graph' = graph /\ step' = step /\ sent' = sent /\ asked' = asked
        /\ colour' = colour /\ lowerColour' = lowerColour /\ higherColour' = higherColour
    BY <1>7 DEF colVars
  <2>2. ColTypeOK'
    BY <1>0, <2>1 DEF ColTypeOK
  <2>3. \A p \in Procs : Reached(p)' = Reached(p) /\ Heavier(graph, p)' = Heavier(graph, p)
    BY <2>1 DEF Reached, Heavier
  <2>4. \A p, q \in Procs : Awaited(p, q)' = Awaited(p, q)
    BY <2>1, <2>3 DEF Awaited
  <2>5. \A p \in Procs : graph[p] \subseteq Procs
    BY <1>0, GraphFacts
  <2>6. \A p \in Procs : FollowsStep(p)'
    BY <2>1, <2>3, <2>4, <2>5 DEF CInv, MessagesFollowSteps, FollowsStep
  <2>7. \A p \in Procs : HeardDegrees(p)'
    BY <2>1, <2>3, <2>5 DEF CInv, ChoicesAreGreedy, HeardDegrees
  <2>8. \A p \in Procs : GreedyChoice(p)'
    BY <2>1, <2>3 DEF CInv, ChoicesAreGreedy, GreedyChoice
  <2> QED BY <2>2, <2>6, <2>7, <2>8 DEF CInv, MessagesFollowSteps, ChoicesAreGreedy
<1> QED
  BY <1>1, <1>2, <1>3, <1>4, <1>5, <1>6, <1>7, SendDegreesKeeps DEF ColNext, ColStep

\* Nothing has been sent, awaited or chosen when color() is called.
LEMMA InitCInv == ColInit => CInv
<1> SUFFICES ASSUME ColInit PROVE CInv
  OBVIOUS
<1>1. <<>> \in Seq(Nat) /\ Len(<<>>) = 0
  BY EmptySeq
<1>2. ColTypeOK
  BY <1>1 DEF ColInit, ColTypeOK, Steps
<1>3. ASSUME NEW p \in Procs PROVE FollowsStep(p) /\ HeardDegrees(p) /\ GreedyChoice(p)
  <2>1. \A q \in graph[p] : q \in Procs
    BY <1>2, GraphFacts
  <2>2. step[p] = "start" /\ colour[p] = -1
    BY DEF ColInit
  <2> QED BY <1>1, <2>1, <2>2 DEF ColInit, FollowsStep, HeardDegrees, GreedyChoice, Reached, Awaited
<1> QED BY <1>2, <1>3 DEF CInv, MessagesFollowSteps, ChoicesAreGreedy

LEMMA CInvariant == ColSpec => []CInv
BY InitCInv, NextCInv, PTL DEF ColSpec
------------------------------------------------------------------------------
(* Theorems *)

\* Every variable stays in its type.
THEOREM ColTypeCorrect == ColSpec => []ColTypeOK
<1>1. CInv => ColTypeOK
  BY DEF CInv
<1> QED BY <1>1, CInvariant, PTL

\* Neighbours never have the same colour: of two neighbours one is heavier, and
\* the other took a colour that was free after the heavier one had chosen.
THEOREM ColouringIsProper == ColSpec => []ProperColouring
<1>1. CInv => ProperColouring
  <2> SUFFICES ASSUME CInv, NEW p \in Procs, NEW q \in graph[p],
                      colour[p] # -1, colour[q] # -1
               PROVE  colour[p] # colour[q]
    BY DEF ProperColouring
  <2>0. ColTypeOK
    BY DEF CInv
  <2>1. q \in Procs /\ p \in graph[q] /\ p # q /\ p \in Nat /\ q \in Nat
    BY <2>0, GraphFacts, ProcsAssumption
  <2>2. Cardinality(graph[p]) \in Nat /\ Cardinality(graph[q]) \in Nat
    BY <2>0, GraphFacts
  <2>3. q \in Heavier(graph, p) \/ p \in Heavier(graph, q)
    BY <2>1, <2>2 DEF Heavier, IsHeavier
  <2>4. ASSUME NEW x \in Procs, NEW y \in Heavier(graph, x), colour[x] # -1
        PROVE  colour[x] # colour[y]
    <3>1. /\ \A z \in Heavier(graph, x) : colour[z] # -1
          /\ colour[x] = FreeColour({colour[z] : z \in Heavier(graph, x)})
      BY <2>4 DEF CInv, ChoicesAreGreedy, GreedyChoice
    <3> QED BY <2>0, <3>1, ChoiceIsFree
  <2> QED BY <2>1, <2>3, <2>4
<1> QED BY <1>1, CInvariant, PTL

\* No process needs a colour larger than the number of its heavier neighbours.
THEOREM ColoursAreFew == ColSpec => []FewColours
<1>1. CInv => FewColours
  <2> SUFFICES ASSUME CInv, NEW p \in Procs
               PROVE  colour[p] <= Cardinality(Heavier(graph, p))
    BY DEF FewColours
  <2>0. ColTypeOK
    BY DEF CInv
  <2>1. CASE colour[p] = -1
    <3>1. graph[p] \subseteq Procs
      BY <2>0, GraphFacts
    <3>2. Heavier(graph, p) \in SUBSET Procs
      BY <3>1 DEF Heavier
    <3>3. Cardinality(Heavier(graph, p)) \in Nat
      BY <3>2, FS_Subset, FS_CardinalityType, ProcsAssumption
    <3> QED BY <2>1, <3>3
  <2>2. CASE colour[p] # -1
    <3>1. /\ \A z \in Heavier(graph, p) : colour[z] # -1
          /\ colour[p] = FreeColour({colour[z] : z \in Heavier(graph, p)})
      BY <2>2 DEF CInv, ChoicesAreGreedy, GreedyChoice
    <3> QED BY <2>0, <3>1, ChoiceIsFree
  <2> QED BY <2>1, <2>2
<1> QED BY <1>1, CInvariant, PTL

\* For every graph of processes what a process has sent, which receives it has
\* posted and whether it has a colour follow from the step it has reached: its
\* degree is the first message to every neighbour and its final colour the second.
THEOREM StepsMatchMessages == ColSpec => []MessagesFollowSteps
<1>1. CInv => MessagesFollowSteps
  BY DEF CInv
<1> QED BY <1>1, CInvariant, PTL

\* For every graph of processes a chosen colour is the smallest one free of the
\* colours of the heavier neighbours, all of which were chosen before.
THEOREM EveryChoiceIsGreedy == ColSpec => []ChoicesAreGreedy
<1>1. CInv => ChoicesAreGreedy
  BY DEF CInv
<1> QED BY <1>1, CInvariant, PTL

------------------------------------------------------------------------------
(* The lists of the caller *)

\* The two lists of p split the members of S by their colours.
ListsSplit(p, S) ==
    /\ lowerColour[p] = {q \in S : colour[q] < colour[p]}
    /\ higherColour[p] = {q \in S : colour[q] > colour[p]}

\* They start empty, then hold the heavier neighbours, in the end all of them,
\* whose colours are final by then.
ListsFollowStep(p) ==
    /\ step[p] \in {"start", "degrees", "heavier"} =>
           lowerColour[p] = {} /\ higherColour[p] = {}
    /\ step[p] \in {"sending", "lighter"} => ListsSplit(p, Heavier(graph, p))
    /\ step[p] = "done" => ListsSplit(p, graph[p]) /\ \A q \in graph[p] : colour[q] # -1

\* A chosen colour is final, and a process that moves touches only its own state.
LEMMA ColoursStay ==
    ASSUME CInv, NEW p \in Procs, ColStep(p)
    PROVE  /\ graph' = graph
           /\ \A z \in Procs : colour[z] # -1 => colour'[z] = colour[z]
           /\ \A z \in Procs \ {p} :
                  /\ step'[z] = step[z] /\ lowerColour'[z] = lowerColour[z]
                  /\ higherColour'[z] = higherColour[z] /\ colour'[z] = colour[z]
<1>0. ColTypeOK /\ (step[p] \in {"degrees", "heavier"} => colour[p] = -1)
  BY DEF CInv, MessagesFollowSteps, FollowsStep, Reached
<1>1. CASE SendDegrees(p) \/ AskHeavier(p) \/ AskLighter(p) \/ ReturnWithoutLighter(p)
  BY <1>0, <1>1 DEF SendDegrees, AskHeavier, AskLighter, ReturnWithoutLighter, ColTypeOK
<1>2. CASE TakeFirstColour(p)
  BY <1>0, <1>2 DEF TakeFirstColour, ColTypeOK
<1>3. CASE TakeFreeColour(p)
  <2>1. PICK mine, low, high :
            /\ step[p] = "heavier" /\ step' = [step EXCEPT ![p] = "sending"]
            /\ colour' = [colour EXCEPT ![p] = mine] /\ graph' = graph
            /\ lowerColour' = [lowerColour EXCEPT ![p] = low]
            /\ higherColour' = [higherColour EXCEPT ![p] = high]
    BY <1>3 DEF TakeFreeColour
  <2> QED BY <1>0, <2>1 DEF ColTypeOK
<1>4. CASE Return(p)
  <2>1. PICK low, high :
            /\ step' = [step EXCEPT ![p] = "done"] /\ colour' = colour /\ graph' = graph
            /\ lowerColour' = [lowerColour EXCEPT ![p] = low]
            /\ higherColour' = [higherColour EXCEPT ![p] = high]
    BY <1>4 DEF Return
  <2> QED BY <1>0, <2>1 DEF ColTypeOK
<1> QED BY <1>1, <1>2, <1>3, <1>4 DEF ColStep

\* When the lighter neighbours have answered, their final colours are read.
LEMMA LighterHeardFinal ==
    ASSUME CInv, NEW p \in Procs, step[p] = "lighter", RequestsDone(p)
    PROVE  /\ LighterHeard(p) = graph[p] \ Heavier(graph, p)
           /\ \A q \in LighterHeard(p) : colour[q] # -1 /\ sent[q][p][2] = colour[q]
<1>0. ColTypeOK
  BY DEF CInv
<1>1. LighterHeard(p) = graph[p] \ Heavier(graph, p)
  BY WeightsKnown DEF LighterHeard
<1>2. ASSUME NEW q \in LighterHeard(p) PROVE colour[q] # -1 /\ sent[q][p][2] = colour[q]
  <2>1. q \in graph[p]
    BY <1>2 DEF LighterHeard
  <2>2. q \in Procs /\ p \in graph[q]
    BY <1>0, <2>1, GraphFacts
  <2>3. Reached(q) >= Awaited(p, q)
    BY <2>1, NeighboursReached
  <2>4. Reached(q) = 2
    BY <2>3 DEF Reached, Awaited
  <2> QED BY <2>2, <2>4 DEF CInv, MessagesFollowSteps, FollowsStep
<1> QED BY <1>1, <1>2

\* The process that moves keeps its lists in line with its step.
LEMMA OwnLists ==
    ASSUME CInv, CInv', NEW p \in Procs, ColStep(p), ListsFollowStep(p)
    PROVE  ListsFollowStep(p)'
<1> DEFINE H == Heavier(graph, p)
           N == graph[p]
<1>0. ColTypeOK /\ p \notin N
  BY GraphFacts DEF CInv
<1>1. graph' = graph /\ Heavier(graph, p)' = H /\ (\A z \in Procs \ {p} : colour'[z] = colour[z])
  BY ColoursStay DEF Heavier
<1>2. H \subseteq N /\ N \subseteq Procs \ {p}
  BY <1>0, GraphFacts DEF Heavier
<1>3. CASE SendDegrees(p) \/ AskHeavier(p)
  <2>1. step[p] \in {"start", "degrees"} /\ step'[p] \in {"degrees", "heavier"}
        /\ lowerColour' = lowerColour /\ higherColour' = higherColour
    BY <1>0, <1>3 DEF SendDegrees, AskHeavier, ColTypeOK
  <2> QED BY <2>1 DEF ListsFollowStep
<1>4. CASE TakeFirstColour(p)
  <2>1. step[p] = "degrees" /\ step'[p] = "sending"
        /\ lowerColour' = lowerColour /\ higherColour' = higherColour
    BY <1>0, <1>4 DEF TakeFirstColour, ColTypeOK
  <2>2. H = {}
    BY <1>4, DegreesHeard DEF TakeFirstColour
  <2>3. lowerColour'[p] = {} /\ higherColour'[p] = {}
    BY <2>1 DEF ListsFollowStep
  <2> QED BY <1>1, <2>1, <2>2, <2>3 DEF ListsFollowStep, ListsSplit
<1>5. CASE TakeFreeColour(p)
  <2> DEFINE heard == [q \in HeavierHeard(p) |-> sent[q][p][2]]
             mine == FreeColour({heard[q] : q \in HeavierHeard(p)})
             low == {q \in HeavierHeard(p) : heard[q] < mine}
             high == {q \in HeavierHeard(p) : heard[q] > mine}
  <2>1. /\ step[p] = "heavier" /\ step' = [step EXCEPT ![p] = "sending"]
        /\ colour' = [colour EXCEPT ![p] = mine] /\ RequestsDone(p)
        /\ lowerColour' = [lowerColour EXCEPT ![p] = low]
        /\ higherColour' = [higherColour EXCEPT ![p] = high]
    BY <1>5 DEF TakeFreeColour
  <2>2. HeavierHeard(p) = H
    BY <2>1, WeightsKnown
  <2>3. \A q \in H : heard[q] = colour[q]
    BY <2>1, <2>2, ColoursHeard
  <2>4. PICK c : c = mine
    OBVIOUS
  <2>5. low = {q \in H : colour[q] < c} /\ high = {q \in H : colour[q] > c}
    BY <2>2, <2>3, <2>4
  <2> HIDE DEF low, high, mine, heard
  <2>6. /\ step'[p] = "sending" /\ colour'[p] = c
        /\ lowerColour'[p] = low /\ higherColour'[p] = high
    BY <1>0, <2>1, <2>4 DEF ColTypeOK
  <2>7. \A q \in H : colour'[q] = colour[q]
    BY <1>1, <1>2
  <2>8. ListsSplit(p, H)'
    BY <2>5, <2>6, <2>7, <1>1 DEF ListsSplit
  <2> QED BY <1>1, <2>6, <2>8 DEF ListsFollowStep
<1>6. CASE AskLighter(p)
  <2>1. step[p] = "sending" /\ step'[p] = "lighter" /\ colour' = colour
        /\ lowerColour' = lowerColour /\ higherColour' = higherColour
    BY <1>0, <1>6 DEF AskLighter, ColTypeOK
  <2> QED BY <1>1, <2>1 DEF ListsFollowStep, ListsSplit
<1>7. CASE ReturnWithoutLighter(p)
  <2>1. step[p] = "sending" /\ step'[p] = "done" /\ colour' = colour /\ LighterHeard(p) = {}
        /\ lowerColour' = lowerColour /\ higherColour' = higherColour
    BY <1>0, <1>7 DEF ReturnWithoutLighter, ColTypeOK
  <2>2. N = H
    BY <1>2, <2>1, WeightsKnown DEF LighterHeard
  <2>3. \A q \in N : colour[q] # -1
    BY <2>1, <2>2 DEF CInv, ChoicesAreGreedy, GreedyChoice, MessagesFollowSteps, FollowsStep, Reached
  <2> QED BY <1>1, <2>1, <2>2, <2>3 DEF ListsFollowStep, ListsSplit
<1>8. CASE Return(p)
  <2> DEFINE L == LighterHeard(p)
             low == {q \in L : sent[q][p][2] < colour[p]}
             high == {q \in L : sent[q][p][2] > colour[p]}
  <2>1. /\ step[p] = "lighter" /\ step' = [step EXCEPT ![p] = "done"]
        /\ colour' = colour /\ RequestsDone(p)
        /\ lowerColour' = [lowerColour EXCEPT ![p] = @ \cup low]
        /\ higherColour' = [higherColour EXCEPT ![p] = @ \cup high]
    BY <1>8 DEF Return
  <2>2. L = N \ H /\ \A q \in L : colour[q] # -1 /\ sent[q][p][2] = colour[q]
    BY <2>1, LighterHeardFinal
  <2>3. low = {q \in N \ H : colour[q] < colour[p]} /\ high = {q \in N \ H : colour[q] > colour[p]}
    BY <2>2
  <2>4. \A q \in H : colour[q] # -1
    BY <2>1 DEF CInv, ChoicesAreGreedy, GreedyChoice, MessagesFollowSteps, FollowsStep, Reached
  <2>5. \A q \in N : colour[q] # -1
    BY <2>2, <2>4
  <2> HIDE DEF low, high, L
  <2>6. ListsSplit(p, H)
    BY <2>1 DEF ListsFollowStep
  <2>7. /\ step'[p] = "done" /\ lowerColour'[p] = lowerColour[p] \cup low
        /\ higherColour'[p] = higherColour[p] \cup high
    BY <1>0, <2>1 DEF ColTypeOK
  <2>8. lowerColour'[p] = {q \in N : colour[q] < colour[p]}
    BY <1>2, <2>3, <2>6, <2>7 DEF ListsSplit
  <2>9. higherColour'[p] = {q \in N : colour[q] > colour[p]}
    BY <1>2, <2>3, <2>6, <2>7 DEF ListsSplit
  <2> QED BY <1>1, <2>1, <2>5, <2>7, <2>8, <2>9 DEF ListsFollowStep, ListsSplit
<1> QED BY <1>3, <1>4, <1>5, <1>6, <1>7, <1>8 DEF ColStep

\* Those who do not move keep theirs, because the colours they hold are final.
LEMMA OtherLists ==
    ASSUME CInv, NEW p \in Procs, ColStep(p), NEW z \in Procs \ {p}, ListsFollowStep(z)
    PROVE  ListsFollowStep(z)'
<1>1. /\ graph' = graph /\ Heavier(graph, z)' = Heavier(graph, z)
      /\ step'[z] = step[z] /\ lowerColour'[z] = lowerColour[z]
      /\ higherColour'[z] = higherColour[z] /\ colour'[z] = colour[z]
  BY ColoursStay DEF Heavier
<1>2. graph[z] \subseteq Procs /\ Heavier(graph, z) \subseteq graph[z]
  BY GraphFacts DEF CInv, Heavier
<1>3. \A q \in Procs : colour[q] # -1 => colour'[q] = colour[q]
  BY ColoursStay
<1>4. CASE step[z] \in {"start", "degrees", "heavier"}
  BY <1>1, <1>4 DEF ListsFollowStep
<1>5. CASE step[z] \in {"sending", "lighter"}
  <2>1. \A q \in Heavier(graph, z) : colour[q] # -1
    BY <1>5 DEF CInv, ChoicesAreGreedy, GreedyChoice, MessagesFollowSteps, FollowsStep, Reached
  <2>2. \A q \in Heavier(graph, z) : colour'[q] = colour[q]
    BY <1>2, <1>3, <2>1
  <2>3. ListsSplit(z, Heavier(graph, z))
    BY <1>5 DEF ListsFollowStep
  <2>4. ListsSplit(z, Heavier(graph, z))'
    BY <1>1, <2>2, <2>3 DEF ListsSplit
  <2> QED BY <1>1, <1>5, <2>4 DEF ListsFollowStep
<1>6. CASE step[z] = "done"
  <2>1. ListsSplit(z, graph[z]) /\ \A q \in graph[z] : colour[q] # -1
    BY <1>6 DEF ListsFollowStep
  <2>2. \A q \in graph[z] : colour'[q] = colour[q]
    BY <1>2, <1>3, <2>1
  <2>3. ListsSplit(z, graph[z])'
    BY <1>1, <2>1, <2>2 DEF ListsSplit
  <2> QED BY <1>1, <1>6, <2>1, <2>2, <2>3 DEF ListsFollowStep
<1>7. step[z] \in Steps
  BY DEF CInv, ColTypeOK
<1> QED BY <1>4, <1>5, <1>6, <1>7 DEF Steps

\* For every graph of processes, when color() has returned, the lists it filled
\* split the neighbours into those of lower and those of higher colour, and no
\* neighbour is in neither: the colours read on the way were final.
THEOREM NeighboursAreSplit == ColSpec => []ListsSplitNeighbours
<1> DEFINE LInv == \A z \in Procs : ListsFollowStep(z)
<1>1. ColInit => LInv
  BY DEF ColInit, ListsFollowStep
<1>2. CInv /\ CInv' /\ LInv /\ [ColNext]_colVars => LInv'
  <2> SUFFICES ASSUME CInv, CInv', LInv, [ColNext]_colVars, NEW z \in Procs
               PROVE  ListsFollowStep(z)'
    OBVIOUS
  <2>1. ASSUME NEW p \in Procs, ColStep(p) PROVE ListsFollowStep(z)'
    BY <2>1, OwnLists, OtherLists
  <2>2. CASE UNCHANGED colVars
    <3>1. Heavier(graph, z)' = Heavier(graph, z)
      BY <2>2 DEF colVars, Heavier
    <3> QED BY <2>2, <3>1 DEF colVars, ListsFollowStep, ListsSplit
  <2> QED BY <2>1, <2>2 DEF ColNext
<1>3. CInv /\ LInv /\ ProperColouring => ListsSplitNeighbours
  <2> SUFFICES ASSUME CInv, LInv, ProperColouring, NEW p \in Procs, step[p] = "done"
               PROVE  /\ ListsSplit(p, graph[p])
                      /\ lowerColour[p] \cup higherColour[p] = graph[p]
    BY DEF ListsSplitNeighbours, ListsSplit
  <2>1. ListsSplit(p, graph[p]) /\ \A q \in graph[p] : colour[q] # -1
    BY DEF ListsFollowStep
  <2>2. colour[p] # -1
    BY DEF CInv, MessagesFollowSteps, FollowsStep, Reached
  <2>3. \A q \in graph[p] : q \in Procs
    BY GraphFacts DEF CInv
  <2>4. \A q \in graph[p] : colour[q] < colour[p] \/ colour[q] > colour[p]
    BY <2>1, <2>2, <2>3 DEF ProperColouring, CInv, ColTypeOK
  <2> QED BY <2>1, <2>4 DEF ListsSplit
<1> QED BY <1>1, <1>2, <1>3, CInvariant, ColouringIsProper, PTL DEF ColSpec

\* Every step of the protocol chooses one greedy colour or none.
THEOREM ColoringIsGreedy == ColSpec => Greedy!Safety
<1>1. ColInit => Greedy!Init
  BY DEF ColInit, Greedy!Init
<1>2. CInv /\ [ColNext]_colVars => [Greedy!Next]_(Greedy!vars)
  <2> SUFFICES ASSUME CInv, [ColNext]_colVars PROVE [Greedy!Next]_(Greedy!vars)
    OBVIOUS
  <2>0. ColTypeOK
    BY DEF CInv
  <2>5. \A p \in Procs : Greedy!Heavier(graph, p) = Heavier(graph, p)
    <3>1. ASSUME NEW S PROVE Greedy!Cardinality(S) = Cardinality(S)
      BY DEF Cardinality, Greedy!Cardinality
    <3> QED BY <3>1 DEF Heavier, IsHeavier, Greedy!Heavier, Greedy!IsHeavier
  <2>6. ASSUME NEW p \in Procs
        PROVE  Greedy!FreeColour({colour[q] : q \in Heavier(graph, p)})
                 = FreeColour({colour[q] : q \in Heavier(graph, p)})
    BY DEF FreeColour, Greedy!FreeColour, Min, Greedy!Min
  <2>1. ASSUME NEW p \in Procs, TakeFirstColour(p) PROVE Greedy!Choose(p)
    <3>1. Heavier(graph, p) = {}
      BY <2>1, DegreesHeard DEF TakeFirstColour
    <3>2. FreeColour({colour[q] : q \in Heavier(graph, p)}) = 0
      BY <3>1, FirstIsFree
    <3>3. colour[p] = -1
      BY <2>1 DEF TakeFirstColour, CInv, MessagesFollowSteps, FollowsStep, Reached
    <3> QED
      BY <2>1, <2>5, <2>6, <3>1, <3>2, <3>3 DEF TakeFirstColour, Greedy!Choose
  <2>2. ASSUME NEW p \in Procs, TakeFreeColour(p) PROVE Greedy!Choose(p)
    <3>1. /\ \A q \in Heavier(graph, p) : colour[q] # -1
          /\ colour' = [colour EXCEPT
                ![p] = FreeColour({colour[q] : q \in Heavier(graph, p)})]
      BY <2>2, HeardIsFree
    <3>2. colour[p] = -1 /\ graph' = graph
      BY <2>2 DEF TakeFreeColour, CInv, MessagesFollowSteps, FollowsStep, Reached
    <3> QED BY <2>5, <2>6, <3>1, <3>2 DEF Greedy!Choose
  <2>3. ASSUME NEW p \in Procs,
               \/ SendDegrees(p) \/ AskHeavier(p) \/ AskLighter(p)
               \/ ReturnWithoutLighter(p) \/ Return(p)
        PROVE  UNCHANGED Greedy!vars
    BY <2>3 DEF SendDegrees, AskHeavier, AskLighter, ReturnWithoutLighter, Return,
                Greedy!vars
  <2>4. UNCHANGED colVars => UNCHANGED Greedy!vars
    BY DEF colVars, Greedy!vars
  <2> QED BY <2>1, <2>2, <2>3, <2>4 DEF ColNext, ColStep, Greedy!Next
<1> QED BY <1>1, <1>2, CInvariant, PTL DEF ColSpec, Greedy!Safety
==============================================================================
