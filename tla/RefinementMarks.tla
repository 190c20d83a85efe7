--------------------------- MODULE RefinementMarks ---------------------------
(***************************************************************************)
(* HangingNodeRefinerBase::collect_objects_for_refine on a distributed     *)
(* multigrid of vertices, edges and faces: the marks given by the user are *)
(* extended until the refined grid has hanging nodes of order one only and *)
(* elements that meet at a vertex differ by one level at most.             *)
(*                                                                         *)
(* Every turn hands the elements marked in the turn before to three        *)
(* adjusters: StdHNodeAdjuster and MGHNodeAdjuster mark what the local     *)
(* part of the grid needs, ParallelHNodeAdjuster exchanges the marks of    *)
(* shared elements.  The turns end when no process has marked anything.    *)
(*                                                                         *)
(* The grid is a constant: this part of a refinement does not change it.   *)
(***************************************************************************)
EXTENDS Naturals, FiniteSets, FiniteSetsExt, Functions

CONSTANTS
  Procs,          \* ranks
  Vertices, Edges, Faces,
  Corners,        \* edge or face -> its vertices
  EdgesOf,        \* face -> its edges
  Constraining,   \* constrained vertex or edge -> its constraining edge
  ParentOf,       \* vertex with a parent vertex -> that vertex
  Refined,        \* the elements with children
  Holds,          \* rank -> the elements of its part of the grid
  UserMarks,      \* the marks to start from: rank -> element -> mark
  NodeDependencyOrder1 \* whether hanging nodes may depend on free ones only

Elems == Vertices \cup Edges \cup Faces

(* The values of RefinementMark, which the code compares.  RM_ANISOTROPIC  *)
(* is RM_CLOSURE and RM_REFINE is RM_FULL; RM_LOCAL is not used here.      *)
NONE    == 0
CLOSURE == 1
FULL    == 4
COARSEN == 8
DUMMY   == 16

VARIABLES
  marks,   \* rank -> element -> m_selMarkedElements
  current, \* rank -> the elements handed to the adjusters of this turn
  newly,   \* rank -> m_newlyMarkedRef...: marked during this turn
  pc,      \* rank -> how far it is
  asked    \* the marks the user gave (history)

vars == <<marks, current, newly, pc, asked>>

-----------------------------------------------------------------------------
(* The grid.                                                               *)

IsConstrained(x) == x \in DOMAIN Constraining
IsConstraining(x) == x \in Range(Constraining)

\* refinement_is_allowed; vertices of any level are marked while adjusting.
RefinementIsAllowed(x) ==
  x \in Vertices \/ x \notin Refined \/ IsConstraining(x)

\* Edges only constrain; only a vertex with a child is a parent.  Where hanging
\* nodes depend on free ones only, a hanging vertex becomes a free one before it
\* gets a child, since its constraining edge is refined with it.
ASSUME GridAssumption ==
  /\ IsFiniteSet(Elems)
  /\ Vertices \cap Edges = {} /\ Vertices \cap Faces = {} /\ Edges \cap Faces = {}
  /\ Corners \in [Edges \cup Faces -> SUBSET Vertices]
  /\ EdgesOf \in [Faces -> SUBSET Edges]
  /\ DOMAIN Constraining \subseteq Vertices \cup Edges
  /\ Range(Constraining) \subseteq Edges
  /\ DOMAIN ParentOf \subseteq Vertices
  /\ Range(ParentOf) \subseteq Vertices \cap Refined
  /\ NodeDependencyOrder1 => \A v \in Vertices \cap Refined : ~IsConstrained(v)

EdgesAt(v) == {e \in Edges : v \in Corners[e]}
FacesAt(v) == {f \in Faces : v \in Corners[f]}
FacesWith(e) == {f \in Faces : e \in EdgesOf[f]}

Holders(x) == {p \in Procs : x \in Holds[p]}

\* An element is held with its sides.  Without vertical interfaces children are
\* where their parents are; parents may be missing where only a child is shared.
ASSUME DistributionAssumption ==
  /\ IsFiniteSet(Procs) /\ Procs \subseteq Nat
  /\ Holds \in [Procs -> SUBSET Elems]
  /\ \A x \in Elems : Holders(x) # {}
  /\ \A p \in Procs :
       /\ \A x \in Holds[p] \cap (Edges \cup Faces) : Corners[x] \subseteq Holds[p]
       /\ \A f \in Holds[p] \cap Faces : EdgesOf[f] \subseteq Holds[p]
       /\ \A x \in DOMAIN Constraining : Constraining[x] \in Holds[p] => x \in Holds[p]
       /\ \A v \in DOMAIN ParentOf : ParentOf[v] \in Holds[p] => v \in Holds[p]

\* mark() as it is called before the marks are adjusted: not for elements with
\* children, unless they constrain others.
ASSUME UserMarksAssumption ==
  \A m \in UserMarks :
    /\ m = [p \in Procs |-> m[p]]
    /\ \A p \in Procs :
         /\ m[p] \in [Holds[p] -> {NONE, CLOSURE, FULL, COARSEN}]
         /\ \A x \in Holds[p] \cap Refined : m[p][x] # NONE => IsConstraining(x)

\* Held by several processes; the edges among those only.
IsInterfaceElement(x) == Cardinality(Holders(x)) > 1
MasterOf(x) == Min(Holders(x))
SlavesOf(x) == Holders(x) \ {MasterOf(x)}

-----------------------------------------------------------------------------
(* Marking: what an adjuster of process p sees and leaves, as a record of  *)
(* the marks and the newly marked elements.  The three sets are what the   *)
(* loop of an adjuster hands to mark(), with RM_FULL, RM_CLOSURE, RM_DUMMY; *)
(* an element that the loop itself marks comes again in the next turn.     *)

\* mark(): where it is allowed and changes something, the new mark replaces
\* the old one and the element is recorded.
Changes(s, x, full, closure, dummy) ==
  RefinementIsAllowed(x) /\ \/ x \in full /\ s.marks[x] # FULL
                            \/ x \in closure \ full /\ s.marks[x] # CLOSURE
                            \/ x \in dummy /\ s.marks[x] # DUMMY

Mark(s, p, full, closure, dummy) ==
  LET mark(x) == IF x \in dummy THEN DUMMY ELSE IF x \in full THEN FULL ELSE CLOSURE
  IN  [marks |-> [x \in Holds[p] |->
                    IF Changes(s, x, full, closure, dummy) THEN mark(x) ELSE s.marks[x]],
       newly |-> s.newly \cup {x \in Holds[p] : Changes(s, x, full, closure, dummy)}]

\* StdHNodeAdjuster: the constraining objects of constrained vertices.
StdVertices(s, p, list) ==
  Mark(s, p, {Constraining[v] : v \in {v \in list \cap Vertices :
                                         IsConstrained(v) /\ NodeDependencyOrder1}}, {}, {})

\* Constrained vertices among those given, which must be refined as well.
HangingAmong(V) == {v \in V : IsConstrained(v) /\ NodeDependencyOrder1}

\* The needs of fully marked edges, without the faces at a constraining one.
StdEdgesInside(s, p, list) ==
  LET marked == {e \in list \cap Edges : s.marks[e] = FULL}
  IN  Mark(s, p, HangingAmong(UNION {Corners[e] : e \in marked})
                   \cup {Constraining[e] : e \in {e \in marked : IsConstrained(e)}}, {}, {})

\* Fully marked edges: their hanging corners, their constraining edge, the
\* faces at a constraining edge unless those are refined anisotropically.
StdEdges(s, p, list) ==
  LET marked == {e \in list \cap Edges : s.marks[e] = FULL}
      beside == UNION {FacesWith(e) \cap Holds[p] : e \in {e \in marked : IsConstraining(e)}}
  IN  Mark(s, p, HangingAmong(UNION {Corners[e] : e \in marked})
                   \cup {Constraining[e] : e \in {e \in marked : IsConstrained(e)}}
                   \cup {f \in beside : s.marks[f] # CLOSURE}, {}, {})

\* Marked faces: their hanging corners, their edges at least as they are.
StdFaces(s, p, list) ==
  LET sides(m) == {e \in UNION {EdgesOf[f] : f \in {f \in list \cap Faces : s.marks[f] = m}} :
                     s.marks[e] < m}
  IN  Mark(s, p, HangingAmong(UNION {Corners[f] : f \in list \cap Faces}) \cup sides(FULL),
           sides(CLOSURE), {})

\* Only the corners that have no child yet.
MGCornersOnly(s, p, list) ==
  Mark(s, p, (UNION {Corners[x] : x \in list \cap (Edges \cup Faces)}) \ Refined, {}, {})

\* MGHNodeAdjuster: the corners that have no child yet; what is unmarked at
\* a marked vertex with a child; the parents of the other marked vertices.
MGVertices(s, p, list) ==
  LET free == {v \in list \cap Vertices : ~IsConstrained(v)}
      corners == (UNION {Corners[x] : x \in list \cap (Edges \cup Faces)}) \ Refined
      around == UNION {(EdgesAt(v) \cup FacesAt(v)) \cap Holds[p] : v \in free \cap Refined}
      parents == {ParentOf[v] : v \in {v \in (free \ Refined) \cap DOMAIN ParentOf :
                                         s.marks[v] # DUMMY}}
  IN  Mark(s, p, corners \cup {x \in around : s.marks[x] = NONE}, {}, parents)

\* Mutant: closure marks stay where they are.
ConsideredFull(m) == IF m = FULL THEN m ELSE NONE

\* The marks that are exchanged; without the anisotropic ones.
Considered(m) == IF m \in {CLOSURE, FULL} THEN m ELSE NONE

\* The marks of the slaves of x together; the mark of its master.
SlavesSay(x) == Max({Considered(marks[q][x]) : q \in SlavesOf(x)})
MasterSays(x) == Considered(marks[MasterOf(x)][x])

\* Process p takes over all marks it hears of.
ExtractAll(p, said) ==
  LET heard(m) == {x \in DOMAIN said \cap Holds[p] : said[x] = m}
  IN  Mark([marks |-> marks[p], newly |-> newly[p]], p, heard(FULL), heard(CLOSURE), {})

\* Process p takes over the larger marks it hears of.
Extract(p, said) ==
  LET larger(m) == {x \in DOMAIN said \cap Holds[p] : said[x] = m /\ m > marks[p][x]}
  IN  Mark([marks |-> marks[p], newly |-> newly[p]], p, larger(FULL), larger(CLOSURE), {})

-----------------------------------------------------------------------------
Init ==
  /\ marks \in UserMarks
  /\ current = [p \in Procs |-> {}]
  /\ newly = [p \in Procs |-> {}]
  /\ pc = [p \in Procs |-> "begin"]
  /\ asked = marks

\* Coarsen marks are removed, everything marked goes to the first turn.
Begin(p) ==
  /\ pc[p] = "begin"
  /\ marks' = [marks EXCEPT ![p] = [x \in Holds[p] |->
                 IF marks[p][x] = COARSEN THEN NONE ELSE marks[p][x]]]
  /\ current' = [current EXCEPT ![p] = {x \in Holds[p] : marks'[p][x] # NONE}]
  /\ newly' = [newly EXCEPT ![p] = {}]
  /\ pc' = [pc EXCEPT ![p] = "adjust"]
  /\ UNCHANGED asked

\* The two adjusters of the local part of the grid, up to the question of
\* ParallelHNodeAdjuster whether anybody has marked a shared element.
Adjust(p) ==
  /\ pc[p] = "adjust"
  /\ \E s1 \in {StdVertices([marks |-> marks[p], newly |-> newly[p]], p, current[p])} :
     \E s2 \in {StdEdges(s1, p, current[p])} :
     \E s3 \in {StdFaces(s2, p, current[p])} :
     \E s4 \in {MGVertices(s3, p, current[p])} :
        /\ marks' = [marks EXCEPT ![p] = s4.marks]
        /\ newly' = [newly EXCEPT ![p] = s4.newly]
  /\ pc' = [pc EXCEPT ![p] = "ask"]
  /\ UNCHANGED <<current, asked>>

\* pcl::OneProcTrue over the elements marked in the turn before.
Ask ==
  /\ \A p \in Procs : pc[p] = "ask"
  /\ LET exchange == \E p \in Procs : \E x \in current[p] : IsInterfaceElement(x)
     IN  pc' = [p \in Procs |-> IF exchange THEN "toMaster" ELSE "turn"]
  /\ UNCHANGED <<marks, current, newly, asked>>

\* The slaves' marks reach the masters.  A process waits for its neighbours
\* only, but what it hears was sent before and does not change meanwhile.
ToMaster ==
  /\ \A p \in Procs : pc[p] = "toMaster"
  /\ \E said \in {[x \in {x \in Elems : IsInterfaceElement(x)} |-> SlavesSay(x)]} :
     \E s \in {[p \in Procs |-> Extract(p, Restrict(said, {x \in DOMAIN said : MasterOf(x) = p}))]} :
        /\ marks' = [p \in Procs |-> s[p].marks]
        /\ newly' = [p \in Procs |-> s[p].newly]
  /\ pc' = [p \in Procs |-> "toSlave"]
  /\ UNCHANGED <<current, asked>>

\* The masters' marks, now complete, reach the slaves.
ToSlave ==
  /\ \A p \in Procs : pc[p] = "toSlave"
  /\ \E said \in {[x \in {x \in Elems : IsInterfaceElement(x)} |-> MasterSays(x)]} :
     \E s \in {[p \in Procs |-> Extract(p, said)]} :
        /\ marks' = [p \in Procs |-> s[p].marks]
        /\ newly' = [p \in Procs |-> s[p].newly]
  /\ pc' = [p \in Procs |-> "turn"]
  /\ UNCHANGED <<current, asked>>

\* Another turn for every process that has newly marked elements itself.
TurnAlone ==
  /\ \A p \in Procs : pc[p] \in {"turn", "done"}
  /\ \E p \in Procs : pc[p] = "turn"
  /\ current' = newly
  /\ newly' = [p \in Procs |-> {}]
  /\ pc' = [p \in Procs |-> IF newly[p] # {} THEN "adjust" ELSE "done"]
  /\ UNCHANGED <<marks, asked>>

\* continue_collect_objects_for_refine: another turn while some process has
\* newly marked elements.
Turn ==
  /\ \A p \in Procs : pc[p] = "turn"
  /\ IF \E p \in Procs : newly[p] # {}
     THEN /\ current' = newly
          /\ newly' = [p \in Procs |-> {}]
          /\ pc' = [p \in Procs |-> "adjust"]
     ELSE /\ pc' = [p \in Procs |-> "done"]
          /\ UNCHANGED <<current, newly>>
  /\ UNCHANGED <<marks, asked>>

Done == \A p \in Procs : pc[p] = "done"

Finished == Done /\ UNCHANGED vars

Next ==
  \/ \E p \in Procs : Begin(p) \/ Adjust(p)
  \/ Ask \/ ToMaster \/ ToSlave \/ Turn
  \/ Finished

\* Every process goes on while it can.
Spec == Init /\ [][Next]_vars /\ WF_vars(Next)

-----------------------------------------------------------------------------
(* Properties.                                                             *)

\* The mark of x on the processes that hold it.
MarksOf(x) == {marks[p][x] : p \in Holders(x)}

\* Edges, and the vertices that get a child, have the same mark on all
\* processes when the turns end: the copies of a shared element are refined
\* alike, which the interfaces of the next level rely on.
CopiesAgree ==
  Done => \A x \in Elems \ (Vertices \cap Refined) : Cardinality(MarksOf(x)) = 1

\* The grid that will be refined is closed, looked at as a whole: faces have
\* edges marked as much as they are; the constraining edge of a fully marked
\* one is fully marked; all faces at a fully marked constraining edge are
\* marked, whichever process holds them; corners get a child.
HangingNodesStayOfOrderOne ==
  Done =>
    /\ \A p, q \in Procs : \A f \in Faces \cap Holds[p] : \A e \in EdgesOf[f] \cap Holds[q] :
         RefinementIsAllowed(e) => marks[q][e] >= marks[p][f]
    /\ \A p, q \in Procs : \A e \in Edges \cap Holds[p] :
         (marks[p][e] = FULL /\ IsConstrained(e) /\ Constraining[e] \in Holds[q])
           => marks[q][Constraining[e]] = FULL
    /\ \A p, q \in Procs : \A e \in Edges \cap Holds[p] :
         marks[p][e] = FULL /\ IsConstraining(e) =>
           \A f \in FacesWith(e) \cap Holds[q] : f \notin Refined => marks[q][f] # NONE
    /\ \A p \in Procs : \A x \in (Edges \cup Faces) \cap Holds[p] :
         marks[p][x] # NONE =>
           \A v \in Corners[x] \ Refined : \A q \in Holders(v) : marks[q][v] = FULL

\* Elements that meet at a vertex differ by one level at most: a vertex that
\* gets a child of the second generation has no unrefined element at its
\* parent left, on any process.
LevelsDifferByOne ==
  Done =>
    \A p \in Procs : \A v \in Vertices \cap Holds[p] :
      (marks[p][v] = FULL /\ v \notin Refined /\ ~IsConstrained(v) /\ v \in DOMAIN ParentOf) =>
        \A q \in Procs : \A x \in (EdgesAt(ParentOf[v]) \cup FacesAt(ParentOf[v])) \cap Holds[q] :
          x \notin Refined => marks[q][x] # NONE

\* The refined grid has hanging nodes of order one only, and no steep change of
\* its level: what the adjusters are there for.
GridStaysRegular == HangingNodesStayOfOrderOne /\ LevelsDifferByOne

\* What the whole grid needs when x is fully marked, without looking at how
\* it is distributed.
Needs(x) ==
  LET corners == IF x \in Vertices THEN {} ELSE Corners[x]
      up == {v \in corners : v \notin Refined \/ (NodeDependencyOrder1 /\ IsConstrained(v))}
      above == IF IsConstrained(x) /\ (x \in Edges \/ NodeDependencyOrder1)
               THEN {Constraining[x]} ELSE {}
      beside == IF IsConstraining(x) THEN FacesWith(x) ELSE {}
      level == IF x \in DOMAIN ParentOf /\ x \notin Refined /\ ~IsConstrained(x)
               THEN EdgesAt(ParentOf[x]) \cup FacesAt(ParentOf[x]) ELSE {}
      sides == IF x \in Faces THEN EdgesOf[x] ELSE {}
  IN  {y \in up \cup above \cup beside \cup level \cup sides : RefinementIsAllowed(y)}

ClosureOf(S) ==
  LET grow[n \in Nat] == IF n = 0 THEN S
                         ELSE LET T == grow[n - 1] IN T \cup UNION {Needs(x) : x \in T}
  IN  grow[Cardinality(Elems)]

\* The elements the user gave the mark m, on some process.
AskedFor(m) == {x \in Elems : \E p \in Holders(x) : asked[p][x] = m}

\* Distribution adds nothing and loses nothing: what is marked in the end is
\* the least closed set around what the user marked, as on one process.  Said
\* where the user gives no RM_CLOSURE, which a later RM_FULL may replace.
JustTheClosureIsMarked ==
  Done /\ AskedFor(CLOSURE) = {} =>
    {x \in Elems \ (Vertices \cap Refined) : FULL \in MarksOf(x)}
      = ClosureOf(AskedFor(FULL)) \ (Vertices \cap Refined)

\* An edge or face never loses a part of its mark while marks are adjusted.
MarksOnlyGrow ==
  [][\A p \in Procs : pc[p] # "begin" =>
       \A x \in (Edges \cup Faces) \cap Holds[p] : marks'[p][x] >= marks[p][x]]_vars

\* The turns come to an end on every process.
TurnsEnd == <>Done
==============================================================================
