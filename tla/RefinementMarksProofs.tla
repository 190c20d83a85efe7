------------------------ MODULE RefinementMarksProofs ------------------------
(***************************************************************************)
(* What the refinement marks are when the turns end, for any grid, any     *)
(* distribution of it and all marks a user may set.                        *)
(*                                                                         *)
(* An adjuster looks at the elements of its list only.  So the properties  *)
(* rest on what is true of all other elements: what a marked element needs *)
(* of its neighbours is there, unless the element waits for its turn       *)
(* (LocalInv), and its copies agree, unless one of them was just marked    *)
(* (CopiesInv).  That nothing else is marked rests on reasons: what is     *)
(* marked is in the closure of what the user marked (ReasonInv), which     *)
(* is the least set around it that contains what its elements need.        *)
(***************************************************************************)
EXTENDS RefinementMarks, FiniteSetTheorems, TLAPS

------------------------------------------------------------------------------
(* Sets of naturals *)

\* A non-empty set of naturals has a least element.
LEMMA LeastNat ==
    ASSUME NEW T \in SUBSET Nat, T # {}
    PROVE  \E m \in T : \A n \in T : m <= n
<1> DEFINE Less == {ss \in Nat \X Nat : ss[1] < ss[2]}
<1>1. IsWellFoundedOn(Less, Nat)
  BY NatLessThanWellFounded DEF OpToRel
<1>2. PICK m \in T : \A n \in T : <<n, m>> \notin Less
  <2> HIDE DEF Less
  <2> QED BY <1>1, WFMin
<1>3. \A n \in Nat : \A k \in Nat : <<n, k>> \notin Less => k <= n
  OBVIOUS
<1> QED BY <1>2, <1>3

------------------------------------------------------------------------------
Phases == {"begin", "adjust", "ask", "toMaster", "toSlave", "turn", "done"}

\* The elements whose copies are refined alike.
Common == Elems \ (Vertices \cap Refined)

\* What an adjuster of p works on.
State(p) == [marks |-> marks[p], newly |-> newly[p]]

\* The marks a process may see while marks are adjusted.
ProperAt(m, x) ==
  /\ m \in {NONE, CLOSURE, FULL, DUMMY}
  /\ x \in Common => m # DUMMY
  /\ x \in Vertices \cap Refined /\ ~IsConstrained(x) => m \in {NONE, DUMMY}
  /\ m # NONE => RefinementIsAllowed(x)

Proper(s, p) ==
  /\ s.marks = [x \in Holds[p] |-> s.marks[x]]
  /\ s.newly \subseteq Holds[p]
  /\ \A x \in Holds[p] : ProperAt(s.marks[x], x)

\* Marks change to more than they were, and what changes is recorded.
GrowsAt(m, n, x) ==
  /\ m # NONE => n # NONE
  /\ x \in Common => n >= m

Grows(s, t, p) ==
  /\ s.newly \subseteq t.newly
  /\ \A x \in Holds[p] : GrowsAt(s.marks[x], t.marks[x], x)
  /\ \A x \in Holds[p] : t.marks[x] # s.marks[x] => x \in t.newly

-----------------------------------------------------------------------------
(* What an element needs of the part of the grid it is in.                 *)

FaceServed(m, f) == \A e \in EdgesOf[f] : RefinementIsAllowed(e) => m[e] >= m[f]

ConstrainedServed(m, p, e) ==
  m[e] = FULL /\ IsConstrained(e) /\ Constraining[e] \in Holds[p] => m[Constraining[e]] = FULL

ConstrainingServed(m, p, e) ==
  m[e] = FULL /\ IsConstraining(e) =>
    \A f \in FacesWith(e) \cap Holds[p] : f \notin Refined => m[f] # NONE

CornersServed(m, x) == m[x] # NONE => \A v \in Corners[x] \ Refined : m[v] = FULL

ParentServed(m, p, v) ==
  /\ m[v] = FULL /\ v \notin Refined /\ ~IsConstrained(v)
  /\ v \in DOMAIN ParentOf /\ ParentOf[v] \in Holds[p] /\ ~IsConstrained(ParentOf[v])
  => m[ParentOf[v]] = DUMMY

AroundServed(m, p, v) ==
  m[v] = DUMMY /\ v \in Refined /\ ~IsConstrained(v) =>
    \A x \in (EdgesAt(v) \cup FacesAt(v)) \cap Holds[p] : RefinementIsAllowed(x) => m[x] # NONE

Served(m, p, x) ==
  /\ x \in Faces => FaceServed(m, x)
  /\ x \in Edges => ConstrainingServed(m, p, x)
  /\ x \in Edges \/ (x \in Vertices /\ NodeDependencyOrder1) => ConstrainedServed(m, p, x)
  /\ x \in Edges \cup Faces => CornersServed(m, x)
  /\ x \in Vertices => ParentServed(m, p, x) /\ AroundServed(m, p, x)

-----------------------------------------------------------------------------
(* The invariant.                                                          *)

\* Processes begin and adjust each in its own time, the rest they do together.
PhaseInv ==
  \/ \A p \in Procs : pc[p] \in {"begin", "adjust", "ask"}
  \/ \E phase \in {"toMaster", "toSlave", "turn", "done"} : \A p \in Procs : pc[p] = phase

TypeAt(p) ==
  /\ pc[p] = "begin" =>
       /\ marks[p] \in [Holds[p] -> {NONE, CLOSURE, FULL, COARSEN}]
       /\ \A x \in Holds[p] \cap Refined : marks[p][x] # NONE => IsConstraining(x)
  /\ pc[p] # "begin" => Proper(State(p), p) /\ current[p] \subseteq Holds[p]
  /\ pc[p] \in {"begin", "adjust", "done"} => newly[p] = {}

MarksTypeOK ==
  /\ marks = [p \in Procs |-> marks[p]]
  /\ current \in [Procs -> SUBSET Elems]
  /\ newly \in [Procs -> SUBSET Elems]
  /\ pc \in [Procs -> Phases]
  /\ PhaseInv
  /\ \A p \in Procs : TypeAt(p)

\* The elements that the next adjusters of p will look at.
Waiting(p) == IF pc[p] = "adjust" THEN current[p] ELSE newly[p]

LocalAt(p) ==
  pc[p] # "begin" => \A x \in Holds[p] : x \in Waiting(p) \/ Served(marks[p], p, x)

LocalInv == \A p \in Procs : LocalAt(p)

Settled(x) == \A p, q \in Holders(x) : marks[p][x] = marks[q][x]
JustMarked(x) == \E p \in Holders(x) : x \in newly[p]
Noticed(x) == \E p \in Holders(x) : x \in current[p] \cup newly[p]
MasterLeads(x) == \A p \in Holders(x) : marks[MasterOf(x)][x] >= marks[p][x]

AllIn(phases) == \A p \in Procs : pc[p] \in phases

CopyInv(x) ==
  /\ AllIn({"adjust", "ask"}) => Settled(x) \/ Noticed(x)
  /\ ~AllIn({"adjust", "ask"}) /\ AllIn({"begin", "adjust", "ask"}) =>
       \A p \in Holders(x) : pc[p] # "begin" /\ marks[p][x] # NONE =>
                               x \in current[p] \cup newly[p]
  /\ AllIn({"toSlave"}) => MasterLeads(x)
  /\ AllIn({"turn"}) => Settled(x) \/ JustMarked(x)
  /\ AllIn({"done"}) => Settled(x)

CopiesInv == \A x \in Common : CopyInv(x)

MarksInv == MarksTypeOK /\ LocalInv /\ CopiesInv

\* What a step does to the marks of p.
Growing(p) ==
  pc[p] # "begin" => \A x \in Common \cap Holds[p] : marks'[p][x] >= marks[p][x]

-----------------------------------------------------------------------------
(* Marking.                                                                *)

\* mark() changes what it has to, and records it.
LEMMA MarkDomain ==
  ASSUME NEW p \in Procs, NEW s, s.newly \subseteq Holds[p],
         s.marks = [x \in Holds[p] |-> s.marks[x]], NEW F, NEW C, NEW D
  PROVE  /\ Mark(s, p, F, C, D).marks = [x \in Holds[p] |-> Mark(s, p, F, C, D).marks[x]]
         /\ s.newly \subseteq Mark(s, p, F, C, D).newly
         /\ Mark(s, p, F, C, D).newly \subseteq Holds[p]
<1> DEFINE change == {x \in Holds[p] : Changes(s, x, F, C, D)}
           mark(x) == IF x \in D THEN DUMMY ELSE IF x \in F THEN FULL ELSE CLOSURE
           n(x) == IF Changes(s, x, F, C, D) THEN mark(x) ELSE s.marks[x]
<1>1. Mark(s, p, F, C, D) = [marks |-> [x \in Holds[p] |-> n(x)], newly |-> s.newly \cup change]
  BY DEF Mark
<1>2. change \subseteq Holds[p]
  OBVIOUS
<1> QED
  <2> HIDE DEF change, n
  <2> QED BY <1>1, <1>2

LEMMA MarkAt ==
  ASSUME NEW p \in Procs, NEW s, s.newly \subseteq Holds[p],
         s.marks = [x \in Holds[p] |-> s.marks[x]], NEW F, NEW C, NEW D, NEW x \in Holds[p]
  PROVE  /\ Changes(s, x, F, C, D) =>
              /\ x \in D => Mark(s, p, F, C, D).marks[x] = DUMMY
              /\ x \in F \ D => Mark(s, p, F, C, D).marks[x] = FULL
              /\ x \notin F \cup D => Mark(s, p, F, C, D).marks[x] = CLOSURE
              /\ x \in Mark(s, p, F, C, D).newly
         /\ ~Changes(s, x, F, C, D) => Mark(s, p, F, C, D).marks[x] = s.marks[x]
         /\ x \in Mark(s, p, F, C, D).newly => x \in s.newly \/ Changes(s, x, F, C, D)
<1> DEFINE change == {y \in Holds[p] : Changes(s, y, F, C, D)}
           mark(y) == IF y \in D THEN DUMMY ELSE IF y \in F THEN FULL ELSE CLOSURE
           n(y) == IF Changes(s, y, F, C, D) THEN mark(y) ELSE s.marks[y]
<1>1. Mark(s, p, F, C, D) = [marks |-> [y \in Holds[p] |-> n(y)], newly |-> s.newly \cup change]
  BY DEF Mark
<1>4. x \in change <=> Changes(s, x, F, C, D)
  OBVIOUS
<1>5. Mark(s, p, F, C, D).marks[x] = IF x \in change THEN mark(x) ELSE s.marks[x]
  <2>1. Mark(s, p, F, C, D).marks[x] = n(x)
    <3> HIDE DEF change, n
    <3> QED BY <1>1
  <2> QED BY <2>1, <1>4
<1>6. x \in Mark(s, p, F, C, D).newly <=> x \in s.newly \/ x \in change
  BY <1>1
<1>7. /\ x \in D => mark(x) = DUMMY
      /\ x \in F \ D => mark(x) = FULL
      /\ x \notin F \cup D => mark(x) = CLOSURE
  OBVIOUS
<1> QED
  <2> HIDE DEF change, mark
  <2> QED BY <1>4, <1>5, <1>6, <1>7

\* What may be handed to mark() after the marks s.
Allowed(s, p, F, C, D) ==
  /\ D \subseteq Vertices \cap Refined
  /\ D \cap (F \cup C) = {}
  /\ \A v \in (F \cup C) \cap Vertices \cap Refined : IsConstrained(v)
  /\ \A x \in (C \ F) \cap Holds[p] \cap Common : s.marks[x] \in {NONE, CLOSURE}

LEMMA MarkGrows ==
  ASSUME NEW p \in Procs, NEW s, Proper(s, p), NEW F, NEW C, NEW D, Allowed(s, p, F, C, D)
  PROVE  Proper(Mark(s, p, F, C, D), p) /\ Grows(s, Mark(s, p, F, C, D), p)
<1> DEFINE t == Mark(s, p, F, C, D)
<1>1. /\ t.marks = [x \in Holds[p] |-> t.marks[x]]
      /\ s.newly \subseteq t.newly /\ t.newly \subseteq Holds[p]
  BY MarkDomain DEF Proper
<1>2. ASSUME NEW x \in Holds[p]
      PROVE  /\ ProperAt(t.marks[x], x) /\ GrowsAt(s.marks[x], t.marks[x], x)
             /\ t.marks[x] # s.marks[x] => x \in t.newly
  <2>1. ProperAt(s.marks[x], x)
    BY DEF Proper
  <2>2. /\ Changes(s, x, F, C, D) =>
             /\ x \in D => t.marks[x] = DUMMY
             /\ x \in F \ D => t.marks[x] = FULL
             /\ x \notin F \cup D => t.marks[x] = CLOSURE
             /\ x \in t.newly
        /\ ~Changes(s, x, F, C, D) => t.marks[x] = s.marks[x]
    BY MarkAt DEF Proper
  <2>3. CASE ~Changes(s, x, F, C, D)
    <3>1. t.marks[x] = s.marks[x]
      BY <2>2, <2>3
    <3>2. GrowsAt(s.marks[x], s.marks[x], x)
      BY <2>1 DEF GrowsAt, ProperAt, NONE, CLOSURE, FULL, DUMMY
    <3> HIDE DEF t
    <3> QED BY <3>1, <3>2, <2>1
  <2>4. CASE Changes(s, x, F, C, D)
    <3> HIDE DEF t
    <3>1. RefinementIsAllowed(x) /\ x \in F \cup C \cup D
      BY <2>4 DEF Changes
    <3>2. CASE x \in D
      <4>1. t.marks[x] = DUMMY /\ x \in t.newly
        BY <2>2, <2>4, <3>2
      <4>2. x \in Vertices \cap Refined
        BY <3>2 DEF Allowed
      <4> QED BY <4>1, <4>2, <3>1, <2>1 DEF ProperAt, GrowsAt, Common, NONE, CLOSURE, FULL, DUMMY
    <3>3. CASE x \notin D
      <4>1. t.marks[x] \in {FULL, CLOSURE} /\ x \in t.newly
        BY <2>2, <2>4, <3>3
      <4>2. x \in Vertices \cap Refined => IsConstrained(x)
        BY <3>1, <3>3 DEF Allowed
      <4>3. x \in Common => t.marks[x] >= s.marks[x]
        <5> SUFFICES ASSUME x \in Common PROVE t.marks[x] >= s.marks[x]
          OBVIOUS
        <5>1. s.marks[x] \in {NONE, CLOSURE, FULL}
          BY <2>1 DEF ProperAt
        <5>2. CASE x \in F
          BY <5>1, <5>2, <2>2, <2>4, <3>3 DEF NONE, CLOSURE, FULL
        <5>3. CASE x \notin F
          <6>1. s.marks[x] \in {NONE, CLOSURE} /\ t.marks[x] = CLOSURE
            BY <5>3, <3>1, <3>3, <2>2, <2>4 DEF Allowed
          <6> QED BY <6>1 DEF NONE, CLOSURE
        <5> QED BY <5>2, <5>3
      <4> QED BY <4>1, <4>2, <4>3, <3>1 DEF ProperAt, GrowsAt, NONE, CLOSURE, FULL, DUMMY
    <3> QED BY <3>2, <3>3
  <2> QED BY <2>3, <2>4
<1> HIDE DEF t
<1>3. Proper(t, p) /\ Grows(s, t, p)
  BY <1>1, <1>2 DEF Proper, Grows
<1> QED BY <1>3 DEF t

LEMMA MarkSets ==
  ASSUME NEW p \in Procs, NEW s, Proper(s, p), NEW F, NEW C, NEW D, Allowed(s, p, F, C, D),
         NEW x \in Holds[p], RefinementIsAllowed(x)
  PROVE  /\ x \in F => Mark(s, p, F, C, D).marks[x] = FULL
         /\ x \in C \ F => Mark(s, p, F, C, D).marks[x] = CLOSURE
         /\ x \in D => Mark(s, p, F, C, D).marks[x] = DUMMY
<1> DEFINE t == Mark(s, p, F, C, D)
<1>1. /\ Changes(s, x, F, C, D) =>
           /\ x \in D => t.marks[x] = DUMMY
           /\ x \in F \ D => t.marks[x] = FULL
           /\ x \notin F \cup D => t.marks[x] = CLOSURE
      /\ ~Changes(s, x, F, C, D) => t.marks[x] = s.marks[x]
  BY MarkAt DEF Proper
<1>2. D \cap (F \cup C) = {}
  BY DEF Allowed
<1> HIDE DEF t
<1>3. /\ x \in F => t.marks[x] = FULL
      /\ x \in C \ F => t.marks[x] = CLOSURE
      /\ x \in D => t.marks[x] = DUMMY
  BY <1>1, <1>2 DEF Changes
<1> QED BY <1>3 DEF t

LEMMA GrowsIsTransitive ==
  ASSUME NEW p \in Procs, NEW s, NEW t, NEW u, Proper(s, p), Proper(t, p), Proper(u, p),
         Grows(s, t, p), Grows(t, u, p)
  PROVE  Grows(s, u, p)
<1>1. s.newly \subseteq u.newly
  BY DEF Grows
<1>2. ASSUME NEW x \in Holds[p]
      PROVE  /\ GrowsAt(s.marks[x], u.marks[x], x)
             /\ u.marks[x] # s.marks[x] => x \in u.newly
  <2>1. ProperAt(s.marks[x], x) /\ ProperAt(t.marks[x], x) /\ ProperAt(u.marks[x], x)
    BY DEF Proper
  <2>2. GrowsAt(s.marks[x], t.marks[x], x) /\ GrowsAt(t.marks[x], u.marks[x], x)
    BY DEF Grows
  <2>3. GrowsAt(s.marks[x], u.marks[x], x)
    BY <2>1, <2>2 DEF GrowsAt, ProperAt, NONE, CLOSURE, FULL, DUMMY
  <2>4. u.marks[x] # s.marks[x] => x \in u.newly
    BY DEF Grows
  <2> QED BY <2>3, <2>4
<1> QED BY <1>1, <1>2 DEF Grows

-----------------------------------------------------------------------------
(* What the adjusters leave.                                               *)

LEMMA ConstrainingIsEdge ==
  ASSUME NEW x \in DOMAIN Constraining
  PROVE  /\ Constraining[x] \in Edges /\ Constraining[x] \notin Vertices
         /\ RefinementIsAllowed(Constraining[x])
<1>1. Constraining[x] \in Range(Constraining)
  BY DEF Range
<1> QED BY <1>1, GridAssumption DEF RefinementIsAllowed, IsConstraining

LEMMA ProcHolds ==
  ASSUME NEW p \in Procs
  PROVE  /\ Holds[p] \subseteq Elems
         /\ \A x \in Holds[p] \cap (Edges \cup Faces) : Corners[x] \subseteq Holds[p] \cap Vertices
         /\ \A f \in Holds[p] \cap Faces : EdgesOf[f] \subseteq Holds[p] \cap Edges
  BY GridAssumption, DistributionAssumption

LEMMA StdVerticesGrow ==
  ASSUME NEW p \in Procs, NEW s, Proper(s, p), NEW list \in SUBSET Holds[p]
  PROVE  LET t == StdVertices(s, p, list) IN
         /\ Proper(t, p) /\ Grows(s, t, p)
         /\ \A v \in list \cap Vertices :
              NodeDependencyOrder1 /\ IsConstrained(v) /\ Constraining[v] \in Holds[p] =>
                t.marks[Constraining[v]] = FULL
<1> DEFINE F == {Constraining[v] : v \in {v \in list \cap Vertices :
                                            IsConstrained(v) /\ NodeDependencyOrder1}}
           t == Mark(s, p, F, {}, {})
<1>1. StdVertices(s, p, list) = t
  BY DEF StdVertices
<1>2. Allowed(s, p, F, {}, {})
  BY ConstrainingIsEdge DEF Allowed, IsConstrained
<1>3. ASSUME NEW v \in list \cap Vertices, NodeDependencyOrder1, IsConstrained(v),
             Constraining[v] \in Holds[p]
      PROVE  t.marks[Constraining[v]] = FULL
  <2>1. Constraining[v] \in F /\ RefinementIsAllowed(Constraining[v])
    BY <1>3, ConstrainingIsEdge DEF IsConstrained
  <2> HIDE DEF F
  <2> QED BY <2>1, <1>2, <1>3, MarkSets
<1>4. Proper(t, p) /\ Grows(s, t, p)
  <2> HIDE DEF F
  <2> QED BY <1>2, MarkGrows
<1> HIDE DEF t
<1> QED BY <1>1, <1>3, <1>4

LEMMA StdEdgesGrow ==
  ASSUME NEW p \in Procs, NEW s, Proper(s, p), NEW list \in SUBSET Holds[p]
  PROVE  LET t == StdEdges(s, p, list) IN
         /\ Proper(t, p) /\ Grows(s, t, p)
         /\ \A e \in list \cap Edges : s.marks[e] = FULL =>
              /\ IsConstrained(e) /\ Constraining[e] \in Holds[p] =>
                   t.marks[Constraining[e]] = FULL
              /\ IsConstraining(e) =>
                   \A f \in FacesWith(e) \cap Holds[p] : f \notin Refined => t.marks[f] # NONE
<1> DEFINE marked == {e \in list \cap Edges : s.marks[e] = FULL}
           beside == UNION {FacesWith(e) \cap Holds[p] : e \in {e \in marked : IsConstraining(e)}}
           above == {Constraining[e] : e \in {e \in marked : IsConstrained(e)}}
           F == HangingAmong(UNION {Corners[e] : e \in marked}) \cup above
                  \cup {f \in beside : s.marks[f] # CLOSURE}
           t == Mark(s, p, F, {}, {})
<1>1. StdEdges(s, p, list) = t
  BY DEF StdEdges
<1>2. above \subseteq Edges /\ beside \subseteq Faces /\ \A e \in above : e \notin Vertices
  BY ConstrainingIsEdge DEF IsConstrained, FacesWith
<1>3. Allowed(s, p, F, {}, {})
  <2>1. \A v \in F \cap Vertices : IsConstrained(v)
    BY <1>2, GridAssumption DEF HangingAmong
  <2> HIDE DEF F
  <2> QED BY <2>1 DEF Allowed
<1>4. Proper(t, p) /\ Grows(s, t, p)
  <2> HIDE DEF F
  <2> QED BY <1>3, MarkGrows
<1>5. ASSUME NEW e \in list \cap Edges, s.marks[e] = FULL, IsConstrained(e),
             Constraining[e] \in Holds[p]
      PROVE  t.marks[Constraining[e]] = FULL
  <2>1. Constraining[e] \in F
    BY <1>5
  <2>2. RefinementIsAllowed(Constraining[e])
    BY <1>5, ConstrainingIsEdge DEF IsConstrained
  <2> HIDE DEF F
  <2> QED BY <2>1, <2>2, <1>3, <1>5, MarkSets
<1>6. ASSUME NEW e \in list \cap Edges, s.marks[e] = FULL, IsConstraining(e),
             NEW f \in FacesWith(e) \cap Holds[p], f \notin Refined
      PROVE  t.marks[f] # NONE
  <2>1. f \in beside
    BY <1>6
  <2>2. CASE s.marks[f] = CLOSURE
    <3> HIDE DEF F, t
    <3> QED BY <2>2, <1>4 DEF Grows, GrowsAt, NONE, CLOSURE
  <2>3. CASE s.marks[f] # CLOSURE
    <3>1. f \in F
      BY <2>1, <2>3
    <3>2. RefinementIsAllowed(f)
      BY <1>6 DEF RefinementIsAllowed
    <3>3. t.marks[f] = FULL
      <4> HIDE DEF F
      <4> QED BY <3>1, <3>2, <1>3, MarkSets
    <3> QED BY <3>3 DEF FULL, NONE
  <2> QED BY <2>2, <2>3
<1> HIDE DEF t
<1> QED BY <1>1, <1>4, <1>5, <1>6

LEMMA StdFacesGrow ==
  ASSUME NEW p \in Procs, NEW s, Proper(s, p), NEW list \in SUBSET Holds[p]
  PROVE  LET t == StdFaces(s, p, list) IN
         /\ Proper(t, p) /\ Grows(s, t, p)
         /\ \A f \in list \cap Faces : \A e \in EdgesOf[f] :
              RefinementIsAllowed(e) => t.marks[e] >= s.marks[f]
<1> DEFINE sides(m) == {e \in UNION {EdgesOf[f] : f \in {f \in list \cap Faces : s.marks[f] = m}} :
                          s.marks[e] < m}
           F == HangingAmong(UNION {Corners[f] : f \in list \cap Faces}) \cup sides(FULL)
           C == sides(CLOSURE)
           t == Mark(s, p, F, C, {})
<1>1. StdFaces(s, p, list) = t
  BY DEF StdFaces
<1>2. \A m : sides(m) \subseteq Edges
  BY GridAssumption
<1>3. Allowed(s, p, F, C, {})
  <2>1. \A v \in (F \cup C) \cap Vertices : IsConstrained(v)
    BY <1>2, GridAssumption DEF HangingAmong
  <2>2. ASSUME NEW x \in C, x \in Holds[p]
        PROVE  s.marks[x] \in {NONE, CLOSURE}
    <3>1. s.marks[x] < CLOSURE /\ ProperAt(s.marks[x], x)
      BY <2>2 DEF Proper
    <3> QED BY <3>1 DEF ProperAt, NONE, CLOSURE, FULL, DUMMY
  <2> HIDE DEF F, C
  <2> QED BY <2>1, <2>2 DEF Allowed
<1>4. Proper(t, p) /\ Grows(s, t, p)
  <2> HIDE DEF F, C
  <2> QED BY <1>3, MarkGrows
<1>5. ASSUME NEW f \in list \cap Faces, NEW e \in EdgesOf[f], RefinementIsAllowed(e)
      PROVE  t.marks[e] >= s.marks[f]
  <2>1. /\ e \in Holds[p] /\ e \in Edges /\ e \in Common
        /\ f \in Holds[p] /\ f \in Faces /\ f \in Common
    BY ProcHolds, GridAssumption DEF Common
  <2>2. s.marks[e] \in {NONE, CLOSURE, FULL} /\ s.marks[f] \in {NONE, CLOSURE, FULL}
    BY <2>1 DEF Proper, ProperAt
  <2>3. e \in F => t.marks[e] = FULL
    <3> HIDE DEF F, C
    <3> QED BY <2>1, <1>3, <1>5, MarkSets
  <2>4. e \in C \ F => t.marks[e] = CLOSURE
    <3> HIDE DEF F, C
    <3> QED BY <2>1, <1>3, <1>5, MarkSets
  <2>5. t.marks[e] >= s.marks[e] /\ t.marks[e] \in {NONE, CLOSURE, FULL}
    <3> HIDE DEF t
    <3> QED BY <2>1, <1>4 DEF Grows, GrowsAt, Proper, ProperAt
  <2>6. CASE s.marks[e] >= s.marks[f]
    <3> HIDE DEF t
    <3> QED BY <2>2, <2>5, <2>6 DEF NONE, CLOSURE, FULL
  <2>7. CASE s.marks[e] < s.marks[f] /\ s.marks[f] = FULL
    <3>1. e \in F
      BY <2>1, <2>7
    <3> HIDE DEF F, C, t
    <3> QED BY <3>1, <2>3, <2>7 DEF FULL
  <2>8. CASE s.marks[e] < s.marks[f] /\ s.marks[f] = CLOSURE
    <3>1. e \in C
      BY <2>1, <2>8
    <3> HIDE DEF F, C, t
    <3> QED BY <3>1, <2>3, <2>4, <2>8 DEF FULL, CLOSURE
  <2> QED BY <2>2, <2>6, <2>7, <2>8 DEF NONE, CLOSURE, FULL
<1> HIDE DEF t
<1> QED BY <1>1, <1>4, <1>5

LEMMA MGVerticesGrow ==
  ASSUME NEW p \in Procs, NEW s, Proper(s, p), NEW list \in SUBSET Holds[p]
  PROVE  LET t == MGVertices(s, p, list) IN
         /\ Proper(t, p) /\ Grows(s, t, p)
         /\ \A x \in list \cap (Edges \cup Faces) : \A v \in Corners[x] \ Refined :
              t.marks[v] = FULL
         /\ \A v \in list \cap Vertices : ~IsConstrained(v) =>
              /\ v \notin Refined /\ v \in DOMAIN ParentOf /\ ParentOf[v] \in Holds[p] =>
                   t.marks[ParentOf[v]] = DUMMY
              /\ v \in Refined =>
                   \A x \in (EdgesAt(v) \cup FacesAt(v)) \cap Holds[p] :
                     RefinementIsAllowed(x) => t.marks[x] # NONE
<1> DEFINE free == {v \in list \cap Vertices : ~IsConstrained(v)}
           corners == (UNION {Corners[x] : x \in list \cap (Edges \cup Faces)}) \ Refined
           around == UNION {(EdgesAt(v) \cup FacesAt(v)) \cap Holds[p] : v \in free \cap Refined}
           F == corners \cup {x \in around : s.marks[x] = NONE}
           D == {ParentOf[v] : v \in {v \in (free \ Refined) \cap DOMAIN ParentOf :
                                        s.marks[v] # DUMMY}}
           t == Mark(s, p, F, {}, D)
<1>1. MGVertices(s, p, list) = t
  BY DEF MGVertices
<1>2. \A v \in DOMAIN ParentOf : ParentOf[v] \in Vertices \cap Refined
  BY GridAssumption DEF Range
<1>3. Allowed(s, p, F, {}, D)
  <2>1. D \subseteq Vertices \cap Refined
    BY <1>2
  <2>2. \A x \in F : x \notin Refined \/ x \in Edges \cup Faces
    <3>1. \A v \in free : EdgesAt(v) \cup FacesAt(v) \subseteq Edges \cup Faces
      BY DEF EdgesAt, FacesAt
    <3> HIDE DEF free
    <3>2. around \subseteq Edges \cup Faces
      BY <3>1
    <3> HIDE DEF around
    <3> QED BY <3>2
  <2>3. F \cap Vertices \cap Refined = {}
    <3> HIDE DEF F
    <3> QED BY <2>2, GridAssumption
  <2> HIDE DEF F, D
  <2> QED BY <2>1, <2>3 DEF Allowed
<1>4. Proper(t, p) /\ Grows(s, t, p)
  <2> HIDE DEF F, D
  <2> QED BY <1>3, MarkGrows
<1>5. ASSUME NEW x \in list \cap (Edges \cup Faces), NEW v \in Corners[x] \ Refined
      PROVE  t.marks[v] = FULL
  <2>1. v \in F
    BY <1>5
  <2>2. v \in Holds[p] /\ RefinementIsAllowed(v)
    BY ProcHolds DEF RefinementIsAllowed
  <2> HIDE DEF F, D
  <2> QED BY <2>1, <2>2, <1>3, MarkSets
<1>6. ASSUME NEW v \in list \cap Vertices, ~IsConstrained(v), v \notin Refined,
             v \in DOMAIN ParentOf, ParentOf[v] \in Holds[p]
      PROVE  t.marks[ParentOf[v]] = DUMMY
  <2>1. s.marks[v] # DUMMY
    <3>1. v \in Common /\ v \in Holds[p]
      BY <1>6, ProcHolds DEF Common
    <3> QED BY <3>1 DEF Proper, ProperAt
  <2>2. ParentOf[v] \in D
    BY <2>1, <1>6
  <2>3. RefinementIsAllowed(ParentOf[v])
    BY <1>2, <1>6 DEF RefinementIsAllowed
  <2> HIDE DEF F, D
  <2> QED BY <2>2, <2>3, <1>3, <1>6, MarkSets
<1>7. ASSUME NEW v \in list \cap Vertices, ~IsConstrained(v), v \in Refined,
             NEW x \in (EdgesAt(v) \cup FacesAt(v)) \cap Holds[p], RefinementIsAllowed(x)
      PROVE  t.marks[x] # NONE
  <2>1. x \in around
    BY <1>7
  <2>2. CASE s.marks[x] # NONE
    <3> HIDE DEF F, D, t
    <3> QED BY <2>2, <1>4 DEF Grows, GrowsAt
  <2>3. CASE s.marks[x] = NONE
    <3>1. x \in F
      BY <2>1, <2>3
    <3>2. t.marks[x] = FULL
      <4> HIDE DEF F, D
      <4> QED BY <3>1, <1>3, <1>7, MarkSets
    <3> QED BY <3>2 DEF FULL, NONE
  <2> QED BY <2>2, <2>3
<1> HIDE DEF t
<1> QED BY <1>1, <1>4, <1>5, <1>6, <1>7

-----------------------------------------------------------------------------
(* What an element needs stays there, or the element is recorded.          *)

LEMMA GrowsKeeps ==
  ASSUME NEW p \in Procs, NEW s, NEW t, Proper(s, p), Proper(t, p), Grows(s, t, p),
         NEW y \in Holds[p]
  PROVE  /\ s.marks[y] # NONE => t.marks[y] # NONE
         /\ y \in Common /\ s.marks[y] = FULL => t.marks[y] = FULL
         /\ y \in Vertices \cap Refined /\ ~IsConstrained(y) /\ s.marks[y] = DUMMY =>
              t.marks[y] = DUMMY
         /\ y \in Common => /\ t.marks[y] >= s.marks[y]
                            /\ s.marks[y] \in {NONE, CLOSURE, FULL}
                            /\ t.marks[y] \in {NONE, CLOSURE, FULL}
<1>1. GrowsAt(s.marks[y], t.marks[y], y) /\ ProperAt(s.marks[y], y) /\ ProperAt(t.marks[y], y)
  BY DEF Grows, Proper
<1> QED BY <1>1 DEF GrowsAt, ProperAt, NONE, CLOSURE, FULL, DUMMY

LEMMA CommonElements ==
  ASSUME NEW x
  PROVE  /\ x \in Edges \cup Faces => x \in Common /\ x \notin Vertices
         /\ x \in Vertices \ Refined => x \in Common
  BY GridAssumption DEF Common, Elems

LEMMA FaceStaysServed ==
  ASSUME NEW p \in Procs, NEW s, NEW t, Proper(s, p), Proper(t, p), Grows(s, t, p),
         NEW f \in Holds[p] \cap Faces,
         \A e \in EdgesOf[f] : RefinementIsAllowed(e) => s.marks[e] >= t.marks[f]
  PROVE  FaceServed(t.marks, f)
<1> SUFFICES ASSUME NEW e \in EdgesOf[f], RefinementIsAllowed(e)
             PROVE  t.marks[e] >= t.marks[f]
  BY DEF FaceServed
<1>1. e \in Holds[p] /\ e \in Common /\ f \in Common
  BY ProcHolds, CommonElements
<1>2. /\ t.marks[e] >= s.marks[e] /\ s.marks[e] \in {NONE, CLOSURE, FULL}
      /\ t.marks[e] \in {NONE, CLOSURE, FULL}
  BY <1>1, GrowsKeeps
<1>3. t.marks[f] \in {NONE, CLOSURE, FULL}
  BY <1>1, GrowsKeeps
<1> QED BY <1>2, <1>3 DEF NONE, CLOSURE, FULL

LEMMA ConstrainedStaysServed ==
  ASSUME NEW p \in Procs, NEW s, NEW t, Proper(s, p), Proper(t, p), Grows(s, t, p),
         NEW e, s.marks[e] = t.marks[e], ConstrainedServed(s.marks, p, e)
  PROVE  ConstrainedServed(t.marks, p, e)
<1> SUFFICES ASSUME t.marks[e] = FULL, IsConstrained(e), Constraining[e] \in Holds[p]
             PROVE  t.marks[Constraining[e]] = FULL
  BY DEF ConstrainedServed
<1>1. s.marks[Constraining[e]] = FULL
  BY DEF ConstrainedServed
<1>2. Constraining[e] \in Common
  BY ConstrainingIsEdge, CommonElements DEF IsConstrained
<1> QED BY <1>1, <1>2, GrowsKeeps

LEMMA ConstrainingStaysServed ==
  ASSUME NEW p \in Procs, NEW s, NEW t, Proper(s, p), Proper(t, p), Grows(s, t, p),
         NEW e, s.marks[e] = t.marks[e], ConstrainingServed(s.marks, p, e)
  PROVE  ConstrainingServed(t.marks, p, e)
  BY GrowsKeeps DEF ConstrainingServed

LEMMA CornersStayServed ==
  ASSUME NEW p \in Procs, NEW s, NEW t, Proper(s, p), Proper(t, p), Grows(s, t, p),
         NEW x \in Holds[p] \cap (Edges \cup Faces),
         s.marks[x] = t.marks[x], CornersServed(s.marks, x)
  PROVE  CornersServed(t.marks, x)
<1> SUFFICES ASSUME t.marks[x] # NONE, NEW v \in Corners[x] \ Refined
             PROVE  t.marks[v] = FULL
  BY DEF CornersServed
<1>1. v \in Holds[p] /\ v \in Common
  BY ProcHolds, CommonElements
<1>2. s.marks[v] = FULL
  BY DEF CornersServed
<1> QED BY <1>1, <1>2, GrowsKeeps

LEMMA ParentStaysServed ==
  ASSUME NEW p \in Procs, NEW s, NEW t, Proper(s, p), Proper(t, p), Grows(s, t, p),
         NEW v, s.marks[v] = t.marks[v], ParentServed(s.marks, p, v)
  PROVE  ParentServed(t.marks, p, v)
<1> SUFFICES ASSUME t.marks[v] = FULL, v \notin Refined, ~IsConstrained(v),
                    v \in DOMAIN ParentOf, ParentOf[v] \in Holds[p], ~IsConstrained(ParentOf[v])
             PROVE  t.marks[ParentOf[v]] = DUMMY
  BY DEF ParentServed
<1>1. s.marks[ParentOf[v]] = DUMMY
  BY DEF ParentServed
<1>2. ParentOf[v] \in Vertices \cap Refined
  BY GridAssumption DEF Range
<1> QED BY <1>1, <1>2, GrowsKeeps

LEMMA AroundStaysServed ==
  ASSUME NEW p \in Procs, NEW s, NEW t, Proper(s, p), Proper(t, p), Grows(s, t, p),
         NEW v, s.marks[v] = t.marks[v], AroundServed(s.marks, p, v)
  PROVE  AroundServed(t.marks, p, v)
  BY GrowsKeeps DEF AroundServed

LEMMA StaysServed ==
  ASSUME NEW p \in Procs, NEW s, NEW t, Proper(s, p), Proper(t, p), Grows(s, t, p),
         NEW x \in Holds[p], Served(s.marks, p, x), x \notin t.newly
  PROVE  Served(t.marks, p, x)
<1>1. s.marks[x] = t.marks[x]
  BY DEF Grows
<1>2. ASSUME x \in Faces
      PROVE  FaceServed(t.marks, x)
  <2>1. \A e \in EdgesOf[x] : RefinementIsAllowed(e) => s.marks[e] >= t.marks[x]
    BY <1>1, <1>2 DEF Served, FaceServed
  <2> QED BY <2>1, <1>2, FaceStaysServed
<1>3. /\ x \in Edges => ConstrainingServed(t.marks, p, x)
      /\ x \in Edges \/ (x \in Vertices /\ NodeDependencyOrder1) =>
           ConstrainedServed(t.marks, p, x)
  BY <1>1, ConstrainedStaysServed, ConstrainingStaysServed DEF Served
<1>4. ASSUME x \in Edges \cup Faces
      PROVE  CornersServed(t.marks, x)
  BY <1>1, <1>4, CornersStayServed DEF Served
<1>5. ASSUME x \in Vertices
      PROVE  ParentServed(t.marks, p, x) /\ AroundServed(t.marks, p, x)
  BY <1>1, <1>5, ParentStaysServed, AroundStaysServed DEF Served
<1> QED BY <1>2, <1>3, <1>4, <1>5 DEF Served

\* The local adjusters serve what they are handed.
LEMMA AdjustersServe ==
  ASSUME NEW p \in Procs, NEW s, Proper(s, p), NEW list \in SUBSET Holds[p],
         NEW s1, s1 = StdVertices(s, p, list), NEW s2, s2 = StdEdges(s1, p, list),
         NEW s3, s3 = StdFaces(s2, p, list), NEW t, t = MGVertices(s3, p, list)
  PROVE  /\ Proper(t, p) /\ Grows(s, t, p)
         /\ \A x \in list : x \in t.newly \/ Served(t.marks, p, x)
<1>1. /\ Proper(s1, p) /\ Grows(s, s1, p)
      /\ \A v \in list \cap Vertices :
              NodeDependencyOrder1 /\ IsConstrained(v) /\ Constraining[v] \in Holds[p] =>
                s1.marks[Constraining[v]] = FULL
  BY StdVerticesGrow
<1>2. /\ Proper(s2, p) /\ Grows(s1, s2, p)
      /\ \A e \in list \cap Edges : s1.marks[e] = FULL =>
              /\ IsConstrained(e) /\ Constraining[e] \in Holds[p] =>
                   s2.marks[Constraining[e]] = FULL
              /\ IsConstraining(e) =>
                   \A f \in FacesWith(e) \cap Holds[p] : f \notin Refined => s2.marks[f] # NONE
  BY <1>1, StdEdgesGrow
<1>3. /\ Proper(s3, p) /\ Grows(s2, s3, p)
      /\ \A f \in list \cap Faces : \A e \in EdgesOf[f] :
              RefinementIsAllowed(e) => s3.marks[e] >= s2.marks[f]
  BY <1>2, StdFacesGrow
<1>4. /\ Proper(t, p) /\ Grows(s3, t, p)
      /\ \A x \in list \cap (Edges \cup Faces) : \A v \in Corners[x] \ Refined :
              t.marks[v] = FULL
      /\ \A v \in list \cap Vertices : ~IsConstrained(v) =>
              /\ v \notin Refined /\ v \in DOMAIN ParentOf /\ ParentOf[v] \in Holds[p] =>
                   t.marks[ParentOf[v]] = DUMMY
              /\ v \in Refined =>
                   \A x \in (EdgesAt(v) \cup FacesAt(v)) \cap Holds[p] :
                     RefinementIsAllowed(x) => t.marks[x] # NONE
  BY <1>3, MGVerticesGrow
<1>5. Grows(s2, t, p) /\ Grows(s1, t, p) /\ Grows(s, t, p)
  <2>1. Grows(s2, t, p)
    BY <1>2, <1>3, <1>4, GrowsIsTransitive
  <2>2. Grows(s1, t, p)
    BY <2>1, <1>1, <1>2, <1>4, GrowsIsTransitive
  <2> QED BY <2>1, <2>2, <1>1, <1>4, GrowsIsTransitive
<1>6. ASSUME NEW x \in list, x \notin t.newly
      PROVE  Served(t.marks, p, x)
  <2>1. s1.marks[x] = t.marks[x] /\ s2.marks[x] = t.marks[x]
    BY <1>5, <1>6 DEF Grows
  <2>2. ASSUME x \in Faces
        PROVE  FaceServed(t.marks, x)
    <3>1. \A e \in EdgesOf[x] : RefinementIsAllowed(e) => s3.marks[e] >= t.marks[x]
      BY <2>1, <2>2, <1>3
    <3> QED BY <3>1, <2>2, <1>3, <1>4, FaceStaysServed
  <2>3. ASSUME x \in Edges
        PROVE  ConstrainedServed(t.marks, p, x) /\ ConstrainingServed(t.marks, p, x)
    <3>1. ConstrainedServed(s2.marks, p, x) /\ ConstrainingServed(s2.marks, p, x)
      BY <2>1, <2>3, <1>2 DEF ConstrainedServed, ConstrainingServed
    <3> QED
      BY <3>1, <2>1, <1>2, <1>4, <1>5, ConstrainedStaysServed, ConstrainingStaysServed
  <2>4. ASSUME x \in Edges \cup Faces
        PROVE  CornersServed(t.marks, x)
    BY <2>4, <1>4 DEF CornersServed
  <2>5. ASSUME x \in Vertices
        PROVE  ParentServed(t.marks, p, x) /\ AroundServed(t.marks, p, x)
    BY <2>5, <1>4 DEF ParentServed, AroundServed
  <2>6. ASSUME x \in Vertices, NodeDependencyOrder1
        PROVE  ConstrainedServed(t.marks, p, x)
    <3>1. ConstrainedServed(s1.marks, p, x)
      BY <2>6, <1>1 DEF ConstrainedServed
    <3> QED BY <3>1, <2>1, <1>1, <1>4, <1>5, ConstrainedStaysServed
  <2> QED BY <2>2, <2>3, <2>4, <2>5, <2>6 DEF Served
<1> QED BY <1>4, <1>5, <1>6

-----------------------------------------------------------------------------
(* Masters and slaves.                                                     *)

LEMMA Masters ==
  ASSUME NEW x \in Elems
  PROVE  /\ MasterOf(x) \in Holders(x) /\ Holders(x) \subseteq Procs
         /\ IsInterfaceElement(x) => SlavesOf(x) # {}
         /\ ~IsInterfaceElement(x) => Holders(x) = {MasterOf(x)}
<1>1. Holders(x) \subseteq Nat /\ Holders(x) # {} /\ Holders(x) \subseteq Procs
  BY DistributionAssumption DEF Holders
<1>2. \E m \in Holders(x) : \A n \in Holders(x) : m <= n
  BY <1>1, LeastNat
<1>3. MasterOf(x) \in Holders(x)
  BY <1>2 DEF MasterOf, Min
<1>4. IsFiniteSet(Holders(x))
  BY <1>1, DistributionAssumption, FS_Subset
<1>5. ASSUME Holders(x) = {MasterOf(x)}
      PROVE  ~IsInterfaceElement(x)
  <2>1. Cardinality(Holders(x)) = 1
    BY <1>5, FS_Singleton
  <2> QED BY <2>1 DEF IsInterfaceElement
<1>6. ASSUME ~IsInterfaceElement(x)
      PROVE  Holders(x) = {MasterOf(x)}
  <2>1. Cardinality(Holders(x)) \in Nat /\ Cardinality(Holders(x)) # 0
    BY <1>1, <1>4, FS_CardinalityType, FS_EmptySet
  <2>2. Cardinality(Holders(x)) = 1
    BY <2>1, <1>6 DEF IsInterfaceElement
  <2>3. \E m : Holders(x) = {m}
    BY <2>2, <1>4, FS_Singleton
  <2> QED BY <2>3, <1>3
<1> QED BY <1>1, <1>3, <1>5, <1>6 DEF SlavesOf

LEMMA MaxOfMarks ==
  ASSUME NEW T \in SUBSET {NONE, CLOSURE, FULL}, T # {}
  PROVE  Max(T) \in T /\ \A m \in T : Max(T) >= m
<1>1. \E m \in T : \A n \in T : m >= n
  <2>1. CASE FULL \in T
    BY <2>1 DEF NONE, CLOSURE, FULL
  <2>2. CASE FULL \notin T /\ CLOSURE \in T
    BY <2>2 DEF NONE, CLOSURE, FULL
  <2>3. CASE FULL \notin T /\ CLOSURE \notin T
    <3>1. T = {NONE}
      BY <2>3
    <3> QED BY <3>1 DEF NONE
  <2> QED BY <2>1, <2>2, <2>3
<1> QED BY <1>1 DEF Max

\* A mark that may be sent for x.
Sendable(m, x) ==
  /\ m \in {NONE, CLOSURE, FULL}
  /\ m # NONE => /\ RefinementIsAllowed(x)
                 /\ x \in Vertices \cap Refined => IsConstrained(x)

LEMMA ConsideredIsSendable ==
  ASSUME NEW x, NEW m, ProperAt(m, x)
  PROVE  Sendable(Considered(m), x) /\ (x \in Common => Considered(m) = m)
<1>1. CASE m \in {CLOSURE, FULL}
  <2>1. Considered(m) = m
    BY <1>1 DEF Considered
  <2> QED BY <2>1, <1>1 DEF Sendable, ProperAt, NONE, CLOSURE, FULL, DUMMY
<1>2. CASE m \notin {CLOSURE, FULL}
  <2>1. Considered(m) = NONE
    BY <1>2 DEF Considered
  <2> QED BY <2>1, <1>2 DEF Sendable, ProperAt
<1> QED BY <1>1, <1>2

LEMMA ExtractTakesLarger ==
  ASSUME NEW p \in Procs, Proper(State(p), p), NEW said,
         \A x \in DOMAIN said \cap Holds[p] : Sendable(said[x], x)
  PROVE  LET t == Extract(p, said) IN
         /\ Proper(t, p) /\ Grows(State(p), t, p)
         /\ \A x \in Common \cap Holds[p] :
              /\ x \notin DOMAIN said => t.marks[x] = marks[p][x]
              /\ x \in DOMAIN said => /\ said[x] > marks[p][x] => t.marks[x] = said[x]
                                      /\ ~(said[x] > marks[p][x]) => t.marks[x] = marks[p][x]
<1> DEFINE larger(m) == {x \in DOMAIN said \cap Holds[p] : said[x] = m /\ m > marks[p][x]}
           F == larger(FULL)
           C == larger(CLOSURE)
           t == Mark(State(p), p, F, C, {})
<1>1. Extract(p, said) = t
  BY DEF Extract, State
<1>2. State(p).marks = marks[p]
  BY DEF State
<1>3. Allowed(State(p), p, F, C, {})
  <2>1. \A x \in F \cup C : /\ x \in DOMAIN said \cap Holds[p] /\ said[x] # NONE
    BY DEF NONE, CLOSURE, FULL
  <2>2. \A x \in C : CLOSURE > marks[p][x] /\ x \in Holds[p]
    OBVIOUS
  <2> HIDE DEF F, C
  <2>3. \A v \in (F \cup C) \cap Vertices \cap Refined : IsConstrained(v)
    BY <2>1 DEF Sendable
  <2>4. ASSUME NEW x \in C, x \in Common
        PROVE  marks[p][x] \in {NONE, CLOSURE}
    BY <2>2, <2>4, <1>2 DEF Proper, ProperAt, NONE, CLOSURE, FULL, DUMMY
  <2> QED BY <2>3, <2>4, <1>2 DEF Allowed
<1>4. Proper(t, p) /\ Grows(State(p), t, p)
  <2> HIDE DEF F, C
  <2> QED BY <1>3, MarkGrows
<1>5. ASSUME NEW x \in Common \cap Holds[p], x \notin F \cup C
      PROVE  t.marks[x] = marks[p][x]
  <2>1. ~Changes(State(p), x, F, C, {})
    <3> HIDE DEF F, C
    <3> QED BY <1>5 DEF Changes
  <2> HIDE DEF F, C
  <2> QED BY <2>1, <1>2, MarkAt DEF Proper
<1>6. ASSUME NEW x \in Common \cap Holds[p], x \in DOMAIN said, said[x] > marks[p][x]
      PROVE  t.marks[x] = said[x]
  <2>1. Sendable(said[x], x) /\ marks[p][x] \in {NONE, CLOSURE, FULL}
    BY <1>2, <1>6 DEF Proper, ProperAt
  <2>2. RefinementIsAllowed(x) /\ said[x] \in {CLOSURE, FULL}
    BY <2>1, <1>6 DEF Sendable, NONE, CLOSURE, FULL
  <2>3. CASE said[x] = FULL
    <3>1. x \in F
      BY <1>6, <2>3
    <3> HIDE DEF F, C
    <3> QED BY <3>1, <2>2, <2>3, <1>3, MarkSets
  <2>4. CASE said[x] = CLOSURE
    <3>1. x \in C \ F
      BY <1>6, <2>4 DEF CLOSURE, FULL
    <3> HIDE DEF F, C
    <3> QED BY <3>1, <2>2, <2>4, <1>3, MarkSets
  <2> QED BY <2>2, <2>3, <2>4
<1>7. ASSUME NEW x \in Common \cap Holds[p],
             x \notin DOMAIN said \/ ~(said[x] > marks[p][x])
      PROVE  t.marks[x] = marks[p][x]
  <2>1. x \notin F \cup C
    BY <1>7
  <2> QED BY <2>1, <1>5
<1> HIDE DEF t
<1> QED BY <1>1, <1>4, <1>6, <1>7

-----------------------------------------------------------------------------
(* The steps of one process.                                               *)

LEMMA HoldersHold ==
  ASSUME NEW x, NEW p
  PROVE  p \in Holders(x) <=> p \in Procs /\ x \in Holds[p]
  BY DEF Holders

LEMMA OthersStay ==
  ASSUME NEW q \in Procs, marks'[q] = marks[q], current'[q] = current[q],
         newly'[q] = newly[q], pc'[q] = pc[q], TypeAt(q), LocalAt(q)
  PROVE  TypeAt(q)' /\ LocalAt(q)'
<1>1. State(q)' = State(q)
  BY DEF State
<1>2. Waiting(q)' = Waiting(q)
  BY DEF Waiting
<1>3. Proper(State(q), q) <=> Proper(State(q), q)'
  BY <1>1 DEF Proper, ProperAt
<1>4. TypeAt(q)'
  BY <1>3 DEF TypeAt
<1>5. LocalAt(q)'
  BY <1>2 DEF LocalAt
<1> QED BY <1>4, <1>5

LEMMA UnchangedIsGrowing ==
  ASSUME NEW q \in Procs, marks'[q] = marks[q], TypeAt(q)
  PROVE  Growing(q)
  BY DEF Growing, TypeAt, Proper, ProperAt, State, NONE, CLOSURE, FULL, DUMMY

\* A process that marks with one adjuster or exchange after the other.
LEMMA MarkingStep ==
  ASSUME NEW p \in Procs, TypeAt(p), LocalAt(p), pc[p] \notin {"begin", "done"},
         NEW t, Proper(t, p), Grows(State(p), t, p),
         marks'[p] = t.marks, newly'[p] = t.newly, current'[p] = current[p],
         pc'[p] \in {"ask", "toSlave", "turn"},
         pc[p] = "adjust" => \A x \in current[p] : x \in t.newly \/ Served(t.marks, p, x)
  PROVE  TypeAt(p)' /\ LocalAt(p)' /\ Growing(p)
<1>1. State(p)' = [marks |-> t.marks, newly |-> t.newly]
  BY DEF State
<1>2. State(p).marks = marks[p] /\ State(p)'.marks = t.marks /\ State(p)'.newly = t.newly
  BY <1>1 DEF State
<1>3. Proper(State(p), p)'
  BY <1>2 DEF Proper, ProperAt
<1>4. TypeAt(p)'
  BY <1>3 DEF TypeAt
<1>5. ASSUME NEW x \in Holds[p], x \notin t.newly
      PROVE  Served(t.marks, p, x)
  <2>1. x \in Waiting(p) \/ Served(marks[p], p, x)
    BY DEF LocalAt
  <2>2. CASE Served(marks[p], p, x)
    <3>1. Proper(State(p), p) /\ Served(State(p).marks, p, x)
      BY <2>2, <1>2 DEF TypeAt
    <3> QED BY <3>1, <1>5, StaysServed
  <2>3. CASE x \in Waiting(p)
    <3>1. CASE pc[p] = "adjust"
      BY <2>3, <3>1, <1>5 DEF Waiting
    <3>2. CASE pc[p] # "adjust"
      BY <2>3, <3>2, <1>5 DEF Waiting, Grows, State
    <3> QED BY <3>1, <3>2
  <2> QED BY <2>1, <2>2, <2>3
<1>6. Waiting(p)' = t.newly
  BY DEF Waiting
<1>7. \A x \in Holds[p] : x \in Waiting(p)' \/ Served(t.marks, p, x)
  BY <1>5, <1>6
<1>8. LocalAt(p)'
  BY <1>7 DEF LocalAt
<1>9. Growing(p)
  BY <1>2 DEF Growing, Grows, GrowsAt
<1> QED BY <1>4, <1>8, <1>9

LEMMA InitMarks == ASSUME Init PROVE MarksInv
<1>1. \A p \in Procs : TypeAt(p)
  <2> SUFFICES ASSUME NEW p \in Procs PROVE TypeAt(p)
    OBVIOUS
  <2>1. pc[p] = "begin" /\ newly[p] = {}
    BY DEF Init
  <2>2. /\ marks[p] \in [Holds[p] -> {NONE, CLOSURE, FULL, COARSEN}]
        /\ \A x \in Holds[p] \cap Refined : marks[p][x] # NONE => IsConstraining(x)
    BY UserMarksAssumption DEF Init
  <2> QED BY <2>1, <2>2 DEF TypeAt
<1>2. MarksTypeOK
  BY <1>1, UserMarksAssumption DEF Init, MarksTypeOK, PhaseInv, Phases
<1>3. LocalInv
  BY DEF Init, LocalInv, LocalAt
<1>4. CopiesInv
  <2> SUFFICES ASSUME NEW x \in Common PROVE CopyInv(x)
    BY DEF CopiesInv
  <2>1. PICK p \in Procs : x \in Holds[p]
    BY Masters, HoldersHold DEF Common
  <2>2. \A q \in Procs : pc[q] = "begin"
    BY DEF Init
  <2> QED BY <2>1, <2>2, HoldersHold DEF CopyInv, AllIn
<1> QED BY <1>2, <1>3, <1>4 DEF MarksInv

LEMMA PhasesApart ==
  ASSUME MarksTypeOK, NEW p \in Procs
  PROVE  /\ pc[p] \in {"begin", "adjust", "ask"} => AllIn({"begin", "adjust", "ask"})
         /\ \A phase \in {"toMaster", "toSlave", "turn", "done"} :
              pc[p] = phase => AllIn({phase})
  BY DEF MarksTypeOK, PhaseInv, AllIn

LEMMA BeginStep == ASSUME MarksInv, NEW p \in Procs, Begin(p)
                   PROVE MarksInv' /\ \A q \in Procs : Growing(q)
<1> USE DEF MarksInv
<1>1. /\ pc[p] = "begin" /\ pc' = [pc EXCEPT ![p] = "adjust"]
      /\ newly' = [newly EXCEPT ![p] = {}]
      /\ marks' = [marks EXCEPT ![p] = [x \in Holds[p] |->
                 IF marks[p][x] = COARSEN THEN NONE ELSE marks[p][x]]]
      /\ current' = [current EXCEPT ![p] = {x \in Holds[p] : marks'[p][x] # NONE}]
  BY DEF Begin
<1>2. \A q \in Procs \ {p} : /\ marks'[q] = marks[q] /\ current'[q] = current[q]
                             /\ newly'[q] = newly[q] /\ pc'[q] = pc[q]
  BY <1>1 DEF MarksTypeOK
<1>3. /\ marks'[p] = [x \in Holds[p] |-> IF marks[p][x] = COARSEN THEN NONE ELSE marks[p][x]]
      /\ current'[p] = {x \in Holds[p] : marks'[p][x] # NONE}
      /\ newly'[p] = {} /\ pc'[p] = "adjust"
  BY <1>1 DEF MarksTypeOK
<1>4. ASSUME NEW x \in Holds[p]
      PROVE  ProperAt(marks'[p][x], x) /\ marks'[p][x] \in {NONE, CLOSURE, FULL}
  <2>1. /\ marks[p][x] \in {NONE, CLOSURE, FULL, COARSEN}
        /\ x \in Refined /\ marks[p][x] # NONE => IsConstraining(x)
    BY <1>1 DEF MarksTypeOK, TypeAt
  <2>2. marks'[p][x] \in {NONE, CLOSURE, FULL} /\ marks'[p][x] \in {NONE, marks[p][x]}
    BY <2>1, <1>3
  <2>3. IsConstraining(x) => x \notin Vertices
    BY GridAssumption DEF IsConstraining
  <2> QED BY <2>1, <2>2, <2>3 DEF ProperAt, RefinementIsAllowed, NONE, CLOSURE, FULL, DUMMY
<1>5. TypeAt(p)' /\ LocalAt(p)'
  <2>1. State(p)'.marks = marks'[p] /\ State(p)'.newly = {}
    BY <1>3 DEF State
  <2>2. Proper(State(p), p)'
    BY <2>1, <1>3, <1>4 DEF Proper, ProperAt
  <2>3. TypeAt(p)'
    BY <2>2, <1>3 DEF TypeAt
  <2>4. ASSUME NEW x \in Holds[p], x \notin current'[p]
        PROVE  Served(marks'[p], p, x)
    <3>1. marks'[p][x] = NONE
      BY <1>3, <2>4
    <3>2. x \in Faces => FaceServed(marks'[p], x)
      <4>1. ASSUME x \in Faces, NEW e \in EdgesOf[x]
            PROVE  marks'[p][e] >= marks'[p][x]
        <5>1. e \in Holds[p]
          BY <4>1, ProcHolds
        <5> QED BY <5>1, <1>4, <3>1 DEF NONE, CLOSURE, FULL
      <4> QED BY <4>1 DEF FaceServed
    <3> QED
      BY <3>1, <3>2 DEF Served, ConstrainedServed, ConstrainingServed, CornersServed, ParentServed,
         AroundServed, NONE, FULL, DUMMY
  <2>5. Waiting(p)' = current'[p]
    BY <1>3 DEF Waiting
  <2>6. LocalAt(p)'
    BY <2>4, <2>5 DEF LocalAt
  <2> QED BY <2>3, <2>6
<1>6. \A q \in Procs : TypeAt(q)' /\ LocalAt(q)'
  BY <1>2, <1>5, OthersStay DEF MarksTypeOK, LocalInv
<1>G. \A q \in Procs : Growing(q)
  <2>1. Growing(p)
    BY <1>1 DEF Growing
  <2> QED BY <2>1, <1>2, UnchangedIsGrowing DEF MarksTypeOK
<1>7. AllIn({"begin", "adjust", "ask"}) /\ ~AllIn({"adjust", "ask"})
  BY <1>1, PhasesApart DEF AllIn
<1>8. MarksTypeOK'
  <2>1. PhaseInv'
    BY <1>2, <1>3, <1>7 DEF PhaseInv, AllIn
  <2>2. /\ marks' = [q \in Procs |-> marks'[q]]
        /\ newly' \in [Procs -> SUBSET Elems]
        /\ pc' \in [Procs -> Phases]
    BY <1>1 DEF MarksTypeOK, Phases
  <2>3. current' \in [Procs -> SUBSET Elems]
    <3>1. current'[p] \subseteq Elems
      BY <1>3, ProcHolds
    <3> QED BY <3>1, <1>1, <1>2 DEF MarksTypeOK
  <2> QED BY <2>1, <2>2, <2>3, <1>6 DEF MarksTypeOK
<1>9. CopiesInv'
  <2> SUFFICES ASSUME NEW x \in Common PROVE CopyInv(x)'
    BY DEF CopiesInv
  <2>1. \A q \in Holders(x) : q \in Procs /\ x \in Holds[q]
    BY HoldersHold
  <2>2. \A q \in Holders(x) : pc[q] # "begin" /\ marks[q][x] # NONE =>
                                 x \in current[q] \cup newly[q]
    BY <1>7 DEF CopiesInv, CopyInv
  <2>3. \A q \in Holders(x) : pc'[q] # "begin" /\ marks'[q][x] # NONE =>
                                 x \in current'[q] \cup newly'[q]
    BY <2>1, <2>2, <1>2, <1>3
  <2>4. ASSUME AllIn({"adjust", "ask"})'
        PROVE  Settled(x)' \/ Noticed(x)'
    <3>1. \A q \in Holders(x) : pc'[q] # "begin"
      BY <2>1, <2>4 DEF AllIn
    <3> QED BY <3>1, <2>3 DEF Settled, Noticed
  <2>5. \A phase \in {"toSlave", "turn", "done"} : ~AllIn({phase})'
    BY <1>3 DEF AllIn
  <2> QED BY <2>3, <2>4, <2>5 DEF CopyInv
<1> QED BY <1>6, <1>8, <1>9, <1>G DEF LocalInv

LEMMA AdjustStep == ASSUME MarksInv, NEW p \in Procs, Adjust(p)
                    PROVE MarksInv' /\ \A q \in Procs : Growing(q)
<1> USE DEF MarksInv
<1>1. PICK t :
        /\ Proper(t, p) /\ Grows(State(p), t, p)
        /\ \A x \in current[p] : x \in t.newly \/ Served(t.marks, p, x)
        /\ marks' = [marks EXCEPT ![p] = t.marks]
        /\ newly' = [newly EXCEPT ![p] = t.newly]
  <2>1. PICK s1 \in {StdVertices(State(p), p, current[p])} :
        \E s2 \in {StdEdges(s1, p, current[p])} :
        \E s3 \in {StdFaces(s2, p, current[p])} :
        \E s4 \in {MGVertices(s3, p, current[p])} :
          /\ marks' = [marks EXCEPT ![p] = s4.marks]
          /\ newly' = [newly EXCEPT ![p] = s4.newly]
    BY DEF Adjust, State
  <2>2. PICK s2 \in {StdEdges(s1, p, current[p])} :
        \E s3 \in {StdFaces(s2, p, current[p])} :
        \E s4 \in {MGVertices(s3, p, current[p])} :
          /\ marks' = [marks EXCEPT ![p] = s4.marks]
          /\ newly' = [newly EXCEPT ![p] = s4.newly]
    BY <2>1
  <2>3. PICK s3 \in {StdFaces(s2, p, current[p])} :
        \E s4 \in {MGVertices(s3, p, current[p])} :
          /\ marks' = [marks EXCEPT ![p] = s4.marks]
          /\ newly' = [newly EXCEPT ![p] = s4.newly]
    BY <2>2
  <2>4. PICK s4 \in {MGVertices(s3, p, current[p])} :
          /\ marks' = [marks EXCEPT ![p] = s4.marks]
          /\ newly' = [newly EXCEPT ![p] = s4.newly]
    BY <2>3
  <2>5. Proper(State(p), p) /\ current[p] \in SUBSET Holds[p]
    BY DEF Adjust, MarksTypeOK, TypeAt
  <2>6. /\ Proper(s4, p) /\ Grows(State(p), s4, p)
        /\ \A x \in current[p] : x \in s4.newly \/ Served(s4.marks, p, x)
    BY <2>1, <2>2, <2>3, <2>4, <2>5, AdjustersServe
  <2> QED BY <2>4, <2>6
<1>2. pc[p] = "adjust" /\ pc' = [pc EXCEPT ![p] = "ask"] /\ current' = current
  BY DEF Adjust
<1>3. \A q \in Procs \ {p} : /\ marks'[q] = marks[q] /\ current'[q] = current[q]
                             /\ newly'[q] = newly[q] /\ pc'[q] = pc[q]
  BY <1>1, <1>2 DEF MarksTypeOK
<1>4. /\ marks'[p] = t.marks /\ newly'[p] = t.newly /\ current'[p] = current[p] /\ pc'[p] = "ask"
  BY <1>1, <1>2 DEF MarksTypeOK
<1>5. TypeAt(p)' /\ LocalAt(p)' /\ Growing(p)
  BY <1>1, <1>2, <1>4, MarkingStep DEF MarksTypeOK, LocalInv
<1>G. \A q \in Procs : Growing(q)
  BY <1>3, <1>5, UnchangedIsGrowing DEF MarksTypeOK
<1>6. \A q \in Procs : TypeAt(q)' /\ LocalAt(q)'
  BY <1>3, <1>5, OthersStay DEF MarksTypeOK, LocalInv
<1>7. AllIn({"begin", "adjust", "ask"})
  BY <1>2, PhasesApart
<1>8. MarksTypeOK'
  <2>1. PhaseInv'
    BY <1>3, <1>4, <1>7 DEF PhaseInv, AllIn
  <2>2. newly'[p] \subseteq Elems
    BY <1>1, <1>4, ProcHolds DEF Proper
  <2>3. newly' \in [Procs -> SUBSET Elems]
    BY <2>2, <1>1, <1>3 DEF MarksTypeOK
  <2>4. /\ marks' = [q \in Procs |-> marks'[q]]
        /\ pc' \in [Procs -> Phases]
    BY <1>1, <1>2 DEF MarksTypeOK, Phases
  <2> QED BY <2>1, <2>3, <2>4, <1>2, <1>6 DEF MarksTypeOK
<1>9. CopiesInv'
  <2> SUFFICES ASSUME NEW x \in Common PROVE CopyInv(x)'
    BY DEF CopiesInv
  <2>1. \A q \in Holders(x) : q \in Procs /\ x \in Holds[q]
    BY HoldersHold
  <2>2. \A q \in Holders(x) :
          /\ current'[q] = current[q] /\ newly[q] \subseteq newly'[q]
          /\ marks'[q][x] = marks[q][x] \/ x \in newly'[q]
    BY <2>1, <1>1, <1>3, <1>4 DEF Grows, State
  <2>3. AllIn({"adjust", "ask"})' <=> AllIn({"adjust", "ask"})
    BY <1>2, <1>3, <1>4 DEF AllIn
  <2>4. ASSUME AllIn({"adjust", "ask"})
        PROVE  Settled(x)' \/ Noticed(x)'
    <3>1. CASE Noticed(x)
      BY <3>1, <2>2 DEF Noticed
    <3>2. CASE Settled(x)
      BY <3>2, <2>2 DEF Noticed, Settled
    <3> QED BY <2>4, <3>1, <3>2 DEF CopiesInv, CopyInv
  <2>5. ASSUME ~AllIn({"adjust", "ask"}), NEW q \in Holders(x), pc'[q] # "begin",
               marks'[q][x] # NONE
        PROVE  x \in current'[q] \cup newly'[q]
    <3>1. pc[q] # "begin"
      BY <2>1, <2>5, <1>2, <1>3
    <3>2. marks[q][x] # NONE => x \in current[q] \cup newly[q]
      BY <3>1, <2>5, <1>7 DEF CopiesInv, CopyInv
    <3> QED BY <3>2, <2>2, <2>5
  <2>6. \A phase \in {"toSlave", "turn", "done"} : ~AllIn({phase})'
    BY <1>4 DEF AllIn
  <2> QED BY <2>3, <2>4, <2>5, <2>6 DEF CopyInv
<1> QED BY <1>6, <1>8, <1>9, <1>G DEF LocalInv

-----------------------------------------------------------------------------
(* The steps of all processes together.                                    *)

LEMMA AskStep == ASSUME MarksInv, Ask
                 PROVE MarksInv' /\ \A q \in Procs : Growing(q)
<1> USE DEF MarksInv
<1>1. /\ marks' = marks /\ current' = current /\ newly' = newly
      /\ \A p \in Procs : pc[p] = "ask"
  BY DEF Ask
<1>2. PICK phase \in {"toMaster", "turn"} :
        /\ pc' = [p \in Procs |-> phase]
        /\ phase = "turn" => \A p \in Procs : \A x \in current[p] : ~IsInterfaceElement(x)
  <2>1. CASE \E p \in Procs : \E x \in current[p] : IsInterfaceElement(x)
    BY <2>1 DEF Ask
  <2>2. CASE ~\E p \in Procs : \E x \in current[p] : IsInterfaceElement(x)
    BY <2>2 DEF Ask
  <2> QED BY <2>1, <2>2
<1>3. \A p \in Procs : TypeAt(p)' /\ LocalAt(p)'
  <2> SUFFICES ASSUME NEW p \in Procs PROVE TypeAt(p)' /\ LocalAt(p)'
    OBVIOUS
  <2>1. State(p)' = State(p) /\ pc[p] = "ask" /\ pc'[p] = phase
    BY <1>1, <1>2 DEF State
  <2>2. Proper(State(p), p)' <=> Proper(State(p), p)
    BY <2>1 DEF Proper, ProperAt
  <2>3. TypeAt(p) /\ LocalAt(p)
    BY DEF MarksTypeOK, LocalInv
  <2>4. Waiting(p)' = newly[p] /\ Waiting(p) = newly[p]
    BY <2>1, <1>1 DEF Waiting
  <2> QED BY <2>1, <2>2, <2>3, <2>4, <1>1 DEF TypeAt, LocalAt
<1>4. MarksTypeOK'
  BY <1>1, <1>2, <1>3 DEF MarksTypeOK, PhaseInv, Phases
<1>5. CopiesInv'
  <2> SUFFICES ASSUME NEW x \in Common PROVE CopyInv(x)'
    BY DEF CopiesInv
  <2>1. PICK p \in Procs : x \in Holds[p]
    BY Masters, HoldersHold DEF Common
  <2>2. /\ ~AllIn({"adjust", "ask"})' /\ ~AllIn({"begin", "adjust", "ask"})'
        /\ ~AllIn({"toSlave"})' /\ ~AllIn({"done"})'
    BY <1>2 DEF AllIn
  <2>3. ASSUME AllIn({"turn"})'
        PROVE  Settled(x)' \/ JustMarked(x)'
    <3>1. phase = "turn"
      BY <2>3, <1>2 DEF AllIn
    <3>2. Settled(x) \/ Noticed(x)
      BY <1>1 DEF CopiesInv, CopyInv, AllIn
    <3>3. CASE Settled(x)
      BY <3>3, <1>1 DEF Settled
    <3>4. CASE Noticed(x) /\ ~JustMarked(x)
      <4>1. PICK q \in Holders(x) : x \in current[q]
        BY <3>4 DEF Noticed, JustMarked
      <4>2. ~IsInterfaceElement(x)
        BY <4>1, <3>1, <1>2, HoldersHold
      <4>3. Holders(x) = {MasterOf(x)}
        BY <4>2, Masters DEF Common
      <4> QED BY <4>3 DEF Settled
    <3>5. CASE JustMarked(x)
      BY <3>5, <1>1 DEF JustMarked
    <3> QED BY <3>2, <3>3, <3>4, <3>5
  <2> QED BY <2>2, <2>3 DEF CopyInv
<1>6. \A p \in Procs : Growing(p)
  BY <1>1, UnchangedIsGrowing DEF MarksTypeOK
<1> QED BY <1>3, <1>4, <1>5, <1>6 DEF LocalInv

\* What is sent about x, by its master and by its slaves.
LEMMA MasterSaysMark ==
  ASSUME MarksTypeOK, NEW x \in Elems, pc[MasterOf(x)] # "begin"
  PROVE  /\ Sendable(MasterSays(x), x)
         /\ x \in Common => MasterSays(x) = marks[MasterOf(x)][x]
<1>1. MasterOf(x) \in Procs /\ x \in Holds[MasterOf(x)]
  BY Masters, HoldersHold
<1>2. ProperAt(marks[MasterOf(x)][x], x)
  BY <1>1 DEF MarksTypeOK, TypeAt, Proper, State
<1> QED BY <1>2, ConsideredIsSendable DEF MasterSays

LEMMA SlavesSayMark ==
  ASSUME MarksTypeOK, NEW x \in Elems, IsInterfaceElement(x), \A p \in Procs : pc[p] # "begin"
  PROVE  /\ Sendable(SlavesSay(x), x)
         /\ x \in Common => \A q \in SlavesOf(x) : SlavesSay(x) >= marks[q][x]
<1> DEFINE T == {Considered(marks[q][x]) : q \in SlavesOf(x)}
<1>1. ASSUME NEW q \in SlavesOf(x)
      PROVE  /\ Sendable(Considered(marks[q][x]), x)
             /\ x \in Common => Considered(marks[q][x]) = marks[q][x]
  <2>1. q \in Procs /\ x \in Holds[q]
    BY <1>1, HoldersHold DEF SlavesOf
  <2>2. ProperAt(marks[q][x], x)
    BY <2>1 DEF MarksTypeOK, TypeAt, Proper, State
  <2> QED BY <2>2, ConsideredIsSendable
<1>2. T \in SUBSET {NONE, CLOSURE, FULL}
  BY <1>1 DEF Sendable
<1>3. T # {}
  BY Masters
<1>4. Max(T) \in T /\ \A m \in T : Max(T) >= m
  <2> HIDE DEF T
  <2> QED BY <1>2, <1>3, MaxOfMarks
<1>5. SlavesSay(x) = Max(T)
  BY DEF SlavesSay
<1>6. Sendable(SlavesSay(x), x)
  BY <1>1, <1>4, <1>5
<1>7. \A q \in SlavesOf(x) : SlavesSay(x) >= Considered(marks[q][x])
  BY <1>4, <1>5
<1> QED BY <1>1, <1>6, <1>7

\* What p hears of is a mark it may take over; it takes over what is larger.
Receivable(said, p) == \A x \in DOMAIN said \cap Holds[p] : Sendable(said[x], x)

TakesLarger(t, said, p) ==
  \A x \in Common \cap Holds[p] :
    /\ x \notin DOMAIN said => t.marks[x] = marks[p][x]
    /\ x \in DOMAIN said => /\ said[x] > marks[p][x] => t.marks[x] = said[x]
                            /\ ~(said[x] > marks[p][x]) => t.marks[x] = marks[p][x]

\* What an exchange in which p hears of what is said does to the marks of p.
Hears(p, said) ==
  \A x \in Common \cap Holds[p] :
    /\ x \notin DOMAIN said => marks'[p][x] = marks[p][x]
    /\ x \in DOMAIN said => /\ said[x] > marks[p][x] => marks'[p][x] = said[x]
                            /\ ~(said[x] > marks[p][x]) => marks'[p][x] = marks[p][x]

LEMMA ExtractExtracts ==
  ASSUME NEW p \in Procs, Proper(State(p), p), NEW said, Receivable(said, p),
         NEW t, t = Extract(p, said)
  PROVE  Proper(t, p) /\ Grows(State(p), t, p) /\ TakesLarger(t, said, p)
<1>1. \A x \in DOMAIN said \cap Holds[p] : Sendable(said[x], x)
  BY DEF Receivable
<1> QED BY <1>1, ExtractTakesLarger DEF TakesLarger

\* What an exchange does to one process.
LEMMA ExchangeAt ==
  ASSUME NEW p \in Procs, TypeAt(p), LocalAt(p), pc[p] \in {"toMaster", "toSlave"},
         NEW said, Receivable(said, p), NEW t, t = Extract(p, said),
         marks'[p] = t.marks, newly'[p] = t.newly, current'[p] = current[p],
         pc'[p] \in {"toSlave", "turn"}
  PROVE  /\ TypeAt(p)' /\ LocalAt(p)' /\ Growing(p) /\ newly'[p] \subseteq Elems
         /\ Hears(p, said)
<1>1. Proper(State(p), p)
  BY DEF TypeAt
<1>2. Proper(t, p) /\ Grows(State(p), t, p) /\ TakesLarger(t, said, p)
  BY <1>1, ExtractExtracts
<1>3. pc[p] \notin {"begin", "done", "adjust"} /\ pc'[p] \in {"ask", "toSlave", "turn"}
  OBVIOUS
<1>4. TypeAt(p)' /\ LocalAt(p)' /\ Growing(p)
  BY <1>2, <1>3, MarkingStep
<1>5. newly'[p] \subseteq Elems
  BY <1>2, ProcHolds DEF Proper
<1>6. Hears(p, said)
  BY <1>2 DEF TakesLarger, Hears
<1> QED BY <1>4, <1>5, <1>6

\* An exchange in which every process takes over what it hears of.
LEMMA ExchangeStep ==
  ASSUME MarksTypeOK, LocalInv, NEW phase \in {"toMaster", "toSlave"},
         \A p \in Procs : pc[p] = phase,
         NEW heard,
         \A p \in Procs : \A x \in DOMAIN heard[p] \cap Holds[p] : Sendable(heard[p][x], x),
         NEW s, s = [p \in Procs |-> Extract(p, heard[p])],
         marks' = [p \in Procs |-> s[p].marks],
         newly' = [p \in Procs |-> s[p].newly],
         NEW next \in {"toSlave", "turn"}, pc' = [p \in Procs |-> next],
         current' = current
  PROVE  /\ MarksTypeOK' /\ LocalInv' /\ \A p \in Procs : Growing(p)
         /\ \A p \in Procs : Hears(p, heard[p])
<1>1. ASSUME NEW p \in Procs
      PROVE  /\ TypeAt(p)' /\ LocalAt(p)' /\ Growing(p) /\ newly'[p] \subseteq Elems
             /\ Hears(p, heard[p])
  <2> DEFINE t == Extract(p, heard[p])
  <2>1. TypeAt(p) /\ LocalAt(p) /\ Receivable(heard[p], p)
    BY DEF MarksTypeOK, LocalInv, Receivable
  <2>2. /\ marks'[p] = t.marks /\ newly'[p] = t.newly /\ current'[p] = current[p]
        /\ pc[p] \in {"toMaster", "toSlave"} /\ pc'[p] \in {"toSlave", "turn"}
    OBVIOUS
  <2>3. t = Extract(p, heard[p])
    OBVIOUS
  <2> HIDE DEF t
  <2> QED BY <2>1, <2>2, <2>3, ExchangeAt
<1>2. newly' \in [Procs -> SUBSET Elems]
  BY <1>1
<1>3. MarksTypeOK'
  <2>1. marks' = [p \in Procs |-> marks'[p]]
    OBVIOUS
  <2>2. \A p \in Procs : pc'[p] = next
    OBVIOUS
  <2>3. PhaseInv'
    BY <2>2 DEF PhaseInv
  <2>4. pc' \in [Procs -> Phases] /\ current' \in [Procs -> SUBSET Elems]
    BY DEF Phases, MarksTypeOK
  <2> QED BY <2>1, <2>3, <2>4, <1>1, <1>2 DEF MarksTypeOK
<1> QED BY <1>1, <1>3 DEF LocalInv

LEMMA ToMasterStep == ASSUME MarksInv, ToMaster
                      PROVE MarksInv' /\ \A q \in Procs : Growing(q)
<1> USE DEF MarksInv
<1> DEFINE said == [x \in {x \in Elems : IsInterfaceElement(x)} |-> SlavesSay(x)]
           heard == [p \in Procs |-> Restrict(said, {x \in DOMAIN said : MasterOf(x) = p})]
           s == [p \in Procs |-> Extract(p, heard[p])]
<1>1. /\ \A p \in Procs : pc[p] = "toMaster"
      /\ marks' = [p \in Procs |-> s[p].marks]
      /\ newly' = [p \in Procs |-> s[p].newly]
      /\ pc' = [p \in Procs |-> "toSlave"] /\ current' = current
  BY DEF ToMaster
<1>2. \A p \in Procs :
        /\ DOMAIN heard[p] = {x \in Elems : IsInterfaceElement(x) /\ MasterOf(x) = p}
        /\ \A x \in DOMAIN heard[p] : heard[p][x] = SlavesSay(x)
  BY DEF Restrict
<1>3. ASSUME NEW x \in Elems, IsInterfaceElement(x)
      PROVE  /\ Sendable(SlavesSay(x), x)
             /\ x \in Common => \A q \in SlavesOf(x) : SlavesSay(x) >= marks[q][x]
  BY <1>1, <1>3, SlavesSayMark
<1> HIDE DEF heard
<1>4. /\ MarksTypeOK' /\ LocalInv' /\ \A p \in Procs : Growing(p)
      /\ \A p \in Procs : Hears(p, heard[p])
  <2>1. \A p \in Procs : \A x \in DOMAIN heard[p] \cap Holds[p] : Sendable(heard[p][x], x)
    BY <1>2, <1>3
  <2>2. s = [p \in Procs |-> Extract(p, heard[p])]
    OBVIOUS
  <2> HIDE DEF s
  <2> QED BY <2>1, <2>2, <1>1, ExchangeStep
<1>5. ASSUME NEW x \in Common
      PROVE  MasterLeads(x)'
  <2> DEFINE m == MasterOf(x)
  <2>1. x \in Elems /\ m \in Procs /\ x \in Holds[m] /\ m \in Holders(x)
    BY Masters, HoldersHold DEF Common
  <2>2. \A p \in Holders(x) : p \in Procs /\ x \in Holds[p] /\ (p = m \/ p \in SlavesOf(x))
    BY HoldersHold DEF SlavesOf
  <2>3. \A p \in Holders(x) : /\ marks[p][x] \in {NONE, CLOSURE, FULL}
                              /\ marks'[p][x] \in {NONE, CLOSURE, FULL}
    <3>1. \A p \in Holders(x) : pc[p] # "begin" /\ pc'[p] # "begin"
      BY <2>2, <1>1
    <3>2. \A p \in Holders(x) : TypeAt(p) /\ TypeAt(p)'
      BY <2>2, <1>4 DEF MarksTypeOK
    <3> QED BY <2>2, <3>1, <3>2 DEF TypeAt, Proper, ProperAt, State
  <2>4. CASE ~IsInterfaceElement(x)
    <3>1. Holders(x) = {m}
      BY <2>1, <2>4, Masters
    <3> QED BY <3>1, <2>3 DEF MasterLeads, NONE, CLOSURE, FULL
  <2>5. CASE IsInterfaceElement(x)
    <3>1. x \in DOMAIN heard[m] /\ heard[m][x] = SlavesSay(x)
      BY <1>2, <2>1, <2>5
    <3>2. \A q \in SlavesOf(x) : SlavesSay(x) >= marks[q][x]
      BY <1>3, <2>1, <2>5
    <3>3. SlavesSay(x) \in {NONE, CLOSURE, FULL}
      BY <1>3, <2>1, <2>5 DEF Sendable
    <3>4. marks'[m][x] >= SlavesSay(x)
      <4>1. Hears(m, heard[m])
        BY <2>1, <1>4
      <4>2. /\ heard[m][x] > marks[m][x] => marks'[m][x] = heard[m][x]
            /\ ~(heard[m][x] > marks[m][x]) => marks'[m][x] = marks[m][x]
        BY <2>1, <3>1, <4>1 DEF Hears
      <4> HIDE DEF m
      <4> QED BY <4>2, <3>1, <3>3, <2>1, <2>3 DEF NONE, CLOSURE, FULL
    <3>5. ASSUME NEW q \in SlavesOf(x)
          PROVE  marks'[q][x] = marks[q][x] /\ q \in Holders(x)
      <4>1. q \in Procs /\ x \in Holds[q] /\ q # m /\ q \in Holders(x)
        BY HoldersHold DEF SlavesOf
      <4>2. x \notin DOMAIN heard[q]
        BY <4>1, <1>2
      <4> QED BY <4>1, <4>2, <1>4 DEF Hears
    <3>6. ASSUME NEW q \in Holders(x)
          PROVE  marks'[m][x] >= marks'[q][x]
      <4>1. CASE q = m
        BY <4>1, <2>3 DEF NONE, CLOSURE, FULL
      <4>2. CASE q \in SlavesOf(x)
        BY <4>2, <3>2, <3>3, <3>4, <3>5, <2>1, <2>3 DEF NONE, CLOSURE, FULL
      <4> QED BY <4>1, <4>2, <2>2
    <3> QED BY <3>6 DEF MasterLeads
  <2> QED BY <2>4, <2>5
<1>6. CopiesInv'
  <2> SUFFICES ASSUME NEW x \in Common PROVE CopyInv(x)'
    BY DEF CopiesInv
  <2>1. PICK p \in Procs : x \in Holds[p]
    BY Masters, HoldersHold DEF Common
  <2>2. /\ ~AllIn({"adjust", "ask"})' /\ ~AllIn({"begin", "adjust", "ask"})'
        /\ ~AllIn({"turn"})' /\ ~AllIn({"done"})'
    BY <1>1 DEF AllIn
  <2> QED BY <2>2, <1>5 DEF CopyInv
<1> QED BY <1>4, <1>6

LEMMA ToSlaveStep == ASSUME MarksInv, ToSlave
                     PROVE MarksInv' /\ \A q \in Procs : Growing(q)
<1> USE DEF MarksInv
<1> DEFINE said == [x \in {x \in Elems : IsInterfaceElement(x)} |-> MasterSays(x)]
           heard == [p \in Procs |-> said]
           s == [p \in Procs |-> Extract(p, said)]
<1>1. /\ \A p \in Procs : pc[p] = "toSlave"
      /\ marks' = [p \in Procs |-> s[p].marks]
      /\ newly' = [p \in Procs |-> s[p].newly]
      /\ pc' = [p \in Procs |-> "turn"] /\ current' = current
  BY DEF ToSlave
<1>2. ASSUME NEW x \in Elems
      PROVE  /\ Sendable(MasterSays(x), x)
             /\ x \in Common => MasterSays(x) = marks[MasterOf(x)][x]
  <2>1. MasterOf(x) \in Procs
    BY Masters
  <2> QED BY <2>1, <1>1, MasterSaysMark
<1>3. \A p \in Procs :
        /\ DOMAIN heard[p] = {x \in Elems : IsInterfaceElement(x)}
        /\ \A x \in DOMAIN heard[p] : heard[p][x] = MasterSays(x)
  OBVIOUS
<1>4. s = [p \in Procs |-> Extract(p, heard[p])]
  OBVIOUS
<1> HIDE DEF heard, s
<1>5. /\ MarksTypeOK' /\ LocalInv' /\ \A p \in Procs : Growing(p)
      /\ \A p \in Procs : Hears(p, heard[p])
  <2>1. \A p \in Procs : \A x \in DOMAIN heard[p] \cap Holds[p] : Sendable(heard[p][x], x)
    BY <1>2, <1>3
  <2> QED BY <2>1, <1>1, <1>4, ExchangeStep
<1>6. ASSUME NEW x \in Common
      PROVE  Settled(x)'
  <2>1. x \in Elems
    BY DEF Common
  <2>2. CASE ~IsInterfaceElement(x)
    <3>1. Holders(x) = {MasterOf(x)}
      BY <2>1, <2>2, Masters
    <3> QED BY <3>1 DEF Settled
  <2>3. CASE IsInterfaceElement(x)
    <3>1. AllIn({"toSlave"})
      BY <1>1 DEF AllIn
    <3>2. MasterLeads(x)
      BY <3>1 DEF CopiesInv, CopyInv
    <3>3. ASSUME NEW p \in Holders(x)
          PROVE  marks'[p][x] = marks[MasterOf(x)][x]
      <4>1. p \in Procs /\ x \in Holds[p]
        BY HoldersHold
      <4>2. heard[p][x] = marks[MasterOf(x)][x] /\ x \in DOMAIN heard[p]
        BY <4>1, <2>1, <2>3, <1>2, <1>3
      <4>3. marks[MasterOf(x)][x] >= marks[p][x]
        BY <3>2 DEF MasterLeads
      <4>4. TypeAt(p) /\ pc[p] # "begin"
        BY <4>1, <1>1 DEF MarksTypeOK
      <4>5. marks[p][x] \in {NONE, CLOSURE, FULL}
        BY <4>1, <4>4 DEF TypeAt, Proper, ProperAt, State
      <4>6. marks[MasterOf(x)][x] \in {NONE, CLOSURE, FULL}
        BY <1>2, <2>1 DEF Sendable
      <4>7. CASE heard[p][x] > marks[p][x]
        <5>1. Hears(p, heard[p])
          BY <4>1, <1>5
        <5>2. heard[p][x] > marks[p][x] => marks'[p][x] = heard[p][x]
          BY <4>1, <4>2, <5>1 DEF Hears
        <5> QED BY <4>2, <4>7, <5>2
      <4>8. CASE ~(heard[p][x] > marks[p][x])
        <5>1. marks'[p][x] = marks[p][x]
          BY <4>1, <4>2, <4>8, <1>5 DEF Hears
        <5> QED BY <5>1, <4>2, <4>3, <4>5, <4>6, <4>8 DEF NONE, CLOSURE, FULL
      <4> QED BY <4>7, <4>8
    <3> QED BY <3>3 DEF Settled
  <2> QED BY <2>2, <2>3
<1>7. CopiesInv'
  <2> SUFFICES ASSUME NEW x \in Common PROVE CopyInv(x)'
    BY DEF CopiesInv
  <2>1. PICK p \in Procs : x \in Holds[p]
    BY Masters, HoldersHold DEF Common
  <2>2. /\ ~AllIn({"adjust", "ask"})' /\ ~AllIn({"begin", "adjust", "ask"})'
        /\ ~AllIn({"toSlave"})'
    BY <1>1 DEF AllIn
  <2> QED BY <2>2, <1>6 DEF CopyInv
<1> QED BY <1>5, <1>7

LEMMA TurnStep == ASSUME MarksInv, Turn
                  PROVE MarksInv' /\ \A q \in Procs : Growing(q)
<1> USE DEF MarksInv
<1>1. marks' = marks /\ \A p \in Procs : pc[p] = "turn"
  BY DEF Turn
<1>2. \A p \in Procs : /\ TypeAt(p) /\ LocalAt(p) /\ Proper(State(p), p)
                      /\ newly[p] \subseteq Holds[p] /\ Waiting(p) = newly[p]
  BY <1>1 DEF MarksTypeOK, LocalInv, TypeAt, Proper, State, Waiting
<1>G. \A p \in Procs : Growing(p)
  BY <1>1, UnchangedIsGrowing DEF MarksTypeOK
<1>3. CASE \E p \in Procs : newly[p] # {}
  <2>1. /\ current' = newly /\ newly' = [p \in Procs |-> {}]
        /\ pc' = [p \in Procs |-> "adjust"]
    BY <1>3 DEF Turn
  <2>2. ASSUME NEW p \in Procs
        PROVE  TypeAt(p)' /\ LocalAt(p)'
    <3>1. /\ State(p)'.marks = State(p).marks /\ State(p)'.newly = {}
          /\ pc'[p] = "adjust" /\ current'[p] = newly[p] /\ newly'[p] = {}
      BY <1>1, <2>1 DEF State
    <3>2. Proper(State(p), p)'
      BY <3>1, <1>2 DEF Proper, ProperAt
    <3>3. TypeAt(p)'
      BY <3>1, <3>2, <1>2 DEF TypeAt
    <3>4. Waiting(p)' = newly[p]
      BY <3>1 DEF Waiting
    <3>5. LocalAt(p)'
      BY <3>4, <1>1, <1>2 DEF LocalAt
    <3> QED BY <3>3, <3>5
  <2>3. MarksTypeOK'
    BY <1>1, <2>1, <2>2 DEF MarksTypeOK, PhaseInv, Phases
  <2>4. CopiesInv'
    <3> SUFFICES ASSUME NEW x \in Common PROVE CopyInv(x)'
      BY DEF CopiesInv
    <3>1. Settled(x) \/ JustMarked(x)
      BY <1>1 DEF CopiesInv, CopyInv, AllIn
    <3>2. Settled(x)' \/ Noticed(x)'
      BY <3>1, <1>1, <2>1 DEF Settled, JustMarked, Noticed
    <3>3. \A phase \in {"toSlave", "turn", "done"} : ~AllIn({phase})'
      BY <1>3, <2>1 DEF AllIn
    <3>4. AllIn({"adjust", "ask"})'
      BY <2>1 DEF AllIn
    <3> QED BY <3>2, <3>3, <3>4 DEF CopyInv
  <2> QED BY <2>2, <2>3, <2>4, <1>G DEF LocalInv
<1>4. CASE \A p \in Procs : newly[p] = {}
  <2>1. current' = current /\ newly' = newly /\ pc' = [p \in Procs |-> "done"]
    BY <1>4 DEF Turn
  <2>2. ASSUME NEW p \in Procs
        PROVE  TypeAt(p)' /\ LocalAt(p)'
    <3>1. /\ State(p)' = State(p) /\ pc[p] = "turn" /\ pc'[p] = "done"
          /\ current'[p] = current[p] /\ newly'[p] = {} /\ newly[p] = {}
      BY <1>1, <1>4, <2>1 DEF State
    <3>2. Proper(State(p), p)'
      BY <3>1, <1>2 DEF Proper, ProperAt
    <3>3. TypeAt(p)'
      BY <3>1, <3>2, <1>2 DEF TypeAt
    <3>4. Waiting(p)' = newly[p]
      BY <3>1 DEF Waiting
    <3>5. LocalAt(p)'
      BY <3>1, <3>4, <1>1, <1>2 DEF LocalAt
    <3> QED BY <3>3, <3>5
  <2>3. MarksTypeOK'
    BY <1>1, <2>1, <2>2 DEF MarksTypeOK, PhaseInv, Phases
  <2>4. CopiesInv'
    <3> SUFFICES ASSUME NEW x \in Common PROVE CopyInv(x)'
      BY DEF CopiesInv
    <3>1. PICK p \in Procs : x \in Holds[p]
      BY Masters, HoldersHold DEF Common
    <3>2. Settled(x) \/ JustMarked(x)
      BY <1>1 DEF CopiesInv, CopyInv, AllIn
    <3>3. Settled(x)'
      BY <3>2, <1>1, <1>4, HoldersHold DEF Settled, JustMarked
    <3>4. /\ ~AllIn({"adjust", "ask"})' /\ ~AllIn({"begin", "adjust", "ask"})'
          /\ ~AllIn({"toSlave"})' /\ ~AllIn({"turn"})'
      BY <2>1, <3>1 DEF AllIn
    <3> QED BY <3>3, <3>4 DEF CopyInv
  <2> QED BY <2>2, <2>3, <2>4, <1>G DEF LocalInv
<1> QED BY <1>3, <1>4

LEMMA MarksStep == ASSUME MarksInv, [Next]_vars
                   PROVE  MarksInv' /\ \A q \in Procs : Growing(q)
<1>1. CASE \E p \in Procs : Begin(p) \/ Adjust(p)
  BY <1>1, BeginStep, AdjustStep
<1>2. CASE Ask
  BY <1>2, AskStep
<1>3. CASE ToMaster
  BY <1>3, ToMasterStep
<1>4. CASE ToSlave
  BY <1>4, ToSlaveStep
<1>5. CASE Turn
  BY <1>5, TurnStep
<1>6. CASE UNCHANGED vars
  <2>1. marks' = marks /\ current' = current /\ newly' = newly /\ pc' = pc
    BY <1>6 DEF vars
  <2>2. \A p \in Procs : TypeAt(p)' /\ LocalAt(p)' /\ Growing(p)
    BY <2>1, OthersStay, UnchangedIsGrowing DEF MarksInv, MarksTypeOK, LocalInv
  <2>3. MarksTypeOK'
    BY <2>1, <2>2 DEF MarksInv, MarksTypeOK, PhaseInv
  <2>4. CopiesInv'
    BY <2>1 DEF MarksInv, CopiesInv, CopyInv, AllIn, Settled, Noticed, JustMarked, MasterLeads
  <2> QED BY <2>2, <2>3, <2>4 DEF MarksInv, LocalInv
<1> QED BY <1>1, <1>2, <1>3, <1>4, <1>5, <1>6 DEF Next, Finished

-----------------------------------------------------------------------------
(* When all processes are done.                                            *)

LEMMA WhenDone ==
  ASSUME MarksInv, Done
  PROVE  /\ \A p \in Procs : \A x \in Holds[p] :
              Served(marks[p], p, x) /\ ProperAt(marks[p][x], x)
         /\ \A x \in Common : Settled(x)
<1>1. ASSUME NEW p \in Procs
      PROVE  Waiting(p) = {} /\ pc[p] = "done" /\ TypeAt(p) /\ LocalAt(p)
  BY DEF MarksInv, MarksTypeOK, LocalInv, Done, TypeAt, Waiting
<1>2. \A p \in Procs : \A x \in Holds[p] : Served(marks[p], p, x)
  BY <1>1 DEF LocalAt
<1>3. \A p \in Procs : \A x \in Holds[p] : ProperAt(marks[p][x], x)
  BY <1>1 DEF TypeAt, Proper, State
<1>4. AllIn({"done"})
  BY DEF Done, AllIn
<1>5. \A x \in Common : Settled(x)
  BY <1>4 DEF MarksInv, CopiesInv, CopyInv
<1> QED BY <1>2, <1>3, <1>5

LEMMA AgreedCopies == ASSUME MarksInv PROVE CopiesAgree
<1> SUFFICES ASSUME Done, NEW x \in Common PROVE Cardinality(MarksOf(x)) = 1
  BY DEF CopiesAgree, Common
<1>1. Settled(x)
  BY WhenDone
<1>2. PICK p \in Holders(x) : TRUE
  BY DistributionAssumption DEF Common
<1>3. MarksOf(x) = {marks[p][x]}
  BY <1>1, <1>2 DEF Settled, MarksOf
<1> QED BY <1>3, FS_Singleton

LEMMA RegularGrid ==
  ASSUME MarksInv, NodeDependencyOrder1, Done
  PROVE  HangingNodesStayOfOrderOne /\ LevelsDifferByOne
<1>1. /\ \A p \in Procs : \A x \in Holds[p] :
           x \in Elems /\ p \in Holders(x) /\ Served(marks[p], p, x)
      /\ \A p, q \in Procs : \A x \in Common \cap Holds[p] \cap Holds[q] :
           marks[p][x] = marks[q][x]
  BY WhenDone, ProcHolds, HoldersHold DEF Settled
<1>2. \A x \in Elems : x \notin Vertices \/ x \notin Refined => x \in Common
  BY DEF Common
<1>3. ASSUME NEW p \in Procs, NEW q \in Procs, NEW f \in Faces \cap Holds[p],
             NEW e \in EdgesOf[f] \cap Holds[q], RefinementIsAllowed(e)
      PROVE  marks[q][e] >= marks[p][f]
  <2>1. e \in Holds[p] /\ e \in Common
    BY ProcHolds, CommonElements, GridAssumption
  <2>2. FaceServed(marks[p], f)
    BY <1>1 DEF Served
  <2>3. marks[p][e] >= marks[p][f]
    BY <1>3, <2>2 DEF FaceServed
  <2> QED BY <1>1, <2>1, <2>3
<1>4. ASSUME NEW p \in Procs, NEW q \in Procs, NEW e \in Edges \cap Holds[p],
             marks[p][e] = FULL, IsConstrained(e), Constraining[e] \in Holds[q]
      PROVE  marks[q][Constraining[e]] = FULL
  <2>1. e \in Holds[q] /\ e \in Common
    BY <1>4, DistributionAssumption, CommonElements DEF IsConstrained
  <2>2. marks[q][e] = FULL
    BY <1>1, <1>4, <2>1
  <2>3. ConstrainedServed(marks[q], q, e)
    BY <1>1, <2>1 DEF Served
  <2> QED BY <1>4, <2>2, <2>3 DEF ConstrainedServed
<1>5. ASSUME NEW p \in Procs, NEW q \in Procs, NEW e \in Edges \cap Holds[p],
             marks[p][e] = FULL, IsConstraining(e),
             NEW f \in FacesWith(e) \cap Holds[q], f \notin Refined
      PROVE  marks[q][f] # NONE
  <2>1. e \in Holds[q] /\ e \in Common
    BY ProcHolds, CommonElements DEF FacesWith
  <2>2. marks[q][e] = FULL
    BY <1>1, <1>5, <2>1
  <2>3. ConstrainingServed(marks[q], q, e)
    BY <1>1, <2>1 DEF Served
  <2> QED BY <1>5, <2>2, <2>3 DEF ConstrainingServed
<1>6. ASSUME NEW p \in Procs, NEW x \in (Edges \cup Faces) \cap Holds[p], marks[p][x] # NONE,
             NEW v \in Corners[x] \ Refined, NEW q \in Holders(v)
      PROVE  marks[q][v] = FULL
  <2>1. v \in Holds[p] /\ v \in Common /\ q \in Procs /\ v \in Holds[q]
    BY <1>2, ProcHolds, HoldersHold, DistributionAssumption
  <2>2. CornersServed(marks[p], x)
    BY <1>1 DEF Served
  <2>3. marks[p][v] = FULL
    BY <1>6, <2>2 DEF CornersServed
  <2> QED BY <1>1, <2>1, <2>3
<1>7. ASSUME NEW p \in Procs, NEW v \in Vertices \cap Holds[p],
             marks[p][v] = FULL, v \notin Refined, ~IsConstrained(v), v \in DOMAIN ParentOf,
             NEW q \in Procs,
             NEW x \in (EdgesAt(ParentOf[v]) \cup FacesAt(ParentOf[v])) \cap Holds[q],
             x \notin Refined
      PROVE  marks[q][x] # NONE
  <2> DEFINE u == ParentOf[v]
  <2>1. u \in Vertices \cap Refined
    BY <1>7, GridAssumption DEF Range
  <2>2. ~IsConstrained(u)
    BY <2>1, GridAssumption
  <2>3. u \in Holds[q] /\ v \in Holds[q]
    BY <1>7, DistributionAssumption DEF EdgesAt, FacesAt
  <2>4. v \in Common
    BY <1>1, <1>2, <1>7
  <2>5. marks[q][v] = FULL
    BY <1>1, <1>7, <2>3, <2>4
  <2>6. ParentServed(marks[q], q, v) /\ AroundServed(marks[q], q, u)
    BY <1>1, <2>1, <2>3 DEF Served
  <2>7. marks[q][u] = DUMMY
    BY <1>7, <2>2, <2>3, <2>5, <2>6 DEF ParentServed
  <2> HIDE DEF u
  <2> QED BY <1>7, <2>1, <2>2, <2>6, <2>7 DEF AroundServed, RefinementIsAllowed, u
<1>8. HangingNodesStayOfOrderOne
  BY <1>3, <1>4, <1>5, <1>6 DEF HangingNodesStayOfOrderOne
<1>9. LevelsDifferByOne
  BY <1>7 DEF LevelsDifferByOne
<1> QED BY <1>8, <1>9

-----------------------------------------------------------------------------
(* The closure of a set of elements.                                       *)

Closed(T) == \A x \in T : Needs(x) \subseteq T

\* A set with all that its elements need, and the sets that grow from S, the first
\* n of them or all.
Widened(T) == T \cup UNION {Needs(x) : x \in T}
After(h, k, S) == IF k = 0 THEN S ELSE Widened(h[k - 1])
PartChain(h, n, S) == h = [k \in 0 .. n |-> After(h, k, S)]
Chain(g, S) == g = [n \in Nat |-> After(g, n, S)]

LEMMA ClosureIs ==
  ASSUME NEW S
  PROVE  ClosureOf(S) = (CHOOSE g : Chain(g, S))[Cardinality(Elems)]
  BY DEF ClosureOf, Chain, After, Widened

LEMMA PartChainAt ==
  ASSUME NEW S, NEW n \in Nat, NEW h, PartChain(h, n, S), NEW k \in 0 .. n
  PROVE  h[k] = After(h, k, S)
  BY DEF PartChain

LEMMA PartChainExtends ==
  ASSUME NEW S, NEW m \in Nat, NEW h, PartChain(h, m, S)
  PROVE  \E i : PartChain(i, m + 1, S)
<1> DEFINE i == [k \in 0 .. m + 1 |-> IF k = m + 1 THEN Widened(h[m]) ELSE h[k]]
<1>1. \A k \in 0 .. m : i[k] = h[k]
  OBVIOUS
<1>2. i[m + 1] = Widened(h[m])
  OBVIOUS
<1>3. i = [k \in 0 .. m + 1 |-> i[k]]
  OBVIOUS
<1> HIDE DEF i
<1>4. ASSUME NEW k \in 0 .. m + 1
      PROVE  i[k] = After(i, k, S)
  <2>1. CASE k = m + 1
    BY <2>1, <1>1, <1>2 DEF After
  <2>2. CASE k \in 0 .. m
    <3>1. h[k] = After(h, k, S)
      BY <2>2, PartChainAt
    <3>2. CASE k = 0
      BY <3>1, <3>2, <2>2, <1>1 DEF After
    <3>3. CASE k # 0
      <4>1. k - 1 \in 0 .. m
        BY <2>2, <3>3
      <4> QED BY <4>1, <3>1, <3>3, <2>2, <1>1 DEF After
    <3> QED BY <3>2, <3>3
  <2> QED BY <2>1, <2>2
<1>5. i = [k \in 0 .. m + 1 |-> After(i, k, S)]
  BY <1>3, <1>4
<1> QED BY <1>5 DEF PartChain

LEMMA PartChainExists ==
  ASSUME NEW S, NEW n \in Nat
  PROVE  \E h : PartChain(h, n, S)
<1> DEFINE B == {k \in Nat : ~ \E h : PartChain(h, k, S)}
<1>1. SUFFICES ASSUME B # {} PROVE FALSE
  OBVIOUS
<1>2. PICK m \in B : \A k \in B : m <= k
  <2> HIDE DEF B
  <2>1. B \in SUBSET Nat
    BY DEF B
  <2> QED BY <2>1, <1>1, LeastNat
<1>3. CASE m = 0
  <2> DEFINE h == [k \in 0 .. 0 |-> S]
  <2>1. h = [k \in 0 .. 0 |-> After(h, k, S)]
    BY DEF After
  <2> QED BY <2>1, <1>2, <1>3 DEF PartChain
<1>4. CASE m # 0
  <2>1. m - 1 \in Nat /\ m - 1 \notin B
    BY <1>2, <1>4
  <2>2. PICK h : PartChain(h, m - 1, S)
    BY <2>1
  <2>3. \E i : PartChain(i, (m - 1) + 1, S)
    BY <2>1, <2>2, PartChainExtends
  <2>4. (m - 1) + 1 = m
    BY <1>2
  <2> QED BY <2>3, <2>4, <1>2
<1> QED BY <1>3, <1>4

LEMMA PartChainsAgree ==
  ASSUME NEW S, NEW n \in Nat, NEW m \in Nat, NEW h, NEW i,
         PartChain(h, n, S), PartChain(i, m, S)
  PROVE  \A k \in Nat : k <= n /\ k <= m => h[k] = i[k]
<1> DEFINE B == {k \in Nat : k <= n /\ k <= m /\ h[k] # i[k]}
<1>1. SUFFICES ASSUME B # {} PROVE FALSE
  OBVIOUS
<1>2. PICK k \in B : \A j \in B : k <= j
  <2> HIDE DEF B
  <2>1. B \in SUBSET Nat
    BY DEF B
  <2> QED BY <2>1, <1>1, LeastNat
<1>3. k \in 0 .. n /\ k \in 0 .. m /\ h[k] # i[k]
  BY <1>2
<1>4. h[k] = After(h, k, S) /\ i[k] = After(i, k, S)
  BY <1>3, PartChainAt
<1>5. k # 0
  BY <1>3, <1>4 DEF After
<1>6. k - 1 \in Nat /\ k - 1 <= n /\ k - 1 <= m /\ k - 1 \notin B
  BY <1>2, <1>3, <1>5
<1>7. h[k - 1] = i[k - 1]
  BY <1>6
<1> QED BY <1>3, <1>4, <1>5, <1>7 DEF After

LEMMA ChainExists == ASSUME NEW S PROVE \E g : Chain(g, S)
<1> DEFINE part(n) == CHOOSE h : PartChain(h, n, S)
           g == [n \in Nat |-> part(n)[n]]
<1>1. \A n \in Nat : PartChain(part(n), n, S)
  BY PartChainExists
<1> HIDE DEF part
<1>2. ASSUME NEW n \in Nat
      PROVE  g[n] = After(g, n, S)
  <2>1. part(n)[n] = After(part(n), n, S)
    <3>1. n \in 0 .. n
      OBVIOUS
    <3> QED BY <3>1, <1>1, PartChainAt
  <2>2. CASE n = 0
    BY <2>1, <2>2 DEF After
  <2>3. CASE n # 0
    <3>1. n - 1 \in Nat /\ n - 1 <= n
      BY <2>3
    <3>2. part(n)[n - 1] = part(n - 1)[n - 1]
      BY <3>1, <1>1, PartChainsAgree
    <3> QED BY <3>1, <3>2, <2>1, <2>3 DEF After
  <2> QED BY <2>2, <2>3
<1>3. g = [n \in Nat |-> g[n]]
  OBVIOUS
<1> HIDE DEF g
<1>4. g = [n \in Nat |-> After(g, n, S)]
  BY <1>2, <1>3
<1> QED BY <1>4 DEF Chain

\* The closure is the last of a chain of sets, each with what the one before needs.
LEMMA ClosureChain ==
  ASSUME NEW S
  PROVE  \E g : /\ ClosureOf(S) = g[Cardinality(Elems)]
                /\ g[0] = S
                /\ \A n \in Nat : g[n + 1] = Widened(g[n])
<1> DEFINE g == CHOOSE g : Chain(g, S)
<1>1. Chain(g, S)
  BY ChainExists
<1>2. ClosureOf(S) = g[Cardinality(Elems)]
  BY ClosureIs
<1> HIDE DEF g
<1>3. \A n \in Nat : g[n] = After(g, n, S)
  BY <1>1 DEF Chain
<1>4. \A n \in Nat : n + 1 \in Nat /\ n + 1 # 0 /\ (n + 1) - 1 = n
  OBVIOUS
<1>5. g[0] = S /\ \A n \in Nat : g[n + 1] = Widened(g[n])
  BY <1>3, <1>4 DEF After
<1> QED BY <1>2, <1>5

LEMMA WidenedWithin ==
  ASSUME NEW T, Closed(T), NEW R \in SUBSET T
  PROVE  Widened(R) \subseteq T
  BY DEF Widened, Closed

LEMMA ChainWithin ==
  ASSUME NEW g, \A n \in Nat : g[n + 1] = Widened(g[n]), NEW T, Closed(T), g[0] \subseteq T,
         NEW n \in Nat
  PROVE  g[n] \subseteq T
<1> DEFINE B == {k \in Nat : ~(g[k] \subseteq T)}
<1>1. SUFFICES ASSUME B # {} PROVE FALSE
  OBVIOUS
<1>2. PICK m \in B : \A k \in B : m <= k
  <2> HIDE DEF B
  <2>1. B \in SUBSET Nat
    BY DEF B
  <2> QED BY <2>1, <1>1, LeastNat
<1>3. m \in Nat /\ m # 0 /\ ~(g[m] \subseteq T)
  BY <1>2
<1>4. m - 1 \in Nat /\ m - 1 \notin B /\ (m - 1) + 1 = m
  BY <1>2, <1>3
<1>5. g[m - 1] \subseteq T /\ g[m] = Widened(g[m - 1])
  <2>1. g[(m - 1) + 1] = Widened(g[m - 1])
    BY <1>4
  <2> QED BY <1>4, <2>1
<1> QED BY <1>3, <1>5, WidenedWithin

\* The closure is within every closed set that contains what it is the closure of.
LEMMA ClosureIsLeast ==
  ASSUME NEW T, Closed(T), NEW S \in SUBSET T
  PROVE  ClosureOf(S) \subseteq T
<1>1. PICK g : /\ ClosureOf(S) = g[Cardinality(Elems)]
               /\ g[0] = S
               /\ \A n \in Nat : g[n + 1] = Widened(g[n])
  BY ClosureChain
<1>2. Cardinality(Elems) \in Nat
  BY GridAssumption, FS_CardinalityType
<1> QED BY <1>1, <1>2, ChainWithin

LEMMA ElemsAreClosed == Closed(Elems)
<1> SUFFICES ASSUME NEW x \in Elems, NEW y \in Needs(x) PROVE y \in Elems
  BY DEF Closed
<1>1. x \notin Vertices => Corners[x] \subseteq Vertices
  BY GridAssumption DEF Elems
<1>2. IsConstrained(x) => Constraining[x] \in Edges
  BY ConstrainingIsEdge DEF IsConstrained
<1>3. x \in Faces => EdgesOf[x] \subseteq Edges
  BY GridAssumption
<1>4. \A v : EdgesAt(v) \cup FacesAt(v) \cup FacesWith(v) \subseteq Edges \cup Faces
  BY DEF EdgesAt, FacesAt, FacesWith
<1> QED BY <1>1, <1>2, <1>3, <1>4 DEF Needs, Elems

\* A chain in a finite set stops growing before it has used up the set.
LEMMA ChainStops ==
  ASSUME NEW E, IsFiniteSet(E), NEW g, \A n \in Nat : g[n + 1] = Widened(g[n]),
         \A n \in Nat : g[n] \subseteq E
  PROVE  g[Cardinality(E) + 1] = g[Cardinality(E)]
<1> DEFINE N == Cardinality(E)
<1>1. N \in Nat
  BY FS_CardinalityType
<1> SUFFICES ASSUME g[N + 1] # g[N] PROVE FALSE
  OBVIOUS
<1>2. \A n \in Nat : g[n] \subseteq g[n + 1]
  BY DEF Widened
<1>3. \A n \in Nat : IsFiniteSet(g[n]) /\ Cardinality(g[n]) \in Nat /\ Cardinality(g[n]) <= N
  BY FS_Subset, FS_CardinalityType
  \* Were a set as large as the next, all later ones were.
<1>4. ASSUME NEW n \in Nat, n <= N, g[n + 1] = g[n]
      PROVE  FALSE
  <2> DEFINE B == {k \in Nat : n <= k /\ g[k + 1] # g[k]}
  <2>1. N \in B
    BY <1>1, <1>4
  <2>2. PICK m \in B : \A k \in B : m <= k
    <3> HIDE DEF B
    <3>1. B \in SUBSET Nat
      BY DEF B
    <3> QED BY <2>1, <3>1, LeastNat
  <2>3. m \in Nat /\ n <= m /\ m # n /\ g[m + 1] # g[m]
    BY <2>2, <1>4
  <2>4. m - 1 \in Nat /\ m - 1 \notin B /\ n <= m - 1 /\ (m - 1) + 1 = m
    BY <2>2, <2>3
  <2>5. g[m] = g[m - 1]
    BY <2>4
  <2>6. g[m] = Widened(g[m - 1]) /\ g[m + 1] = Widened(g[m])
    <3>1. g[(m - 1) + 1] = Widened(g[m - 1])
      BY <2>4
    <3> QED BY <2>3, <2>4, <3>1
  <2> QED BY <2>3, <2>5, <2>6
<1>5. \A n \in Nat : n <= N + 1 => Cardinality(g[n]) >= n
  <2> DEFINE B == {n \in Nat : n <= N + 1 /\ ~(Cardinality(g[n]) >= n)}
  <2>1. SUFFICES ASSUME B # {} PROVE FALSE
    OBVIOUS
  <2>2. PICK m \in B : \A k \in B : m <= k
    <3> HIDE DEF B
    <3>1. B \in SUBSET Nat
      BY DEF B
    <3> QED BY <2>1, <3>1, LeastNat
  <2>3. m \in Nat /\ m # 0 /\ m <= N + 1 /\ ~(Cardinality(g[m]) >= m)
    BY <2>2, <1>3
  <2>4. m - 1 \in Nat /\ m - 1 <= N /\ m - 1 \notin B /\ (m - 1) + 1 = m
    BY <2>2, <2>3, <1>1
  <2>5. Cardinality(g[m - 1]) >= m - 1
    BY <2>4, <1>1
  <2>6. g[m - 1] \subseteq g[m] /\ g[m] # g[m - 1]
    BY <2>4, <1>2, <1>4
  <2>7. /\ Cardinality(g[m - 1]) <= Cardinality(g[m])
        /\ Cardinality(g[m - 1]) # Cardinality(g[m])
    <3>1. IsFiniteSet(g[m]) /\ g[m - 1] \in SUBSET g[m]
      BY <2>3, <2>6, <1>3
    <3> QED BY <3>1, <2>6, FS_Subset
  <2>8. Cardinality(g[m - 1]) \in Nat /\ Cardinality(g[m]) \in Nat
    BY <2>3, <2>4, <1>3
  <2> QED BY <2>3, <2>4, <2>5, <2>7, <2>8
<1>6. N + 1 \in Nat /\ N + 1 <= N + 1
  BY <1>1
<1>7. Cardinality(g[N + 1]) >= N + 1 /\ Cardinality(g[N + 1]) <= N /\ Cardinality(g[N + 1]) \in Nat
  BY <1>3, <1>5, <1>6
<1> QED BY <1>1, <1>7

\* The closure contains what its elements need.
LEMMA ClosureCloses ==
  ASSUME NEW S \in SUBSET Elems
  PROVE  S \subseteq ClosureOf(S) /\ ClosureOf(S) \subseteq Elems /\ Closed(ClosureOf(S))
<1> DEFINE N == Cardinality(Elems)
<1>1. PICK g : /\ ClosureOf(S) = g[N]
               /\ g[0] = S
               /\ \A n \in Nat : g[n + 1] = Widened(g[n])
  BY ClosureChain
<1>2. N \in Nat /\ IsFiniteSet(Elems)
  BY GridAssumption, FS_CardinalityType
<1>3. \A n \in Nat : g[n] \subseteq Elems
  BY <1>1, ElemsAreClosed, ChainWithin
<1>4. g[N + 1] = g[N]
  BY <1>1, <1>2, <1>3, ChainStops
<1>5. Widened(g[N]) = g[N]
  BY <1>1, <1>2, <1>4
<1>6. Closed(ClosureOf(S))
  BY <1>1, <1>5 DEF Closed, Widened
<1>7. ASSUME NEW x \in S PROVE x \in g[N]
  <2> DEFINE B == {k \in Nat : x \notin g[k]}
  <2>1. SUFFICES ASSUME B # {} PROVE FALSE
    BY <1>2
  <2>2. PICK m \in B : \A k \in B : m <= k
    <3> HIDE DEF B
    <3>1. B \in SUBSET Nat
      BY DEF B
    <3> QED BY <2>1, <3>1, LeastNat
  <2>3. m \in Nat /\ m # 0 /\ x \notin g[m]
    BY <2>2, <1>1, <1>7
  <2>4. m - 1 \in Nat /\ m - 1 \notin B /\ (m - 1) + 1 = m
    BY <2>2, <2>3
  <2>5. g[m] = Widened(g[m - 1])
    <3>1. g[(m - 1) + 1] = Widened(g[m - 1])
      BY <1>1, <2>4
    <3> QED BY <2>4, <3>1
  <2> QED BY <2>3, <2>4, <2>5 DEF Widened
<1> QED BY <1>1, <1>2, <1>3, <1>6, <1>7

-----------------------------------------------------------------------------
(* Every mark has a reason, where the user gives no RM_CLOSURE.            *)

\* A vertex gets a dummy mark when its child is refined.
Grounded(v, W) ==
  \E w \in W \cap DOMAIN ParentOf : ParentOf[w] = v /\ w \notin Refined /\ ~IsConstrained(w)

JustifiedAt(m, x, W) ==
  /\ m \in {NONE, FULL, DUMMY}
  /\ m = FULL => x \in W
  /\ m = DUMMY => Grounded(x, W)

Justified(s, p, W) ==
  /\ \A x \in Holds[p] : JustifiedAt(s.marks[x], x, W)
  /\ \A x \in s.newly : s.marks[x] # NONE

AllMarked(s, list) == \A x \in list : s.marks[x] # NONE

\* What may be handed to mark(), with a reason in W.
Reasons(p, F, D, W) ==
  /\ \A x \in F \cap Holds[p] : RefinementIsAllowed(x) => x \in W
  /\ \A x \in D : Grounded(x, W)

LEMMA MarkIsJustified ==
  ASSUME NEW p \in Procs, NEW s, Proper(s, p), NEW W, Justified(s, p, W), NEW F, NEW D,
         Reasons(p, F, D, W), Allowed(s, p, F, {}, D)
  PROVE  Justified(Mark(s, p, F, {}, D), p, W)
<1> DEFINE t == Mark(s, p, F, {}, D)
<1>1. ASSUME NEW x \in Holds[p]
      PROVE  /\ JustifiedAt(t.marks[x], x, W)
             /\ x \in t.newly => t.marks[x] # NONE
  <2>1. /\ Changes(s, x, F, {}, D) =>
              /\ x \in D => t.marks[x] = DUMMY
              /\ x \in F \ D => t.marks[x] = FULL
              /\ x \notin F \cup D => t.marks[x] = CLOSURE
        /\ ~Changes(s, x, F, {}, D) => t.marks[x] = s.marks[x]
        /\ x \in t.newly => x \in s.newly \/ Changes(s, x, F, {}, D)
    BY MarkAt DEF Proper
  <2> HIDE DEF t
  <2>2. CASE Changes(s, x, F, {}, D)
    <3>1. RefinementIsAllowed(x) /\ x \in F \cup D
      BY <2>2 DEF Changes
    <3>2. CASE x \in D
      <4>1. t.marks[x] = DUMMY /\ Grounded(x, W)
        BY <3>2, <2>1, <2>2 DEF Reasons
      <4> QED BY <4>1 DEF JustifiedAt, NONE, FULL, DUMMY
    <3>3. CASE x \in F \ D
      <4>1. t.marks[x] = FULL /\ x \in W
        BY <3>1, <3>3, <2>1, <2>2 DEF Reasons
      <4> QED BY <4>1 DEF JustifiedAt, NONE, FULL, DUMMY
    <3> QED BY <3>1, <3>2, <3>3
  <2>3. CASE ~Changes(s, x, F, {}, D)
    BY <2>1, <2>3 DEF Justified
  <2> QED BY <2>2, <2>3
<1>2. t.newly \subseteq Holds[p]
  BY MarkDomain DEF Proper
<1> HIDE DEF t
<1>3. Justified(t, p, W)
  BY <1>1, <1>2 DEF Justified
<1> QED BY <1>3 DEF t

\* What a closed set has with an element.
LEMMA NeedsOf ==
  ASSUME NEW W, Closed(W), NEW x \in W, NEW y, RefinementIsAllowed(y)
  PROVE  /\ x \notin Vertices /\ y \in Corners[x]
              /\ (y \notin Refined \/ (NodeDependencyOrder1 /\ IsConstrained(y))) => y \in W
         /\ IsConstrained(x) /\ (x \in Edges \/ NodeDependencyOrder1) /\ y = Constraining[x] =>
              y \in W
         /\ IsConstraining(x) /\ y \in FacesWith(x) => y \in W
         /\ x \in DOMAIN ParentOf /\ x \notin Refined /\ ~IsConstrained(x)
              /\ y \in EdgesAt(ParentOf[x]) \cup FacesAt(ParentOf[x]) => y \in W
         /\ x \in Faces /\ y \in EdgesOf[x] => y \in W
<1>1. Needs(x) \subseteq W
  BY DEF Closed
<1> QED BY <1>1 DEF Needs

\* What the elements of a list are marked with, and why.
LEMMA MarkedElements ==
  ASSUME NodeDependencyOrder1, NEW p \in Procs, NEW s, Proper(s, p), NEW W, Justified(s, p, W),
         NEW x \in Holds[p], s.marks[x] # NONE
  PROVE  /\ x \in Edges \cup Faces => x \in W
         /\ x \in Vertices /\ IsConstrained(x) => x \in W
         /\ x \in Vertices /\ x \notin Refined => x \in W
         /\ x \in Vertices /\ x \in Refined /\ ~IsConstrained(x) => Grounded(x, W)
<1>1. ProperAt(s.marks[x], x) /\ JustifiedAt(s.marks[x], x, W)
  BY DEF Proper, Justified
<1>2. x \in Common => s.marks[x] = FULL
  BY <1>1 DEF ProperAt, JustifiedAt, NONE, CLOSURE, FULL, DUMMY
<1>3. x \in Edges \cup Faces => x \in Common
  BY CommonElements
<1>4. x \in Vertices /\ x \notin Refined => x \in Common
  BY CommonElements
<1>5. x \in Vertices /\ IsConstrained(x) => x \notin Refined
  BY GridAssumption
<1>6. x \in Vertices /\ x \in Refined /\ ~IsConstrained(x) => s.marks[x] = DUMMY
  BY <1>1 DEF ProperAt
<1> QED BY <1>1, <1>2, <1>3, <1>4, <1>5, <1>6 DEF JustifiedAt

LEMMA HangingCorners ==
  ASSUME NodeDependencyOrder1, NEW W, Closed(W), NEW X, X \subseteq W \cap (Edges \cup Faces)
  PROVE  HangingAmong(UNION {Corners[x] : x \in X}) \subseteq W
<1> SUFFICES ASSUME NEW x \in X, NEW v \in Corners[x], IsConstrained(v) PROVE v \in W
  BY DEF HangingAmong
<1>1. v \in Vertices /\ x \notin Vertices
  BY GridAssumption
<1>2. RefinementIsAllowed(v)
  BY <1>1 DEF RefinementIsAllowed
<1> QED BY <1>1, <1>2, NeedsOf

LEMMA StdVerticesJustified ==
  ASSUME NodeDependencyOrder1, NEW p \in Procs, NEW s, Proper(s, p), NEW W, Closed(W),
         Justified(s, p, W), NEW list \in SUBSET Holds[p], AllMarked(s, list)
  PROVE  Justified(StdVertices(s, p, list), p, W)
<1> DEFINE F == {Constraining[v] : v \in {v \in list \cap Vertices :
                                            IsConstrained(v) /\ NodeDependencyOrder1}}
<1>1. StdVertices(s, p, list) = Mark(s, p, F, {}, {})
  BY DEF StdVertices
<1>2. Allowed(s, p, F, {}, {})
  BY ConstrainingIsEdge DEF Allowed, IsConstrained
<1>3. ASSUME NEW v \in list \cap Vertices, IsConstrained(v)
      PROVE  Constraining[v] \in W
  <2>1. v \in W
    BY <1>3, MarkedElements DEF AllMarked
  <2>2. RefinementIsAllowed(Constraining[v])
    BY <1>3, ConstrainingIsEdge DEF IsConstrained
  <2> QED BY <2>1, <2>2, <1>3, NeedsOf
<1>4. Reasons(p, F, {}, W)
  BY <1>3 DEF Reasons
<1> HIDE DEF F
<1> QED BY <1>1, <1>2, <1>4, MarkIsJustified

LEMMA StdEdgesJustified ==
  ASSUME NodeDependencyOrder1, NEW p \in Procs, NEW s, Proper(s, p), NEW W, Closed(W),
         Justified(s, p, W), NEW list \in SUBSET Holds[p], AllMarked(s, list)
  PROVE  Justified(StdEdges(s, p, list), p, W)
<1> DEFINE marked == {e \in list \cap Edges : s.marks[e] = FULL}
           hanging == HangingAmong(UNION {Corners[e] : e \in marked})
           beside == UNION {FacesWith(e) \cap Holds[p] : e \in {e \in marked : IsConstraining(e)}}
           above == {Constraining[e] : e \in {e \in marked : IsConstrained(e)}}
           F == hanging \cup above \cup {f \in beside : s.marks[f] # CLOSURE}
<1>1. StdEdges(s, p, list) = Mark(s, p, F, {}, {})
  BY DEF StdEdges
<1>2. above \subseteq Edges /\ beside \subseteq Faces /\ \A e \in above : e \notin Vertices
  BY ConstrainingIsEdge DEF IsConstrained, FacesWith
<1>3. Allowed(s, p, F, {}, {})
  <2>1. \A v \in F \cap Vertices : IsConstrained(v)
    BY <1>2, GridAssumption DEF HangingAmong
  <2> HIDE DEF F
  <2> QED BY <2>1 DEF Allowed
<1>4. marked \subseteq W \cap Edges
  BY DEF Justified, JustifiedAt
<1>5. hanging \subseteq W
  <2> HIDE DEF marked
  <2> QED BY <1>4, HangingCorners
<1>6. ASSUME NEW e \in marked
      PROVE  /\ IsConstrained(e) => Constraining[e] \in W
             /\ IsConstraining(e) => \A f \in FacesWith(e) : RefinementIsAllowed(f) => f \in W
  <2>1. IsConstrained(e) => RefinementIsAllowed(Constraining[e])
    BY ConstrainingIsEdge DEF IsConstrained
  <2> HIDE DEF marked
  <2> QED BY <2>1, <1>4, <1>6, NeedsOf
<1>7. above \subseteq W /\ \A f \in beside : RefinementIsAllowed(f) => f \in W
  <2> HIDE DEF marked
  <2> QED BY <1>6
<1>8. Reasons(p, F, {}, W)
  <2> HIDE DEF above, beside, hanging
  <2> QED BY <1>5, <1>7 DEF Reasons
<1> HIDE DEF F
<1> QED BY <1>1, <1>3, <1>8, MarkIsJustified

LEMMA StdFacesJustified ==
  ASSUME NodeDependencyOrder1, NEW p \in Procs, NEW s, Proper(s, p), NEW W, Closed(W),
         Justified(s, p, W), NEW list \in SUBSET Holds[p], AllMarked(s, list)
  PROVE  Justified(StdFaces(s, p, list), p, W)
<1> DEFINE sides(m) == {e \in UNION {EdgesOf[f] : f \in {f \in list \cap Faces : s.marks[f] = m}} :
                          s.marks[e] < m}
           hanging == HangingAmong(UNION {Corners[f] : f \in list \cap Faces})
           F == hanging \cup sides(FULL)
<1>1. sides(CLOSURE) = {}
  <2>1. \A f \in list \cap Faces : s.marks[f] # CLOSURE
    BY DEF Justified, JustifiedAt, NONE, CLOSURE, FULL, DUMMY
  <2> QED BY <2>1
<1>2. StdFaces(s, p, list) = Mark(s, p, F, {}, {})
  <2>1. StdFaces(s, p, list) = Mark(s, p, F, sides(CLOSURE), {})
    BY DEF StdFaces
  <2> QED BY <2>1, <1>1
<1>3. list \cap Faces \subseteq W
  BY MarkedElements DEF AllMarked
<1>4. hanging \subseteq W
  BY <1>3, HangingCorners
<1>5. sides(FULL) \subseteq Edges
  BY GridAssumption
<1>6. ASSUME NEW e \in sides(FULL), RefinementIsAllowed(e) PROVE e \in W
  <2>1. PICK f \in list \cap Faces : e \in EdgesOf[f]
    BY <1>6
  <2> QED BY <2>1, <1>3, <1>6, NeedsOf
<1>7. Reasons(p, F, {}, W)
  <2> HIDE DEF hanging, sides
  <2> QED BY <1>4, <1>6 DEF Reasons
<1>8. Allowed(s, p, F, {}, {})
  <2>1. \A v \in F \cap Vertices : IsConstrained(v)
    BY <1>5, GridAssumption DEF HangingAmong
  <2> HIDE DEF F
  <2> QED BY <2>1 DEF Allowed
<1> HIDE DEF F
<1> QED BY <1>2, <1>7, <1>8, MarkIsJustified

LEMMA MGVerticesJustified ==
  ASSUME NodeDependencyOrder1, NEW p \in Procs, NEW s, Proper(s, p), NEW W, Closed(W),
         Justified(s, p, W), NEW list \in SUBSET Holds[p], AllMarked(s, list)
  PROVE  Justified(MGVertices(s, p, list), p, W)
<1> DEFINE free == {v \in list \cap Vertices : ~IsConstrained(v)}
           corners == (UNION {Corners[x] : x \in list \cap (Edges \cup Faces)}) \ Refined
           around == UNION {(EdgesAt(v) \cup FacesAt(v)) \cap Holds[p] : v \in free \cap Refined}
           F == corners \cup {x \in around : s.marks[x] = NONE}
           D == {ParentOf[v] : v \in {v \in (free \ Refined) \cap DOMAIN ParentOf :
                                        s.marks[v] # DUMMY}}
<1>1. MGVertices(s, p, list) = Mark(s, p, F, {}, D)
  BY DEF MGVertices
<1>2. Allowed(s, p, F, {}, D)
  <2>1. D \subseteq Vertices \cap Refined
    BY GridAssumption DEF Range
  <2>2. \A x \in F : x \notin Refined \/ x \in Edges \cup Faces
    <3>1. \A v \in free : EdgesAt(v) \cup FacesAt(v) \subseteq Edges \cup Faces
      BY DEF EdgesAt, FacesAt
    <3> HIDE DEF free
    <3>2. around \subseteq Edges \cup Faces
      BY <3>1
    <3> HIDE DEF around
    <3> QED BY <3>2
  <2>3. F \cap Vertices \cap Refined = {}
    <3> HIDE DEF F
    <3> QED BY <2>2, GridAssumption
  <2> HIDE DEF F, D
  <2> QED BY <2>1, <2>3 DEF Allowed
<1>3. ASSUME NEW x \in list \cap (Edges \cup Faces), NEW v \in Corners[x] \ Refined
      PROVE  v \in W
  <2>1. x \in W /\ x \notin Vertices
    BY MarkedElements, GridAssumption DEF AllMarked
  <2>2. RefinementIsAllowed(v)
    BY DEF RefinementIsAllowed
  <2> QED BY <2>1, <2>2, NeedsOf
<1>4. ASSUME NEW v \in free \cap Refined, NEW x \in EdgesAt(v) \cup FacesAt(v),
             RefinementIsAllowed(x)
      PROVE  x \in W
  <2>1. Grounded(v, W)
    BY MarkedElements DEF AllMarked
  <2>2. PICK w \in W \cap DOMAIN ParentOf :
          ParentOf[w] = v /\ w \notin Refined /\ ~IsConstrained(w)
    BY <2>1 DEF Grounded
  <2> HIDE DEF free
  <2> QED BY <2>2, <1>4, NeedsOf
<1>5. ASSUME NEW v \in (free \ Refined) \cap DOMAIN ParentOf
      PROVE  Grounded(ParentOf[v], W)
  <2>1. v \in W /\ ~IsConstrained(v)
    BY MarkedElements DEF AllMarked
  <2> QED BY <2>1 DEF Grounded
<1>6. corners \subseteq W /\ \A x \in around : RefinementIsAllowed(x) => x \in W
  <2>1. corners \subseteq W
    BY <1>3
  <2> HIDE DEF free
  <2> QED BY <2>1, <1>4
<1>7. \A x \in D : Grounded(x, W)
  <2> HIDE DEF free
  <2> QED BY <1>5
<1>8. Reasons(p, F, D, W)
  <2> HIDE DEF corners, around, D
  <2> QED BY <1>6, <1>7 DEF Reasons
<1> HIDE DEF F, D
<1> QED BY <1>1, <1>2, <1>8, MarkIsJustified

\* The local adjusters have a reason for every mark.
LEMMA AdjustersJustified ==
  ASSUME NodeDependencyOrder1, NEW p \in Procs, NEW s, Proper(s, p), NEW W, Closed(W),
         Justified(s, p, W), NEW list \in SUBSET Holds[p], AllMarked(s, list),
         NEW s1, s1 = StdVertices(s, p, list), NEW s2, s2 = StdEdges(s1, p, list),
         NEW s3, s3 = StdFaces(s2, p, list), NEW t, t = MGVertices(s3, p, list)
  PROVE  Justified(t, p, W)
<1>1. Proper(s1, p) /\ Grows(s, s1, p)
  BY StdVerticesGrow
<1>2. Proper(s2, p) /\ Grows(s1, s2, p)
  BY <1>1, StdEdgesGrow
<1>3. Proper(s3, p) /\ Grows(s2, s3, p)
  BY <1>2, StdFacesGrow
<1>4. AllMarked(s1, list) /\ AllMarked(s2, list) /\ AllMarked(s3, list)
  BY <1>1, <1>2, <1>3 DEF AllMarked, Grows, GrowsAt
<1>5. Justified(s1, p, W)
  BY StdVerticesJustified
<1>6. Justified(s2, p, W)
  BY <1>1, <1>4, <1>5, StdEdgesJustified
<1>7. Justified(s3, p, W)
  BY <1>2, <1>4, <1>6, StdFacesJustified
<1> QED BY <1>3, <1>4, <1>7, MGVerticesJustified

\* What may be heard of an element, with a reason in W.
Said(said, p, W) ==
  \A x \in DOMAIN said \cap Holds[p] : said[x] \in {NONE, FULL} /\ (said[x] = FULL => x \in W)

LEMMA ExtractJustified ==
  ASSUME NEW p \in Procs, Proper(State(p), p), NEW W, Justified(State(p), p, W),
         NEW said, Receivable(said, p), Said(said, p, W)
  PROVE  Justified(Extract(p, said), p, W)
<1> DEFINE larger(m) == {x \in DOMAIN said \cap Holds[p] : said[x] = m /\ m > marks[p][x]}
           F == larger(FULL)
<1>1. larger(CLOSURE) = {}
  BY DEF Said, NONE, CLOSURE, FULL
<1>2. Extract(p, said) = Mark(State(p), p, F, {}, {})
  <2>1. Extract(p, said) = Mark(State(p), p, F, larger(CLOSURE), {})
    BY DEF Extract, State
  <2> QED BY <1>1, <2>1
<1>3. F \subseteq W
  BY DEF Said
<1>4. \A v \in F \cap Vertices \cap Refined : IsConstrained(v)
  BY DEF Receivable, Sendable, NONE, FULL
<1> HIDE DEF F
<1>5. Reasons(p, F, {}, W) /\ Allowed(State(p), p, F, {}, {})
  BY <1>3, <1>4 DEF Reasons, Allowed
<1> QED BY <1>2, <1>5, MarkIsJustified

\* What the user asked for, and the invariant.
Wanted == ClosureOf(AskedFor(FULL))

AskedAt(p) ==
  /\ pc[p] = "begin" => marks[p] = asked[p]
  /\ pc[p] # "begin" => \A x \in Holds[p] : asked[p][x] = FULL => marks[p][x] = FULL

ReasonAt(p) ==
  pc[p] # "begin" => Justified(State(p), p, Wanted) /\ AllMarked(State(p), current[p])

AskedInv == asked \in UserMarks /\ \A p \in Procs : AskedAt(p)
ReasonInv == AskedFor(CLOSURE) = {} => \A p \in Procs : ReasonAt(p)
ClosureInv == MarksInv /\ AskedInv /\ ReasonInv

LEMMA AskedMarks ==
  ASSUME asked \in UserMarks, NEW p \in Procs, NEW x \in Holds[p]
  PROVE  /\ asked[p][x] \in {NONE, CLOSURE, FULL, COARSEN}
         /\ x \in Elems /\ x \in AskedFor(asked[p][x])
         /\ asked[p][x] # NONE => x \in Common
<1>1. /\ asked[p] \in [Holds[p] -> {NONE, CLOSURE, FULL, COARSEN}]
      /\ x \in Refined /\ asked[p][x] # NONE => IsConstraining(x)
  BY UserMarksAssumption
<1>2. IsConstraining(x) => x \notin Vertices
  BY GridAssumption DEF IsConstraining
<1>3. x \in Elems
  BY ProcHolds
<1> QED BY <1>1, <1>2, <1>3, HoldersHold DEF AskedFor, Common

LEMMA WantedIsClosed == AskedFor(FULL) \subseteq Wanted /\ Wanted \subseteq Elems /\ Closed(Wanted)
<1>1. AskedFor(FULL) \in SUBSET Elems
  BY DEF AskedFor
<1> QED BY <1>1, ClosureCloses DEF Wanted

LEMMA AskedForStays ==
  ASSUME asked' = asked
  PROVE  Wanted' = Wanted /\ AskedFor(CLOSURE)' = AskedFor(CLOSURE)
  BY DEF Wanted, AskedFor

LEMMA InitReasons == ASSUME Init PROVE AskedInv /\ ReasonInv
  BY DEF Init, AskedInv, AskedAt, ReasonInv, ReasonAt

\* What the user asked for is not taken back.
LEMMA AskedStep == ASSUME MarksInv, AskedInv, [Next]_vars PROVE AskedInv'
<1>1. asked' = asked
  BY DEF Next, Begin, Adjust, Ask, ToMaster, ToSlave, Turn, Finished, vars
<1>2. MarksInv' /\ \A p \in Procs : Growing(p)
  BY MarksStep
<1>3. ASSUME NEW p \in Procs, pc[p] # "begin" PROVE AskedAt(p)'
  <2>1. pc'[p] # "begin"
    <3>1. CASE \E q \in Procs : Begin(q) \/ Adjust(q)
      BY <3>1, <1>3 DEF Begin, Adjust, MarksInv, MarksTypeOK
    <3>2. CASE Ask \/ ToMaster \/ ToSlave \/ Turn \/ UNCHANGED vars
      BY <3>2, <1>3 DEF Ask, ToMaster, ToSlave, Turn, vars
    <3> QED BY <3>1, <3>2 DEF Next, Finished
  <2>2. ASSUME NEW x \in Holds[p], asked[p][x] = FULL
        PROVE  marks'[p][x] = FULL
    <3>1. x \in Common
      BY <2>2, AskedMarks DEF AskedInv, FULL, NONE
    <3>2. marks[p][x] = FULL
      BY <1>3, <2>2 DEF AskedInv, AskedAt
    <3>3. marks'[p][x] >= FULL
      BY <1>2, <1>3, <3>1, <3>2 DEF Growing
    <3>4. ProperAt(marks'[p][x], x)
      BY <1>2, <2>1 DEF MarksInv, MarksTypeOK, TypeAt, Proper, State
    <3> QED BY <3>1, <3>3, <3>4 DEF ProperAt, NONE, CLOSURE, FULL, DUMMY
  <2> QED BY <1>1, <2>1, <2>2 DEF AskedAt
<1>4. ASSUME NEW p \in Procs, pc[p] = "begin" PROVE AskedAt(p)'
  <2>1. marks[p] = asked[p]
    BY <1>4 DEF AskedInv, AskedAt
  <2>2. CASE \E q \in Procs : Begin(q)
    <3>1. PICK q \in Procs : Begin(q)
      BY <2>2
    <3>2. /\ pc'[q] = "adjust"
          /\ marks'[q] = [x \in Holds[q] |->
                            IF marks[q][x] = COARSEN THEN NONE ELSE marks[q][x]]
          /\ q # p => marks'[p] = marks[p] /\ pc'[p] = pc[p]
      BY <3>1 DEF Begin, MarksInv, MarksTypeOK
    <3>3. CASE q = p
      <4>1. \A x \in Holds[p] : asked[p][x] = FULL => marks'[p][x] = FULL
        BY <3>2, <3>3, <2>1 DEF FULL, COARSEN
      <4> QED BY <4>1, <3>2, <3>3, <1>1 DEF AskedAt
    <3>4. CASE q # p
      BY <3>2, <3>4, <2>1, <1>1, <1>4 DEF AskedAt
    <3> QED BY <3>3, <3>4
  <2>3. CASE \E q \in Procs : Adjust(q)
    <3>1. PICK q \in Procs : Adjust(q)
      BY <2>3
    <3>2. q # p /\ marks'[p] = marks[p] /\ pc'[p] = pc[p]
      BY <3>1, <1>4 DEF Adjust, MarksInv, MarksTypeOK
    <3> QED BY <3>2, <2>1, <1>1, <1>4 DEF AskedAt
  <2>4. CASE UNCHANGED vars
    BY <2>4, <2>1, <1>4 DEF vars, AskedAt
  <2>5. ~(Ask \/ ToMaster \/ ToSlave \/ Turn)
    BY <1>4 DEF Ask, ToMaster, ToSlave, Turn
  <2> QED BY <2>2, <2>3, <2>4, <2>5 DEF Next, Finished
<1> QED BY <1>1, <1>3, <1>4 DEF AskedInv

LEMMA ReasonStays ==
  ASSUME NEW p \in Procs, ReasonAt(p), pc'[p] # "begin" => pc[p] # "begin",
         marks'[p] = marks[p], newly'[p] = newly[p], current'[p] = current[p], asked' = asked
  PROVE  ReasonAt(p)'
<1>1. Wanted' = Wanted
  BY AskedForStays
<1>2. State(p)' = State(p)
  BY DEF State
<1> QED BY <1>1, <1>2 DEF ReasonAt, Justified, JustifiedAt, Grounded, AllMarked

\* A process that marks what it has reasons for.
LEMMA ReasonedStep ==
  ASSUME NEW p \in Procs, ReasonAt(p), pc[p] # "begin", asked' = asked,
         NEW t, Proper(State(p), p), current[p] \subseteq Holds[p],
         Grows(State(p), t, p), Justified(t, p, Wanted),
         marks'[p] = t.marks, newly'[p] = t.newly, current'[p] = current[p]
  PROVE  ReasonAt(p)'
<1>1. Wanted' = Wanted
  BY AskedForStays
<1>2. State(p)'.marks = t.marks /\ State(p)'.newly = t.newly
  BY DEF State
<1>3. Justified(State(p), p, Wanted)'
  BY <1>1, <1>2 DEF Justified, JustifiedAt, Grounded
<1>4. AllMarked(State(p), current[p])
  BY DEF ReasonAt
<1>5. AllMarked(State(p), current[p])'
  BY <1>2, <1>4 DEF AllMarked, Grows, GrowsAt
<1> QED BY <1>3, <1>5 DEF ReasonAt

LEMMA BeginReasons ==
  ASSUME MarksInv, AskedInv, AskedFor(CLOSURE) = {}, NEW p \in Procs, Begin(p)
  PROVE  ReasonAt(p)'
<1>1. /\ marks'[p] = [x \in Holds[p] |-> IF marks[p][x] = COARSEN THEN NONE ELSE marks[p][x]]
      /\ current'[p] = {x \in Holds[p] : marks'[p][x] # NONE}
      /\ newly'[p] = {} /\ marks[p] = asked[p] /\ asked' = asked
  BY DEF Begin, MarksInv, MarksTypeOK, AskedInv, AskedAt
<1>2. Wanted' = Wanted
  BY <1>1, AskedForStays
<1>3. ASSUME NEW x \in Holds[p]
      PROVE  JustifiedAt(marks'[p][x], x, Wanted)
  <2>1. asked[p][x] \in {NONE, CLOSURE, FULL, COARSEN} /\ x \in AskedFor(asked[p][x])
    BY AskedMarks DEF AskedInv
  <2>2. asked[p][x] \in {NONE, FULL, COARSEN}
    BY <2>1
  <2>3. asked[p][x] = FULL => x \in Wanted
    BY <2>1, WantedIsClosed
  <2>4. marks'[p][x] = IF asked[p][x] = COARSEN THEN NONE ELSE asked[p][x]
    BY <1>1
  <2> QED BY <2>2, <2>3, <2>4 DEF JustifiedAt, NONE, FULL, COARSEN, DUMMY
<1>4. State(p)'.marks = marks'[p] /\ State(p)'.newly = {}
  BY <1>1 DEF State
<1>5. Justified(State(p), p, Wanted)'
  BY <1>2, <1>3, <1>4 DEF Justified, JustifiedAt, Grounded
<1>6. AllMarked(State(p), current[p])'
  BY <1>1, <1>4 DEF AllMarked
<1> QED BY <1>5, <1>6 DEF ReasonAt

LEMMA AdjustReasons ==
  ASSUME MarksInv, AskedInv, NodeDependencyOrder1, NEW p \in Procs, ReasonAt(p), Adjust(p)
  PROVE  ReasonAt(p)'
<1>1. PICK s1 \in {StdVertices(State(p), p, current[p])} :
      \E s2 \in {StdEdges(s1, p, current[p])} :
      \E s3 \in {StdFaces(s2, p, current[p])} :
      \E s4 \in {MGVertices(s3, p, current[p])} :
        /\ marks' = [marks EXCEPT ![p] = s4.marks]
        /\ newly' = [newly EXCEPT ![p] = s4.newly]
  BY DEF Adjust, State
<1>2. PICK s2 \in {StdEdges(s1, p, current[p])} :
      \E s3 \in {StdFaces(s2, p, current[p])} :
      \E s4 \in {MGVertices(s3, p, current[p])} :
        /\ marks' = [marks EXCEPT ![p] = s4.marks]
        /\ newly' = [newly EXCEPT ![p] = s4.newly]
  BY <1>1
<1>3. PICK s3 \in {StdFaces(s2, p, current[p])} :
      \E s4 \in {MGVertices(s3, p, current[p])} :
        /\ marks' = [marks EXCEPT ![p] = s4.marks]
        /\ newly' = [newly EXCEPT ![p] = s4.newly]
  BY <1>2
<1>4. PICK s4 \in {MGVertices(s3, p, current[p])} :
        /\ marks' = [marks EXCEPT ![p] = s4.marks]
        /\ newly' = [newly EXCEPT ![p] = s4.newly]
  BY <1>3
<1>5. /\ Proper(State(p), p) /\ current[p] \in SUBSET Holds[p]
      /\ pc[p] # "begin" /\ current' = current /\ asked' = asked
  BY DEF Adjust, MarksInv, MarksTypeOK, TypeAt
<1>6. /\ s1 = StdVertices(State(p), p, current[p]) /\ s2 = StdEdges(s1, p, current[p])
      /\ s3 = StdFaces(s2, p, current[p]) /\ s4 = MGVertices(s3, p, current[p])
  BY <1>1, <1>2, <1>3, <1>4
<1>7. Grows(State(p), s4, p)
  BY <1>5, <1>6, AdjustersServe
<1>8. Justified(State(p), p, Wanted) /\ AllMarked(State(p), current[p]) /\ Closed(Wanted)
  BY <1>5, WantedIsClosed DEF ReasonAt
<1>9. Justified(s4, p, Wanted)
  BY <1>5, <1>6, <1>8, AdjustersJustified
<1>10. marks'[p] = s4.marks /\ newly'[p] = s4.newly
  BY <1>4 DEF MarksInv, MarksTypeOK
<1> QED BY <1>5, <1>7, <1>9, <1>10, ReasonedStep

\* Marks that are sent have reasons where they come from.
LEMMA ConsideredReason ==
  ASSUME NEW q \in Procs, NEW x \in Holds[q], ReasonAt(q), pc[q] # "begin"
  PROVE  /\ Considered(marks[q][x]) \in {NONE, FULL}
         /\ Considered(marks[q][x]) = FULL => x \in Wanted
<1>1. JustifiedAt(marks[q][x], x, Wanted)
  BY DEF ReasonAt, Justified, State
<1> QED BY <1>1 DEF JustifiedAt, Considered, NONE, CLOSURE, FULL, DUMMY

LEMMA MasterReason ==
  ASSUME \A p \in Procs : ReasonAt(p) /\ pc[p] # "begin", NEW x \in Elems
  PROVE  MasterSays(x) \in {NONE, FULL} /\ (MasterSays(x) = FULL => x \in Wanted)
<1>1. MasterOf(x) \in Procs /\ x \in Holds[MasterOf(x)]
  BY Masters, HoldersHold
<1> QED BY <1>1, ConsideredReason DEF MasterSays

LEMMA SlavesReason ==
  ASSUME \A p \in Procs : ReasonAt(p) /\ pc[p] # "begin", NEW x \in Elems, IsInterfaceElement(x)
  PROVE  SlavesSay(x) \in {NONE, FULL} /\ (SlavesSay(x) = FULL => x \in Wanted)
<1> DEFINE T == {Considered(marks[q][x]) : q \in SlavesOf(x)}
<1>1. ASSUME NEW q \in SlavesOf(x)
      PROVE  /\ Considered(marks[q][x]) \in {NONE, FULL}
             /\ Considered(marks[q][x]) = FULL => x \in Wanted
  <2>1. q \in Procs /\ x \in Holds[q]
    BY <1>1, HoldersHold DEF SlavesOf
  <2> QED BY <2>1, ConsideredReason
<1>2. T \in SUBSET {NONE, CLOSURE, FULL} /\ T # {}
  BY <1>1, Masters
<1>3. Max(T) \in T
  <2> HIDE DEF T
  <2> QED BY <1>2, MaxOfMarks
<1>4. SlavesSay(x) = Max(T)
  BY DEF SlavesSay
<1> QED BY <1>1, <1>3, <1>4

\* An exchange in which all processes take over what they hear of, with reasons.
LEMMA ExchangeReasons ==
  ASSUME MarksTypeOK, \A p \in Procs : ReasonAt(p), \A p \in Procs : pc[p] # "begin",
         NEW heard, \A p \in Procs : Receivable(heard[p], p) /\ Said(heard[p], p, Wanted),
         marks' = [p \in Procs |-> Extract(p, heard[p]).marks],
         newly' = [p \in Procs |-> Extract(p, heard[p]).newly],
         current' = current, asked' = asked
  PROVE  \A p \in Procs : ReasonAt(p)'
<1> SUFFICES ASSUME NEW p \in Procs PROVE ReasonAt(p)'
  OBVIOUS
<1> DEFINE t == Extract(p, heard[p])
<1>1. Proper(State(p), p) /\ current[p] \subseteq Holds[p]
  BY DEF MarksTypeOK, TypeAt
<1>2. Grows(State(p), t, p)
  BY <1>1, ExtractExtracts
<1>3. Justified(State(p), p, Wanted)
  BY DEF ReasonAt
<1>4. Justified(t, p, Wanted)
  BY <1>1, <1>3, ExtractJustified
<1>5. marks'[p] = t.marks /\ newly'[p] = t.newly /\ current'[p] = current[p]
  OBVIOUS
<1> HIDE DEF t
<1> QED BY <1>1, <1>2, <1>4, <1>5, ReasonedStep

LEMMA ToMasterReasons ==
  ASSUME MarksInv, \A p \in Procs : ReasonAt(p), ToMaster
  PROVE  \A p \in Procs : ReasonAt(p)'
<1> DEFINE said == [x \in {x \in Elems : IsInterfaceElement(x)} |-> SlavesSay(x)]
           heard == [p \in Procs |-> Restrict(said, {x \in DOMAIN said : MasterOf(x) = p})]
           s == [p \in Procs |-> Extract(p, heard[p])]
<1>1. /\ \A p \in Procs : pc[p] # "begin"
      /\ marks' = [p \in Procs |-> s[p].marks]
      /\ newly' = [p \in Procs |-> s[p].newly]
      /\ current' = current /\ asked' = asked
  BY DEF ToMaster
<1>2. /\ marks' = [p \in Procs |-> Extract(p, heard[p]).marks]
      /\ newly' = [p \in Procs |-> Extract(p, heard[p]).newly]
  <2> HIDE DEF heard
  <2> QED BY <1>1
<1>3. \A p \in Procs :
        /\ DOMAIN heard[p] = {x \in Elems : IsInterfaceElement(x) /\ MasterOf(x) = p}
        /\ \A x \in DOMAIN heard[p] : heard[p][x] = SlavesSay(x)
  BY DEF Restrict
<1> HIDE DEF heard, s
<1>4. MarksTypeOK
  BY DEF MarksInv
<1>5. \A p \in Procs : Receivable(heard[p], p) /\ Said(heard[p], p, Wanted)
  BY <1>1, <1>3, <1>4, SlavesSayMark, SlavesReason DEF Receivable, Said
<1> QED BY <1>1, <1>2, <1>4, <1>5, ExchangeReasons

LEMMA ToSlaveReasons ==
  ASSUME MarksInv, \A p \in Procs : ReasonAt(p), ToSlave
  PROVE  \A p \in Procs : ReasonAt(p)'
<1> DEFINE said == [x \in {x \in Elems : IsInterfaceElement(x)} |-> MasterSays(x)]
           heard == [p \in Procs |-> said]
           s == [p \in Procs |-> Extract(p, said)]
<1>1. /\ \A p \in Procs : pc[p] # "begin"
      /\ marks' = [p \in Procs |-> s[p].marks]
      /\ newly' = [p \in Procs |-> s[p].newly]
      /\ current' = current /\ asked' = asked
  BY DEF ToSlave
<1>2. /\ marks' = [p \in Procs |-> Extract(p, heard[p]).marks]
      /\ newly' = [p \in Procs |-> Extract(p, heard[p]).newly]
  <2> HIDE DEF said
  <2> QED BY <1>1
<1>3. \A p \in Procs :
        /\ DOMAIN heard[p] = {x \in Elems : IsInterfaceElement(x)}
        /\ \A x \in DOMAIN heard[p] : heard[p][x] = MasterSays(x)
  OBVIOUS
<1> HIDE DEF heard, s
<1>4. MarksTypeOK
  BY DEF MarksInv
<1>5. ASSUME NEW x \in Elems
      PROVE  /\ Sendable(MasterSays(x), x)
             /\ MasterSays(x) \in {NONE, FULL} /\ (MasterSays(x) = FULL => x \in Wanted)
  <2>1. MasterOf(x) \in Procs
    BY Masters
  <2> QED BY <2>1, <1>1, <1>4, MasterSaysMark, MasterReason
<1>6. \A p \in Procs : Receivable(heard[p], p) /\ Said(heard[p], p, Wanted)
  BY <1>3, <1>5 DEF Receivable, Said
<1> QED BY <1>1, <1>2, <1>4, <1>6, ExchangeReasons

LEMMA TurnReasons ==
  ASSUME MarksInv, NEW p \in Procs, ReasonAt(p), Turn
  PROVE  ReasonAt(p)'
<1>1. marks' = marks /\ asked' = asked /\ pc[p] # "begin"
  BY DEF Turn
<1>2. Wanted' = Wanted
  BY <1>1, AskedForStays
<1>3. CASE \E q \in Procs : newly[q] # {}
  <2>1. newly'[p] = {} /\ current'[p] = newly[p]
    BY <1>3 DEF Turn
  <2>2. State(p)'.marks = marks[p] /\ State(p)'.newly = {} /\ State(p).marks = marks[p]
        /\ State(p).newly = newly[p]
    BY <1>1, <2>1 DEF State
  <2>3. Justified(State(p), p, Wanted)
    BY <1>1 DEF ReasonAt
  <2>4. Justified(State(p), p, Wanted)' /\ AllMarked(State(p), current[p])'
    BY <1>2, <2>1, <2>2, <2>3 DEF Justified, JustifiedAt, Grounded, AllMarked
  <2> QED BY <2>4 DEF ReasonAt
<1>4. CASE ~ \E q \in Procs : newly[q] # {}
  <2>1. newly' = newly /\ current' = current
    BY <1>4 DEF Turn
  <2> QED BY <2>1, <1>1, ReasonStays
<1> QED BY <1>3, <1>4

\* Distribution adds nothing: every mark goes back to what the user asked for.
LEMMA ReasonStep ==
  ASSUME NodeDependencyOrder1, MarksInv, AskedInv, ReasonInv, [Next]_vars
  PROVE  ReasonInv'
<1>1. asked' = asked
  BY DEF Next, Begin, Adjust, Ask, ToMaster, ToSlave, Turn, Finished, vars
<1>2. SUFFICES ASSUME AskedFor(CLOSURE) = {} PROVE \A p \in Procs : ReasonAt(p)'
  BY <1>1, AskedForStays DEF ReasonInv
<1>3. \A p \in Procs : ReasonAt(p)
  BY <1>2 DEF ReasonInv
<1>4. CASE \E p \in Procs : Begin(p) \/ Adjust(p)
  <2>1. PICK q \in Procs : Begin(q) \/ Adjust(q)
    BY <1>4
  <2>2. ReasonAt(q)'
    BY <2>1, <1>2, <1>3, BeginReasons, AdjustReasons
  <2>3. ASSUME NEW p \in Procs, p # q
        PROVE  ReasonAt(p)'
    <3>1. marks'[p] = marks[p] /\ newly'[p] = newly[p] /\ current'[p] = current[p] /\ pc'[p] = pc[p]
      BY <2>1, <2>3 DEF Begin, Adjust, MarksInv, MarksTypeOK
    <3> QED BY <3>1, <1>1, <1>3, ReasonStays
  <2> QED BY <2>2, <2>3
<1>5. CASE Ask
  <2>1. marks' = marks /\ newly' = newly /\ current' = current /\ \A p \in Procs : pc[p] # "begin"
    BY <1>5 DEF Ask
  <2> QED BY <2>1, <1>1, <1>3, ReasonStays
<1>6. CASE ToMaster
  BY <1>3, <1>6, ToMasterReasons
<1>7. CASE ToSlave
  BY <1>3, <1>7, ToSlaveReasons
<1>8. CASE Turn
  BY <1>3, <1>8, TurnReasons
<1>9. CASE UNCHANGED vars
  <2>1. marks' = marks /\ newly' = newly /\ current' = current /\ pc' = pc
    BY <1>9 DEF vars
  <2> QED BY <2>1, <1>1, <1>3, ReasonStays
<1> QED BY <1>4, <1>5, <1>6, <1>7, <1>8, <1>9 DEF Next, Finished

-----------------------------------------------------------------------------
(* When all processes are done, everything that is needed is marked.       *)

FullyMarked == {x \in Common : FULL \in MarksOf(x)}

\* What is true of all elements in the end, where the user gives no RM_CLOSURE.
Finally ==
  /\ \A p \in Procs : \A x \in Holds[p] : Served(marks[p], p, x)
  /\ \A p \in Procs : \A x \in Common \cap Holds[p] :
       marks[p][x] \in {NONE, FULL} /\ (marks[p][x] = FULL <=> x \in FullyMarked)

LEMMA FinallySo ==
  ASSUME ClosureInv, Done, AskedFor(CLOSURE) = {}
  PROVE  Finally /\ FullyMarked \subseteq Wanted /\ AskedFor(FULL) \subseteq FullyMarked
<1>1. /\ \A p \in Procs : \A x \in Holds[p] :
           Served(marks[p], p, x) /\ ProperAt(marks[p][x], x)
      /\ \A x \in Common : Settled(x)
  BY WhenDone DEF ClosureInv
<1>2. \A p \in Procs : pc[p] # "begin"
  BY DEF Done
<1>3. ASSUME NEW p \in Procs, NEW x \in Holds[p]
      PROVE  JustifiedAt(marks[p][x], x, Wanted)
  BY <1>2 DEF ClosureInv, ReasonInv, ReasonAt, Justified, State
<1>4. ASSUME NEW p \in Procs, NEW x \in Common \cap Holds[p]
      PROVE  /\ marks[p][x] \in {NONE, FULL}
             /\ marks[p][x] = FULL <=> x \in FullyMarked
  <2>1. marks[p][x] \in {NONE, FULL}
    BY <1>1, <1>3 DEF ProperAt, JustifiedAt
  <2>2. \A q \in Holders(x) : marks[q][x] = marks[p][x]
    BY <1>1, HoldersHold DEF Settled
  <2>3. p \in Holders(x)
    BY HoldersHold
  <2> QED BY <2>1, <2>2, <2>3 DEF FullyMarked, MarksOf
<1>5. Finally
  BY <1>1, <1>4 DEF Finally
<1>6. FullyMarked \subseteq Wanted
  BY <1>3, HoldersHold DEF FullyMarked, MarksOf, JustifiedAt
<1>7. ASSUME NEW x \in AskedFor(FULL)
      PROVE  x \in FullyMarked
  <2>1. PICK p \in Holders(x) : asked[p][x] = FULL
    BY DEF AskedFor
  <2>2. p \in Procs /\ x \in Holds[p]
    BY HoldersHold
  <2>3. marks[p][x] = FULL
    BY <1>2, <2>1, <2>2 DEF ClosureInv, AskedInv, AskedAt
  <2>4. x \in Common
    BY <2>1, <2>2, AskedMarks DEF ClosureInv, AskedInv, NONE, FULL
  <2> QED BY <1>4, <2>2, <2>3, <2>4
<1> QED BY <1>5, <1>6, <1>7

\* Whoever holds both marks what is needed.
LEMMA NeedsAreMet ==
  ASSUME Finally, NodeDependencyOrder1, NEW x \in FullyMarked, NEW y \in Needs(x)
  PROVE  y \in FullyMarked
<1>1. RefinementIsAllowed(y)
  BY DEF Needs
<1>2. x \in Elems /\ x \in Common
  BY DEF FullyMarked, Common
<1>3. ASSUME NEW p \in Procs, NEW z \in Holds[p]
      PROVE  /\ Served(marks[p], p, z)
             /\ z \in Common => /\ marks[p][z] # NONE => z \in FullyMarked
                                /\ z \in FullyMarked => marks[p][z] = FULL
  BY <1>3 DEF Finally
<1>4. \A z \in Elems : \E p \in Procs : z \in Holds[p]
  BY DistributionAssumption DEF Holders
<1>5. PICK p \in Procs : x \in Holds[p]
  BY <1>2, <1>4
<1>6. marks[p][x] = FULL
  BY <1>2, <1>3, <1>5
<1>7. CASE x \notin Vertices /\ y \in Corners[x] /\ (y \notin Refined \/ IsConstrained(y))
  <2>1. x \in (Edges \cup Faces) \cap Holds[p]
    BY <1>2, <1>5, <1>7 DEF Elems
  <2>2. y \in Vertices \cap Holds[p]
    BY <1>7, <2>1, ProcHolds
  <2>3. y \notin Refined
    BY <1>7, <2>2, GridAssumption
  <2>4. y \in Common
    BY <2>2, <2>3, CommonElements
  <2>5. CornersServed(marks[p], x)
    BY <1>3, <2>1 DEF Served
  <2>6. marks[p][y] = FULL
    BY <2>3, <2>5, <1>6, <1>7 DEF CornersServed, NONE, FULL
  <2> QED BY <1>3, <2>2, <2>4, <2>6 DEF NONE, FULL
<1>8. CASE IsConstrained(x) /\ y = Constraining[x]
  <2>1. y \in Edges /\ y \in Elems /\ y \in Common /\ x \in DOMAIN Constraining
    BY <1>8, ConstrainingIsEdge, CommonElements DEF IsConstrained, Elems
  <2>2. PICK q \in Procs : y \in Holds[q]
    BY <1>4, <2>1
  <2>3. x \in Holds[q] /\ x \in Vertices \cup Edges
    BY <1>8, <2>1, <2>2, DistributionAssumption, GridAssumption
  <2>4. marks[q][x] = FULL /\ ConstrainedServed(marks[q], q, x)
    BY <1>2, <1>3, <2>3 DEF Served
  <2>5. marks[q][y] = FULL
    BY <1>8, <2>2, <2>4 DEF ConstrainedServed
  <2> QED BY <1>3, <2>1, <2>2, <2>5 DEF NONE, FULL
<1>9. CASE IsConstraining(x) /\ y \in FacesWith(x)
  <2>1. x \in Edges
    BY <1>9, GridAssumption DEF IsConstraining
  <2>2. y \in Faces /\ y \in Elems /\ x \in EdgesOf[y] /\ ~IsConstraining(y) /\ y \notin Vertices
    BY <1>9, GridAssumption DEF FacesWith, Elems, IsConstraining
  <2>3. y \notin Refined /\ y \in Common
    BY <1>1, <2>2, CommonElements DEF RefinementIsAllowed
  <2>4. PICK q \in Procs : y \in Holds[q]
    BY <1>4, <2>2
  <2>5. x \in Holds[q]
    BY <2>2, <2>4, ProcHolds
  <2>6. marks[q][x] = FULL /\ ConstrainingServed(marks[q], q, x)
    BY <1>2, <1>3, <2>1, <2>5 DEF Served
  <2>7. marks[q][y] # NONE
    BY <1>9, <2>3, <2>4, <2>6 DEF ConstrainingServed
  <2> QED BY <1>3, <2>3, <2>4, <2>7
<1>10. CASE /\ x \in DOMAIN ParentOf /\ x \notin Refined /\ ~IsConstrained(x)
            /\ y \in EdgesAt(ParentOf[x]) \cup FacesAt(ParentOf[x])
  <2> DEFINE u == ParentOf[x]
  <2>1. x \in Vertices /\ u \in Vertices \cap Refined
    BY <1>10, GridAssumption DEF Range
  <2>2. ~IsConstrained(u)
    BY <2>1, GridAssumption
  <2>3. y \in Edges \cup Faces /\ u \in Corners[y]
    BY <1>10 DEF EdgesAt, FacesAt
  <2>4. y \in Elems /\ y \in Common
    BY <2>3, CommonElements DEF Elems
  <2>5. PICK q \in Procs : y \in Holds[q]
    BY <1>4, <2>4
  <2>6. u \in Holds[q]
    BY <2>3, <2>5, ProcHolds
  <2>7. x \in Holds[q]
    BY <1>10, <2>6, DistributionAssumption
  <2>8. marks[q][x] = FULL /\ ParentServed(marks[q], q, x) /\ AroundServed(marks[q], q, u)
    BY <1>2, <1>3, <2>1, <2>6, <2>7 DEF Served
  <2>9. marks[q][u] = DUMMY
    BY <1>10, <2>2, <2>6, <2>8 DEF ParentServed
  <2> HIDE DEF u
  <2>10. marks[q][y] # NONE
    BY <1>1, <1>10, <2>1, <2>2, <2>5, <2>8, <2>9 DEF AroundServed, u
  <2> QED BY <1>3, <2>4, <2>5, <2>10
<1>11. CASE x \in Faces /\ y \in EdgesOf[x]
  <2>1. y \in Edges /\ y \in Holds[p] /\ y \in Common
    BY <1>5, <1>11, ProcHolds, CommonElements
  <2>2. FaceServed(marks[p], x)
    BY <1>3, <1>5, <1>11 DEF Served
  <2>3. marks[p][y] >= FULL
    BY <1>1, <1>6, <1>11, <2>2 DEF FaceServed
  <2> QED BY <1>3, <2>1, <2>3 DEF NONE, FULL
<1> QED BY <1>7, <1>8, <1>9, <1>10, <1>11 DEF Needs

LEMMA JustTheClosure ==
  ASSUME ClosureInv, NodeDependencyOrder1 PROVE JustTheClosureIsMarked
<1> SUFFICES ASSUME Done, AskedFor(CLOSURE) = {}
             PROVE  FullyMarked = Wanted \ (Vertices \cap Refined)
  BY DEF JustTheClosureIsMarked, FullyMarked, Wanted, Common
<1>1. Finally /\ FullyMarked \subseteq Wanted /\ AskedFor(FULL) \subseteq FullyMarked
  BY FinallySo
<1>2. Closed(FullyMarked)
  BY <1>1, NeedsAreMet DEF Closed
<1>3. Wanted \subseteq FullyMarked
  BY <1>1, <1>2, ClosureIsLeast DEF Wanted
<1> QED BY <1>1, <1>3 DEF FullyMarked, Common

-----------------------------------------------------------------------------
(* The theorems.                                                           *)

\* Whatever is marked and however the grid is distributed, marks have their types,
\* what an element needs is there unless it waits, and copies agree unless one of
\* them was just marked.
THEOREM MarksInvariant == Spec => []MarksInv
<1>1. Init => MarksInv
  BY InitMarks
<1>2. MarksInv /\ [Next]_vars => MarksInv'
  BY MarksStep
<1> QED BY <1>1, <1>2, PTL DEF Spec

\* Neither an adjuster nor an exchange takes a mark of an edge or face back, or
\* replaces it by a smaller one: mark() would, its callers compare before.
THEOREM MarksGrow == Spec => MarksOnlyGrow
<1>1. ASSUME MarksInv, [Next]_vars
      PROVE  [\A p \in Procs : pc[p] # "begin" =>
                \A x \in (Edges \cup Faces) \cap Holds[p] : marks'[p][x] >= marks[p][x]]_vars
  <2>1. \A p \in Procs : Growing(p)
    BY <1>1, MarksStep
  <2> QED BY <2>1, CommonElements DEF Growing
<1> QED BY <1>1, MarksInvariant, PTL DEF Spec, MarksOnlyGrow

\* When the turns end the copies of an element have the same mark on all
\* processes: slaves tell masters, and masters tell slaves, in every turn that
\* marks an interface element.
THEOREM CopiesAlwaysAgree == Spec => []CopiesAgree
<1>1. MarksInv => CopiesAgree
  BY AgreedCopies
<1> QED BY <1>1, MarksInvariant, PTL

\* When the turns end the grid to be is regular, where hanging nodes may depend
\* on free ones only: what the adjusters guarantee of each part of the grid is
\* true of the whole, since the copies agree.
THEOREM RefinedGridIsRegular ==
  ASSUME NodeDependencyOrder1 PROVE Spec => []GridStaysRegular
<1>1. MarksInv => GridStaysRegular
  <2>1. CASE Done
    BY <2>1, RegularGrid DEF GridStaysRegular
  <2>2. CASE ~Done
    BY <2>2 DEF GridStaysRegular, HangingNodesStayOfOrderOne, LevelsDifferByOne
  <2> QED BY <2>1, <2>2
<1> QED BY <1>1, MarksInvariant, PTL

\* Where hanging nodes may depend on free ones only, the marks of the user stay and
\* every mark has a reason in what the user asked for: neither an adjuster nor an
\* exchange marks an element that the closure on one process would not contain.
THEOREM MarksHaveReasons ==
  ASSUME NodeDependencyOrder1 PROVE Spec => []ClosureInv
<1>1. Init => ClosureInv
  BY InitMarks, InitReasons DEF ClosureInv
<1>2. ClosureInv /\ [Next]_vars => ClosureInv'
  BY MarksStep, AskedStep, ReasonStep DEF ClosureInv
<1> QED BY <1>1, <1>2, PTL DEF Spec

\* When the turns end, just the closure of what the user marked is marked: the
\* distribution of the grid adds nothing and loses nothing.
THEOREM JustTheClosureIsAlwaysMarked ==
  ASSUME NodeDependencyOrder1 PROVE Spec => []JustTheClosureIsMarked
<1>1. ClosureInv => JustTheClosureIsMarked
  BY JustTheClosure
<1> QED BY <1>1, MarksHaveReasons, PTL
==============================================================================
