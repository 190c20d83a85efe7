-------------------------- MODULE MCRefinementMarks --------------------------
(* Small grids for RefinementMarks.                                        *)
(*                                                                         *)
(* Three triangles around the vertex c, the first of them refined:         *)
(*                                                                         *)
(*      a --- b            T1 = (a, b, c), refined into the corner faces   *)
(*       \ T1/ \ T2        ta, tb, tc and the inner face tm                *)
(*        \ / T2\          T2 = (b, d, c)                                  *)
(*         c --- d         T3 = (d, e, c)                                  *)
(*          \T3 /                                                          *)
(*            e            the edge bc constrains mbc, bm and mc           *)
EXTENDS RefinementMarks, TLC

VerticesT == {"a", "b", "c", "d", "e", "a1", "b1", "c1", "mab", "mac", "mbc"}

CornersOfEdge ==
  [ab |-> {"a", "b"}, ac |-> {"a", "c"}, bc |-> {"b", "c"}, bd |-> {"b", "d"},
   cd |-> {"c", "d"}, de |-> {"d", "e"}, ce |-> {"c", "e"},
   am |-> {"a1", "mab"}, mb |-> {"mab", "b1"}, an |-> {"a1", "mac"},
   nc |-> {"mac", "c1"}, bm |-> {"b1", "mbc"}, mc |-> {"mbc", "c1"},
   ia |-> {"mab", "mac"}, ib |-> {"mab", "mbc"}, ic |-> {"mac", "mbc"}]

EdgesT == DOMAIN CornersOfEdge

EdgesOfT ==
  [T1 |-> {"ab", "ac", "bc"}, T2 |-> {"bc", "bd", "cd"}, T3 |-> {"cd", "de", "ce"},
   ta |-> {"am", "an", "ia"}, tb |-> {"mb", "bm", "ib"}, tc |-> {"nc", "mc", "ic"},
   tm |-> {"ia", "ib", "ic"}]

FacesT == DOMAIN EdgesOfT

CornersT ==
  [x \in EdgesT \cup FacesT |->
     IF x \in EdgesT THEN CornersOfEdge[x]
     ELSE UNION {CornersOfEdge[side] : side \in EdgesOfT[x]}]

ConstrainingT == [mbc |-> "bc", bm |-> "bc", mc |-> "bc"]
ParentT == [a1 |-> "a", b1 |-> "b", c1 |-> "c"]
RefinedT == {"a", "b", "c", "ab", "ac", "bc", "T1"}

\* A part of the grid: some faces with their edges and vertices, and the
\* children of shared edges and vertices.
Sides(S) == S \cup UNION {EdgesOfT[f] : f \in S} \cup UNION {CornersT[f] : f \in S}
First  == Sides({"T1", "ta", "tb", "tc", "tm"})
Second == Sides({"T2"}) \cup {"b1", "c1", "mbc", "bm", "mc"}
Third  == Sides({"T3"}) \cup {"c1"}

ProcsT == 0 .. 2

\* The process of the refined triangle has the highest rank: it is a slave.
HoldsTurned == (2 :> First) @@ (1 :> Second) @@ (0 :> Third)

FacesFree == FacesT \ {"T1"}

\* Marks of faces, the same wherever an element is held.
Marked(f) ==
  [p \in Procs |-> [x \in Holds[p] |-> IF x \in DOMAIN f THEN f[x] ELSE NONE]]

\* Any faces fully marked.
UserFull == {Marked(f) : f \in [FacesFree -> {NONE, FULL}]}

\* Some faces marked fully, by their edges or to be coarsened, and two shared
\* edges marked on one process only.
UserSome ==
  {[Marked([tc |-> x, tb |-> y, T2 |-> z]) EXCEPT ![1]["mc"] = u, ![1]["bd"] = w] :
     x \in {NONE, CLOSURE, FULL}, y \in {NONE, FULL, COARSEN},
     z \in {NONE, CLOSURE, FULL}, u \in {NONE, CLOSURE, FULL}, w \in {NONE, FULL}}

UserAny == UserFull \cup UserSome
==============================================================================
