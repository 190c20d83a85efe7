------------------------- MODULE ParallelVectorProofs -------------------------
(***************************************************************************)
(* What the entries of a parallel vector mean, for any layout of the dofs, *)
(* any vectors and any operations on them, as long as the program does not *)
(* multiply two merely additive vectors.                                   *)
(*                                                                         *)
(* The masters and slaves of a dof hold the real value each, or have it as *)
(* their sum, or have it on the master only; a mask says which, and every  *)
(* operation is followed row by row, a row being the entries of one dof.   *)
(* Results are sums over dofs and processes.  What a fold computes follows *)
(* from minimal counterexamples: if a statement fails for a finite set, it *)
(* fails for a subset of it all smaller subsets of which it holds for.     *)
(***************************************************************************)
EXTENDS ParallelVector, FiniteSetTheorems, TLAPS

------------------------------------------------------------------------------
(* Sums *)

(* Induction over finite sets: among bad subsets there is a minimal one.   *)
LEMMA MinimalSubset ==
    ASSUME NEW S, IsFiniteSet(S), NEW B, B \subseteq SUBSET S, B # {}
    PROVE  \E T \in B : \A x \in T : T \ {x} \notin B
<1> DEFINE R == StrictSubsetOrdering(S)
<1>1. B \subseteq FiniteSubsetsOf(S)
  BY FS_Subset DEF FiniteSubsetsOf
<1>2. IsWellFoundedOn(R, FiniteSubsetsOf(S))
  BY FS_StrictSubsetOrderingWellFounded
<1>3. PICK T \in B : \A U \in B : <<U, T>> \notin R
  <2> HIDE DEF R
  <2> QED BY <1>1, <1>2, WFMin
<1>4. ASSUME NEW x \in T PROVE T \ {x} \notin B
  <2>1. T \ {x} \in SUBSET S /\ T \in SUBSET S /\ T \ {x} \subseteq T /\ T \ {x} # T
    OBVIOUS
  <2>2. <<T \ {x}, T>> \in R
    BY <2>1 DEF StrictSubsetOrdering
  <2> QED BY <1>3, <2>2
<1> QED BY <1>4

Some(S) == CHOOSE x \in S : TRUE

\* g adds up f on the subsets of S, as the code of the fold does.
Adds(g, f, S) ==
    g = [s \in SUBSET S |-> IF s = {} THEN 0 ELSE f[Some(s)] + g[s \ {Some(s)}]]

LEMMA SumIs ==
    ASSUME NEW f, NEW S
    PROVE  SumOver(f, S) = (CHOOSE g : Adds(g, f, S))[S]
  BY DEF SumOver, MapThenSumSet, MapThenFoldSet, Adds, Some

LEMMA AddsAt ==
    ASSUME NEW f, NEW S, NEW g, Adds(g, f, S), NEW s \in SUBSET S
    PROVE  g[s] = IF s = {} THEN 0 ELSE f[Some(s)] + g[s \ {Some(s)}]
  BY DEF Adds

LEMMA AddsAlike ==
    ASSUME NEW f, NEW g, NEW h, NEW S, NEW T, IsFiniteSet(S), Adds(g, f, S), Adds(h, f, T)
    PROVE  \A s \in SUBSET (S \cap T) : g[s] = h[s]
<1> DEFINE B == {s \in SUBSET (S \cap T) : g[s] # h[s]}
<1>1. SUFFICES ASSUME B # {} PROVE FALSE
  OBVIOUS
<1>2. B \subseteq SUBSET S
  OBVIOUS
<1>3. PICK s \in B : \A x \in s : s \ {x} \notin B
  <2> HIDE DEF B
  <2> QED BY <1>1, <1>2, MinimalSubset
<1>4. CASE s = {}
  BY <1>4, AddsAt, <1>3
<1>5. CASE s # {}
  <2>1. Some(s) \in s
    BY <1>5 DEF Some
  <2>2. s \ {Some(s)} \in SUBSET (S \cap T) /\ s \in SUBSET S /\ s \in SUBSET T /\ g[s] # h[s]
    BY <1>3
  <2>3. g[s \ {Some(s)}] = h[s \ {Some(s)}]
    BY <1>3, <2>1, <2>2
  <2> QED BY <1>5, <2>2, <2>3, AddsAt
<1> QED BY <1>4, <1>5

LEMMA AddsWithin ==
    ASSUME NEW f, NEW h, NEW S, Adds(h, f, S), NEW T \in SUBSET S
    PROVE  Adds([s \in SUBSET T |-> h[s]], f, T)
<1> DEFINE g == [s \in SUBSET T |-> h[s]]
<1>1. ASSUME NEW s \in SUBSET T
      PROVE  g[s] = IF s = {} THEN 0 ELSE f[Some(s)] + g[s \ {Some(s)}]
  <2>1. s \in SUBSET S /\ s \ {Some(s)} \in SUBSET T
    OBVIOUS
  <2> QED BY <2>1, AddsAt
<1>2. g = [s \in SUBSET T |-> g[s]]
  OBVIOUS
<1> HIDE DEF g
<1>3. g = [s \in SUBSET T |-> IF s = {} THEN 0 ELSE f[Some(s)] + g[s \ {Some(s)}]]
  BY <1>1, <1>2
<1> QED BY <1>3 DEF Adds, g

\* The sum as the last value of a fold over any larger set.
LEMMA SumWithin ==
    ASSUME NEW f, NEW h, NEW S, IsFiniteSet(S), Adds(h, f, S), NEW T \in SUBSET S
    PROVE  SumOver(f, T) = h[T]
<1> DEFINE g == CHOOSE g : Adds(g, f, T)
<1>1. Adds(g, f, T)
  BY AddsWithin
<1>2. IsFiniteSet(T)
  BY FS_Subset
<1>3. T \in SUBSET (T \cap S)
  OBVIOUS
<1>4. g[T] = h[T]
  <2> HIDE DEF g
  <2> QED BY <1>1, <1>2, <1>3, AddsAlike
<1> QED BY <1>4, SumIs

\* What a fold is made of.
Folded(f, s) == IF s = {} THEN 0 ELSE f[Some(s)] + SumOver(f, s \ {Some(s)})

LEMMA AddsExists ==
    ASSUME NEW f, NEW S, IsFiniteSet(S)
    PROVE  \E g : Adds(g, f, S)
<1> DEFINE B == {s \in SUBSET S : ~ \E g : Adds(g, f, s)}
<1>1. SUFFICES ASSUME B # {} PROVE FALSE
  OBVIOUS
<1>2. B \subseteq SUBSET S
  OBVIOUS
<1>3. PICK T \in B : \A x \in T : T \ {x} \notin B
  <2> HIDE DEF B
  <2> QED BY <1>1, <1>2, MinimalSubset
<1>4. T \in SUBSET S /\ \A x \in T : \E h : Adds(h, f, T \ {x})
  BY <1>3
<1>5. ASSUME NEW s \in SUBSET T, s # T PROVE SumOver(f, s) = Folded(f, s)
  <2>1. PICK x \in T : x \notin s
    BY <1>5
  <2>2. PICK h : Adds(h, f, T \ {x})
    BY <1>4
  <2>3. s \in SUBSET (T \ {x}) /\ s \ {Some(s)} \in SUBSET (T \ {x})
    BY <2>1
  <2>4. IsFiniteSet(T \ {x})
    BY <1>4, FS_Subset
  <2>5. SumOver(f, s) = h[s] /\ SumOver(f, s \ {Some(s)}) = h[s \ {Some(s)}]
    BY <2>2, <2>3, <2>4, SumWithin
  <2>6. h[s] = IF s = {} THEN 0 ELSE f[Some(s)] + h[s \ {Some(s)}]
    BY <2>2, <2>3, AddsAt
  <2> QED BY <2>5, <2>6 DEF Folded
<1> DEFINE g == [s \in SUBSET T |-> Folded(f, s)]
<1>6. ASSUME NEW s \in SUBSET T
      PROVE  g[s] = IF s = {} THEN 0 ELSE f[Some(s)] + g[s \ {Some(s)}]
  <2>1. CASE s = {}
    BY <2>1 DEF Folded
  <2>2. CASE s # {}
    <3>1. Some(s) \in s
      BY <2>2 DEF Some
    <3>2. s \ {Some(s)} \in SUBSET T /\ s \ {Some(s)} # T
      BY <3>1
    <3>3. SumOver(f, s \ {Some(s)}) = Folded(f, s \ {Some(s)})
      BY <3>2, <1>5
    <3> QED BY <2>2, <3>2, <3>3 DEF Folded
  <2> QED BY <2>1, <2>2
<1>7. g = [s \in SUBSET T |-> g[s]]
  OBVIOUS
<1>8. g = [s \in SUBSET T |-> IF s = {} THEN 0 ELSE f[Some(s)] + g[s \ {Some(s)}]]
  <2> HIDE DEF g
  <2> QED BY <1>6, <1>7
<1>9. Adds(g, f, T)
  BY <1>8 DEF Adds
<1> QED BY <1>3, <1>9

\* A sum is a chosen summand and the sum of the rest.
LEMMA SumStep ==
    ASSUME NEW f, NEW S, IsFiniteSet(S)
    PROVE  SumOver(f, S) = Folded(f, S)
<1>1. PICK h : Adds(h, f, S)
  BY AddsExists
<1>2. S \in SUBSET S /\ S \ {Some(S)} \in SUBSET S
  OBVIOUS
<1>3. SumOver(f, S) = h[S] /\ SumOver(f, S \ {Some(S)}) = h[S \ {Some(S)}]
  BY <1>1, <1>2, SumWithin
<1>4. h[S] = IF S = {} THEN 0 ELSE f[Some(S)] + h[S \ {Some(S)}]
  BY <1>1, <1>2, AddsAt
<1> QED BY <1>3, <1>4 DEF Folded

\* What can be added up.
Summable(f, S) == IsFiniteSet(S) /\ \A x \in S : f[x] \in Int

LEMMA SummablePart ==
    ASSUME NEW f, NEW S, Summable(f, S), NEW T \in SUBSET S
    PROVE  Summable(f, T)
  BY FS_Subset DEF Summable

LEMMA SumType ==
    ASSUME NEW f, NEW S, Summable(f, S)
    PROVE  SumOver(f, S) \in Int
<1> DEFINE B == {s \in SUBSET S : SumOver(f, s) \notin Int}
<1>1. SUFFICES ASSUME B # {} PROVE FALSE
  BY S \in SUBSET S
<1>2. B \subseteq SUBSET S
  OBVIOUS
<1>3. PICK s \in B : \A x \in s : s \ {x} \notin B
  <2> HIDE DEF B
  <2> QED BY <1>1, <1>2, MinimalSubset DEF Summable
<1>4. s \in SUBSET S /\ SumOver(f, s) \notin Int /\ IsFiniteSet(s)
  BY <1>3, FS_Subset DEF Summable
<1>5. SumOver(f, s) = Folded(f, s)
  BY <1>4, SumStep
<1>6. s # {}
  BY <1>4, <1>5 DEF Folded
<1>7. Some(s) \in s
  BY <1>6 DEF Some
<1>8. SumOver(f, s \ {Some(s)}) \in Int /\ f[Some(s)] \in Int
  BY <1>3, <1>4, <1>7 DEF Summable
<1> QED BY <1>4, <1>5, <1>6, <1>8 DEF Folded

LEMMA SumOfNone ==
    ASSUME NEW f
    PROVE  SumOver(f, {}) = 0
  BY FS_EmptySet, SumStep DEF Folded

\* Any summand will do.
LEMMA SumSplit ==
    ASSUME NEW f, NEW S, Summable(f, S), NEW m \in S
    PROVE  SumOver(f, S) = f[m] + SumOver(f, S \ {m})
<1> DEFINE Splits(s) == \A y \in s : SumOver(f, s) = f[y] + SumOver(f, s \ {y})
           B == {s \in SUBSET S : ~Splits(s)}
<1>1. SUFFICES ASSUME B # {} PROVE FALSE
  BY S \in SUBSET S
<1>2. B \subseteq SUBSET S
  OBVIOUS
<1>3. PICK s \in B : \A x \in s : s \ {x} \notin B
  <2> HIDE DEF B
  <2> QED BY <1>1, <1>2, MinimalSubset DEF Summable
<1>4. s \in SUBSET S /\ Summable(f, s)
  BY <1>3, SummablePart
<1>5. PICK y \in s : SumOver(f, s) # f[y] + SumOver(f, s \ {y})
  BY <1>3
<1> DEFINE x == Some(s)
<1>6. x \in s
  BY <1>5 DEF Some
<1>7. SumOver(f, s) = f[x] + SumOver(f, s \ {x})
  BY <1>4, <1>5, SumStep DEF Folded, Summable
<1> HIDE DEF x
<1>8. x # y
  BY <1>5, <1>7
<1>9. Splits(s \ {x}) /\ Splits(s \ {y})
  BY <1>3, <1>4, <1>5, <1>6
<1>10. /\ SumOver(f, s \ {x}) = f[y] + SumOver(f, (s \ {x}) \ {y})
       /\ SumOver(f, s \ {y}) = f[x] + SumOver(f, (s \ {y}) \ {x})
  <2>1. y \in s \ {x} /\ x \in s \ {y}
    BY <1>5, <1>6, <1>8
  <2> QED BY <1>9, <2>1
<1>11. (s \ {x}) \ {y} = (s \ {y}) \ {x}
  OBVIOUS
<1> DEFINE rest == SumOver(f, (s \ {x}) \ {y})
<1>12. rest \in Int
  <2>1. Summable(f, (s \ {x}) \ {y})
    BY <1>4, SummablePart
  <2> QED BY <2>1, SumType
<1>13. f[x] \in Int /\ f[y] \in Int
  BY <1>4, <1>5, <1>6 DEF Summable
<1>14. /\ SumOver(f, s \ {x}) = f[y] + rest
       /\ SumOver(f, s \ {y}) = f[x] + rest
  BY <1>10, <1>11
<1> HIDE DEF rest
<1>15. f[x] + (f[y] + rest) = f[y] + (f[x] + rest)
  BY <1>12, <1>13
<1> QED BY <1>5, <1>7, <1>14, <1>15

\* h is a times f plus b times g.
Combines(h, a, f, b, g, S) ==
    /\ Summable(f, S) /\ Summable(g, S) /\ Summable(h, S)
    /\ \A x \in S : h[x] = a * f[x] + b * g[x]

LEMMA SumLinear ==
    ASSUME NEW f, NEW g, NEW h, NEW S, NEW a \in Int, NEW b \in Int,
           Combines(h, a, f, b, g, S)
    PROVE  SumOver(h, S) = a * SumOver(f, S) + b * SumOver(g, S)
<1> DEFINE B == {s \in SUBSET S : SumOver(h, s) # a * SumOver(f, s) + b * SumOver(g, s)}
<1>1. SUFFICES ASSUME B # {} PROVE FALSE
  BY S \in SUBSET S
<1>2. B \subseteq SUBSET S
  OBVIOUS
<1>3. PICK s \in B : \A x \in s : s \ {x} \notin B
  <2> HIDE DEF B
  <2> QED BY <1>1, <1>2, MinimalSubset DEF Combines, Summable
<1>4. /\ s \in SUBSET S
      /\ Summable(f, s) /\ Summable(g, s) /\ Summable(h, s)
      /\ SumOver(h, s) # a * SumOver(f, s) + b * SumOver(g, s)
  BY <1>3, SummablePart DEF Combines
<1>5. s # {}
  <2>1. a * 0 + b * 0 = 0
    OBVIOUS
  <2>2. SumOver(f, {}) = 0 /\ SumOver(g, {}) = 0 /\ SumOver(h, {}) = 0
    BY SumOfNone
  <2> QED BY <1>4, <2>1, <2>2
<1>6. PICK y \in s : TRUE
  BY <1>5
<1> DEFINE F == SumOver(f, s \ {y})
           G == SumOver(g, s \ {y})
<1>7. F \in Int /\ G \in Int /\ f[y] \in Int /\ g[y] \in Int
  <2>1. Summable(f, s \ {y}) /\ Summable(g, s \ {y})
    BY <1>4, SummablePart
  <2>2. F \in Int /\ G \in Int
    BY <2>1, SumType
  <2> QED BY <1>4, <1>6, <2>2 DEF Summable
<1>8. SumOver(h, s \ {y}) = a * F + b * G
  BY <1>3, <1>4
<1>9. /\ SumOver(f, s) = f[y] + F
      /\ SumOver(g, s) = g[y] + G
      /\ SumOver(h, s) = h[y] + SumOver(h, s \ {y})
  BY <1>4, <1>6, SumSplit
<1>10. h[y] = a * f[y] + b * g[y]
  BY <1>4, <1>6 DEF Combines
<1> HIDE DEF F, G
<1>11. (a * f[y] + b * g[y]) + (a * F + b * G) = a * (f[y] + F) + b * (g[y] + G)
  <2>1. a * (f[y] + F) = a * f[y] + a * F /\ b * (g[y] + G) = b * g[y] + b * G
    BY <1>7
  <2>2. a * f[y] \in Int /\ a * F \in Int /\ b * g[y] \in Int /\ b * G \in Int
    BY <1>7
  <2> QED BY <2>1, <2>2
<1> QED BY <1>4, <1>8, <1>9, <1>10, <1>11

\* Every summand of g is a times that of f.
Scales(g, a, f, S) == Summable(f, S) /\ \A x \in S : g[x] = a * f[x]

LEMMA SumScaled ==
    ASSUME NEW f, NEW g, NEW S, NEW a \in Int, Scales(g, a, f, S)
    PROVE  SumOver(g, S) = a * SumOver(f, S)
<1>1. Combines(g, a, f, 0, f, S)
  BY DEF Scales, Combines, Summable
<1>2. SumOver(g, S) = a * SumOver(f, S) + 0 * SumOver(f, S)
  BY <1>1, SumLinear
<1>3. SumOver(f, S) \in Int
  BY SumType DEF Scales
<1> QED BY <1>2, <1>3

LEMMA SumSame ==
    ASSUME NEW f, NEW g, NEW S, Summable(f, S), \A x \in S : g[x] = f[x]
    PROVE  SumOver(g, S) = SumOver(f, S)
<1>1. Scales(g, 1, f, S)
  BY DEF Scales, Summable
<1>2. SumOver(g, S) = 1 * SumOver(f, S)
  BY <1>1, SumScaled
<1>3. SumOver(f, S) \in Int
  BY SumType
<1> QED BY <1>2, <1>3

LEMMA SumZero ==
    ASSUME NEW f, NEW S, IsFiniteSet(S), \A x \in S : f[x] = 0
    PROVE  SumOver(f, S) = 0
<1>1. Summable(f, S) /\ Scales(f, 0, f, S)
  BY DEF Scales, Summable
<1>2. SumOver(f, S) = 0 * SumOver(f, S) /\ SumOver(f, S) \in Int
  BY <1>1, SumScaled, SumType
<1> QED BY <1>2

\* Only the summands that are not zero count.
LEMMA SumOfPart ==
    ASSUME NEW f, NEW S, Summable(f, S), NEW T \in SUBSET S, \A x \in S \ T : f[x] = 0
    PROVE  SumOver(f, S) = SumOver(f, T)
<1> DEFINE B == {s \in SUBSET (S \ T) : SumOver(f, T \cup s) # SumOver(f, T)}
<1>1. T \cup (S \ T) = S /\ T \cup {} = T /\ IsFiniteSet(S \ T)
  BY FS_Subset DEF Summable
<1>2. SUFFICES ASSUME B # {} PROVE FALSE
  BY <1>1, S \ T \in SUBSET (S \ T)
<1>3. B \subseteq SUBSET (S \ T)
  OBVIOUS
<1>4. PICK s \in B : \A x \in s : s \ {x} \notin B
  <2> HIDE DEF B
  <2> QED BY <1>1, <1>2, <1>3, MinimalSubset
<1>5. s \in SUBSET (S \ T) /\ SumOver(f, T \cup s) # SumOver(f, T)
  BY <1>4
<1>6. PICK y \in s : TRUE
  BY <1>1, <1>5
<1>7. (T \cup s) \ {y} = T \cup (s \ {y}) /\ y \in T \cup s /\ f[y] = 0
  BY <1>5, <1>6
<1>8. Summable(f, T \cup s) /\ Summable(f, T)
  <2>1. T \cup s \in SUBSET S
    BY <1>5
  <2> QED BY <2>1, SummablePart
<1>9. SumOver(f, T \cup s) = f[y] + SumOver(f, (T \cup s) \ {y})
  BY <1>7, <1>8, SumSplit
<1>10. SumOver(f, T \cup (s \ {y})) = SumOver(f, T)
  BY <1>4, <1>5, <1>6
<1>11. SumOver(f, T) \in Int
  BY <1>8, SumType
<1>12. SumOver(f, T \cup s) = 0 + SumOver(f, T)
  BY <1>7, <1>9, <1>10
<1> QED BY <1>5, <1>11, <1>12

LEMMA SumOfOne ==
    ASSUME NEW f, NEW S, Summable(f, S), NEW m \in S, \A x \in S \ {m} : f[x] = 0
    PROVE  SumOver(f, S) = f[m]
<1>1. SumOver(f, S) = f[m] + SumOver(f, S \ {m})
  BY SumSplit
<1>2. SumOver(f, S \ {m}) = 0
  BY FS_Subset, SumZero DEF Summable
<1>3. f[m] \in Int
  BY DEF Summable
<1> QED BY <1>1, <1>2, <1>3

Column(e, D, p) == [d \in D |-> e[d][p]]

Table(e, D, P) == e \in [D -> [P -> Int]] /\ IsFiniteSet(D) /\ IsFiniteSet(P)

LEMMA ColumnSummable ==
    ASSUME NEW D, NEW P, NEW e, Table(e, D, P), NEW t \in SUBSET D, NEW p \in P
    PROVE  Summable(Column(e, D, p), t)
  BY FS_Subset DEF Summable, Column, Table

LEMMA ColumnSplit ==
    ASSUME NEW D, NEW e, NEW t, NEW p, Summable(Column(e, D, p), t), NEW y \in t, y \in D
    PROVE  SumOver(Column(e, D, p), t) = e[y][p] + SumOver(Column(e, D, p), t \ {y})
<1>1. SumOver(Column(e, D, p), t) = Column(e, D, p)[y] + SumOver(Column(e, D, p), t \ {y})
  BY SumSplit
<1> QED BY <1>1 DEF Column

\* The sums of the columns over the rows of s, and the sums of the rows.
ColumnSums(e, D, P, s) == [p \in P |-> SumOver(Column(e, D, p), s)]
RowSums(e, D, P) == [d \in D |-> SumOver(e[d], P)]

LEMMA ColumnsSplit ==
    ASSUME NEW D, NEW P, NEW e, Table(e, D, P), NEW s \in SUBSET D, NEW y \in s
    PROVE  Combines(ColumnSums(e, D, P, s), 1, e[y], 1, ColumnSums(e, D, P, s \ {y}), P)
<1> DEFINE F(t) == ColumnSums(e, D, P, t)
<1>1. \A t \in SUBSET D : Summable(F(t), P)
  <2>1. ASSUME NEW t \in SUBSET D, NEW p \in P PROVE SumOver(Column(e, D, p), t) \in Int
    BY ColumnSummable, SumType
  <2> QED BY <2>1 DEF Summable, ColumnSums, Table
<1>2. Summable(e[y], P)
  BY DEF Summable, Table
<1>3. s \ {y} \in SUBSET D
  OBVIOUS
<1>4. \A p \in P : F(s)[p] = e[y][p] + F(s \ {y})[p]
  <2>1. ASSUME NEW p \in P
        PROVE  SumOver(Column(e, D, p), s) = e[y][p] + SumOver(Column(e, D, p), s \ {y})
    <3>1. Summable(Column(e, D, p), s)
      BY ColumnSummable
    <3> QED BY <3>1, ColumnSplit
  <2> QED BY <2>1 DEF ColumnSums
<1> HIDE DEF F
<1>5. ASSUME NEW p \in P PROVE F(s)[p] = 1 * e[y][p] + 1 * F(s \ {y})[p]
  <2> DEFINE m == e[y][p]
             n == F(s \ {y})[p]
  <2>1. F(s)[p] = m + n /\ m \in Int /\ n \in Int
    BY <1>1, <1>2, <1>3, <1>4 DEF Summable
  <2> HIDE DEF m, n
  <2>2. m + n = 1 * m + 1 * n
    BY <2>1
  <2> QED BY <2>1, <2>2 DEF m, n
<1>6. Combines(F(s), 1, e[y], 1, F(s \ {y}), P)
  BY <1>1, <1>2, <1>3, <1>5 DEF Combines
<1> QED BY <1>6 DEF F

\* The order of two sums does not matter.
LEMMA SumsSwap ==
    ASSUME NEW D, NEW P, NEW e, Table(e, D, P)
    PROVE  SumOver(ColumnSums(e, D, P, D), P) = SumOver(RowSums(e, D, P), D)
<1> DEFINE F(s) == ColumnSums(e, D, P, s)
           G == RowSums(e, D, P)
           B == {s \in SUBSET D : SumOver(F(s), P) # SumOver(G, s)}
<1>1. SUFFICES ASSUME B # {} PROVE FALSE
  BY D \in SUBSET D
<1>2. B \subseteq SUBSET D /\ IsFiniteSet(D)
  BY DEF Table
<1>3. PICK s \in B : \A x \in s : s \ {x} \notin B
  <2> HIDE DEF B
  <2> QED BY <1>1, <1>2, MinimalSubset
<1>4. s \in SUBSET D /\ SumOver(F(s), P) # SumOver(G, s)
  BY <1>3
<1>5. \A d \in D : Summable(e[d], P) /\ G[d] = SumOver(e[d], P)
  BY DEF Summable, Table, RowSums
<1>6. Summable(G, s)
  <2> HIDE DEF G, F, B
  <2>1. IsFiniteSet(s) /\ \A d \in s : G[d] \in Int
    BY <1>2, <1>4, <1>5, SumType, FS_Subset
  <2> QED BY <2>1 DEF Summable
<1>7. s # {}
  <2>1. \A p \in P : F({})[p] = 0
    BY SumOfNone DEF ColumnSums
  <2>2. SumOver(F({}), P) = 0
    <3> HIDE DEF F
    <3> QED BY <2>1, SumZero DEF Table
  <2> QED BY <1>4, <2>2, SumOfNone
<1>8. PICK y \in s : TRUE
  BY <1>7
<1>9. Combines(F(s), 1, e[y], 1, F(s \ {y}), P)
  BY <1>4, ColumnsSplit
<1>10. SumOver(F(s \ {y}), P) = SumOver(G, s \ {y})
  BY <1>3, <1>4, <1>8
<1> HIDE DEF F, G, B
<1>11. SumOver(F(s), P) = 1 * SumOver(e[y], P) + 1 * SumOver(F(s \ {y}), P)
  BY <1>9, SumLinear
<1>12. SumOver(F(s \ {y}), P) \in Int /\ SumOver(e[y], P) \in Int
  BY <1>9, SumType DEF Combines
<1>13. SumOver(F(s), P) = SumOver(e[y], P) + SumOver(F(s \ {y}), P)
  BY <1>11, <1>12
<1>14. SumOver(G, s) = G[y] + SumOver(G, s \ {y})
  BY <1>6, SumSplit
<1>15. G[y] = SumOver(e[y], P)
  BY <1>4, <1>5
<1> QED BY <1>4, <1>10, <1>13, <1>14, <1>15

------------------------------------------------------------------------------
(* The entries of a dof *)

\* The entries of d on the processes, zero where d is not held.
Row(d, f) == f \in [Procs -> Int] /\ \A p \in Procs \ Holders(d) : f[p] = 0

SameEverywhere(d, f, r) == \A p \in Holders(d) : f[p] = r
SumsTo(d, f, r)         == SumOver(f, Holders(d)) = r
OnMaster(d, f)          == \A p \in Slaves[d] : f[p] = 0

\* The types are true of the entries f of the real value r.
Means(d, f, mask, r) ==
    /\ "C" \in mask => SameEverywhere(d, f, r)
    /\ "A" \in mask => SumsTo(d, f, r)
    /\ "U" \in mask => OnMaster(d, f)

LEMMA Layout ==
    ASSUME NEW d \in Dofs
    PROVE  /\ Master[d] \in Procs /\ Slaves[d] \in SUBSET Procs
           /\ Master[d] \notin Slaves[d]
           /\ Master[d] \in Holders(d) /\ Holders(d) \in SUBSET Procs
           /\ Holders(d) \ {Master[d]} = Slaves[d]
           /\ Slaves[d] \subseteq Holders(d)
           /\ IsFiniteSet(Holders(d)) /\ IsFiniteSet(Slaves[d])
<1>1. /\ Master[d] \in Procs /\ Slaves[d] \in SUBSET Procs
      /\ Master[d] \notin Slaves[d] /\ IsFiniteSet(Procs)
  BY LayoutAssumption
<1>2. /\ Holders(d) \in SUBSET Procs /\ Master[d] \in Holders(d)
      /\ Holders(d) \ {Master[d]} = Slaves[d] /\ Slaves[d] \subseteq Holders(d)
  BY <1>1 DEF Holders
<1> QED BY <1>1, <1>2, FS_Subset

LEMMA RowSummable ==
    ASSUME NEW d \in Dofs, NEW f, Row(d, f)
    PROVE  Summable(f, Procs) /\ Summable(f, Holders(d)) /\ Summable(f, Slaves[d])
<1>1. IsFiniteSet(Procs) /\ f \in [Procs -> Int]
  BY LayoutAssumption DEF Row
<1> QED BY <1>1, Layout DEF Summable

\* Of the sum of a row, the master holds a part; others than the holders nothing.
LEMMA RowSum ==
    ASSUME NEW d \in Dofs, NEW f, Row(d, f)
    PROVE  /\ SumOver(f, Holders(d)) = f[Master[d]] + SumOver(f, Slaves[d])
           /\ SumOver(f, Procs) = SumOver(f, Holders(d))
           /\ f[Master[d]] \in Int /\ SumOver(f, Slaves[d]) \in Int
           /\ SumOver(f, Holders(d)) \in Int
<1>1. Summable(f, Procs) /\ Summable(f, Holders(d)) /\ Summable(f, Slaves[d])
  BY RowSummable
<1>2. SumOver(f, Holders(d)) = f[Master[d]] + SumOver(f, Holders(d) \ {Master[d]})
  <2>1. Master[d] \in Holders(d)
    BY Layout
  <2> QED BY <1>1, <2>1, SumSplit
<1>3. SumOver(f, Procs) = SumOver(f, Holders(d))
  <2>1. Holders(d) \in SUBSET Procs /\ \A p \in Procs \ Holders(d) : f[p] = 0
    BY Layout DEF Row
  <2> QED BY <1>1, <2>1, SumOfPart
<1>4. SumOver(f, Slaves[d]) \in Int /\ SumOver(f, Holders(d)) \in Int
  BY <1>1, SumType
<1>5. f[Master[d]] \in Int
  BY Layout DEF Row
<1>6. Holders(d) \ {Master[d]} = Slaves[d]
  BY Layout
<1> QED BY <1>2, <1>3, <1>4, <1>5, <1>6

\* Entries with nothing on the slaves sum up to the one of the master.
LEMMA MasterRow ==
    ASSUME NEW d \in Dofs, NEW f, Row(d, f), OnMaster(d, f)
    PROVE  SumOver(f, Holders(d)) = f[Master[d]]
<1>1. SumOver(f, Slaves[d]) = 0
  BY Layout, SumZero DEF OnMaster
<1> QED BY <1>1, RowSum

LEMMA ZeroSlavesRow ==
    ASSUME NEW e \in Entries(Int), NEW d \in Dofs
    PROVE  /\ Row(d, e[d])
           /\ Row(d, ZeroSlaves(e)[d]) /\ OnMaster(d, ZeroSlaves(e)[d])
           /\ SumsTo(d, ZeroSlaves(e)[d], e[d][Master[d]])
           /\ ZeroSlaves(e)[d][Master[d]] = e[d][Master[d]]
<1>1. Row(d, e[d])
  BY DEF Row, Entries
<1> DEFINE g == ZeroSlaves(e)[d]
<1>2. g = [p \in Procs |-> IF p \in Slaves[d] THEN 0 ELSE e[d][p]]
  BY DEF ZeroSlaves
<1>3. Row(d, g) /\ OnMaster(d, g) /\ g[Master[d]] = e[d][Master[d]]
  <2> HIDE DEF g
  <2> QED BY <1>1, <1>2, Layout DEF Row, OnMaster
<1>4. SumOver(g, Holders(d)) = g[Master[d]]
  BY <1>3, MasterRow
<1> QED BY <1>1, <1>3, <1>4 DEF SumsTo

LEMMA CopyToSlavesRow ==
    ASSUME NEW e \in Entries(Int), NEW d \in Dofs
    PROVE  /\ Row(d, CopyToSlaves(e)[d])
           /\ SameEverywhere(d, CopyToSlaves(e)[d], e[d][Master[d]])
<1>1. Row(d, e[d])
  BY DEF Row, Entries
<1> DEFINE g == CopyToSlaves(e)[d]
<1>2. g = [p \in Procs |-> IF p \in Slaves[d] THEN e[d][Master[d]] ELSE e[d][p]]
  BY DEF CopyToSlaves
<1>3. \A p \in Holders(d) : p = Master[d] \/ p \in Slaves[d]
  BY DEF Holders
<1> HIDE DEF g
<1>4. Row(d, g)
  BY <1>1, <1>2, Layout DEF Row
<1>5. SameEverywhere(d, g, e[d][Master[d]])
  BY <1>2, <1>3, Layout DEF SameEverywhere
<1> QED BY <1>4, <1>5 DEF g

LEMMA AddToMastersRow ==
    ASSUME NEW e \in Entries(Int), NEW d \in Dofs
    PROVE  /\ Row(d, AddToMasters(e)[d])
           /\ AddToMasters(e)[d][Master[d]] = SumOver(e[d], Holders(d))
<1>1. Row(d, e[d])
  BY DEF Row, Entries
<1> DEFINE g == AddToMasters(e)[d]
           n == e[d][Master[d]] + SumOver(e[d], Slaves[d])
<1>2. g = [e[d] EXCEPT ![Master[d]] = n]
  BY DEF AddToMasters
<1>3. n = SumOver(e[d], Holders(d)) /\ n \in Int
  BY <1>1, RowSum
<1> HIDE DEF g, n
<1>4. Row(d, g) /\ g[Master[d]] = n
  BY <1>1, <1>2, <1>3, Layout DEF Row
<1> QED BY <1>3, <1>4 DEF g

\* Rows make up entries.
LEMMA RowsAreEntries ==
    ASSUME NEW e, e = [d \in Dofs |-> e[d]], \A d \in Dofs : Row(d, e[d])
    PROVE  e \in Entries(Int)
<1>1. \A d \in Dofs : e[d] \in [Procs -> Int \cup {0}]
  BY DEF Row
<1>2. \A d \in Dofs : \A p \in Procs \ Holders(d) : e[d][p] = 0
  BY DEF Row
<1> QED BY <1>1, <1>2 DEF Entries

------------------------------------------------------------------------------
(* Vectors and the changes of their types *)

\* The combinations of types that occur: a unique vector is additive, and an
\* additive one is consistent only if all entries are alike without it.
Masks == {{}, {"C"}, {"A"}, {"A", "U"}, Types}

VectorRecords == [val : Entries(Int), mask : Masks]

\* x is the vector that a sequential program would know as r.
Describes(x, r) ==
    /\ x \in VectorRecords
    /\ \A d \in Dofs : Means(d, x.val[d], x.mask, r[d])

LEMMA EntriesAre ==
    ASSUME NEW e \in [Dofs -> [Procs -> Int]]
    PROVE  /\ ZeroSlaves(e) = [d \in Dofs |-> ZeroSlaves(e)[d]]
           /\ CopyToSlaves(e) = [d \in Dofs |-> CopyToSlaves(e)[d]]
           /\ AddToMasters(e) = [d \in Dofs |-> AddToMasters(e)[d]]
  BY DEF ZeroSlaves, CopyToSlaves, AddToMasters

LEMMA EntriesType ==
    ASSUME NEW e \in Entries(Int)
    PROVE  /\ e \in [Dofs -> [Procs -> Int]] /\ e = [d \in Dofs |-> e[d]]
           /\ ZeroSlaves(e) \in Entries(Int)
           /\ CopyToSlaves(e) \in Entries(Int)
           /\ AddToMasters(e) \in Entries(Int)
<1>1. e \in [Dofs -> [Procs -> Int]] /\ e = [d \in Dofs |-> e[d]]
  BY DEF Entries
<1>2. ZeroSlaves(e) \in Entries(Int)
  BY <1>1, EntriesAre, ZeroSlavesRow, RowsAreEntries
<1>3. CopyToSlaves(e) \in Entries(Int)
  BY <1>1, EntriesAre, CopyToSlavesRow, RowsAreEntries
<1>4. AddToMasters(e) \in Entries(Int)
  BY <1>1, EntriesAre, AddToMastersRow, RowsAreEntries
<1> QED BY <1>1, <1>2, <1>3, <1>4

\* The masters are what the vector is, and the slaves are emptied.
LEMMA KeepingMasters ==
    ASSUME NEW x, NEW r, Describes(x, r), "C" \in x.mask \/ "U" \in x.mask
    PROVE  Describes([val |-> ZeroSlaves(x.val), mask |-> {"A", "U"}], r)
<1> DEFINE y == [val |-> ZeroSlaves(x.val), mask |-> {"A", "U"}]
<1>1. x.val \in Entries(Int) /\ x.mask \in Masks
  BY DEF Describes, VectorRecords
<1>2. y \in VectorRecords
  BY <1>1, EntriesType DEF VectorRecords, Masks
<1>3. ASSUME NEW d \in Dofs PROVE Means(d, y.val[d], y.mask, r[d])
  <2>1. Means(d, x.val[d], x.mask, r[d]) /\ Row(d, x.val[d])
    BY <1>1, ZeroSlavesRow DEF Describes
  <2>2. x.val[d][Master[d]] = r[d]
    <3>1. CASE "C" \in x.mask
      BY <2>1, <3>1, Layout DEF Means, SameEverywhere
    <3>2. CASE "U" \in x.mask
      <4>1. "A" \in x.mask
        BY <1>1, <3>2 DEF Masks, Types
      <4>2. SumsTo(d, x.val[d], r[d]) /\ OnMaster(d, x.val[d])
        BY <2>1, <3>2, <4>1 DEF Means
      <4> QED BY <2>1, <4>2, MasterRow DEF SumsTo
    <3> QED BY <3>1, <3>2
  <2>3. OnMaster(d, ZeroSlaves(x.val)[d]) /\ SumsTo(d, ZeroSlaves(x.val)[d], r[d])
    BY <1>1, <2>2, ZeroSlavesRow
  <2> QED BY <2>3 DEF Means
<1> QED BY <1>2, <1>3 DEF Describes

LEMMA AddingSlaves ==
    ASSUME NEW x, NEW r, Describes(x, r), "A" \in x.mask
    PROVE  /\ Describes([val |-> AdditiveToUnique(x.val), mask |-> {"A", "U"}], r)
           /\ Describes([val |-> AdditiveToConsistent(x.val), mask |-> {"C"}], r)
<1> DEFINE e == AddToMasters(x.val)
           y == [val |-> ZeroSlaves(e), mask |-> {"A", "U"}]
           z == [val |-> CopyToSlaves(e), mask |-> {"C"}]
<1>1. x.val \in Entries(Int) /\ e \in Entries(Int)
  BY EntriesType DEF Describes, VectorRecords
<1>2. ASSUME NEW d \in Dofs PROVE e[d][Master[d]] = r[d]
  <2>1. Means(d, x.val[d], x.mask, r[d])
    BY DEF Describes
  <2>2. SumOver(x.val[d], Holders(d)) = r[d]
    BY <2>1 DEF Means, SumsTo
  <2> QED BY <1>1, <2>2, AddToMastersRow
<1> HIDE DEF e
<1>3. y \in VectorRecords /\ z \in VectorRecords
  BY <1>1, EntriesType DEF VectorRecords, Masks
<1>4. ASSUME NEW d \in Dofs PROVE Means(d, y.val[d], y.mask, r[d])
  <2>1. OnMaster(d, ZeroSlaves(e)[d]) /\ SumsTo(d, ZeroSlaves(e)[d], r[d])
    BY <1>1, <1>2, ZeroSlavesRow
  <2> QED BY <2>1 DEF Means
<1>5. ASSUME NEW d \in Dofs PROVE Means(d, z.val[d], z.mask, r[d])
  <2>1. SameEverywhere(d, CopyToSlaves(e)[d], r[d])
    BY <1>1, <1>2, CopyToSlavesRow
  <2> QED BY <2>1 DEF Means
<1>6. Describes(y, r) /\ Describes(z, r)
  BY <1>3, <1>4, <1>5 DEF Describes
<1> QED BY <1>6 DEF e, AdditiveToUnique, AdditiveToConsistent

LEMMA CopyingMasters ==
    ASSUME NEW x, NEW r, Describes(x, r), "C" \in x.mask \/ "U" \in x.mask
    PROVE  Describes([val |-> CopyToSlaves(x.val), mask |-> {"C"}], r)
<1> DEFINE e == ZeroSlaves(x.val)
           z == [val |-> CopyToSlaves(x.val), mask |-> {"C"}]
<1>1. x.val \in Entries(Int)
  BY DEF Describes, VectorRecords
<1>2. ASSUME NEW d \in Dofs PROVE x.val[d][Master[d]] = r[d]
  <2>1. Describes([val |-> e, mask |-> {"A", "U"}], r)
    BY KeepingMasters
  <2>2. Means(d, e[d], {"A", "U"}, r[d])
    <3> HIDE DEF e
    <3> QED BY <2>1 DEF Describes
  <2>3. SumsTo(d, e[d], r[d]) /\ SumsTo(d, e[d], x.val[d][Master[d]])
    BY <1>1, <2>2, ZeroSlavesRow DEF Means
  <2> QED BY <2>3 DEF SumsTo
<1>3. z \in VectorRecords
  BY <1>1, EntriesType DEF VectorRecords, Masks
<1>4. ASSUME NEW d \in Dofs PROVE Means(d, z.val[d], z.mask, r[d])
  <2>1. SameEverywhere(d, CopyToSlaves(x.val)[d], r[d])
    BY <1>1, <1>2, CopyToSlavesRow
  <2> QED BY <2>1 DEF Means
<1> QED BY <1>3, <1>4 DEF Describes

\* A change of type leaves the vector what it is.
LEMMA ChangeKeeps ==
    ASSUME NEW x, NEW r, Describes(x, r), x.mask # {}, NEW type \in Types
    PROVE  Describes(ChangedTo(x, type), r) /\ type \in ChangedTo(x, type).mask
<1>1. x.mask \in {{"C"}, {"A"}, {"A", "U"}, Types}
  BY DEF Describes, VectorRecords, Masks
<1>2. CASE type \in x.mask
  BY <1>2 DEF ChangedTo
<1>3. CASE type \notin x.mask /\ type = "C"
  <2>1. ChangedTo(x, type) = ToConsistent(x)
    BY <1>3 DEF ChangedTo, Types
  <2>2. "A" \in x.mask
    BY <1>1, <1>3 DEF Types
  <2>3. Describes(ToConsistent(x), r) /\ ToConsistent(x).mask = {"C"}
    BY <2>2, CopyingMasters, AddingSlaves DEF ToConsistent, Has
  <2> QED BY <1>3, <2>1, <2>3
<1>4. CASE type \notin x.mask /\ type = "A"
  <2>1. ChangedTo(x, type) = ToAdditive(x)
    BY <1>4 DEF ChangedTo, Types
  <2>2. x.mask = {"C"}
    BY <1>1, <1>4 DEF Types
  <2>3. ToAdditive(x) = [val |-> ZeroSlaves(x.val), mask |-> {"A", "U"}]
    BY <2>2 DEF ToAdditive, Has
  <2>4. Describes(ToAdditive(x), r)
    BY <2>2, <2>3, KeepingMasters
  <2> QED BY <1>4, <2>1, <2>3, <2>4
<1>5. CASE type \notin x.mask /\ type = "U"
  <2>1. ChangedTo(x, type) = ToUnique(x)
    BY <1>5 DEF ChangedTo, Types
  <2>2. x.mask = {"C"} \/ x.mask = {"A"}
    BY <1>1, <1>5 DEF Types
  <2>3. CASE x.mask = {"C"}
    <3>1. ToUnique(x) = [val |-> ZeroSlaves(x.val), mask |-> {"A", "U"}]
      BY <2>3 DEF ToUnique, Has
    <3>2. Describes(ToUnique(x), r)
      BY <2>3, <3>1, KeepingMasters
    <3> QED BY <1>5, <2>1, <3>1, <3>2
  <2>4. CASE x.mask = {"A"}
    <3>1. ToUnique(x) = [val |-> AdditiveToUnique(x.val), mask |-> {"A", "U"}]
      BY <2>4 DEF ToUnique, Has
    <3>2. Describes(ToUnique(x), r)
      BY <2>4, <3>1, AddingSlaves
    <3> QED BY <1>5, <2>1, <3>1, <3>2
  <2> QED BY <2>2, <2>3, <2>4
<1> QED BY <1>2, <1>3, <1>4, <1>5 DEF Types

\* A vector with a type represents what it describes.
LEMMA RepresentedIs ==
    ASSUME NEW x, NEW r \in [Dofs -> Int], Describes(x, r), x.mask # {}
    PROVE  Represented(x) = r
<1>1. x.mask \in {{"C"}, {"A"}, {"A", "U"}, Types}
  BY DEF Describes, VectorRecords, Masks
<1>2. ASSUME NEW d \in Dofs PROVE Represented(x)[d] = r[d]
  <2>1. Means(d, x.val[d], x.mask, r[d])
    BY DEF Describes
  <2>2. CASE "C" \in x.mask
    <3>1. x.val[d][Master[d]] = r[d]
      BY <2>1, <2>2, Layout DEF Means, SameEverywhere
    <3> QED BY <2>2, <3>1 DEF Represented, Has
  <2>3. CASE "C" \notin x.mask
    <3>1. "A" \in x.mask
      BY <1>1, <2>3 DEF Types
    <3>2. SumOver(x.val[d], Holders(d)) = r[d]
      BY <2>1, <3>1 DEF Means, SumsTo
    <3> QED BY <2>3, <3>2 DEF Represented, Has
  <2> QED BY <2>2, <2>3
<1>3. Represented(x) = [d \in Dofs |-> Represented(x)[d]]
  BY DEF Represented
<1> HIDE DEF Represented
<1> QED BY <1>2, <1>3

------------------------------------------------------------------------------
(* Results *)

LEMMA ReducedIs ==
    ASSUME NEW e \in [Dofs -> [Procs -> Int]], NEW t \in [Dofs -> Int],
           \A d \in Dofs : SumOver(e[d], Procs) = t[d]
    PROVE  Reduced(e) = SumOver(t, Dofs)
<1>1. Table(e, Dofs, Procs)
  BY LayoutAssumption DEF Table
<1>2. Reduced(e) = SumOver(ColumnSums(e, Dofs, Procs, Dofs), Procs)
  BY DEF Reduced, ColumnSums, Column
<1>3. RowSums(e, Dofs, Procs) = t
  BY DEF RowSums
<1> QED BY <1>1, <1>2, <1>3, SumsSwap

\* The entries of two vectors can be multiplied process by process.
Compatible(m, n) ==
    \/ "C" \in m /\ "A" \in n
    \/ "A" \in m /\ "C" \in n
    \/ {"A", "U"} \subseteq m /\ {"A", "U"} \subseteq n

Multiplies(d, f, r, g, s) ==
    \/ SameEverywhere(d, f, r) /\ SumsTo(d, g, s)
    \/ SameEverywhere(d, g, s) /\ SumsTo(d, f, r)
    \/ /\ OnMaster(d, f) /\ SumsTo(d, f, r)
       /\ OnMaster(d, g) /\ SumsTo(d, g, s)

LEMMA ProductRow ==
    ASSUME NEW d \in Dofs, NEW f, NEW g, NEW h, NEW r \in Int, NEW s \in Int,
           Row(d, f), Row(d, g), h = [p \in Procs |-> f[p] * g[p]],
           Multiplies(d, f, r, g, s)
    PROVE  Row(d, h) /\ SumOver(h, Holders(d)) = r * s
<1>1. Row(d, h)
  <2>1. \A p \in Procs : f[p] \in Int /\ g[p] \in Int
    BY DEF Row
  <2>2. \A p \in Procs \ Holders(d) : f[p] = 0 /\ g[p] = 0
    BY DEF Row
  <2> QED BY <2>1, <2>2 DEF Row
<1>2. Summable(f, Holders(d)) /\ Summable(g, Holders(d)) /\ Summable(h, Holders(d))
  BY <1>1, RowSummable
<1>3. Master[d] \in Holders(d) /\ Holders(d) \in SUBSET Procs
  BY Layout
<1>4. CASE SameEverywhere(d, f, r) /\ SumsTo(d, g, s)
  <2>1. \A p \in Holders(d) : h[p] = r * g[p]
    BY <1>3, <1>4 DEF SameEverywhere
  <2>2. Scales(h, r, g, Holders(d))
    BY <1>2, <2>1 DEF Scales
  <2> QED BY <1>1, <1>4, <2>2, SumScaled DEF SumsTo
<1>5. CASE SameEverywhere(d, g, s) /\ SumsTo(d, f, r)
  <2>1. \A p \in Holders(d) : f[p] \in Int
    BY <1>2 DEF Summable
  <2>2. \A p \in Holders(d) : h[p] = f[p] * s
    BY <1>3, <1>5 DEF SameEverywhere
  <2>3. ASSUME NEW p \in Holders(d) PROVE f[p] * s = s * f[p]
    BY <2>1
  <2>4. Scales(h, s, f, Holders(d))
    BY <1>2, <2>2, <2>3 DEF Scales
  <2>5. SumOver(h, Holders(d)) = s * r
    BY <1>5, <2>4, SumScaled DEF SumsTo
  <2>6. s * r = r * s
    OBVIOUS
  <2> QED BY <1>1, <2>5, <2>6
<1>6. CASE /\ OnMaster(d, f) /\ SumsTo(d, f, r)
           /\ OnMaster(d, g) /\ SumsTo(d, g, s)
  <2>1. f[Master[d]] = r /\ g[Master[d]] = s
    BY <1>6, MasterRow DEF SumsTo
  <2>2. \A p \in Slaves[d] : f[p] = 0 /\ g[p] = 0 /\ p \in Procs
    BY <1>6, Layout DEF OnMaster
  <2>3. OnMaster(d, h) /\ h[Master[d]] = r * s
    BY <1>3, <2>1, <2>2 DEF OnMaster
  <2> QED BY <1>1, <2>3, MasterRow
<1> QED BY <1>4, <1>5, <1>6 DEF Multiplies

Products(x, y) == [d \in Dofs |-> [p \in Procs |-> x.val[d][p] * y.val[d][p]]]

LEMMA ProductsAre ==
    ASSUME NEW x, NEW r \in [Dofs -> Int], Describes(x, r),
           NEW y, NEW s \in [Dofs -> Int], Describes(y, s),
           Compatible(x.mask, y.mask), NEW d \in Dofs
    PROVE  /\ Row(d, Products(x, y)[d])
           /\ SumOver(Products(x, y)[d], Holders(d)) = r[d] * s[d]
<1> DEFINE f == x.val[d]
           g == y.val[d]
           h == Products(x, y)[d]
           m == r[d]
           n == s[d]
<1>1. Row(d, f) /\ Row(d, g)
  BY ZeroSlavesRow DEF Describes, VectorRecords
<1>2. h = [p \in Procs |-> f[p] * g[p]]
  BY DEF Products
<1>3. Means(d, f, x.mask, m) /\ Means(d, g, y.mask, n)
  BY DEF Describes
<1>4. m \in Int /\ n \in Int
  OBVIOUS
<1> HIDE DEF f, g, h, m, n
<1>5. Multiplies(d, f, m, g, n)
  BY <1>3 DEF Means, Compatible, Multiplies
<1>6. Row(d, h) /\ SumOver(h, Holders(d)) = m * n
  BY <1>1, <1>2, <1>4, <1>5, ProductRow
<1> QED BY <1>6 DEF h, m, n

LEMMA ProductIs ==
    ASSUME NEW x, NEW r \in [Dofs -> Int], Describes(x, r),
           NEW y, NEW s \in [Dofs -> Int], Describes(y, s),
           Compatible(x.mask, y.mask)
    PROVE  Reduced(Products(x, y)) = SumOver([d \in Dofs |-> r[d] * s[d]], Dofs)
<1> DEFINE e == Products(x, y)
           t == [d \in Dofs |-> r[d] * s[d]]
<1>1. t \in [Dofs -> Int]
  OBVIOUS
<1>2. ASSUME NEW d \in Dofs PROVE SumOver(e[d], Procs) = t[d] /\ e[d] \in [Procs -> Int]
  <2>1. Row(d, e[d]) /\ SumOver(e[d], Holders(d)) = r[d] * s[d]
    BY ProductsAre
  <2> HIDE DEF e
  <2> QED BY <2>1, RowSum DEF Row
<1>3. e = [d \in Dofs |-> e[d]]
  BY DEF Products
<1> HIDE DEF e, t
<1>4. e \in [Dofs -> [Procs -> Int]]
  BY <1>2, <1>3
<1>5. Reduced(e) = SumOver(t, Dofs)
  BY <1>1, <1>2, <1>4, ReducedIs
<1> QED BY <1>5 DEF e, t

\* norm() works on a unique vector.
LEMMA NormSquaredIs ==
    ASSUME NEW x, NEW r \in [Dofs -> Int], Describes(x, r), x.mask # {}
    PROVE  NormSquared(x) = SumOver([d \in Dofs |-> r[d] * r[d]], Dofs)
<1> DEFINE z == NormArgument(x)
<1>1. Describes(z, r) /\ "U" \in z.mask
  BY ChangeKeeps DEF NormArgument, Types
<1>2. NormSquared(x) = Reduced(Products(z, z))
  BY DEF NormSquared, Products
<1> HIDE DEF z
<1>3. Compatible(z.mask, z.mask)
  BY <1>1 DEF Describes, VectorRecords, Masks, Compatible, Types
<1> QED BY <1>1, <1>2, <1>3, ProductIs

\* A finite set of integers has a greatest element.
LEMMA GreatestInt ==
    ASSUME NEW S \in SUBSET Int, IsFiniteSet(S), S # {}
    PROVE  \E m \in S : \A n \in S : n <= m
<1> DEFINE B == {T \in SUBSET S : T # {} /\ ~ \E m \in T : \A n \in T : n <= m}
<1>1. SUFFICES ASSUME B # {} PROVE FALSE
  BY S \in SUBSET S
<1>2. B \subseteq SUBSET S
  OBVIOUS
<1>3. PICK T \in B : \A x \in T : T \ {x} \notin B
  <2> HIDE DEF B
  <2> QED BY <1>1, <1>2, MinimalSubset
<1>4. T \in SUBSET S /\ T # {} /\ ~ \E m \in T : \A n \in T : n <= m
  BY <1>3
<1>5. PICK x \in T : TRUE
  BY <1>4
<1>6. x \in Int /\ T \subseteq Int
  BY <1>4, <1>5
<1>7. CASE T \ {x} = {}
  <2>1. \A n \in T : n = x
    BY <1>7
  <2> QED BY <1>4, <1>5, <1>6, <2>1
<1>8. CASE T \ {x} # {}
  <2>1. PICK m \in T \ {x} : \A n \in T \ {x} : n <= m
    BY <1>3, <1>4, <1>5, <1>8
  <2>2. m \in Int /\ \A n \in T : n \in Int
    BY <1>6
  <2>3. CASE x <= m
    <3>1. \A n \in T : n <= m
      BY <2>1, <2>3
    <3> QED BY <1>4, <2>1, <3>1
  <2>4. CASE m < x
    <3>1. \A n \in T : n <= x
      BY <1>6, <2>1, <2>2, <2>4
    <3> QED BY <1>4, <1>5, <3>1
  <2> QED BY <1>6, <2>2, <2>3, <2>4
<1> QED BY <1>7, <1>8

\* The maximum of a set does not change with smaller elements.
LEMMA MaxSame ==
    ASSUME NEW S \in SUBSET Int, IsFiniteSet(S), NEW T \in SUBSET Int, S \subseteq T,
           \A n \in T : \E m \in S : n <= m
    PROVE  Max(T) = Max(S)
<1>1. CASE S = {}
  <2>1. T = {}
    BY <1>1
  <2> QED BY <1>1, <2>1
<1>2. CASE S # {}
  <2>1. PICK m \in S : \A n \in S : n <= m
    BY <1>2, GreatestInt
  <2>2. m \in Int /\ (\A n \in S : n \in Int) /\ (\A n \in T : n \in Int)
    BY <2>1
  <2>3. \A n \in T : n <= m
    BY <2>1, <2>2
  <2>4. \A k \in S : (\A n \in S : k >= n) <=> k = m
    BY <2>1, <2>2
  <2>5. \A k \in T : (\A n \in T : k >= n) <=> k = m
    BY <2>1, <2>2, <2>3
  <2> QED BY <2>1, <2>4, <2>5 DEF Max
<1> QED BY <1>1, <1>2

\* maxnorm() works on a unique or on a consistent vector.
LEMMA MaxNormIs ==
    ASSUME NEW x, NEW r \in [Dofs -> Int], Describes(x, r), x.mask # {}
    PROVE  MaxNorm(x) = Max({Absolute(r[d]) : d \in Dofs})
<1> DEFINE z == MaxNormArgument(x)
           S == {Absolute(r[d]) : d \in Dofs}
           T == {Absolute(z.val[d][p]) : d \in Dofs, p \in Procs}
<1>1. Describes(z, r) /\ ("U" \in z.mask \/ "C" \in z.mask)
  <2>1. CASE Has(x, "A")
    <3>1. z = ChangedTo(x, "U")
      BY <2>1 DEF MaxNormArgument
    <3> QED BY <3>1, ChangeKeeps DEF Types
  <2>2. CASE ~Has(x, "A")
    <3>1. z = x
      BY <2>2 DEF MaxNormArgument
    <3>2. "C" \in x.mask
      BY <2>2 DEF Has, Describes, VectorRecords, Masks, Types
    <3> QED BY <3>1, <3>2
  <2> QED BY <2>1, <2>2
<1> HIDE DEF z
<1>2. ASSUME NEW d \in Dofs
      PROVE  /\ z.val[d] \in [Procs -> Int]
             /\ z.val[d][Master[d]] = r[d]
             /\ \A p \in Procs : z.val[d][p] \in {0, r[d]}
  <2>1. Row(d, z.val[d])
    BY <1>1, ZeroSlavesRow DEF Describes, VectorRecords
  <2>2. Means(d, z.val[d], z.mask, r[d])
    BY <1>1 DEF Describes
  <2>3. z.val[d][Master[d]] = r[d] /\ \A p \in Holders(d) : z.val[d][p] \in {0, r[d]}
    <3>1. CASE "C" \in z.mask
      BY <2>2, <3>1, Layout DEF Means, SameEverywhere
    <3>2. CASE "U" \in z.mask
      <4>1. "A" \in z.mask
        BY <1>1, <3>2 DEF Describes, VectorRecords, Masks, Types
      <4>2. OnMaster(d, z.val[d]) /\ SumOver(z.val[d], Holders(d)) = r[d]
        BY <2>2, <3>2, <4>1 DEF Means, SumsTo
      <4>3. z.val[d][Master[d]] = r[d]
        BY <2>1, <4>2, MasterRow
      <4> QED BY <4>2, <4>3 DEF OnMaster, Holders
    <3> QED BY <1>1, <3>1, <3>2
  <2> QED BY <2>1, <2>3 DEF Row
<1>3. \A n \in Int : Absolute(n) \in Int /\ Absolute(0) <= Absolute(n) /\ Absolute(n) <= Absolute(n)
  BY DEF Absolute
<1>4. S \in SUBSET Int /\ IsFiniteSet(S)
  <2> DEFINE f == [d \in Dofs |-> Absolute(r[d])]
  <2>1. IsFiniteSet(Dofs)
    BY LayoutAssumption
  <2>2. f \in Surjection(Dofs, S)
    BY DEF Surjection
  <2>3. IsFiniteSet(S)
    <3> HIDE DEF f, S
    <3> QED BY <2>1, <2>2, FS_Surjection
  <2> QED BY <1>3, <2>3
<1>5. T \in SUBSET Int /\ S \subseteq T
  <2>1. \A d \in Dofs, p \in Procs : Absolute(z.val[d][p]) \in Int
    BY <1>2, <1>3
  <2>2. \A d \in Dofs : Master[d] \in Procs /\ Absolute(z.val[d][Master[d]]) = Absolute(r[d])
    BY <1>2, Layout
  <2> QED BY <2>1, <2>2
<1>6. ASSUME NEW n \in T PROVE \E m \in S : n <= m
  <2>1. PICK d \in Dofs, p \in Procs : n = Absolute(z.val[d][p])
    OBVIOUS
  <2>2. z.val[d][p] \in {0, r[d]} /\ r[d] \in Int
    BY <1>2
  <2>3. n <= Absolute(r[d])
    BY <1>3, <2>1, <2>2
  <2> QED BY <2>3
<1>7. MaxNorm(x) = Max(T)
  BY DEF MaxNorm, z
<1> HIDE DEF S, T
<1>8. Max(T) = Max(S)
  BY <1>4, <1>5, <1>6, MaxSame
<1> QED BY <1>7, <1>8 DEF S

------------------------------------------------------------------------------
(* The invariant *)

\* Every vector is, by its types, the one of the sequential program.
VectorInv ==
    /\ vec \in [Vectors -> VectorRecords]
    /\ exact \in [Vectors -> [Dofs -> Int]]
    /\ \A v \in Vectors : Describes(vec[v], exact[v])

LEMMA VectorAt ==
    ASSUME VectorInv, NEW v \in Vectors
    PROVE  /\ vec[v] \in VectorRecords /\ vec[v].val \in Entries(Int) /\ vec[v].mask \in Masks
           /\ exact[v] \in [Dofs -> Int]
           /\ Describes(vec[v], exact[v])
  BY DEF VectorInv, VectorRecords

LEMMA BecomeKeeps ==
    ASSUME VectorInv, NEW v \in Vectors, NEW x, NEW r \in [Dofs -> Int], Describes(x, r),
           Become(v, x, r)
    PROVE  VectorInv'
<1>1. vec' = [vec EXCEPT ![v] = x] /\ exact' = [exact EXCEPT ![v] = r]
  BY DEF Become
<1>2. x \in VectorRecords
  BY DEF Describes
<1>3. vec' \in [Vectors -> VectorRecords] /\ exact' \in [Vectors -> [Dofs -> Int]]
  BY <1>1, <1>2 DEF VectorInv
<1>4. ASSUME NEW w \in Vectors PROVE Describes(vec'[w], exact'[w])
  <2>1. CASE w = v
    <3>1. vec'[w] = x /\ exact'[w] = r
      BY <1>1, <2>1 DEF VectorInv
    <3> QED BY <3>1
  <2>2. CASE w # v
    <3>1. vec'[w] = vec[w] /\ exact'[w] = exact[w]
      BY <1>1, <2>2 DEF VectorInv
    <3> QED BY <3>1, VectorAt
  <2> QED BY <2>1, <2>2
<1>5. \A w \in Vectors : Describes(vec[w], exact[w])'
  BY <1>4 DEF Describes, VectorRecords, Means, SameEverywhere, SumsTo, OnMaster
<1> QED BY <1>3, <1>5 DEF VectorInv, VectorRecords

------------------------------------------------------------------------------
(* The operations *)

LEMMA ZeroType == Zero \in [Dofs -> Int]
  BY DEF Zero

LEMMA EntriesOfInputs ==
    ASSUME NEW e \in Entries(Inputs)
    PROVE  e \in Entries(Int)
<1>1. Inputs \cup {0} \subseteq Int \cup {0}
  BY LayoutAssumption
<1>2. e \in [Dofs -> [Procs -> Inputs \cup {0}]]
  BY DEF Entries
<1>3. e \in [Dofs -> [Procs -> Int \cup {0}]]
  BY <1>1, <1>2
<1>4. \A d \in Dofs : \A p \in Procs \ Holders(d) : e[d][p] = 0
  BY DEF Entries
<1> QED BY <1>3, <1>4 DEF Entries

\* Any entries are a vector without types, and an additive one.
LEMMA UndefinedVector ==
    ASSUME NEW e \in Entries(Int), NEW r
    PROVE  Describes([val |-> e, mask |-> {}], r)
  BY DEF Describes, VectorRecords, Masks, Means

LEMMA AdditiveVector ==
    ASSUME NEW e \in Entries(Int), NEW x, x = [val |-> e, mask |-> {"A"}]
    PROVE  Describes(x, Represented(x)) /\ Represented(x) \in [Dofs -> Int]
<1>1. Represented(x) = [d \in Dofs |-> SumOver(e[d], Holders(d))]
  BY DEF Represented, Has
<1>2. \A d \in Dofs : SumOver(e[d], Holders(d)) \in Int
  BY ZeroSlavesRow, RowSum
<1>3. x \in VectorRecords
  BY DEF VectorRecords, Masks
<1>4. \A d \in Dofs : Means(d, x.val[d], x.mask, Represented(x)[d])
  BY <1>1 DEF Means, SumsTo
<1>5. Represented(x) \in [Dofs -> Int]
  BY <1>1, <1>2
<1> QED BY <1>3, <1>4, <1>5 DEF Describes

LEMMA CreateKeeps ==
    ASSUME VectorInv, NEW v \in Vectors, Create(v)
    PROVE  VectorInv'
<1>1. PICK e \in Samples : Become(v, [val |-> e, mask |-> {}], Zero)
  BY DEF Create
<1>2. e \in Entries(Int)
  BY SamplesAssumption, EntriesOfInputs
<1>3. Describes([val |-> e, mask |-> {}], Zero)
  BY <1>2, UndefinedVector
<1> QED BY <1>1, <1>3, ZeroType, BecomeKeeps

LEMMA AssembleKeeps ==
    ASSUME VectorInv, NEW v \in Vectors, Assemble(v)
    PROVE  VectorInv'
<1>1. PICK e \in Entries(Inputs) :
        Become(v, [val |-> e, mask |-> {"A"}], Represented([val |-> e, mask |-> {"A"}]))
  BY DEF Assemble
<1> DEFINE x == [val |-> e, mask |-> {"A"}]
<1>2. Describes(x, Represented(x)) /\ Represented(x) \in [Dofs -> Int]
  BY EntriesOfInputs, AdditiveVector
<1>3. Become(v, x, Represented(x))
  BY <1>1
<1> HIDE DEF x
<1> QED BY <1>2, <1>3, BecomeKeeps

LEMMA SetRandomKeeps ==
    ASSUME VectorInv, NEW v \in Vectors, NEW type \in Types, SetRandom(v, type)
    PROVE  VectorInv'
<1>1. PICK e \in Samples :
        LET x == ChangedTo([val |-> e, mask |-> {"A"}], type) IN Become(v, x, Represented(x))
  BY DEF SetRandom
<1> DEFINE y == [val |-> e, mask |-> {"A"}]
           x == ChangedTo(y, type)
           r == Represented(y)
<1>2. Describes(y, r) /\ r \in [Dofs -> Int] /\ y.mask # {}
  BY SamplesAssumption, EntriesOfInputs, AdditiveVector
<1>3. Become(v, x, Represented(x))
  BY <1>1
<1> HIDE DEF y, r
<1>4. Describes(x, r) /\ type \in x.mask
  BY <1>2, ChangeKeeps
<1> HIDE DEF x
<1>5. Represented(x) = r
  BY <1>2, <1>4, RepresentedIs
<1> QED BY <1>2, <1>3, <1>4, <1>5, BecomeKeeps

LEMMA SetValueKeeps ==
    ASSUME VectorInv, NEW v \in Vectors, NEW w \in Int, NEW type \in Types, SetValue(v, w, type)
    PROVE  VectorInv'
<1> DEFINE all == [d \in Dofs |-> [p \in Procs |-> IF p \in Holders(d) THEN w ELSE 0]]
           r == [d \in Dofs |-> w]
           x == [val |-> all, mask |-> {"C"}]
           y == [val |-> all, mask |-> Types]
<1>1. all \in Entries(Int) /\ \A d \in Dofs : SameEverywhere(d, all[d], w)
  <2>1. all \in Entries(Int)
    BY DEF Entries
  <2>2. \A d \in Dofs : \A p \in Holders(d) : p \in Procs
    BY Layout
  <2> QED BY <2>1, <2>2 DEF SameEverywhere
<1>2. r \in [Dofs -> Int] /\ \A d \in Dofs : r[d] = w
  OBVIOUS
<1> HIDE DEF all, r
<1>3. Describes(x, r)
  BY <1>1, <1>2 DEF Describes, VectorRecords, Masks, Means
<1>4. CASE w = 0
  <2>1. ASSUME NEW d \in Dofs PROVE SumsTo(d, all[d], w) /\ OnMaster(d, all[d])
    <3>1. \A p \in Holders(d) : all[d][p] = 0
      BY <1>1, <1>4 DEF SameEverywhere
    <3>2. SumOver(all[d], Holders(d)) = 0
      BY <3>1, Layout, SumZero
    <3>3. OnMaster(d, all[d])
      BY <3>1, Layout DEF OnMaster
    <3> QED BY <1>4, <3>2, <3>3 DEF SumsTo
  <2>2. Describes(y, r)
    BY <1>1, <1>2, <2>1 DEF Describes, VectorRecords, Masks, Means
  <2>3. SetEntries(w, type) = y
    BY <1>4 DEF SetEntries, all
  <2> QED BY <1>2, <2>2, <2>3, BecomeKeeps DEF SetValue, r
<1>5. CASE w # 0
  <2>1. SetEntries(w, type) = x \/ SetEntries(w, type) = ChangedTo(x, "U")
    BY <1>5 DEF SetEntries, all
  <2>2. Describes(ChangedTo(x, "U"), r)
    BY <1>3, ChangeKeeps DEF Types
  <2>3. Describes(SetEntries(w, type), r)
    BY <1>3, <2>1, <2>2
  <2> QED BY <1>2, <2>3, BecomeKeeps DEF SetValue, r
<1> QED BY <1>4, <1>5

LEMMA ChangeStorageTypeKeeps ==
    ASSUME VectorInv, NEW v \in Vectors, NEW type \in Types, ChangeStorageType(v, type)
    PROVE  VectorInv'
  BY VectorAt, ChangeKeeps, BecomeKeeps DEF ChangeStorageType, Defined

LEMMA AssignKeeps ==
    ASSUME VectorInv, NEW v \in Vectors, NEW w \in Vectors, Assign(v, w)
    PROVE  VectorInv'
  BY VectorAt, BecomeKeeps DEF Assign

LEMMA NormsKeep ==
    ASSUME VectorInv, NEW v \in Vectors, TakeNorm(v) \/ TakeMaxNorm(v)
    PROVE  VectorInv'
<1>1. Describes(vec[v], exact[v]) /\ exact[v] \in [Dofs -> Int] /\ vec[v].mask # {}
  BY VectorAt DEF TakeNorm, TakeMaxNorm, Defined
<1>2. Describes(ChangedTo(vec[v], "U"), exact[v])
  BY <1>1, ChangeKeeps DEF Types
<1>3. Describes(NormArgument(vec[v]), exact[v]) /\ Describes(MaxNormArgument(vec[v]), exact[v])
  BY <1>1, <1>2 DEF NormArgument, MaxNormArgument
<1> QED BY <1>1, <1>3, BecomeKeeps DEF TakeNorm, TakeMaxNorm

LEMMA TakeDotProdKeeps ==
    ASSUME VectorInv, NEW v \in Vectors, NEW w \in Vectors, TakeDotProd(v, w)
    PROVE  VectorInv'
<1>1. Describes(vec[v], exact[v]) /\ exact[v] \in [Dofs -> Int] /\ vec[v].mask # {}
  BY VectorAt DEF TakeDotProd, MayMultiply, Defined
<1>2. Describes(ChangedTo(vec[v], "U"), exact[v]) /\ Describes(ChangedTo(vec[v], "C"), exact[v])
  BY <1>1, ChangeKeeps DEF Types
<1>3. Describes(DotArgument(vec[v], vec[w]), exact[v])
  BY <1>1, <1>2 DEF DotArgument
<1> QED BY <1>1, <1>3, BecomeKeeps DEF TakeDotProd

\* The common types of two vectors.
LEMMA CommonMask ==
    ASSUME NEW m \in Masks, NEW n \in Masks
    PROVE  m \cap n \in Masks
  BY DEF Masks, Types

\* A linear combination of the entries of a dof.
Combined(a, f, b, g) == [p \in Procs |-> a * f[p] + b * g[p]]

LEMMA CombinedRow ==
    ASSUME NEW d \in Dofs, NEW f, NEW g, NEW r \in Int, NEW s \in Int,
           Row(d, f), Row(d, g), NEW a \in Int, NEW b \in Int,
           NEW m, NEW n, Means(d, f, m, r), Means(d, g, n, s)
    PROVE  /\ Row(d, Combined(a, f, b, g))
           /\ Means(d, Combined(a, f, b, g), m \cap n, a * r + b * s)
<1> DEFINE h == Combined(a, f, b, g)
<1>1. \A p \in Procs : f[p] \in Int /\ g[p] \in Int /\ h[p] = a * f[p] + b * g[p]
  BY DEF Row, Combined
<1>2. h \in [Procs -> Int]
  <2>1. \A p \in Procs : a * f[p] \in Int /\ b * g[p] \in Int
    BY <1>1
  <2> QED BY <2>1 DEF Combined
<1> HIDE DEF h
<1>3. a * 0 + b * 0 = 0
  OBVIOUS
<1>4. Row(d, h)
  BY <1>1, <1>2, <1>3 DEF Row
<1>5. Holders(d) \in SUBSET Procs /\ Slaves[d] \in SUBSET Procs
  BY Layout
<1>6. ASSUME SameEverywhere(d, f, r), SameEverywhere(d, g, s)
      PROVE  SameEverywhere(d, h, a * r + b * s)
  BY <1>1, <1>5, <1>6 DEF SameEverywhere
<1>7. ASSUME SumsTo(d, f, r), SumsTo(d, g, s) PROVE SumsTo(d, h, a * r + b * s)
  <2>1. Combines(h, a, f, b, g, Holders(d))
    BY <1>1, <1>4, <1>5, RowSummable DEF Combines
  <2>2. SumOver(h, Holders(d)) = a * SumOver(f, Holders(d)) + b * SumOver(g, Holders(d))
    BY <2>1, SumLinear
  <2> QED BY <1>7, <2>2 DEF SumsTo
<1>8. ASSUME OnMaster(d, f), OnMaster(d, g) PROVE OnMaster(d, h)
  BY <1>1, <1>3, <1>5, <1>8 DEF OnMaster
<1>9. Means(d, h, m \cap n, a * r + b * s)
  BY <1>6, <1>7, <1>8 DEF Means
<1> QED BY <1>4, <1>9 DEF h

LEMMA CombinedVector ==
    ASSUME NEW x, NEW r \in [Dofs -> Int], Describes(x, r),
           NEW y, NEW s \in [Dofs -> Int], Describes(y, s),
           NEW a \in Int, NEW b \in Int
    PROVE  Describes([val  |-> [d \in Dofs |-> [p \in Procs |-> a * x.val[d][p] + b * y.val[d][p]]],
                      mask |-> x.mask \cap y.mask],
                     [d \in Dofs |-> a * r[d] + b * s[d]])
<1> DEFINE e == [d \in Dofs |-> [p \in Procs |-> a * x.val[d][p] + b * y.val[d][p]]]
           t == [d \in Dofs |-> a * r[d] + b * s[d]]
           z == [val |-> e, mask |-> x.mask \cap y.mask]
<1>1. ASSUME NEW d \in Dofs PROVE Row(d, e[d]) /\ Means(d, e[d], z.mask, t[d])
  <2> DEFINE f == x.val[d]
             g == y.val[d]
             h == e[d]
             k == r[d]
             l == s[d]
  <2>1. Row(d, f) /\ Row(d, g)
    BY ZeroSlavesRow DEF Describes, VectorRecords
  <2>2. Means(d, f, x.mask, k) /\ Means(d, g, y.mask, l)
    BY DEF Describes
  <2>3. h = Combined(a, f, b, g) /\ t[d] = a * k + b * l
    BY DEF Combined
  <2>4. k \in Int /\ l \in Int
    OBVIOUS
  <2> HIDE DEF f, g, h, k, l
  <2>5. /\ Row(d, Combined(a, f, b, g))
        /\ Means(d, Combined(a, f, b, g), x.mask \cap y.mask, a * k + b * l)
    BY <2>1, <2>2, <2>4, CombinedRow
  <2> QED BY <2>3, <2>5 DEF h
<1>2. e = [d \in Dofs |-> e[d]]
  OBVIOUS
<1>3. x.mask \cap y.mask \in Masks
  BY CommonMask DEF Describes, VectorRecords
<1> HIDE DEF e, t
<1>4. e \in Entries(Int)
  BY <1>1, <1>2, RowsAreEntries
<1>5. Describes(z, t)
  BY <1>1, <1>3, <1>4 DEF Describes, VectorRecords
<1> QED BY <1>5 DEF e, t

LEMMA ScaleAddKeeps ==
    ASSUME VectorInv, NEW dest \in Vectors, NEW v \in Vectors, NEW w \in Vectors,
           NEW a \in Int, NEW b \in Int, ScaleAdd(dest, a, v, b, w)
    PROVE  VectorInv'
<1> DEFINE z == [val  |-> [d \in Dofs |-> [p \in Procs |->
                              a * vec[v].val[d][p] + b * vec[w].val[d][p]]],
                 mask |-> vec[v].mask \cap vec[w].mask]
           t == [d \in Dofs |-> a * exact[v][d] + b * exact[w][d]]
<1>1. /\ exact[v] \in [Dofs -> Int] /\ Describes(vec[v], exact[v])
      /\ exact[w] \in [Dofs -> Int] /\ Describes(vec[w], exact[w])
  BY VectorAt
<1>2. Describes(z, t)
  BY <1>1, CombinedVector
<1>3. t \in [Dofs -> Int]
  <2>1. \A d \in Dofs : a * exact[v][d] \in Int /\ b * exact[w][d] \in Int
    BY <1>1
  <2> QED BY <2>1
<1>4. Become(dest, z, t)
  BY DEF ScaleAdd, SumMask
<1> HIDE DEF z, t
<1> QED BY <1>2, <1>3, <1>4, BecomeKeeps

\* Entries that are alike are multiplied alike.
LEMMA ProductVector ==
    ASSUME NEW x, NEW r \in [Dofs -> Int], Describes(x, r),
           NEW y, NEW s \in [Dofs -> Int], Describes(y, s),
           x.mask \cap y.mask \in {{"C"}, {"A", "U"}, Types}
    PROVE  Describes([val |-> Products(x, y), mask |-> x.mask \cap y.mask],
                     [d \in Dofs |-> r[d] * s[d]])
<1> DEFINE e == Products(x, y)
           t == [d \in Dofs |-> r[d] * s[d]]
           m == x.mask \cap y.mask
           z == [val |-> e, mask |-> m]
<1>1. ASSUME NEW d \in Dofs PROVE Row(d, e[d]) /\ Means(d, e[d], m, t[d])
  <2>1. Row(d, x.val[d]) /\ Row(d, y.val[d])
    BY ZeroSlavesRow DEF Describes, VectorRecords
  <2>2. Means(d, x.val[d], x.mask, r[d]) /\ Means(d, y.val[d], y.mask, s[d])
    BY DEF Describes
  <2>3. \A p \in Procs : /\ x.val[d][p] \in Int /\ y.val[d][p] \in Int
                         /\ e[d][p] = x.val[d][p] * y.val[d][p]
    BY <2>1 DEF Row, Products
  <2>4. Row(d, e[d])
    <3>1. e[d] = [p \in Procs |-> x.val[d][p] * y.val[d][p]]
      BY DEF Products
    <3>2. \A p \in Procs \ Holders(d) : x.val[d][p] = 0 /\ y.val[d][p] = 0
      BY <2>1 DEF Row
    <3> HIDE DEF e
    <3> QED BY <2>3, <3>1, <3>2 DEF Row
  <2>5. ASSUME "C" \in m PROVE SameEverywhere(d, e[d], t[d])
    BY <2>2, <2>3, <2>5, Layout DEF Means, SameEverywhere
  <2>6. ASSUME "U" \in m PROVE SumsTo(d, e[d], t[d]) /\ OnMaster(d, e[d])
    <3>1. {"A", "U"} \subseteq m
      BY <2>6 DEF Types
    <3>2. Compatible(x.mask, y.mask)
      BY <3>1 DEF Compatible
    <3>3. SumOver(e[d], Holders(d)) = r[d] * s[d]
      BY <3>2, ProductsAre
    <3>4. \A p \in Slaves[d] : x.val[d][p] = 0 /\ y.val[d][p] = 0
      BY <2>2, <2>6 DEF Means, OnMaster
    <3>5. OnMaster(d, e[d])
      <4> HIDE DEF e
      <4> QED BY <2>3, <3>4, Layout DEF OnMaster
    <3> QED BY <3>3, <3>5 DEF SumsTo
  <2>7. "A" \in m => "U" \in m
    BY DEF Types
  <2> HIDE DEF e, t, m
  <2> QED BY <2>4, <2>5, <2>6, <2>7 DEF Means
<1>2. e = [d \in Dofs |-> e[d]]
  BY DEF Products
<1>3. m \in Masks
  BY DEF Masks
<1> HIDE DEF e, t, m
<1>4. e \in Entries(Int)
  BY <1>1, <1>2, RowsAreEntries
<1>5. Describes(z, t)
  BY <1>1, <1>3, <1>4 DEF Describes, VectorRecords
<1> QED BY <1>5 DEF e, t, m

LEMMA HadamardProdKeeps ==
    ASSUME ~AdditivePairs, VectorInv, NEW dest \in Vectors, NEW v \in Vectors, NEW w \in Vectors,
           HadamardProd(dest, v, w)
    PROVE  VectorInv'
<1> DEFINE m == vec[v].mask \cap vec[w].mask
           z == [val |-> Products(vec[v], vec[w]), mask |-> m]
           t == [d \in Dofs |-> exact[v][d] * exact[w][d]]
<1>1. /\ exact[v] \in [Dofs -> Int] /\ Describes(vec[v], exact[v]) /\ vec[v].mask \in Masks
      /\ exact[w] \in [Dofs -> Int] /\ Describes(vec[w], exact[w]) /\ vec[w].mask \in Masks
  BY VectorAt
<1>2. m # {} /\ m # {"A"}
  BY DEF HadamardProd, SumMask
<1>3. m \in {{"C"}, {"A", "U"}, Types}
  <2>1. m \in Masks
    BY <1>1, CommonMask
  <2> QED BY <1>2, <2>1 DEF Masks
<1>4. Describes(z, t)
  BY <1>1, <1>3, ProductVector
<1>5. t \in [Dofs -> Int]
  BY <1>1
<1>6. Become(dest, z, t)
  BY DEF HadamardProd, SumMask, Products
<1> HIDE DEF z, t
<1> QED BY <1>4, <1>5, <1>6, BecomeKeeps

LEMMA ExpOfConsistentKeeps ==
    ASSUME VectorInv, NEW dest \in Vectors, NEW v \in Vectors, ExpOfConsistent(dest, v)
    PROVE  VectorInv'
<1> DEFINE e == [d \in Dofs |-> [p \in Procs |->
                    IF p \in Holders(d) THEN 2 ^ vec[v].val[d][p] ELSE 0]]
           t == [d \in Dofs |-> 2 ^ exact[v][d]]
           z == [vec[dest] EXCEPT !.val = e]
<1>1. /\ vec[dest].mask = {"C"} /\ vec[v].mask = {"C"}
      /\ \A d \in Dofs : exact[v][d] >= 0 /\ \A p \in Procs : vec[v].val[d][p] >= 0
      /\ Become(dest, z, t)
  BY DEF ExpOfConsistent, VecExp
<1>2. /\ exact[v] \in [Dofs -> Int] /\ Describes(vec[v], exact[v])
      /\ vec[v].val \in Entries(Int) /\ vec[dest] \in VectorRecords
  BY VectorAt
<1>3. \A n \in Nat : 2 ^ n \in Int
  OBVIOUS
<1>4. t \in [Dofs -> Int]
  <2>1. \A d \in Dofs : exact[v][d] \in Nat
    BY <1>1, <1>2
  <2> QED BY <1>3, <2>1
<1>5. ASSUME NEW d \in Dofs PROVE Row(d, e[d]) /\ SameEverywhere(d, e[d], t[d])
  <2>1. \A p \in Procs : vec[v].val[d][p] \in Nat
    BY <1>1, <1>2, EntriesType
  <2>2. e[d] = [p \in Procs |-> IF p \in Holders(d) THEN 2 ^ vec[v].val[d][p] ELSE 0]
    OBVIOUS
  <2>3. \A p \in Procs : 2 ^ vec[v].val[d][p] \in Int
    BY <1>3, <2>1
  <2>4. Row(d, e[d])
    <3> HIDE DEF e
    <3> QED BY <2>2, <2>3 DEF Row
  <2>5. Means(d, vec[v].val[d], {"C"}, exact[v][d])
    BY <1>1, <1>2 DEF Describes
  <2>6. \A p \in Holders(d) : p \in Procs /\ vec[v].val[d][p] = exact[v][d]
    BY <2>5, Layout DEF Means, SameEverywhere
  <2>7. SameEverywhere(d, e[d], t[d])
    BY <2>6 DEF SameEverywhere
  <2> QED BY <2>4, <2>7
<1>6. e = [d \in Dofs |-> e[d]]
  OBVIOUS
<1> HIDE DEF e, t
<1>7. e \in Entries(Int)
  BY <1>5, <1>6, RowsAreEntries
<1>8. z \in VectorRecords /\ z.val = e /\ z.mask = {"C"}
  BY <1>1, <1>2, <1>7 DEF VectorRecords
<1> HIDE DEF z
<1>9. Describes(z, t)
  BY <1>5, <1>8 DEF Describes, Means
<1> QED BY <1>1, <1>4, <1>9, BecomeKeeps DEF z

\* Without a type, the entries of the masters become the vector.
LEMMA EnforcedVector ==
    ASSUME NEW e \in Entries(Int)
    PROVE  \E r \in [Dofs -> Int] :
              /\ \A d \in Dofs : r[d] = e[d][Master[d]]
              /\ Describes([val |-> CopyToSlaves(ZeroSlaves(e)), mask |-> {"C"}], r)
<1> DEFINE r == [d \in Dofs |-> e[d][Master[d]]]
           z == [val |-> CopyToSlaves(ZeroSlaves(e)), mask |-> {"C"}]
<1>1. r \in [Dofs -> Int] /\ \A d \in Dofs : r[d] = e[d][Master[d]]
  BY EntriesType, Layout
<1> HIDE DEF r
<1>2. z \in VectorRecords
  BY EntriesType DEF VectorRecords, Masks
<1>3. ASSUME NEW d \in Dofs PROVE Means(d, z.val[d], z.mask, r[d])
  <2>1. ZeroSlaves(e)[d][Master[d]] = r[d] /\ ZeroSlaves(e) \in Entries(Int)
    BY <1>1, EntriesType, ZeroSlavesRow
  <2>2. SameEverywhere(d, CopyToSlaves(ZeroSlaves(e))[d], r[d])
    BY <2>1, CopyToSlavesRow
  <2> QED BY <2>2 DEF Means
<1> QED BY <1>1, <1>2, <1>3 DEF Describes

LEMMA EnforceConsistentTypeKeeps ==
    ASSUME VectorInv, NEW v \in Vectors, EnforceConsistentType(v)
    PROVE  VectorInv'
<1> DEFINE x == IF Has(vec[v], "A") THEN ChangedTo(vec[v], "U") ELSE vec[v]
           y == IF Has(x, "U") THEN x ELSE [val |-> ZeroSlaves(x.val), mask |-> {"U"}]
           z == ChangedTo(y, "C")
           s == IF Defined(v) THEN exact[v] ELSE Represented(z)
<1>1. Become(v, z, s)
  BY DEF EnforceConsistentType
<1>2. /\ vec[v] \in VectorRecords /\ vec[v].val \in Entries(Int) /\ vec[v].mask \in Masks
      /\ exact[v] \in [Dofs -> Int] /\ Describes(vec[v], exact[v])
  BY VectorAt
<1>3. CASE Has(vec[v], "A")
  <2>1. vec[v].mask # {} /\ Defined(v) /\ x = ChangedTo(vec[v], "U")
    BY <1>3 DEF Has, Defined
  <2>2. Describes(x, exact[v]) /\ "U" \in x.mask
    BY <1>2, <2>1, ChangeKeeps DEF Types
  <2>3. y = x /\ x.mask # {}
    BY <2>2 DEF Has
  <2>4. Describes(z, exact[v])
    <3> HIDE DEF x, y
    <3> QED BY <2>2, <2>3, ChangeKeeps DEF Types
  <2> QED BY <1>1, <1>2, <2>1, <2>4, BecomeKeeps
<1>4. CASE ~Has(vec[v], "A")
  <2> DEFINE e == vec[v].val
             c == [val |-> CopyToSlaves(ZeroSlaves(e)), mask |-> {"C"}]
  <2>1. vec[v].mask \in {{}, {"C"}}
    BY <1>2, <1>4 DEF Has, Masks, Types
  <2>2. y = [val |-> ZeroSlaves(e), mask |-> {"U"}]
    BY <1>4, <2>1 DEF Has
  <2>3. z = c
    <3>1. "C" \notin y.mask /\ Has(y, "U") /\ y.val = ZeroSlaves(e)
      BY <2>2 DEF Has
    <3>2. z = ToConsistent(y)
      <4> HIDE DEF y
      <4> QED BY <3>1 DEF ChangedTo
    <3> HIDE DEF y, z
    <3> QED BY <3>1, <3>2 DEF ToConsistent
  <2>4. PICK r \in [Dofs -> Int] :
          (\A d \in Dofs : r[d] = e[d][Master[d]]) /\ Describes(c, r)
    BY <1>2, EnforcedVector
  <2>5. s = r
    <3>1. CASE Defined(v)
      <4>1. "C" \in vec[v].mask
        BY <2>1, <3>1 DEF Defined
      <4>2. \A d \in Dofs : exact[v][d] = e[d][Master[d]]
        BY <1>2, <4>1, Layout DEF Describes, Means, SameEverywhere
      <4>3. exact[v] = r
        BY <1>2, <2>4, <4>2
      <4> QED BY <3>1, <4>3
    <3>2. CASE ~Defined(v)
      <4>1. c.mask # {}
        OBVIOUS
      <4>2. Represented(c) = r
        <5> HIDE DEF c
        <5> QED BY <2>4, <4>1, RepresentedIs
      <4> QED BY <2>3, <3>2, <4>2
    <3> QED BY <3>1, <3>2
  <2> HIDE DEF z, s, c
  <2> QED BY <1>1, <2>3, <2>4, <2>5, BecomeKeeps
<1> QED BY <1>3, <1>4

------------------------------------------------------------------------------
(* The theorems *)

LEMMA InitVectors ==
    ASSUME Init
    PROVE  VectorInv
<1> DEFINE e == [d \in Dofs |-> [p \in Procs |-> 0]]
<1>1. vec = [v \in Vectors |-> [val |-> e, mask |-> {}]] /\ exact = [v \in Vectors |-> Zero]
  BY DEF Init
<1>2. e \in Entries(Int)
  BY DEF Entries
<1>3. Describes([val |-> e, mask |-> {}], Zero)
  BY <1>2, UndefinedVector
<1>4. [val |-> e, mask |-> {}] \in VectorRecords
  BY <1>3 DEF Describes
<1> HIDE DEF e
<1> QED BY <1>1, <1>3, <1>4, ZeroType DEF VectorInv

LEMMA NextVectors ==
    ASSUME ~AdditivePairs, VectorInv, [Next]_vars
    PROVE  VectorInv'
<1>1. CASE UNCHANGED vars
  BY <1>1 DEF vars, VectorInv, VectorRecords, Describes, Means, SameEverywhere, SumsTo, OnMaster
<1>2. CASE Next
  <2>1. PICK v \in Vectors :
          \/ Create(v)
          \/ Assemble(v)
          \/ EnforceConsistentType(v)
          \/ TakeNorm(v)
          \/ TakeMaxNorm(v)
          \/ \E type \in Types :
                 \/ SetRandom(v, type)
                 \/ \E w \in {0, 1} : SetValue(v, w, type)
                 \/ ChangeStorageType(v, type)
          \/ \E w \in Vectors :
                 \/ Assign(v, w)
                 \/ TakeDotProd(v, w)
                 \/ ExpOfConsistent(v, w)
                 \/ \E u \in Vectors : HadamardProd(v, u, w)
                 \/ \E u \in Vectors, b \in {-1, 1} : ScaleAdd(v, 1, u, b, w)
    BY <1>2 DEF Next
  <2>2. CASE Create(v)
    BY <2>2, CreateKeeps
  <2>3. CASE Assemble(v)
    BY <2>3, AssembleKeeps
  <2>4. CASE EnforceConsistentType(v)
    BY <2>4, EnforceConsistentTypeKeeps
  <2>5. CASE TakeNorm(v) \/ TakeMaxNorm(v)
    BY <2>5, NormsKeep
  <2>6. ASSUME NEW type \in Types, SetRandom(v, type) PROVE VectorInv'
    BY <2>6, SetRandomKeeps
  <2>7. ASSUME NEW type \in Types, NEW w \in {0, 1}, SetValue(v, w, type) PROVE VectorInv'
    <3>1. w \in Int
      OBVIOUS
    <3> QED BY <2>7, <3>1, SetValueKeeps
  <2>8. ASSUME NEW type \in Types, ChangeStorageType(v, type) PROVE VectorInv'
    BY <2>8, ChangeStorageTypeKeeps
  <2>9. ASSUME NEW w \in Vectors, Assign(v, w) PROVE VectorInv'
    BY <2>9, AssignKeeps
  <2>10. ASSUME NEW w \in Vectors, TakeDotProd(v, w) PROVE VectorInv'
    BY <2>10, TakeDotProdKeeps
  <2>11. ASSUME NEW w \in Vectors, ExpOfConsistent(v, w) PROVE VectorInv'
    BY <2>11, ExpOfConsistentKeeps
  <2>12. ASSUME NEW w \in Vectors, NEW u \in Vectors, HadamardProd(v, u, w) PROVE VectorInv'
    BY <2>12, HadamardProdKeeps
  <2>13. ASSUME NEW w \in Vectors, NEW u \in Vectors, NEW b \in {-1, 1}, ScaleAdd(v, 1, u, b, w)
         PROVE  VectorInv'
    <3>1. b \in Int /\ 1 \in Int
      OBVIOUS
    <3> QED BY <2>13, <3>1, ScaleAddKeeps
  <2> QED BY <2>1, <2>2, <2>3, <2>4, <2>5, <2>6, <2>7, <2>8, <2>9, <2>10, <2>11, <2>12, <2>13
<1> QED BY <1>1, <1>2

\* Whatever is done to the vectors of a program that does not multiply two
\* merely additive ones: their entries are integers, zero where a dof is not
\* held, and by each of their types they are the vectors of the sequential
\* program (ParallelVector, change_storage_type and the algebra functions).
THEOREM VectorsAreDescribed ==
    ASSUME ~AdditivePairs
    PROVE  Spec => []VectorInv
<1>1. Init => VectorInv
  BY InitVectors
<1>2. VectorInv /\ [Next]_vars => VectorInv'
  BY NextVectors
<1> QED BY <1>1, <1>2, PTL DEF Spec

LEMMA InvMask ==
    ASSUME VectorInv
    PROVE  MaskIsTruthful
<1> SUFFICES ASSUME NEW v \in Vectors, NEW d \in Dofs
             PROVE  LET f == vec[v].val[d]
                    IN  /\ Has(vec[v], "C") => \A p \in Holders(d) : f[p] = exact[v][d]
                        /\ Has(vec[v], "A") \/ Has(vec[v], "U")
                             => SumOver(f, Holders(d)) = exact[v][d]
                        /\ Has(vec[v], "U") => \A p \in Slaves[d] : f[p] = 0
  BY DEF MaskIsTruthful
<1>1. vec[v].mask \in Masks /\ Means(d, vec[v].val[d], vec[v].mask, exact[v][d])
  BY VectorAt DEF Describes
<1>2. "U" \in vec[v].mask => "A" \in vec[v].mask
  BY <1>1 DEF Masks, Types
<1> QED BY <1>1, <1>2 DEF Means, SameEverywhere, SumsTo, OnMaster, Has

\* Every storage type a vector claims to have is true of its entries.
THEOREM MasksAreTruthful ==
    ASSUME ~AdditivePairs
    PROVE  Spec => []MaskIsTruthful
<1>1. VectorInv => MaskIsTruthful
  BY InvMask
<1> QED BY <1>1, VectorsAreDescribed, PTL

\* What dotprod() makes of its operands can be multiplied entry by entry.
LEMMA DotArgumentFits ==
    ASSUME ~AdditivePairs, VectorInv, NEW v \in Vectors, NEW w \in Vectors, MayMultiply(v, w),
           NEW x, x = DotArgument(vec[v], vec[w]),
           NEW y, y = IF v = w THEN x ELSE vec[w]
    PROVE  Describes(x, exact[v]) /\ Describes(y, exact[w]) /\ Compatible(x.mask, y.mask)
<1>1. /\ vec[v].mask \in Masks /\ Describes(vec[v], exact[v]) /\ vec[v].mask # {}
      /\ vec[w].mask \in Masks /\ Describes(vec[w], exact[w]) /\ vec[w].mask # {}
  BY VectorAt DEF MayMultiply, Defined
<1>2. ASSUME NEW type \in {"C", "U"}
      PROVE  /\ Describes(ChangedTo(vec[v], type), exact[v])
             /\ type \in ChangedTo(vec[v], type).mask
  BY <1>1, ChangeKeeps DEF Types
<1>3. Describes(x, exact[v])
  BY <1>1, <1>2 DEF DotArgument
<1>4. Describes(y, exact[w])
  BY <1>1, <1>3
<1>5. x.mask \in Masks /\ y.mask \in Masks
  BY <1>3, <1>4 DEF Describes, VectorRecords
<1> DEFINE m == vec[v].mask
           n == vec[w].mask
<1>6. CASE \/ "A" \in m /\ "C" \in n
           \/ "C" \in m /\ "A" \in n
           \/ "U" \in m /\ "U" \in n
  <2>1. x = vec[v]
    BY <1>6 DEF DotArgument, Has
  <2>2. y = vec[w]
    BY <2>1
  <2> QED BY <1>1, <1>3, <1>4, <1>6, <2>1, <2>2 DEF Compatible, Masks, Types
<1>7. CASE ~ \/ "A" \in m /\ "C" \in n
             \/ "C" \in m /\ "A" \in n
             \/ "U" \in m /\ "U" \in n
  <2>1. CASE "U" \in m /\ "A" \in n
    <3>1. x = ChangedTo(vec[v], "C")
      BY <1>7, <2>1 DEF DotArgument, Has
    <3>2. "C" \in x.mask
      BY <1>2, <3>1
    <3>3. v # w
      BY <1>7, <2>1
    <3> QED BY <1>3, <1>4, <2>1, <3>2, <3>3 DEF Compatible
  <2>2. CASE ~("U" \in m /\ "A" \in n)
    <3>1. x = ChangedTo(vec[v], "U")
      BY <1>7, <2>2 DEF DotArgument, Has
    <3>2. "U" \in x.mask
      BY <1>2, <3>1
    <3>3. {"A", "U"} \subseteq x.mask
      BY <1>5, <3>2 DEF Masks, Types
    <3>4. CASE v = w
      BY <1>3, <1>4, <3>3, <3>4 DEF Compatible
    <3>5. CASE v # w
      <4>1. m # {"A"} \/ n # {"A"}
        BY <3>5 DEF MayMultiply
      <4>2. "C" \in n \/ {"A", "U"} \subseteq n
        BY <1>1, <1>7, <2>2, <4>1 DEF Masks, Types
      <4> QED BY <1>3, <1>4, <3>3, <3>5, <4>2 DEF Compatible
    <3> QED BY <3>4, <3>5
  <2> QED BY <2>1, <2>2
<1> QED BY <1>6, <1>7

LEMMA InvDotProd ==
    ASSUME ~AdditivePairs, VectorInv
    PROVE  DotProdIsExact
<1> SUFFICES ASSUME NEW v \in Vectors, NEW w \in Vectors, MayMultiply(v, w)
             PROVE  DotProd(v, w) = SumOver([d \in Dofs |-> exact[v][d] * exact[w][d]], Dofs)
  BY DEF DotProdIsExact
<1> DEFINE x == DotArgument(vec[v], vec[w])
           y == IF v = w THEN x ELSE vec[w]
<1>1. DotProd(v, w) = Reduced(Products(x, y))
  BY DEF DotProd, Products
<1>2. Describes(x, exact[v]) /\ Describes(y, exact[w]) /\ Compatible(x.mask, y.mask)
  BY DotArgumentFits
<1>3. exact[v] \in [Dofs -> Int] /\ exact[w] \in [Dofs -> Int]
  BY VectorAt
<1> HIDE DEF x, y
<1>4. Reduced(Products(x, y)) = SumOver([d \in Dofs |-> exact[v][d] * exact[w][d]], Dofs)
  BY <1>2, <1>3, ProductIs
<1> QED BY <1>1, <1>4

\* dotprod() returns the product of the two real vectors, whatever their types.
THEOREM DotProductsAreExact ==
    ASSUME ~AdditivePairs
    PROVE  Spec => []DotProdIsExact
<1>1. VectorInv => DotProdIsExact
  BY InvDotProd
<1> QED BY <1>1, VectorsAreDescribed, PTL

LEMMA InvNorms ==
    ASSUME VectorInv
    PROVE  NormsAreExact
<1> SUFFICES ASSUME NEW v \in Vectors, Defined(v)
             PROVE  /\ NormSquared(vec[v])
                       = SumOver([d \in Dofs |-> exact[v][d] * exact[v][d]], Dofs)
                    /\ MaxNorm(vec[v]) = Max({Absolute(exact[v][d]) : d \in Dofs})
  BY DEF NormsAreExact
<1>1. Describes(vec[v], exact[v]) /\ exact[v] \in [Dofs -> Int] /\ vec[v].mask # {}
  BY VectorAt DEF Defined
<1> QED BY <1>1, NormSquaredIs, MaxNormIs

\* norm() and maxnorm() return the norms of the real vector.
THEOREM NormsAreAlwaysExact ==
    ASSUME ~AdditivePairs
    PROVE  Spec => []NormsAreExact
<1>1. VectorInv => NormsAreExact
  BY InvNorms
<1> QED BY <1>1, VectorsAreDescribed, PTL
==============================================================================
