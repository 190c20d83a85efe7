------------------------- MODULE DistributedGridProofs -------------------------
(***************************************************************************)
(* For any processes, hierarchy, interfaces and sessions: when two         *)
(* processes have ended a session their interfaces match, and what they    *)
(* know about their elements is right.                                     *)
(*                                                                         *)
(* Nothing is sent, so the proof is about one process at a time.  The      *)
(* invariant says what its state is in terms of what was agreed on when    *)
(* the session began: the elements chosen, and the lists the interfaces    *)
(* then had, which are the same at both ends.  At the end of the session   *)
(* the members of each interface and the order of any two of them follow   *)
(* from these alone (Expected, Precedes), whatever the process did first;  *)
(* and two lists with the same members in the same order are equal.        *)
(***************************************************************************)
EXTENDS DistributedGrid, FiniteSetTheorems, SequenceTheorems, TLAPS

-----------------------------------------------------------------------------
(* Sequences.                                                              *)

\* A non-empty set of naturals has a least element.
LEMMA LeastNat ==
  ASSUME NEW T \in SUBSET Nat, T # {}
  PROVE  \E m \in T : \A n \in T : m <= n
<1> DEFINE Less == {ss \in Nat \X Nat : ss[1] < ss[2]}
<1>1. IsWellFoundedOn(Less, Nat)
  BY NatLessThanWellFounded DEF OpToRel
<1>2. PICK m \in T : \A n \in T : <<n, m>> \notin Less
  <2> HIDE DEF Less
  <2> QED BY <1>1, WFMin
<1>3. \A n \in Nat : \A k \in Nat : <<n, k>> \notin Less => k <= n
  OBVIOUS
<1> QED BY <1>2, <1>3

LEMMA IsMember ==
  ASSUME NEW s, NEW x
  PROVE  x \in Members(s) <=> \E k \in DOMAIN s : s[k] = x
  BY DEF Members

\* Two sequences of the same members in the same strict order are equal.
LEMMA SameSeq ==
  ASSUME NEW X, NEW s \in Seq(X), NEW t \in Seq(X), NEW R,
         Members(s) = Members(t),
         \A j, k \in DOMAIN s : j < k => <<s[j], s[k]>> \in R,
         \A j, k \in DOMAIN t : j < k => <<t[j], t[k]>> \in R,
         \A x, y \in Members(s) : ~ (<<x, y>> \in R /\ <<y, x>> \in R)
  PROVE  s = t
<1>1. DOMAIN s = 1 .. Len(s) /\ DOMAIN t = 1 .. Len(t) /\ Len(s) \in Nat /\ Len(t) \in Nat
  OBVIOUS
<1>2. /\ \A k \in 1 .. Len(s) : s[k] \in Members(s) /\ \E j \in 1 .. Len(t) : t[j] = s[k]
      /\ \A k \in 1 .. Len(t) : t[k] \in Members(s) /\ \E j \in 1 .. Len(s) : s[j] = t[k]
  <2>1. \A k \in 1 .. Len(s) : s[k] \in Members(s)
    BY <1>1, IsMember
  <2>2. \A k \in 1 .. Len(t) : t[k] \in Members(s)
    BY <1>1, IsMember
  <2>3. \A x \in Members(s) : \E j \in 1 .. Len(s) : s[j] = x
    BY <1>1, IsMember
  <2>4. \A x \in Members(s) : \E j \in 1 .. Len(t) : t[j] = x
    BY <1>1, IsMember
  <2> QED BY <2>1, <2>2, <2>3, <2>4
<1>3. \A x \in Members(s) : <<x, x>> \notin R
  OBVIOUS
<1> DEFINE B == {k \in Nat : /\ 1 <= k /\ (k <= Len(s) \/ k <= Len(t))
                             /\ ~ (k <= Len(s) /\ k <= Len(t) /\ s[k] = t[k])}
<1>4. B = {}
  <2>1. SUFFICES ASSUME B # {} PROVE FALSE
    OBVIOUS
  <2>2. PICK m \in B : \A k \in B : m <= k
    <3> HIDE DEF B
    <3>1. B \in SUBSET Nat
      BY DEF B
    <3> QED BY <3>1, <2>1, LeastNat
  <2>3. \A k \in 1 .. m - 1 : k \in 1 .. Len(s) /\ k \in 1 .. Len(t) /\ s[k] = t[k]
    <3>1. SUFFICES ASSUME NEW k \in 1 .. m - 1
                   PROVE  k \in 1 .. Len(s) /\ k \in 1 .. Len(t) /\ s[k] = t[k]
      OBVIOUS
    <3>2. k \in Nat /\ 1 <= k /\ k < m /\ m \in Nat
      BY <2>2
    <3>3. k \notin B
      BY <2>2, <3>2
    <3>4. k <= Len(s) \/ k <= Len(t)
      BY <2>2, <3>2, <1>1
    <3> QED BY <3>2, <3>3, <3>4, <1>1
  <2>4. m \in Nat /\ 1 <= m /\ (m <= Len(s) \/ m <= Len(t))
        /\ ~ (m <= Len(s) /\ m <= Len(t) /\ s[m] = t[m])
    BY <2>2
  <2> HIDE DEF B
  <2>5. ASSUME m <= Len(s)
        PROVE  \E j \in m + 1 .. Len(t) : t[j] = s[m]
    <3>1. m \in 1 .. Len(s)
      BY <2>4, <2>5, <1>1
    <3>2. PICK j \in 1 .. Len(t) : t[j] = s[m]
      BY <3>1, <1>2
    <3>3. ASSUME j < m PROVE FALSE
      <4>1. j \in 1 .. m - 1
        BY <3>2, <3>3, <2>4
      <4>2. s[j] = s[m] /\ j \in 1 .. Len(s)
        BY <4>1, <2>3, <3>2
      <4> QED BY <4>2, <3>1, <3>3, <1>1, <1>2, <1>3
    <3>4. j # m
      BY <3>2, <2>4, <2>5
    <3> QED BY <3>2, <3>3, <3>4, <2>4
  <2>6. ASSUME m <= Len(t)
        PROVE  \E j \in m + 1 .. Len(s) : s[j] = t[m]
    <3>1. m \in 1 .. Len(t)
      BY <2>4, <2>6, <1>1
    <3>2. PICK j \in 1 .. Len(s) : s[j] = t[m]
      BY <3>1, <1>2
    <3>3. ASSUME j < m PROVE FALSE
      <4>1. j \in 1 .. m - 1
        BY <3>2, <3>3, <2>4
      <4>2. t[j] = t[m] /\ j \in 1 .. Len(t)
        BY <4>1, <2>3, <3>2
      <4> QED BY <4>2, <3>1, <3>3, <1>1, <1>2, <1>3
    <3>4. j # m
      BY <3>2, <2>4, <2>6
    <3> QED BY <3>2, <3>3, <3>4, <2>4
  <2>7. m <= Len(s) /\ m <= Len(t)
    BY <2>4, <2>5, <2>6, <1>1
  <2>8. PICK j \in m + 1 .. Len(t) : t[j] = s[m]
    BY <2>5, <2>7
  <2>9. PICK k \in m + 1 .. Len(s) : s[k] = t[m]
    BY <2>6, <2>7
  <2>10. m \in 1 .. Len(s) /\ m \in 1 .. Len(t) /\ j \in 1 .. Len(t) /\ k \in 1 .. Len(s)
         /\ m < j /\ m < k
    BY <2>4, <2>7, <2>8, <2>9, <1>1
  <2>11. <<t[m], s[m]>> \in R /\ <<s[m], t[m]>> \in R
    BY <2>8, <2>9, <2>10, <1>1
  <2> QED BY <2>10, <2>11, <1>2
<1>5. \A k \in Nat : k >= 1 /\ (k <= Len(s) \/ k <= Len(t)) =>
         k <= Len(s) /\ k <= Len(t) /\ s[k] = t[k]
  BY <1>4
<1>6. Len(s) = Len(t)
  <2> DEFINE m == Len(s)
             n == Len(t)
  <2>1. m \in Nat /\ n \in Nat
    BY <1>1
  <2>2. /\ \A k \in Nat : k >= 1 /\ k <= m => k <= n
        /\ \A k \in Nat : k >= 1 /\ k <= n => k <= m
    BY <1>5
  <2> HIDE DEF m, n
  <2>3. m <= n
    BY <2>1, <2>2
  <2>4. n <= m
    BY <2>1, <2>2
  <2>5. m = n
    BY <2>1, <2>3, <2>4
  <2> QED BY <2>5 DEF m, n
<1>7. \A k \in 1 .. Len(s) : s[k] = t[k]
  BY <1>1, <1>5
<1> QED BY <1>6, <1>7, SeqEqual

LEMMA SortedSeq ==
  ASSUME NEW S, IsFiniteSet(S), NEW R,
         \A x \in S : <<x, x>> \notin R,
         \A x, y, z \in S : <<x, y>> \in R /\ <<y, z>> \in R => <<x, z>> \in R,
         \A x, y \in S : x = y \/ <<x, y>> \in R \/ <<y, x>> \in R
  PROVE  /\ Cardinality(S) \in Nat
         /\ Sorted(S, R) \in Seq(S)
         /\ Len(Sorted(S, R)) = Cardinality(S)
         /\ Members(Sorted(S, R)) = S
         /\ \A j, k \in 1 .. Cardinality(S) :
              j < k => <<Sorted(S, R)[j], Sorted(S, R)[k]>> \in R
<1> DEFINE n == Cardinality(S)
           Below(x) == {y \in S : <<y, x>> \in R}
           f == [x \in S |-> Cardinality(Below(x)) + 1]
<1>1. n \in Nat
  BY FS_CardinalityType
<1>2. ASSUME NEW x \in S
      PROVE  IsFiniteSet(Below(x)) /\ Cardinality(Below(x)) \in 0 .. n - 1
  <2>1. IsFiniteSet(S \ {x}) /\ Cardinality(S \ {x}) = n - 1
    BY FS_RemoveElement
  <2>2. Below(x) \in SUBSET (S \ {x})
    OBVIOUS
  <2> HIDE DEF Below, n
  <2>3. IsFiniteSet(Below(x)) /\ Cardinality(Below(x)) <= n - 1
    BY <2>1, <2>2, FS_Subset
  <2>4. Cardinality(Below(x)) \in Nat
    BY <2>3, FS_CardinalityType
  <2> QED BY <2>3, <2>4, <1>1
<1>3. ASSUME NEW x \in S, NEW y \in S, <<x, y>> \in R
      PROVE  Cardinality(Below(x)) < Cardinality(Below(y))
  <2>1. x \in Below(y) /\ Below(x) \in SUBSET (Below(y) \ {x})
    BY <1>3
  <2>2. IsFiniteSet(Below(y)) /\ Cardinality(Below(y)) \in Nat /\ Cardinality(Below(x)) \in Nat
    <3> HIDE DEF Below, n
    <3>1. IsFiniteSet(Below(y)) /\ Cardinality(Below(y)) \in 0 .. n - 1
      BY <1>2
    <3>2. Cardinality(Below(x)) \in 0 .. n - 1
      BY <1>2
    <3> QED BY <3>1, <3>2, <1>1
  <2> HIDE DEF Below
  <2>3. /\ IsFiniteSet(Below(y) \ {x})
        /\ Cardinality(Below(y) \ {x}) = Cardinality(Below(y)) - 1
    BY <2>1, <2>2, FS_RemoveElement
  <2>4. Cardinality(Below(x)) <= Cardinality(Below(y)) - 1
    BY <2>1, <2>3, FS_Subset
  <2> QED BY <2>2, <2>4
<1>40. \A x \in S : f[x] = Cardinality(Below(x)) + 1
  OBVIOUS
<1>4. \A x, y \in S : f[x] = f[y] => x = y
  <2> HIDE DEF Below, f
  <2>1. SUFFICES ASSUME NEW x \in S, NEW y \in S, f[x] = f[y]
                 PROVE  x = y
    OBVIOUS
  <2>2. Cardinality(Below(x)) \in Nat /\ Cardinality(Below(y)) \in Nat
    BY <1>2
  <2>3. Cardinality(Below(x)) = Cardinality(Below(y))
    BY <2>1, <2>2, <1>40
  <2>4. <<x, y>> \notin R /\ <<y, x>> \notin R
    BY <2>2, <2>3, <1>3
  <2> QED BY <2>4
<1>5. f \in Surjection(S, 1 .. n)
  <2>1. \A x \in S : f[x] \in 1 .. n
    <3> HIDE DEF Below, n
    <3> QED BY <1>1, <1>2
  <2>2. f \in [S -> 1 .. n]
    BY <2>1
  <2>3. f \in Injection(S, 1 .. n)
    <3> HIDE DEF f
    <3> QED BY <2>2, <1>4 DEF Injection, IsInjective
  <2>4. IsFiniteSet(1 .. n) /\ Cardinality(1 .. n) = n
    BY <1>1, FS_Interval
  <2> HIDE DEF f
  <2> QED BY <2>3, <2>4, FS_Injection
<1> DEFINE s == Sorted(S, R)
<1>6. ASSUME NEW k \in 1 .. n
      PROVE  s[k] \in S /\ Cardinality(Below(s[k])) = k - 1
  <2>1. PICK x \in S : f[x] = k
    <3> HIDE DEF f
    <3> QED BY <1>5 DEF Surjection
  <2>2. Cardinality(Below(x)) \in Nat /\ Cardinality(Below(x)) + 1 = k
    <3> HIDE DEF Below, f
    <3> QED BY <2>1, <1>2, <1>40
  <2>3. Cardinality(Below(x)) = k - 1
    <3> HIDE DEF Below
    <3> QED BY <2>2
  <2>4. s[k] = CHOOSE y \in S : Cardinality(Below(y)) = k - 1
    BY DEF Sorted
  <2> HIDE DEF Below, s
  <2>5. \E y \in S : Cardinality(Below(y)) = k - 1
    BY <2>1, <2>3
  <2> DEFINE c == CHOOSE y \in S : Cardinality(Below(y)) = k - 1
  <2>6. c \in S /\ Cardinality(Below(c)) = k - 1
    BY <2>5
  <2>7. s[k] = c
    BY <2>4
  <2> HIDE DEF c
  <2> QED BY <2>6, <2>7
<1>7. s = [k \in 1 .. n |-> s[k]]
  <2> DEFINE g(k) == CHOOSE x \in S : Cardinality(Below(x)) = k - 1
  <2>1. s = [k \in 1 .. n |-> g(k)]
    BY DEF Sorted
  <2> HIDE DEF g, s, n
  <2> QED BY <2>1
<1>8. \A x \in S : \E k \in 1 .. n : s[k] = x
  <2>1. SUFFICES ASSUME NEW x \in S PROVE \E k \in 1 .. n : s[k] = x
    OBVIOUS
  <2>2. Cardinality(Below(x)) \in 0 .. n - 1
    BY <1>2
  <2> DEFINE k == Cardinality(Below(x)) + 1
  <2>3. k \in 1 .. n /\ k - 1 = Cardinality(Below(x))
    <3> HIDE DEF Below, n
    <3> QED BY <2>2, <1>1
  <2>4. s[k] \in S /\ Cardinality(Below(s[k])) = Cardinality(Below(x))
    <3> HIDE DEF k, s, n, Below
    <3> QED BY <2>3, <1>6
  <2>5. f[s[k]] = f[x]
    <3> HIDE DEF k, s, n, Below
    <3> QED BY <2>4
  <2>6. s[k] = x
    <3> HIDE DEF k, s, n, Below, f
    <3> QED BY <2>4, <2>5, <1>4
  <2> QED BY <2>3, <2>6
<1>9. ASSUME NEW j \in 1 .. n, NEW k \in 1 .. n, j < k
      PROVE  <<s[j], s[k]>> \in R
  <2> HIDE DEF s, Below, n
  <2>1. s[j] \in S /\ s[k] \in S /\ s[j] # s[k]
    BY <1>1, <1>6, <1>9
  <2>2. <<s[k], s[j]>> \notin R
    BY <2>1, <1>1, <1>3, <1>6, <1>9
  <2> QED BY <2>1, <2>2
<1>10. s \in Seq(S) /\ Len(s) = n /\ DOMAIN s = 1 .. n
  <2> HIDE DEF s, Below, n
  <2> QED BY <1>1, <1>6, <1>7
<1>11. Members(s) = S
  <2> HIDE DEF s, Below, n
  <2> QED BY <1>6, <1>8, <1>10, SMTT(40) DEF Members
<1> HIDE DEF s
<1> QED BY <1>1, <1>9, <1>10, <1>11 DEF s

-----------------------------------------------------------------------------
(* Pushing objects back one after another.                                 *)

LEMMA ModSmall ==
  ASSUME NEW a \in 0 .. IdLimit - 1
  PROVE  a % IdLimit = a
  BY IdLimitAssumption

PushStep(h, itf, objs, k) == IF k = 0 THEN itf ELSE PushBack(h[k - 1], objs[k])
PartPush(h, itf, objs, n) == h = [k \in 0 .. n |-> PushStep(h, itf, objs, k)]

LEMMA PartPushAt ==
  ASSUME NEW itf, NEW objs, NEW n \in Nat, NEW h, PartPush(h, itf, objs, n), NEW k \in 0 .. n
  PROVE  h[k] = PushStep(h, itf, objs, k)
  BY DEF PartPush

LEMMA PartPushExtends ==
  ASSUME NEW itf, NEW objs, NEW m \in Nat, NEW h, PartPush(h, itf, objs, m)
  PROVE  \E i : PartPush(i, itf, objs, m + 1)
<1> DEFINE i == [k \in 0 .. m + 1 |-> IF k = m + 1 THEN PushBack(h[m], objs[m + 1]) ELSE h[k]]
<1>1. \A k \in 0 .. m : i[k] = h[k]
  OBVIOUS
<1>2. i[m + 1] = PushBack(h[m], objs[m + 1])
  OBVIOUS
<1>3. i = [k \in 0 .. m + 1 |-> i[k]]
  OBVIOUS
<1> HIDE DEF i
<1>4. ASSUME NEW k \in 0 .. m + 1
      PROVE  i[k] = PushStep(i, itf, objs, k)
  <2>1. CASE k = m + 1
    <3>1. k # 0 /\ k - 1 = m /\ m \in 0 .. m
      BY <2>1
    <3> QED BY <3>1, <2>1, <1>1, <1>2 DEF PushStep
  <2>2. CASE k \in 0 .. m
    <3>1. h[k] = PushStep(h, itf, objs, k)
      BY <2>2, PartPushAt
    <3>2. CASE k = 0
      BY <3>1, <3>2, <2>2, <1>1 DEF PushStep
    <3>3. CASE k # 0
      <4>1. k - 1 \in 0 .. m
        BY <2>2, <3>3
      <4> QED BY <4>1, <3>1, <3>3, <2>2, <1>1 DEF PushStep
    <3> QED BY <3>2, <3>3
  <2> QED BY <2>1, <2>2
<1>5. i = [k \in 0 .. m + 1 |-> PushStep(i, itf, objs, k)]
  BY <1>3, <1>4
<1> QED BY <1>5 DEF PartPush

LEMMA PartPushExists ==
  ASSUME NEW itf, NEW objs, NEW n \in Nat
  PROVE  \E h : PartPush(h, itf, objs, n)
<1> DEFINE B == {k \in Nat : ~ \E h : PartPush(h, itf, objs, k)}
<1>1. SUFFICES ASSUME B # {} PROVE FALSE
  OBVIOUS
<1>2. PICK m \in B : \A k \in B : m <= k
  <2> HIDE DEF B
  <2>1. B \in SUBSET Nat
    BY DEF B
  <2> QED BY <2>1, <1>1, LeastNat
<1>3. CASE m = 0
  <2> DEFINE h == [k \in 0 .. 0 |-> itf]
  <2>1. h = [k \in 0 .. 0 |-> PushStep(h, itf, objs, k)]
    BY DEF PushStep
  <2> QED BY <2>1, <1>2, <1>3 DEF PartPush
<1>4. CASE m # 0
  <2>1. m - 1 \in Nat /\ m - 1 \notin B
    BY <1>2, <1>4
  <2>2. PICK h : PartPush(h, itf, objs, m - 1)
    BY <2>1
  <2>3. \E i : PartPush(i, itf, objs, (m - 1) + 1)
    BY <2>1, <2>2, PartPushExtends
  <2>4. (m - 1) + 1 = m
    BY <1>2
  <2> QED BY <2>3, <2>4, <1>2
<1> QED BY <1>3, <1>4

LEMMA PushedSteps ==
  ASSUME NEW itf, NEW objs, Len(objs) \in Nat
  PROVE  /\ Pushed(itf, objs)[0] = itf
         /\ DOMAIN Pushed(itf, objs) = 0 .. Len(objs)
         /\ \A k \in 1 .. Len(objs) :
              Pushed(itf, objs)[k] = PushBack(Pushed(itf, objs)[k - 1], objs[k])
<1> DEFINE n == Len(objs)
           h == CHOOSE h : PartPush(h, itf, objs, n)
<1>1. PartPush(h, itf, objs, n)
  <2> HIDE DEF n
  <2>1. \E i : PartPush(i, itf, objs, n)
    BY PartPushExists DEF n
  <2> QED BY <2>1
<1>2. Pushed(itf, objs) = h
  BY DEF Pushed, PartPush, PushStep
<1> HIDE DEF h, n
<1>3. DOMAIN h = 0 .. n
  BY <1>1 DEF PartPush
<1>4. n \in Nat
  BY DEF n
<1>5. h[0] = itf
  <2>1. 0 \in 0 .. n
    BY <1>4
  <2>2. h[0] = PushStep(h, itf, objs, 0)
    BY <2>1, <1>1, <1>4, PartPushAt
  <2> QED BY <2>2 DEF PushStep
<1>6. ASSUME NEW k \in 1 .. n
      PROVE  h[k] = PushBack(h[k - 1], objs[k])
  <2>1. k \in 0 .. n /\ k # 0
    BY <1>4
  <2>2. h[k] = PushStep(h, itf, objs, k)
    BY <2>1, <1>1, <1>4, PartPushAt
  <2> QED BY <2>1, <2>2 DEF PushStep
<1> QED BY <1>2, <1>3, <1>5, <1>6 DEF n

LEMMA WithEntries ==
  ASSUME NEW F, NEW x, NEW y, NEW e, F = [entries |-> x, idCounter |-> y]
  PROVE  [F EXCEPT !.entries = Append(@, e)] = [entries |-> Append(x, e), idCounter |-> y]
<1>1. F.entries = x
  OBVIOUS
<1> QED BY <1>1

\* As long as ids do not run out they are consecutive.
IsPushed(i, itf, objs, E, d, n) ==
    /\ i = [entries |-> i.entries, idCounter |-> d + n]
    /\ i.idCounter = d + n
    /\ FreshId(i).id = d + n
    /\ i.entries \in Seq([elem : E, localID : Nat])
    /\ Len(i.entries) = Len(itf.entries) + n
    /\ \A k \in 1 .. Len(itf.entries) : i.entries[k] = itf.entries[k]
    /\ \A k \in 1 .. n : i.entries[Len(itf.entries) + k] = [elem |-> objs[k], localID |-> d + k - 1]

LEMMA PushedIs ==
  ASSUME NEW itf, NEW E, NEW d \in Nat, NEW objs \in Seq(E),
         itf = [entries |-> itf.entries, idCounter |-> itf.idCounter],
         itf.entries \in Seq([elem : E, localID : Nat]),
         itf.idCounter = d, 0 < d, d + Len(objs) < IdLimit,
         NEW n \in 0 .. Len(objs)
  PROVE  IsPushed(Pushed(itf, objs)[n], itf, objs, E, d, n)
<1> DEFINE N == Len(objs)
           m == Len(itf.entries)
           En == [elem : E, localID : Nat]
           Is(i, j) ==
             /\ i = [entries |-> i.entries, idCounter |-> d + j]
             /\ i.entries \in Seq(En) /\ Len(i.entries) = m + j
             /\ \A k \in 1 .. m : i.entries[k] = itf.entries[k]
             /\ \A k \in 1 .. j : i.entries[m + k] = [elem |-> objs[k], localID |-> d + k - 1]
           P == Pushed(itf, objs)
           B == {j \in Nat : j <= N /\ ~ Is(P[j], j)}
<1>1. N \in Nat /\ m \in Nat /\ IdLimit \in Nat /\ d + N < IdLimit
  BY IdLimitAssumption
<1>2. /\ P[0] = itf
      /\ \A k \in 1 .. N : P[k] = PushBack(P[k - 1], objs[k])
  BY <1>1, PushedSteps
<1>3. Is(itf, 0)
  OBVIOUS
<1>4. ASSUME NEW j \in 0 .. N - 1, NEW i, Is(i, j)
      PROVE  Is(PushBack(i, objs[j + 1]), j + 1) /\ FreshId(i).id = d + j
  <2>1. d + j # 0 /\ (d + j + 1) % IdLimit = d + (j + 1)
    <3>1. d + j + 1 \in 0 .. IdLimit - 1 /\ d + j + 1 = d + (j + 1) /\ d + j # 0
      BY <1>1
    <3>2. (d + j + 1) % IdLimit = d + j + 1
      BY <3>1, ModSmall
    <3> QED BY <3>1, <3>2
  <2>2. i.idCounter = d + j
    BY <1>4
  <2>3. /\ FreshId(i).id = d + j
        /\ FreshId(i).itf = [i EXCEPT !.idCounter = d + (j + 1)]
    BY <2>1, <2>2 DEF FreshId
  <2> DEFINE e == [elem |-> objs[j + 1], localID |-> d + j]
             b == PushBack(i, objs[j + 1])
  <2>4. b = [entries |-> Append(i.entries, e), idCounter |-> d + (j + 1)]
    <3>1. i = [entries |-> i.entries, idCounter |-> d + j]
      BY <1>4
    <3>2. FreshId(i).itf = [entries |-> i.entries, idCounter |-> d + (j + 1)]
      BY <3>1, <2>3
    <3>3. b = [FreshId(i).itf EXCEPT !.entries = Append(@, e)]
      BY <2>3 DEF PushBack
    <3> DEFINE F == FreshId(i).itf
               x == i.entries
               y == d + (j + 1)
    <3>4. F = [entries |-> x, idCounter |-> y]
      BY <3>2
    <3>5. b = [F EXCEPT !.entries = Append(@, e)]
      BY <3>3
    <3> HIDE DEF b, e, F, x, y
    <3>6. b = [entries |-> Append(x, e), idCounter |-> y]
      BY <3>4, <3>5, WithEntries
    <3> QED BY <3>6 DEF x, y
  <2>5. e \in En
    BY <1>1
  <2>6. b.entries = Append(i.entries, e)
    BY <2>4
  <2> HIDE DEF b, e, En
  <2>7. /\ b.entries \in Seq(En) /\ Len(b.entries) = m + (j + 1)
        /\ \A k \in 1 .. m + j : b.entries[k] = i.entries[k]
        /\ b.entries[m + (j + 1)] = e
    BY <2>5, <2>6, <1>1, <1>4, SMTT(40)
  <2>8. \A k \in 1 .. m : b.entries[k] = itf.entries[k]
    BY <2>7, <1>1, <1>4
  <2>9. \A k \in 1 .. j + 1 : b.entries[m + k] = [elem |-> objs[k], localID |-> d + k - 1]
    <3>1. SUFFICES ASSUME NEW k \in 1 .. j + 1
                   PROVE  b.entries[m + k] = [elem |-> objs[k], localID |-> d + k - 1]
      OBVIOUS
    <3>2. CASE k = j + 1
      <4>1. d + k - 1 = d + j
        BY <3>2
      <4> QED BY <4>1, <3>2, <2>7 DEF e
    <3>3. CASE k # j + 1
      <4>1. k \in 1 .. j /\ m + k \in 1 .. m + j
        <5> HIDE DEF m, N
        <5>1. m \in Nat /\ k \in Nat /\ j \in Nat
          BY <1>1
        <5>2. k <= j /\ 1 <= k
          BY <3>3, <5>1
        <5> QED BY <5>1, <5>2
      <4>2. b.entries[m + k] = i.entries[m + k]
        BY <4>1, <2>7
      <4> QED BY <4>1, <4>2, <1>4
    <3> QED BY <3>2, <3>3
  <2>10. b = [entries |-> b.entries, idCounter |-> d + (j + 1)]
    BY <2>4, <2>6
  <2> QED BY <2>3, <2>7, <2>8, <2>9, <2>10 DEF b
<1>5. B = {}
  <2>1. SUFFICES ASSUME B # {} PROVE FALSE
    OBVIOUS
  <2>2. PICK j \in B : \A k \in B : j <= k
    <3> HIDE DEF B
    <3>1. B \in SUBSET Nat
      BY DEF B
    <3> QED BY <3>1, <2>1, LeastNat
  <2> HIDE DEF Is, P, m
  <2>3. j \in Nat /\ j <= N /\ ~ Is(P[j], j)
    BY <2>2
  <2>4. j # 0
    BY <2>3, <1>2, <1>3
  <2>5. j - 1 \in Nat /\ j - 1 <= N /\ j - 1 \notin B
    BY <2>2, <2>3, <2>4, <1>1
  <2>6. Is(P[j - 1], j - 1) /\ j - 1 \in 0 .. N - 1 /\ (j - 1) + 1 = j /\ j \in 1 .. N
    BY <2>3, <2>4, <2>5, <1>1
  <2> HIDE DEF N, B
  <2>7. Is(PushBack(P[j - 1], objs[(j - 1) + 1]), (j - 1) + 1)
    BY <2>6, <1>4
  <2> QED BY <2>3, <2>6, <2>7, <1>2
<1>6. Is(P[n], n)
  <2> HIDE DEF Is, P
  <2> QED BY <1>1, <1>5
<1>7. FreshId(P[n]).id = d + n
  <2>1. d + n # 0 /\ P[n].idCounter = d + n
    BY <1>1, <1>6
  <2> QED BY <2>1 DEF FreshId
<1>8. P[n].idCounter = d + n
  BY <1>6
<1> QED BY <1>6, <1>7, <1>8 DEF IsPushed

-----------------------------------------------------------------------------
(* The inductive invariant.  It says of every process what its grid G, its *)
(* interfaces L, its element information I, its scheduled items S, its     *)
(* mode m and its tasks T are, in terms of three things that were so when  *)
(* the session began: the lists of elements its interfaces had (own), the  *)
(* elements it had (held) and the elements chosen to be refined or erased. *)

\* The elements of a grid and of an interface.
Now(G)          == {o[1] : o \in G}
ElemsOf(L, key) == {L[key].entries[k].elem[1] : k \in DOMAIN L[key].entries}

KeyAt(e, kind, target) == [type |-> Type[e], level |-> Level[e], kind |-> kind, target |-> target]

\* There is one object of an element.
IsGrid(G) ==
    /\ G \subseteq Objects
    /\ \A o1, o2 \in G : o1[1] = o2[1] => o1 = o2

\* An interface holds objects of the grid, of its type and level, each element once,
\* with ascending ids that do not exceed the bound.
IsItf(G, bound, key, itf) ==
    /\ itf = [entries |-> itf.entries, idCounter |-> itf.idCounter]
    /\ itf.entries \in Seq([elem : G, localID : Nat])
    /\ itf.idCounter \in Nat /\ 0 < itf.idCounter /\ itf.idCounter <= bound
    /\ \A k \in DOMAIN itf.entries :
         /\ itf.entries[k].localID < itf.idCounter
         /\ Type[itf.entries[k].elem[1]] = key.type /\ Level[itf.entries[k].elem[1]] = key.level
    /\ \A j, k \in DOMAIN itf.entries :
         /\ j < k => itf.entries[j].localID < itf.entries[k].localID
         /\ itf.entries[j].elem[1] = itf.entries[k].elem[1] => j = k

\* No element is on both sides of horizontal interfaces.
OneSided(L) ==
    \A e \in Elems, q, r \in Procs :
        ~ (e \in ElemsOf(L, KeyAt(e, "HM", q)) /\ e \in ElemsOf(L, KeyAt(e, "HS", r)))

IsLayout(L, G, bound) ==
    /\ L = [key \in Keys |-> L[key]]
    /\ \A key \in Keys : IsItf(G, bound, key, L[key])
    /\ OneSided(L)

\* A process knows of an object what grid_layouts_changed() would find out, unless
\* the object is scheduled.
IsScheduled(S, o) == \E i \in S : i.obj = o
Scheduled(kind)   == [status |-> {kind, "SCHED"}, entries |-> {}]
IsInfo(I, L, S) ==
    /\ I = [o \in Objects |-> I[o]]
    /\ \A o \in Objects : IF IsScheduled(S, o) THEN NodesOf(L, o) = {}
                                               ELSE I[o] = InfosFrom(L)[o]

\* An item of the k-th child of e is due to an entry of e.
DueTo(i, L, e, k, kind, target) ==
    /\ i.nr \in Nat
    /\ \E n \in DOMAIN L[KeyAt(e, kind, target)].entries :
         /\ L[KeyAt(e, kind, target)].entries[n].elem[1] = e
         /\ i = [map |-> Type[e], id |-> L[KeyAt(e, kind, target)].entries[n].localID,
                 nr |-> i.nr, obj |-> <<Children[e][k], 0>>, target |-> target]

\* The scheduled items are those of the elements that have been refined.
AreItems(S, G, L, I, T, chosen) ==
    \A i \in S :
        /\ i.obj \in G
        /\ \E e \in chosen, kind \in Flat, target \in Procs : \E k \in DOMAIN Children[e] :
             /\ DueTo(i, L, e, k, kind, target)
             /\ <<"refine", e>> \notin T
             /\ I[i.obj] = Scheduled(kind)

\* Those of an element are numbered in the order of its children.
AreNumbered(S) ==
    \A i, j \in S, e \in Elems : \A k, l \in DOMAIN Children[e] :
        i.obj = <<Children[e][k], 0>> /\ j.obj = <<Children[e][l], 0>> => j.nr - i.nr = l - k

HasItem(S, o, target) == \E i \in S : i.obj = o /\ i.target = target
NoneMissing(S, L, T, chosen) ==
    \A e \in chosen, kind \in Flat, target \in Procs : \A k \in DOMAIN Children[e] :
        e \in ElemsOf(L, KeyAt(e, kind, target)) /\ <<"refine", e>> \notin T =>
            HasItem(S, <<Children[e][k], 0>>, target)

\* Where a process is in the session.
InPhase(m, T, S, ss, active) ==
    /\ m \in {"none", ss}
    /\ ~active => m = "none" /\ T = {}
    /\ m # "insert" => S = {}

\* What it has still to do.
AreTasks(G, T, ss, held, chosen) ==
    \A t \in T :
        /\ t = <<t[1], t[2]>> /\ t[2] \in held
        /\ \/ t[1] = "replace" /\ (ss = "delete" => t[2] \notin chosen)
           \/ /\ t[1] = "refine" /\ ss = "insert" /\ t[2] \in chosen
              /\ \A k \in DOMAIN Children[t[2]] : Children[t[2]][k] \notin Now(G)
           \/ t[1] = "erase" /\ ss = "delete" /\ t[2] \in chosen

\* What it has: what it had, but for what has been erased, and children of what has
\* been refined.
IsHeld(G, T, ss, held, chosen) ==
    IF ss = "delete"
    THEN Now(G) = {e \in held : e \notin chosen \/ <<"erase", e>> \in T}
    ELSE /\ held \subseteq Now(G)
         /\ \A c \in Now(G) : c \in held \/ \E e \in chosen : c \in Members(Children[e])

\* Children are shared as their parents, unless they are still scheduled or were
\* elsewhere at the start.
Follow(G, L, except) ==
    \A e \in Elems : \A k \in DOMAIN Children[e] :
        e \notin except /\ FollowedAtFirst(e) /\ e \in Now(G) /\ Children[e][k] \in Now(G) =>
            \A kind \in Flat, target \in Procs :
                e \in ElemsOf(L, KeyAt(e, kind, target)) <=>
                    Children[e][k] \in ElemsOf(L, KeyAt(Children[e][k], kind, target))

\* What the interfaces hold.
ChildrenIn(own, chosen, key) ==
    {c \in Elems : /\ Type[c] = key.type /\ Level[c] = key.level
                   /\ \E e \in chosen : /\ c \in Members(Children[e])
                                        /\ e \in Members(own[KeyAt(e, key.kind, key.target)])}

Expected(own, chosen, T, ss, active, key) ==
    IF ss = "delete"
    THEN {e \in Members(own[key]) : e \notin chosen \/ <<"erase", e>> \in T}
    ELSE IF active \/ key.kind \notin Flat
         THEN Members(own[key])
         ELSE Members(own[key]) \cup ChildrenIn(own, chosen, key)

\* And in which order: first what was there, then the children, those of parents of
\* the same type in the order of the parents.
InOrder(s, x, y) == \E a, b \in DOMAIN s : a < b /\ s[a] = x /\ s[b] = y
ChildrenInOrder(own, key, x, y) ==
    \E e, f \in Elems : \E j \in DOMAIN Children[e], k \in DOMAIN Children[f] :
        /\ x = Children[e][j] /\ y = Children[f][k]
        /\ \/ Nr(Type[e]) < Nr(Type[f])
           \/ Type[e] = Type[f] /\ InOrder(own[KeyAt(e, key.kind, key.target)], e, f)
           \/ e = f /\ j < k
Precedes(own, key, x, y) ==
    \/ InOrder(own[key], x, y)
    \/ x \in Members(own[key]) /\ y \notin Members(own[key])
    \/ /\ x \notin Members(own[key]) /\ y \notin Members(own[key])
       /\ ChildrenInOrder(own, key, x, y)

HoldsExpected(L, own, chosen, T, ss, active) ==
    \A key \in Keys : ElemsOf(L, key) = Expected(own, chosen, T, ss, active, key)
HoldsInOrder(L, own) ==
    \A key \in Keys : \A j, k \in DOMAIN L[key].entries :
        j < k => Precedes(own, key, L[key].entries[j].elem[1], L[key].entries[k].elem[1])

Bound(n) == 1 + Cardinality(Elems) * n

Local(G, L, I, S, m, T, ss, active, n, own, held, chosen) ==
    /\ IsGrid(G) /\ IsLayout(L, G, Bound(IF active THEN n ELSE n + 1)) /\ IsInfo(I, L, S)
    /\ AreItems(S, G, L, I, T, chosen) /\ AreNumbered(S)
    /\ ss = "insert" /\ active => NoneMissing(S, L, T, chosen)
    /\ InPhase(m, T, S, ss, active)
    /\ AreTasks(G, T, ss, held, chosen) /\ IsHeld(G, T, ss, held, chosen)
    /\ Follow(G, L, IF ss = "insert" /\ active THEN chosen ELSE {})
    /\ HoldsExpected(L, own, chosen, T, ss, active) /\ HoldsInOrder(L, own)

\* At the beginning of the session the lists matched, every parent was somewhere, and
\* what was chosen had no children anywhere.
IsContext(lists, held, chosen) ==
    /\ \A p \in Procs : \A key \in Keys :
         /\ lists[p][key] \in Seq(held[p])
         /\ \A j, k \in DOMAIN lists[p][key] : lists[p][key][j] = lists[p][key][k] => j = k
         /\ lists[p][key] = lists[key.target][Opposite(p, key)]
    /\ \A p \in Procs : held[p] \subseteq Elems
    /\ \A p \in Procs, e \in Elems : \A k \in DOMAIN Children[e] :
         /\ Children[e][k] \in held[p] => \E q \in Procs : e \in held[q]
         /\ e \in chosen => Children[e][k] \notin held[p]
    /\ \A e \in chosen : e \in Elems /\ \E q \in Procs : e \in held[q]

IsShape ==
    /\ grid = [p \in Procs |-> grid[p]] /\ layout = [p \in Procs |-> layout[p]]
    /\ info = [p \in Procs |-> info[p]] /\ scheduled = [p \in Procs |-> scheduled[p]]
    /\ mode = [p \in Procs |-> mode[p]] /\ todo = [p \in Procs |-> todo[p]]
    /\ session \in {"insert", "delete"} /\ open \subseteq Procs /\ sessions \in 0 .. MaxSessions

Within(lists, held, chosen) ==
    /\ IsContext(lists, held, chosen)
    /\ \A p \in Procs :
         Local(grid[p], layout[p], info[p], scheduled[p], mode[p], todo[p],
               session, p \in open, sessions, lists[p], held[p], chosen)

DGInv == IsShape /\ \E lists, held, chosen : Within(lists, held, chosen)
-----------------------------------------------------------------------------
(* Keys, nodes and information.                                            *)

LEMMA SeqDomain ==
  ASSUME NEW X, NEW s \in Seq(X)
  PROVE  DOMAIN s = 1 .. Len(s) /\ Len(s) \in Nat /\ \A k \in DOMAIN s : s[k] \in X
  OBVIOUS

LEMMA SeqIs ==
  ASSUME NEW X, NEW N \in Nat, NEW s, s = [k \in 1 .. N |-> s[k]], \A k \in 1 .. N : s[k] \in X
  PROVE  s \in Seq(X) /\ Len(s) = N /\ DOMAIN s = 1 .. N
  OBVIOUS

LEMMA SeqWider ==
  ASSUME NEW X, NEW Y, X \subseteq Y, NEW s \in Seq(X)
  PROVE  s \in Seq(Y)
<1>1. s = [k \in 1 .. Len(s) |-> s[k]] /\ Len(s) \in Nat
  OBVIOUS
<1>2. \A k \in 1 .. Len(s) : s[k] \in Y
  OBVIOUS
<1> QED BY <1>1, <1>2, SeqIs

LEMMA EntryType ==
  ASSUME NEW X, NEW x, x = [elem |-> x.elem, localID |-> x.localID], x.elem \in X, x.localID \in Nat
  PROVE  x \in [elem : X, localID : Nat]
  OBVIOUS

LEMMA KindsAre == Members(Kinds) = {"HM", "HS", "VM", "VS"}
<1>1. DOMAIN Kinds = 1 .. 4 /\ Kinds[1] = "HM" /\ Kinds[2] = "HS" /\ Kinds[3] = "VM" /\ Kinds[4] = "VS"
  BY DEF Kinds
<1>2. \A k \in 1 .. 4 : k = 1 \/ k = 2 \/ k = 3 \/ k = 4
  OBVIOUS
<1>3. 1 \in 1 .. 4 /\ 2 \in 1 .. 4 /\ 3 \in 1 .. 4 /\ 4 \in 1 .. 4
  OBVIOUS
<1> QED BY <1>1, <1>2, <1>3 DEF Members

LEMMA KeyIs ==
  ASSUME NEW key \in Keys
  PROVE  /\ key = [type |-> key.type, level |-> key.level, kind |-> key.kind, target |-> key.target]
         /\ key.type \in {Type[e] : e \in Elems} /\ key.level \in Levels
         /\ key.kind \in {"HM", "HS", "VM", "VS"} /\ key.target \in Procs
  BY KindsAre DEF Keys, KeysFor

LEMMA KeyAtIn ==
  ASSUME NEW e \in Elems, NEW kind \in {"HM", "HS", "VM", "VS"}, NEW target \in Procs
  PROVE  /\ KeyAt(e, kind, target) \in Keys
         /\ KeyAt(e, kind, target).type = Type[e] /\ KeyAt(e, kind, target).level = Level[e]
         /\ KeyAt(e, kind, target).kind = kind /\ KeyAt(e, kind, target).target = target
  BY KindsAre DEF Keys, KeysFor, KeyAt, Levels

LEMMA IsKeyAt ==
  ASSUME NEW key \in Keys, NEW e, Type[e] = key.type, Level[e] = key.level
  PROVE  key = KeyAt(e, key.kind, key.target)
  BY KeyIs DEF KeyAt

LEMMA KeyForType ==
  ASSUME NEW e \in Elems, NEW key
  PROVE  key \in KeysFor({Type[e]}) <=> key \in Keys /\ key.type = Type[e]
  BY DEF Keys, KeysFor

LEMMA ObjectIs ==
  ASSUME NEW o \in Objects
  PROVE  o = <<o[1], o[2]>> /\ o[1] \in Elems /\ o[2] \in 0 .. 1
  BY DEF Objects

LEMMA IsNode ==
  ASSUME NEW L, NEW o \in Objects, NEW n
  PROVE  n \in NodesOf(L, o) <=>
           \E key \in Keys : /\ key.type = Type[o[1]]
                             /\ \E k \in DOMAIN L[key].entries :
                                  L[key].entries[k].elem = o /\ n = Node(key, L[key].entries[k])
<1>1. o[1] \in Elems
  BY ObjectIs
<1>2. n \in NodesOf(L, o) <=>
        \E key \in KeysFor({Type[o[1]]}) :
           \E k \in DOMAIN L[key].entries :
              L[key].entries[k].elem = o /\ n = Node(key, L[key].entries[k])
  BY DEF NodesOf, NodesIn
<1> QED BY <1>1, <1>2, KeyForType

\* What an entry of an interface is.
LEMMA EntryIs ==
  ASSUME NEW L, NEW G, NEW bound, IsGrid(G), IsLayout(L, G, bound),
         NEW key \in Keys, NEW k \in DOMAIN L[key].entries
  PROVE  /\ L[key].entries[k].elem \in G /\ L[key].entries[k].elem \in Objects
         /\ L[key].entries[k].elem[1] \in Elems
         /\ L[key].entries[k].localID \in Nat
         /\ L[key].entries[k] = [elem |-> L[key].entries[k].elem, localID |-> L[key].entries[k].localID]
         /\ key.type = Type[L[key].entries[k].elem[1]]
         /\ key.level = Level[L[key].entries[k].elem[1]]
         /\ key = KeyAt(L[key].entries[k].elem[1], key.kind, key.target)
         /\ key.kind \in {"HM", "HS", "VM", "VS"} /\ key.target \in Procs
         /\ L[key].entries[k].elem[1] \in ElemsOf(L, key)
<1>1. IsItf(G, bound, key, L[key])
  BY DEF IsLayout
<1>2. L[key].entries \in Seq([elem : G, localID : Nat])
  BY <1>1 DEF IsItf
<1>3. L[key].entries[k] \in [elem : G, localID : Nat]
  BY <1>2, SeqDomain
<1>4. L[key].entries[k].elem \in G /\ L[key].entries[k].localID \in Nat
      /\ L[key].entries[k] = [elem |-> L[key].entries[k].elem, localID |-> L[key].entries[k].localID]
  BY <1>3
<1>5. key.type = Type[L[key].entries[k].elem[1]] /\ key.level = Level[L[key].entries[k].elem[1]]
  BY <1>1 DEF IsItf
<1>6. L[key].entries[k].elem \in Objects
  BY <1>4 DEF IsGrid
<1> QED BY <1>4, <1>5, <1>6, ObjectIs, IsKeyAt, KeyIs DEF ElemsOf

LEMMA EntryElem ==
  ASSUME NEW L, NEW G, NEW bound, IsGrid(G), IsLayout(L, G, bound),
         NEW key \in Keys, NEW k \in DOMAIN L[key].entries
  PROVE  /\ L[key].entries[k].elem \in G /\ L[key].entries[k].elem \in Objects
         /\ L[key].entries[k].elem[1] \in Elems
         /\ L[key].entries[k].elem[1] \in ElemsOf(L, key)
         /\ L[key].entries[k].localID \in Nat
  BY EntryIs, ZenonT(30)

LEMMA EntryKey ==
  ASSUME NEW L, NEW G, NEW bound, IsGrid(G), IsLayout(L, G, bound),
         NEW key \in Keys, NEW k \in DOMAIN L[key].entries
  PROVE  /\ key.type = Type[L[key].entries[k].elem[1]]
         /\ key.level = Level[L[key].entries[k].elem[1]]
         /\ key.kind \in {"HM", "HS", "VM", "VS"} /\ key.target \in Procs
<1>1. IsItf(G, bound, key, L[key])
  BY DEF IsLayout
<1> QED BY <1>1, KeyIs DEF IsItf

LEMMA EntryKeyAt ==
  ASSUME NEW L, NEW G, NEW bound, IsGrid(G), IsLayout(L, G, bound),
         NEW key \in Keys, NEW k \in DOMAIN L[key].entries
  PROVE  key = KeyAt(L[key].entries[k].elem[1], key.kind, key.target)
  BY EntryIs, ZenonT(30)

\* The ids of an interface name its nodes.
LEMMA SameId ==
  ASSUME NEW L, NEW G, NEW bound, IsGrid(G), IsLayout(L, G, bound),
         NEW key \in Keys, NEW j \in DOMAIN L[key].entries, NEW k \in DOMAIN L[key].entries,
         L[key].entries[j].localID = L[key].entries[k].localID
  PROVE  j = k
<1>1. IsItf(G, bound, key, L[key])
  BY DEF IsLayout
<1>2. L[key].entries \in Seq([elem : G, localID : Nat])
  BY <1>1 DEF IsItf
<1>3. j \in Nat /\ k \in Nat
  BY <1>2
<1>4. L[key].entries[j].localID \in Nat
  BY EntryIs
<1>5. /\ j < k => L[key].entries[j].localID < L[key].entries[k].localID
      /\ k < j => L[key].entries[k].localID < L[key].entries[j].localID
  BY <1>1 DEF IsItf
<1> QED BY <1>3, <1>4, <1>5

LEMMA SameElem ==
  ASSUME NEW L, NEW G, NEW bound, IsGrid(G), IsLayout(L, G, bound),
         NEW key \in Keys, NEW j \in DOMAIN L[key].entries, NEW k \in DOMAIN L[key].entries,
         L[key].entries[j].elem[1] = L[key].entries[k].elem[1]
  PROVE  j = k
  BY DEF IsLayout, IsItf

LEMMA NodeOfEntry ==
  ASSUME NEW L, NEW G, NEW bound, IsGrid(G), IsLayout(L, G, bound), NEW o \in Objects,
         NEW key \in Keys, NEW k \in DOMAIN L[key].entries
  PROVE  Node(key, L[key].entries[k]) \in NodesOf(L, o) <=> L[key].entries[k].elem = o
<1>1. ASSUME Node(key, L[key].entries[k]) \in NodesOf(L, o)
      PROVE  L[key].entries[k].elem = o
  <2>1. PICK key2 \in Keys : \E j \in DOMAIN L[key2].entries :
               L[key2].entries[j].elem = o /\ Node(key, L[key].entries[k]) = Node(key2, L[key2].entries[j])
    BY <1>1, IsNode
  <2>2. PICK j \in DOMAIN L[key2].entries :
               L[key2].entries[j].elem = o /\ Node(key, L[key].entries[k]) = Node(key2, L[key2].entries[j])
    BY <2>1
  <2>3. key = key2 /\ L[key].entries[k].localID = L[key2].entries[j].localID
    BY <2>2 DEF Node
  <2>4. j = k
    BY <2>3, SameId
  <2> QED BY <2>2, <2>3, <2>4
<1>2. ASSUME L[key].entries[k].elem = o
      PROVE  Node(key, L[key].entries[k]) \in NodesOf(L, o)
  <2>1. key.type = Type[L[key].entries[k].elem[1]]
    BY EntryKey
  <2>2. key.type = Type[o[1]]
    BY <1>2, <2>1
  <2> QED BY <1>2, <2>2, IsNode
<1> QED BY <1>1, <1>2

LEMMA SameObject ==
  ASSUME NEW G, IsGrid(G), NEW a \in G, NEW b \in G, a[1] = b[1]
  PROVE  a = b
  BY DEF IsGrid

LEMMA InElems ==
  ASSUME NEW L, NEW G, NEW bound, IsGrid(G), IsLayout(L, G, bound), NEW key \in Keys, NEW o \in G
  PROVE  o[1] \in ElemsOf(L, key) <=> \E k \in DOMAIN L[key].entries : L[key].entries[k].elem = o
<1>1. \A k \in DOMAIN L[key].entries : L[key].entries[k].elem \in G
  BY EntryIs
<1>2. \A k \in DOMAIN L[key].entries : L[key].entries[k].elem[1] = o[1] => L[key].entries[k].elem = o
  BY <1>1, SameObject
<1> QED BY <1>2 DEF ElemsOf

\* The elements of an interface are those of the grid, of its type and level.
LEMMA ElemsAre ==
  ASSUME NEW L, NEW G, NEW bound, IsGrid(G), IsLayout(L, G, bound), NEW key \in Keys,
         NEW e \in ElemsOf(L, key)
  PROVE  /\ e \in Elems /\ e \in Now(G) /\ Type[e] = key.type /\ Level[e] = key.level
         /\ key = KeyAt(e, key.kind, key.target)
<1>1. PICK k \in DOMAIN L[key].entries : L[key].entries[k].elem[1] = e
  BY DEF ElemsOf
<1>2. /\ L[key].entries[k].elem \in G /\ L[key].entries[k].elem[1] \in Elems
      /\ key.type = Type[L[key].entries[k].elem[1]]
      /\ key.level = Level[L[key].entries[k].elem[1]]
      /\ key = KeyAt(L[key].entries[k].elem[1], key.kind, key.target)
  BY EntryElem, EntryKey, EntryKeyAt
<1> QED BY <1>1, <1>2 DEF Now

KindsOf(L, o) == {n.key.kind : n \in NodesOf(L, o)}

LEMMA IsKind ==
  ASSUME NEW L, NEW G, NEW bound, IsGrid(G), IsLayout(L, G, bound), NEW o \in G, NEW kind
  PROVE  kind \in KindsOf(L, o) <=>
           /\ kind \in {"HM", "HS", "VM", "VS"}
           /\ \E target \in Procs : o[1] \in ElemsOf(L, KeyAt(o[1], kind, target))
<1>0. o \in Objects /\ o[1] \in Elems
  BY ObjectIs DEF IsGrid
<1>1. ASSUME kind \in KindsOf(L, o)
      PROVE  /\ kind \in {"HM", "HS", "VM", "VS"}
             /\ \E target \in Procs : o[1] \in ElemsOf(L, KeyAt(o[1], kind, target))
  <2>1. PICK n \in NodesOf(L, o) : kind = n.key.kind
    BY <1>1 DEF KindsOf
  <2>2. PICK key \in Keys : \E k \in DOMAIN L[key].entries :
               L[key].entries[k].elem = o /\ n = Node(key, L[key].entries[k])
    BY <2>1, <1>0, IsNode
  <2>3. PICK k \in DOMAIN L[key].entries :
               L[key].entries[k].elem = o /\ n = Node(key, L[key].entries[k])
    BY <2>2
  <2>4. n.key = key
    BY <2>3 DEF Node
  <2>5. /\ key = KeyAt(L[key].entries[k].elem[1], key.kind, key.target)
        /\ key.kind \in {"HM", "HS", "VM", "VS"} /\ key.target \in Procs
        /\ L[key].entries[k].elem[1] \in ElemsOf(L, key)
    BY EntryIs, ZenonT(30)
  <2> QED BY <2>1, <2>3, <2>4, <2>5
<1>2. ASSUME kind \in {"HM", "HS", "VM", "VS"}, NEW target \in Procs,
             o[1] \in ElemsOf(L, KeyAt(o[1], kind, target))
      PROVE  kind \in KindsOf(L, o)
  <2> DEFINE key == KeyAt(o[1], kind, target)
  <2>1. key \in Keys /\ key.kind = kind /\ key.type = Type[o[1]]
    BY <1>0, <1>2, KeyAtIn
  <2>3. o[1] \in ElemsOf(L, key)
    BY <1>2
  <2> HIDE DEF key
  <2>2. PICK k \in DOMAIN L[key].entries : L[key].entries[k].elem = o
    BY <2>1, <2>3, InElems
  <2>4. Node(key, L[key].entries[k]) \in NodesOf(L, o)
    BY <1>0, <2>1, <2>2, IsNode
  <2>5. Node(key, L[key].entries[k]).key = key
    BY DEF Node
  <2> QED BY <2>1, <2>4, <2>5 DEF KindsOf
<1> QED BY <1>1, <1>2

\* An object of the grid is not on both sides.
LEMMA NotBoth ==
  ASSUME NEW L, NEW G, NEW bound, IsGrid(G), IsLayout(L, G, bound), NEW o \in G
  PROVE  ~ ("HM" \in KindsOf(L, o) /\ "HS" \in KindsOf(L, o))
<1>1. o[1] \in Elems
  BY ObjectIs DEF IsGrid
<1> QED BY <1>1, IsKind DEF IsLayout, OneSided

\* An object that is not in the grid has no nodes.
LEMMA NoNodes ==
  ASSUME NEW L, NEW G, NEW bound, IsGrid(G), IsLayout(L, G, bound), NEW o \in Objects, o \notin G
  PROVE  NodesOf(L, o) = {} /\ KindsOf(L, o) = {}
<1>1. ASSUME NEW n \in NodesOf(L, o) PROVE FALSE
  <2>1. PICK key \in Keys : \E k \in DOMAIN L[key].entries : L[key].entries[k].elem = o
    BY IsNode
  <2>2. \A k \in DOMAIN L[key].entries : L[key].entries[k].elem \in G
    BY EntryIs
  <2> QED BY <2>1, <2>2
<1> QED BY <1>1 DEF KindsOf

\* The information built from the interfaces.
LEMMA InfoIs ==
  ASSUME NEW L, NEW o \in Objects
  PROVE  /\ InfosFrom(L)[o].entries = NodesOf(L, o)
         /\ InfosFrom(L)[o].status =
              (IF "HS" \in KindsOf(L, o) THEN {"HS", "IN"}
               ELSE IF "HM" \in KindsOf(L, o) THEN {"HM", "IN"} ELSE {})
              \cup (KindsOf(L, o) \cap {"VM", "VS"})
         /\ InfosFrom(L)[o] = [status |-> InfosFrom(L)[o].status, entries |-> NodesOf(L, o)]
  BY DEF InfosFrom, KindsOf

LEMMA NoInfoThen ==
  ASSUME NEW L, NEW o \in Objects, NodesOf(L, o) = {}
  PROVE  InfosFrom(L)[o] = NoInfo
<1>1. KindsOf(L, o) = {}
  BY DEF KindsOf
<1>2. InfosFrom(L)[o].status = {}
  BY <1>1, InfoIs
<1> QED BY <1>2, InfoIs DEF NoInfo
-----------------------------------------------------------------------------
(* Parents and children.                                                   *)

LEMMA ChildIs ==
  ASSUME NEW e \in Elems, NEW k \in DOMAIN Children[e]
  PROVE  /\ Children[e][k] \in Elems /\ Level[Children[e][k]] = Level[e] + 1
         /\ Children[e][k] \in Members(Children[e]) /\ k \in Nat
         /\ Level[e] \in Nat /\ Type[Children[e][k]] \in Members(Types)
         /\ <<Children[e][k], 0>> \in Objects
<1>1. Children[e] \in Seq(Elems)
  BY DistributedGridAssumption
<1>2. Children[e][k] \in Elems /\ k \in Nat
  BY <1>1, SeqDomain
<1>3. Children[e][k] \in Members(Children[e])
  BY IsMember
<1>4. Level[Children[e][k]] = Level[e] + 1 /\ Level[e] \in Nat
  BY <1>3, DistributedGridAssumption
<1>5. Type[Children[e][k]] \in Members(Types)
  BY <1>2, DistributedGridAssumption
<1>6. <<Children[e][k], 0>> \in Objects
  BY <1>2 DEF Objects
<1> QED BY <1>2, <1>3, <1>4, <1>5, <1>6

LEMMA OneParent ==
  ASSUME NEW e \in Elems, NEW f \in Elems,
         NEW j \in DOMAIN Children[e], NEW k \in DOMAIN Children[f],
         Children[e][j] = Children[f][k]
  PROVE  e = f /\ j = k
  BY DistributedGridAssumption

\* The children of what was chosen were nowhere, and have no children.
LEMMA NewChild ==
  ASSUME NEW lists, NEW held, NEW chosen, IsContext(lists, held, chosen),
         NEW e \in chosen, NEW k \in DOMAIN Children[e]
  PROVE  /\ e \in Elems /\ Children[e][k] \notin chosen
         /\ \A p \in Procs : Children[e][k] \notin held[p]
         /\ \A p \in Procs : \A l \in DOMAIN Children[Children[e][k]] :
              Children[Children[e][k]][l] \notin held[p]
<1>1. e \in Elems
  BY DEF IsContext
<1>2. \A p \in Procs : Children[e][k] \notin held[p]
  BY <1>1 DEF IsContext
<1>3. Children[e][k] \notin chosen
  BY <1>2 DEF IsContext
<1>4. Children[e][k] \in Elems
  BY <1>1, ChildIs
<1>5. \A p \in Procs : \A l \in DOMAIN Children[Children[e][k]] :
        Children[Children[e][k]][l] \notin held[p]
  BY <1>2, <1>4 DEF IsContext
<1> QED BY <1>1, <1>2, <1>3, <1>5

\* What was there is not scheduled.
LEMMA NotScheduled ==
  ASSUME NEW lists, NEW held, NEW chosen, IsContext(lists, held, chosen), NEW p \in Procs,
         NEW G, NEW L, NEW I, NEW S, NEW T, AreItems(S, G, L, I, T, chosen),
         NEW o, o[1] \in held[p]
  PROVE  ~ IsScheduled(S, o)
<1>1. SUFFICES ASSUME NEW i \in S, i.obj = o PROVE FALSE
  BY DEF IsScheduled
<1>2. PICK e \in chosen, kind \in Flat, target \in Procs :
         \E k \in DOMAIN Children[e] : DueTo(i, L, e, k, kind, target)
  BY DEF AreItems
<1>3. PICK k \in DOMAIN Children[e] : DueTo(i, L, e, k, kind, target)
  BY <1>2
<1>4. i.obj = <<Children[e][k], 0>>
  BY <1>3 DEF DueTo
<1>5. Children[e][k] \notin held[p]
  BY NewChild
<1> QED BY <1>1, <1>4, <1>5

\* What there is something to do with is there.
LEMMA TaskIs ==
  ASSUME NEW held, NEW chosen, NEW G, NEW T, NEW ss \in {"insert", "delete"},
         AreTasks(G, T, ss, held, chosen), IsHeld(G, T, ss, held, chosen),
         NEW op, NEW e, <<op, e>> \in T
  PROVE  /\ e \in held /\ e \in Now(G)
         /\ \/ op = "replace" /\ (ss = "delete" => e \notin chosen)
            \/ /\ op = "refine" /\ ss = "insert" /\ e \in chosen
               /\ \A k \in DOMAIN Children[e] : Children[e][k] \notin Now(G)
            \/ op = "erase" /\ ss = "delete" /\ e \in chosen
<1>1. /\ e \in held
      /\ \/ op = "replace" /\ (ss = "delete" => e \notin chosen)
         \/ /\ op = "refine" /\ ss = "insert" /\ e \in chosen
            /\ \A k \in DOMAIN Children[e] : Children[e][k] \notin Now(G)
         \/ op = "erase" /\ ss = "delete" /\ e \in chosen
  BY DEF AreTasks
<1>2. CASE ss = "insert"
  BY <1>1, <1>2 DEF IsHeld
<1>3. CASE ss = "delete"
  BY <1>1, <1>3 DEF IsHeld
<1> QED BY <1>1, <1>2, <1>3

\* The object of an element.
LEMMA ObjectOfIs ==
  ASSUME NEW p, IsGrid(grid[p]), NEW e \in Now(grid[p])
  PROVE  /\ ObjectOf(p, e) \in grid[p] /\ ObjectOf(p, e)[1] = e
         /\ ObjectOf(p, e) \in Objects /\ e \in Elems
<1>1. \E o \in grid[p] : o[1] = e
  BY DEF Now
<1>2. ObjectOf(p, e) \in grid[p] /\ ObjectOf(p, e)[1] = e
  BY <1>1 DEF ObjectOf
<1>3. ObjectOf(p, e) \in Objects
  BY <1>2 DEF IsGrid
<1> QED BY <1>2, <1>3, ObjectIs

LEMMA HasIs ==
  ASSUME NEW p, NEW e
  PROVE  Has(p, e) <=> e \in Now(grid[p])
  BY DEF Has, Now

-----------------------------------------------------------------------------
(* The bounds of the ids.                                                  *)

LEMMA BoundIs ==
  ASSUME NEW n \in Nat
  PROVE  /\ Cardinality(Elems) \in Nat /\ Bound(n) \in Nat /\ Bound(n + 1) \in Nat
         /\ 0 < Bound(n)
         /\ Bound(n + 1) = Bound(n) + Cardinality(Elems)
         /\ n <= MaxSessions => Bound(n + 1) < IdLimit
<1> DEFINE c == Cardinality(Elems)
           x == c * n
           y == c * (n + 1)
           z == c * (MaxSessions + 1)
<1>1. c \in Nat
  BY DistributedGridAssumption, FS_CardinalityType
<1>2. Bound(n) = 1 + x /\ Bound(n + 1) = 1 + y
  BY DEF Bound
<1>3. 1 + z < IdLimit
  BY IdsAssumption
<1>5. MaxSessions \in Nat /\ IdLimit \in Nat
  BY DistributedGridAssumption, IdLimitAssumption
<1> HIDE DEF c
<1>4. y = x + c /\ x \in Nat /\ y \in Nat
  BY <1>1
<1>6. ASSUME n <= MaxSessions PROVE y <= z /\ z \in Nat
  <2> DEFINE d == MaxSessions - n
  <2>1. d \in Nat /\ MaxSessions + 1 = (n + 1) + d
    BY <1>5, <1>6
  <2> HIDE DEF d
  <2>2. z = y + c * d /\ c * d \in Nat
    BY <1>1, <2>1
  <2> DEFINE w == c * d
  <2>3. z = y + w /\ w \in Nat
    BY <2>2
  <2> HIDE DEF w, z, y
  <2> QED BY <2>3, <1>4
<1>7. /\ c \in Nat /\ Bound(n) \in Nat /\ Bound(n + 1) \in Nat
      /\ 0 < Bound(n) /\ Bound(n + 1) = Bound(n) + c
  <2> HIDE DEF x, y
  <2> QED BY <1>1, <1>2, <1>4
<1>8. ASSUME n <= MaxSessions PROVE Bound(n + 1) < IdLimit
  <2>1. y <= z /\ z \in Nat
    BY <1>6, <1>8
  <2> HIDE DEF y, z
  <2> QED BY <1>2, <1>3, <1>4, <1>5, <2>1
<1> QED BY <1>7, <1>8 DEF c

LEMMA BoundGrows ==
  ASSUME NEW L, NEW G, NEW a \in Nat, NEW b \in Nat, a <= b, IsLayout(L, G, a)
  PROVE  IsLayout(L, G, b)
<1>1. ASSUME NEW key \in Keys PROVE IsItf(G, b, key, L[key])
  <2>1. IsItf(G, a, key, L[key])
    BY DEF IsLayout
  <2>2. L[key].idCounter <= b
    BY <2>1 DEF IsItf
  <2> QED BY <2>1, <2>2 DEF IsItf
<1> QED BY <1>1 DEF IsLayout

-----------------------------------------------------------------------------
(* The steps that change no interface.                                     *)

LEMMA BeginKeeps ==
  ASSUME NEW G, NEW L, NEW I, NEW S, NEW T, NEW ss \in {"insert", "delete"}, NEW n,
         NEW own, NEW held, NEW chosen,
         Local(G, L, I, S, "none", T, ss, TRUE, n, own, held, chosen)
  PROVE  Local(G, L, I, S, ss, T, ss, TRUE, n, own, held, chosen)
<1>1. InPhase("none", T, S, ss, TRUE)
  BY DEF Local
<1>2. InPhase(ss, T, S, ss, TRUE)
  BY <1>1 DEF InPhase
<1> QED BY <1>2 DEF Local

LEMMA EndDeletionKeeps ==
  ASSUME NEW G, NEW L, NEW I, NEW S, NEW n \in Nat, NEW active \in BOOLEAN,
         NEW ss \in {"insert", "delete"}, NEW own, NEW held, NEW chosen,
         Local(G, L, I, S, "delete", {}, ss, active, n, own, held, chosen)
  PROVE  Local(G, L, I, S, "none", {}, ss, FALSE, n, own, held, chosen)
<1>1. /\ IsGrid(G) /\ IsLayout(L, G, Bound(IF active THEN n ELSE n + 1)) /\ IsInfo(I, L, S)
      /\ AreItems(S, G, L, I, {}, chosen) /\ AreNumbered(S)
      /\ InPhase("delete", {}, S, ss, active)
      /\ AreTasks(G, {}, ss, held, chosen) /\ IsHeld(G, {}, ss, held, chosen)
      /\ Follow(G, L, IF ss = "insert" /\ active THEN chosen ELSE {})
      /\ HoldsExpected(L, own, chosen, {}, ss, active) /\ HoldsInOrder(L, own)
  BY DEF Local
<1>2. ss = "delete" /\ active = TRUE /\ S = {}
  BY <1>1 DEF InPhase
<1>3. InPhase("none", {}, S, ss, FALSE)
  BY <1>2 DEF InPhase
<1>4. IsLayout(L, G, Bound(n + 1))
  <2>1. /\ Bound(n) \in Nat /\ Bound(n + 1) \in Nat /\ Cardinality(Elems) \in Nat
        /\ Bound(n + 1) = Bound(n) + Cardinality(Elems)
    BY BoundIs
  <2>2. Bound(n) <= Bound(n + 1)
    BY <2>1
  <2>3. IsLayout(L, G, Bound(n))
    BY <1>1, <1>2
  <2> QED BY <2>1, <2>2, <2>3, BoundGrows
<1>5. HoldsExpected(L, own, chosen, {}, ss, FALSE)
  BY <1>1, <1>2 DEF HoldsExpected, Expected
<1>6. Follow(G, L, {})
  BY <1>1, <1>2
<1> QED BY <1>1, <1>2, <1>3, <1>4, <1>5, <1>6 DEF Local

LEMMA LayoutsChangedKeeps ==
  ASSUME NEW G, NEW L, NEW I, NEW S, NEW m, NEW T, NEW ss \in {"insert", "delete"}, NEW n,
         NEW own, NEW held, NEW chosen,
         Local(G, L, I, S, m, T, ss, FALSE, n, own, held, chosen)
  PROVE  Local(G, L, InfosFrom(L), S, m, T, ss, FALSE, n, own, held, chosen)
<1>1. InPhase(m, T, S, ss, FALSE)
  BY DEF Local
<1>2. S = {}
  BY <1>1 DEF InPhase
<1>3. InfosFrom(L) = [o \in Objects |-> InfosFrom(L)[o]]
  BY DEF InfosFrom
<1>4. IsInfo(InfosFrom(L), L, S)
  BY <1>2, <1>3 DEF IsInfo, IsScheduled
<1>5. AreItems(S, G, L, InfosFrom(L), T, chosen)
  BY <1>2 DEF AreItems
<1> QED BY <1>4, <1>5 DEF Local
-----------------------------------------------------------------------------
(* Replacing an object.                                                    *)

LEMMA SetEntries ==
  ASSUME NEW F, NEW z, F = [entries |-> F.entries, idCounter |-> F.idCounter]
  PROVE  [F EXCEPT !.entries = z] = [entries |-> z, idCounter |-> F.idCounter]
  OBVIOUS

LEMMA SetElem ==
  ASSUME NEW F, NEW z, F = [elem |-> F.elem, localID |-> F.localID]
  PROVE  [F EXCEPT !.elem = z] = [elem |-> z, localID |-> F.localID]
  OBVIOUS

\* Interfaces that name the same elements with the same ids.
SameLists(L1, L2) ==
    \A key \in Keys :
        /\ DOMAIN L1[key].entries = DOMAIN L2[key].entries
        /\ \A k \in DOMAIN L2[key].entries :
             /\ L1[key].entries[k].elem[1] = L2[key].entries[k].elem[1]
             /\ L1[key].entries[k].localID = L2[key].entries[k].localID

LEMMA SameElemsOf ==
  ASSUME NEW L1, NEW L2, SameLists(L1, L2), NEW key \in Keys
  PROVE  ElemsOf(L1, key) = ElemsOf(L2, key)
  BY DEF SameLists, ElemsOf

LEMMA SameDue ==
  ASSUME NEW L1, NEW L2, SameLists(L1, L2), NEW i, NEW e \in Elems, NEW k,
         NEW kind \in Flat, NEW target \in Procs, DueTo(i, L2, e, k, kind, target)
  PROVE  DueTo(i, L1, e, k, kind, target)
<1> DEFINE key == KeyAt(e, kind, target)
<1>1. key \in Keys
  BY KeyAtIn DEF Flat
<1>2. PICK n \in DOMAIN L2[key].entries :
         /\ L2[key].entries[n].elem[1] = e
         /\ i = [map |-> Type[e], id |-> L2[key].entries[n].localID,
                 nr |-> i.nr, obj |-> <<Children[e][k], 0>>, target |-> target]
  BY DEF DueTo
<1>3. i.nr \in Nat
  BY DEF DueTo
<1>4. n \in DOMAIN L1[key].entries /\ L1[key].entries[n].elem[1] = e
      /\ L1[key].entries[n].localID = L2[key].entries[n].localID
  <2> HIDE DEF key
  <2> QED BY <1>1, <1>2 DEF SameLists
<1>5. i = [map |-> Type[e], id |-> L1[key].entries[n].localID,
           nr |-> i.nr, obj |-> <<Children[e][k], 0>>, target |-> target]
  <2> HIDE DEF key
  <2> QED BY <1>2, <1>4
<1> QED BY <1>3, <1>4, <1>5 DEF DueTo

LEMMA RepointedAt ==
  ASSUME NEW L, NEW G, NEW bound, IsGrid(G), IsLayout(L, G, bound),
         NEW old \in Objects, NEW new, NEW key \in Keys
  PROVE  /\ Repointed(L, NodesOf(L, old), new)[key] =
              [entries   |-> Repointed(L, NodesOf(L, old), new)[key].entries,
               idCounter |-> L[key].idCounter]
         /\ DOMAIN Repointed(L, NodesOf(L, old), new)[key].entries = DOMAIN L[key].entries
         /\ Repointed(L, NodesOf(L, old), new)[key].entries =
              [k \in DOMAIN L[key].entries |->
                  [elem |-> IF L[key].entries[k].elem = old THEN new ELSE L[key].entries[k].elem,
                   localID |-> L[key].entries[k].localID]]
<1> DEFINE F == L[key]
           nodes == NodesOf(L, old)
           at(k) == IF Node(key, F.entries[k]) \in nodes
                    THEN [F.entries[k] EXCEPT !.elem = new] ELSE F.entries[k]
           z == [k \in DOMAIN F.entries |-> at(k)]
           at2(k) == [elem |-> IF F.entries[k].elem = old THEN new ELSE F.entries[k].elem,
                      localID |-> F.entries[k].localID]
           R == Repointed(L, nodes, new)[key]
<1>1. R = [F EXCEPT !.entries = z]
  BY DEF Repointed
<1>2. F = [entries |-> F.entries, idCounter |-> F.idCounter]
  BY DEF IsLayout, IsItf
<1>3. R = [entries |-> z, idCounter |-> F.idCounter]
  <2> HIDE DEF F, z, R
  <2> QED BY <1>1, <1>2, SetEntries
<1>4. ASSUME NEW k \in DOMAIN F.entries
      PROVE  at(k) = at2(k)
  <2> DEFINE x == F.entries[k]
  <2>1. x = [elem |-> x.elem, localID |-> x.localID]
    BY EntryIs
  <2>2. Node(key, x) \in nodes <=> x.elem = old
    BY NodeOfEntry
  <2>3. [x EXCEPT !.elem = new] = [elem |-> new, localID |-> x.localID]
    <3> HIDE DEF x
    <3> QED BY <2>1, SetElem
  <2>4. at(k) = IF Node(key, x) \in nodes THEN [x EXCEPT !.elem = new] ELSE x
    OBVIOUS
  <2>5. at2(k) = [elem |-> IF x.elem = old THEN new ELSE x.elem, localID |-> x.localID]
    OBVIOUS
  <2> HIDE DEF x, at, at2, nodes
  <2>6. CASE x.elem = old
    <3>1. at(k) = [elem |-> new, localID |-> x.localID]
      BY <2>2, <2>3, <2>4, <2>6
    <3> QED BY <2>5, <2>6, <3>1
  <2>7. CASE x.elem # old
    <3>1. at(k) = x
      BY <2>2, <2>4, <2>7
    <3>2. at2(k) = [elem |-> x.elem, localID |-> x.localID]
      BY <2>5, <2>7
    <3> QED BY <2>1, <3>1, <3>2
  <2> QED BY <2>6, <2>7
<1>5. z = [k \in DOMAIN F.entries |-> at2(k)]
  <2> HIDE DEF at, at2, F
  <2> QED BY <1>4
<1> HIDE DEF R, z
<1>6. R.entries = z /\ R = [entries |-> R.entries, idCounter |-> F.idCounter]
  BY <1>3
<1>7. R.entries = [k \in DOMAIN F.entries |-> at2(k)] /\ DOMAIN R.entries = DOMAIN F.entries
  BY <1>5, <1>6
<1> QED BY <1>6, <1>7 DEF R

LEMMA RepointedEntry ==
  ASSUME NEW L, NEW G, NEW bound, IsGrid(G), IsLayout(L, G, bound),
         NEW old \in Objects, NEW new, NEW key \in Keys,
         NEW R, R = Repointed(L, NodesOf(L, old), new)[key]
  PROVE  /\ R = [entries |-> R.entries, idCounter |-> R.idCounter]
         /\ R.idCounter = L[key].idCounter
         /\ DOMAIN R.entries = DOMAIN L[key].entries
         /\ R.entries = [k \in DOMAIN L[key].entries |-> R.entries[k]]
         /\ \A k \in DOMAIN L[key].entries :
              /\ R.entries[k].elem = IF L[key].entries[k].elem = old THEN new ELSE L[key].entries[k].elem
              /\ R.entries[k].localID = L[key].entries[k].localID
              /\ R.entries[k] = [elem |-> R.entries[k].elem, localID |-> R.entries[k].localID]
<1> DEFINE F == L[key].entries
           at2(k) == [elem |-> IF F[k].elem = old THEN new ELSE F[k].elem, localID |-> F[k].localID]
<1>1. /\ R = [entries |-> R.entries, idCounter |-> L[key].idCounter]
      /\ DOMAIN R.entries = DOMAIN F
      /\ R.entries = [k \in DOMAIN F |-> at2(k)]
  BY RepointedAt
<1>2. ASSUME NEW k \in DOMAIN F
      PROVE  /\ R.entries[k].elem = IF F[k].elem = old THEN new ELSE F[k].elem
             /\ R.entries[k].localID = F[k].localID
             /\ R.entries[k] = [elem |-> R.entries[k].elem, localID |-> R.entries[k].localID]
  <2>1. R.entries[k] = at2(k)
    <3> HIDE DEF F, at2
    <3> QED BY <1>1
  <2> HIDE DEF F
  <2> QED BY <2>1
<1>3. R.idCounter = L[key].idCounter
  BY <1>1
<1>4. R.entries = [k \in DOMAIN F |-> R.entries[k]]
  <2> HIDE DEF F, at2
  <2> QED BY <1>1
<1>5. R = [entries |-> R.entries, idCounter |-> R.idCounter]
  BY <1>1, <1>3
<1> HIDE DEF at2
<1> QED BY <1>1, <1>2, <1>3, <1>4, <1>5

LEMMA SameInfo ==
  ASSUME NEW L1, NEW L2, NEW o1 \in Objects, NEW o2 \in Objects, NodesOf(L1, o1) = NodesOf(L2, o2)
  PROVE  InfosFrom(L1)[o1] = InfosFrom(L2)[o2] /\ KindsOf(L1, o1) = KindsOf(L2, o2)
  BY DEF InfosFrom, KindsOf

IsReplaced(G, L, I, T, old, new, G1, L1, I1, T1) ==
    /\ old \in G /\ <<"replace", old[1]>> \in T /\ new = <<old[1], 1 - old[2]>>
    /\ G1 = (G \ {old}) \cup {new} /\ L1 = Repointed(L, I[old].entries, new)
    /\ I1 = [I EXCEPT ![new] = I[old], ![old] = NoInfo]
    /\ T1 = T \ {<<"replace", old[1]>>}

LEMMA ReplaceKeeps ==
  ASSUME NEW lists, NEW held, NEW chosen, IsContext(lists, held, chosen), NEW p \in Procs,
         NEW G, NEW L, NEW I, NEW S, NEW m, NEW T, NEW ss \in {"insert", "delete"},
         NEW active \in BOOLEAN, NEW n,
         Local(G, L, I, S, m, T, ss, active, n, lists[p], held[p], chosen),
         NEW old, NEW new, NEW G1, NEW L1, NEW I1, NEW T1,
         IsReplaced(G, L, I, T, old, new, G1, L1, I1, T1)
  PROVE  Local(G1, L1, I1, S, m, T1, ss, active, n, lists[p], held[p], chosen)
<1>0. /\ old \in G /\ <<"replace", old[1]>> \in T /\ new = <<old[1], 1 - old[2]>>
      /\ G1 = (G \ {old}) \cup {new} /\ L1 = Repointed(L, I[old].entries, new)
      /\ I1 = [I EXCEPT ![new] = I[old], ![old] = NoInfo]
      /\ T1 = T \ {<<"replace", old[1]>>}
  BY DEF IsReplaced
<1> USE <1>0
<1> DEFINE bound == Bound(IF active THEN n ELSE n + 1)
           except == IF ss = "insert" /\ active THEN chosen ELSE {}
<1>1. /\ IsGrid(G) /\ IsLayout(L, G, bound) /\ IsInfo(I, L, S)
      /\ AreItems(S, G, L, I, T, chosen) /\ AreNumbered(S)
      /\ ss = "insert" /\ active => NoneMissing(S, L, T, chosen)
      /\ InPhase(m, T, S, ss, active)
      /\ AreTasks(G, T, ss, held[p], chosen) /\ IsHeld(G, T, ss, held[p], chosen)
      /\ Follow(G, L, except)
      /\ HoldsExpected(L, lists[p], chosen, T, ss, active) /\ HoldsInOrder(L, lists[p])
  BY DEF Local
<1> HIDE DEF bound, except
<1>2. /\ old \in Objects /\ old = <<old[1], old[2]>> /\ old[1] \in Elems
      /\ new \in Objects /\ new[1] = old[1] /\ new # old /\ new \notin G
  <2>1. old \in Objects
    BY <1>1 DEF IsGrid
  <2>2. old = <<old[1], old[2]>> /\ old[1] \in Elems /\ old[2] \in 0 .. 1
    BY <2>1, ObjectIs
  <2>3. 1 - old[2] \in 0 .. 1 /\ 1 - old[2] # old[2]
    BY <2>2
  <2>4. new \in Objects /\ new[1] = old[1] /\ new[2] # old[2]
    BY <2>2, <2>3 DEF Objects
  <2>5. new # old
    BY <2>4
  <2>6. new \notin G
    BY <1>1, <2>4, <2>5, SameObject
  <2> QED BY <2>1, <2>2, <2>4, <2>5, <2>6
<1>3. Now(G1) = Now(G)
  BY <1>2 DEF Now
<1>4. IsGrid(G1)
  <2>1. G1 \subseteq Objects
    BY <1>1, <1>2 DEF IsGrid
  <2>2. ASSUME NEW a \in G1, NEW b \in G1, a[1] = b[1] PROVE a = b
    <3>1. ASSUME NEW c \in G1 PROVE c = new \/ (c \in G /\ c # old /\ c[1] # old[1])
      BY <1>1, SameObject
    <3> QED BY <1>1, <1>2, <2>2, <3>1, SameObject
  <2> QED BY <2>1, <2>2 DEF IsGrid
<1>5. old[1] \in held[p]
  BY <1>1, TaskIs
<1>6. ~ IsScheduled(S, old) /\ ~ IsScheduled(S, new)
  BY <1>1, <1>2, <1>5, NotScheduled
<1>7. I[old] = InfosFrom(L)[old] /\ I[old].entries = NodesOf(L, old)
  <2>1. I[old] = InfosFrom(L)[old]
    BY <1>1, <1>2, <1>6 DEF IsInfo
  <2>2. InfosFrom(L)[old].entries = NodesOf(L, old)
    BY <1>2, InfoIs
  <2> QED BY <2>1, <2>2
<1>8. L1 = [key \in Keys |-> L1[key]] /\ L1 = Repointed(L, NodesOf(L, old), new)
  <2>1. L1 = Repointed(L, NodesOf(L, old), new)
    BY <1>7
  <2> QED BY <2>1 DEF Repointed
<1>9. ASSUME NEW key \in Keys
      PROVE  /\ L1[key] = [entries |-> L1[key].entries, idCounter |-> L1[key].idCounter]
             /\ L1[key].idCounter = L[key].idCounter
             /\ DOMAIN L1[key].entries = DOMAIN L[key].entries
             /\ L1[key].entries = [k \in DOMAIN L[key].entries |-> L1[key].entries[k]]
             /\ \A k \in DOMAIN L[key].entries :
                  /\ L1[key].entries[k].elem =
                       IF L[key].entries[k].elem = old THEN new ELSE L[key].entries[k].elem
                  /\ L1[key].entries[k].localID = L[key].entries[k].localID
                  /\ L1[key].entries[k] = [elem |-> L1[key].entries[k].elem,
                                           localID |-> L1[key].entries[k].localID]
  <2> DEFINE R == L1[key]
  <2>1. R = Repointed(L, NodesOf(L, old), new)[key]
    BY <1>8
  <2> HIDE DEF R
  <2>2. /\ R = [entries |-> R.entries, idCounter |-> R.idCounter]
        /\ R.idCounter = L[key].idCounter
        /\ DOMAIN R.entries = DOMAIN L[key].entries
        /\ R.entries = [k \in DOMAIN L[key].entries |-> R.entries[k]]
        /\ \A k \in DOMAIN L[key].entries :
              /\ R.entries[k].elem = IF L[key].entries[k].elem = old THEN new ELSE L[key].entries[k].elem
              /\ R.entries[k].localID = L[key].entries[k].localID
              /\ R.entries[k] = [elem |-> R.entries[k].elem, localID |-> R.entries[k].localID]
    BY <1>1, <1>2, <2>1, RepointedEntry, SMTT(40)
  <2> QED BY <2>2 DEF R
<1>9a. \A key \in Keys : L1[key] = [entries |-> L1[key].entries, idCounter |-> L1[key].idCounter]
  BY <1>9
<1>9b. \A key \in Keys : L1[key].idCounter = L[key].idCounter
  BY <1>9
<1>9c. \A key \in Keys : DOMAIN L1[key].entries = DOMAIN L[key].entries
  BY <1>9
<1>9d. \A key \in Keys : L1[key].entries = [k \in DOMAIN L[key].entries |-> L1[key].entries[k]]
  BY <1>9
<1>9e. \A key \in Keys : \A k \in DOMAIN L[key].entries :
          /\ L[key].entries[k].elem = old => L1[key].entries[k].elem = new
          /\ L[key].entries[k].elem # old => L1[key].entries[k].elem = L[key].entries[k].elem
  BY <1>9
<1>9f. \A key \in Keys : \A k \in DOMAIN L[key].entries :
          L1[key].entries[k].localID = L[key].entries[k].localID
  BY <1>9
<1>9g. \A key \in Keys : \A k \in DOMAIN L[key].entries :
          L1[key].entries[k] = [elem |-> L1[key].entries[k].elem, localID |-> L1[key].entries[k].localID]
  BY <1>9
<1>9h. \A key \in Keys : \A k \in DOMAIN L[key].entries :
          L1[key].entries[k].elem[1] = L[key].entries[k].elem[1]
  BY <1>9e, <1>2
<1>10. SameLists(L1, L)
  BY <1>9c, <1>9f, <1>9h DEF SameLists
<1>11. \A key \in Keys : ElemsOf(L1, key) = ElemsOf(L, key)
  BY <1>10, SameElemsOf
<1>12. IsLayout(L1, G1, bound)
  <2>1. ASSUME NEW key \in Keys PROVE IsItf(G1, bound, key, L1[key])
    <3>1. IsItf(G, bound, key, L[key])
      BY <1>1 DEF IsLayout
    <3>2. L[key].entries \in Seq([elem : G, localID : Nat])
      BY <3>1 DEF IsItf
    <3>3. DOMAIN L[key].entries = 1 .. Len(L[key].entries) /\ Len(L[key].entries) \in Nat
      BY <3>2, SeqDomain
    <3>4. ASSUME NEW k \in DOMAIN L[key].entries
          PROVE  L1[key].entries[k] \in [elem : G1, localID : Nat]
      <4>1. L[key].entries[k].elem \in G /\ L[key].entries[k].localID \in Nat
        BY <1>1, EntryElem
      <4>2. L1[key].entries[k].elem \in G1 /\ L1[key].entries[k].localID \in Nat
        BY <4>1, <1>9e, <1>9f
      <4>3. L1[key].entries[k] = [elem |-> L1[key].entries[k].elem, localID |-> L1[key].entries[k].localID]
        BY <1>9g
      <4> QED BY <4>2, <4>3, EntryType
    <3>5. L1[key].entries \in Seq([elem : G1, localID : Nat])
      <4> DEFINE s == L1[key].entries
                 N == Len(L[key].entries)
      <4>1. s = [k \in 1 .. N |-> s[k]]
        BY <1>9d, <3>3
      <4>2. \A k \in 1 .. N : s[k] \in [elem : G1, localID : Nat]
        BY <3>3, <3>4
      <4>3. N \in Nat
        BY <3>3
      <4> HIDE DEF s, N
      <4>4. s \in Seq([elem : G1, localID : Nat])
        BY <4>1, <4>2, <4>3, SeqIs
      <4> QED BY <4>4 DEF s
    <3>6. L1[key].idCounter = L[key].idCounter
      BY <1>9b
    <3>7. L1[key] = [entries |-> L1[key].entries, idCounter |-> L1[key].idCounter]
      BY <1>9a
    <3>8. /\ L1[key].idCounter \in Nat /\ 0 < L1[key].idCounter /\ L1[key].idCounter <= bound
      BY <3>1, <3>6 DEF IsItf
    <3>9. \A k \in DOMAIN L1[key].entries :
             /\ L1[key].entries[k].localID < L1[key].idCounter
             /\ Type[L1[key].entries[k].elem[1]] = key.type /\ Level[L1[key].entries[k].elem[1]] = key.level
      <4> DEFINE E == L[key].entries
                 F == L1[key].entries
      <4>1. \A k \in DOMAIN E : /\ E[k].localID < L[key].idCounter
                                /\ Type[E[k].elem[1]] = key.type /\ Level[E[k].elem[1]] = key.level
        BY <3>1 DEF IsItf
      <4>2. DOMAIN F = DOMAIN E
            /\ \A k \in DOMAIN E : F[k].localID = E[k].localID /\ F[k].elem[1] = E[k].elem[1]
        BY <1>9c, <1>9f, <1>9h
      <4> HIDE DEF E, F
      <4>3. \A k \in DOMAIN F : /\ F[k].localID < L1[key].idCounter
                                /\ Type[F[k].elem[1]] = key.type /\ Level[F[k].elem[1]] = key.level
        BY <4>1, <4>2, <3>6
      <4> QED BY <4>3 DEF F
    <3>10. \A j, k \in DOMAIN L1[key].entries :
             /\ j < k => L1[key].entries[j].localID < L1[key].entries[k].localID
             /\ L1[key].entries[j].elem[1] = L1[key].entries[k].elem[1] => j = k
      <4> DEFINE E == L[key].entries
                 F == L1[key].entries
      <4>1. \A j, k \in DOMAIN E : /\ j < k => E[j].localID < E[k].localID
                                   /\ E[j].elem[1] = E[k].elem[1] => j = k
        BY <3>1 DEF IsItf
      <4>2. DOMAIN F = DOMAIN E
            /\ \A k \in DOMAIN E : F[k].localID = E[k].localID /\ F[k].elem[1] = E[k].elem[1]
        BY <1>9c, <1>9f, <1>9h
      <4> HIDE DEF E, F
      <4>3. \A j, k \in DOMAIN F : /\ j < k => F[j].localID < F[k].localID
                                   /\ F[j].elem[1] = F[k].elem[1] => j = k
        BY <4>1, <4>2
      <4> QED BY <4>3 DEF F
    <3> QED BY <3>5, <3>7, <3>8, <3>9, <3>10 DEF IsItf
  <2>2. OneSided(L1)
    <3>1. \A e \in Elems, q \in Procs : /\ ElemsOf(L1, KeyAt(e, "HM", q)) = ElemsOf(L, KeyAt(e, "HM", q))
                                        /\ ElemsOf(L1, KeyAt(e, "HS", q)) = ElemsOf(L, KeyAt(e, "HS", q))
      BY <1>11, KeyAtIn
    <3> QED BY <1>1, <3>1 DEF IsLayout, OneSided
  <2> QED BY <1>8, <2>1, <2>2 DEF IsLayout
<1>13. ASSUME NEW key \in Keys, NEW k \in DOMAIN L[key].entries
       PROVE  Node(key, L1[key].entries[k]) = Node(key, L[key].entries[k])
  BY <1>9f DEF Node
<1>14. /\ \A o \in Objects : o # old /\ o # new => NodesOf(L1, o) = NodesOf(L, o)
       /\ NodesOf(L1, new) = NodesOf(L, old) /\ NodesOf(L1, old) = {}
  <2>1. ASSUME NEW o \in Objects, NEW x
        PROVE  x \in NodesOf(L1, o) <=>
                 \E key \in Keys : /\ key.type = Type[o[1]]
                                   /\ \E k \in DOMAIN L[key].entries :
                                        /\ L1[key].entries[k].elem = o
                                        /\ x = Node(key, L[key].entries[k])
    <3>1. x \in NodesOf(L1, o) <=>
            \E key \in Keys : /\ key.type = Type[o[1]]
                              /\ \E k \in DOMAIN L1[key].entries :
                                   L1[key].entries[k].elem = o /\ x = Node(key, L1[key].entries[k])
      BY IsNode, SMTT(40)
    <3> QED BY <3>1, <1>9c, <1>13, SMTT(40)
  <2>2. ASSUME NEW o \in Objects, o # old, o # new, NEW x
        PROVE  x \in NodesOf(L1, o) <=> x \in NodesOf(L, o)
    <3>1. \A key \in Keys : \A k \in DOMAIN L[key].entries :
             L1[key].entries[k].elem = o <=> L[key].entries[k].elem = o
      BY <1>9e, <2>2
    <3>2. x \in NodesOf(L, o) <=>
            \E key \in Keys : /\ key.type = Type[o[1]]
                              /\ \E k \in DOMAIN L[key].entries :
                                   L[key].entries[k].elem = o /\ x = Node(key, L[key].entries[k])
      BY IsNode
    <3> QED BY <3>1, <3>2, <2>1, SMTT(40)
  <2>3. \A key \in Keys : \A k \in DOMAIN L[key].entries :
           L[key].entries[k].elem \in G
    BY <1>1, EntryElem
  <2>4. ASSUME NEW x PROVE x \in NodesOf(L1, new) <=> x \in NodesOf(L, old)
    <3>1. \A key \in Keys : \A k \in DOMAIN L[key].entries :
             L1[key].entries[k].elem = new <=> L[key].entries[k].elem = old
      BY <1>2, <1>9e, <2>3
    <3>2. x \in NodesOf(L, old) <=>
            \E key \in Keys : /\ key.type = Type[old[1]]
                              /\ \E k \in DOMAIN L[key].entries :
                                   L[key].entries[k].elem = old /\ x = Node(key, L[key].entries[k])
      BY <1>2, IsNode
    <3>3. Type[new[1]] = Type[old[1]] /\ new \in Objects
      BY <1>2
    <3>4. x \in NodesOf(L1, new) <=>
            \E key \in Keys : /\ key.type = Type[new[1]]
                              /\ \E k \in DOMAIN L[key].entries :
                                   L1[key].entries[k].elem = new /\ x = Node(key, L[key].entries[k])
      BY <2>1, <3>3, SMTT(60)
    <3>5. \A key \in Keys : \A k \in DOMAIN L[key].entries :
             /\ key.type = Type[new[1]] <=> key.type = Type[old[1]]
             /\ L1[key].entries[k].elem = new <=> L[key].entries[k].elem = old
      BY <3>1, <3>3, ZenonT(60)
    <3> QED BY <3>2, <3>4, <3>5, ZenonT(60)
  <2>5. ASSUME NEW x PROVE x \notin NodesOf(L1, old)
    <3>1. \A key \in Keys : \A k \in DOMAIN L[key].entries : L1[key].entries[k].elem # old
      BY <1>2, <1>9e
    <3> QED BY <3>1, <2>1, <1>2
  <2> QED BY <2>2, <2>4, <2>5
<1>15. /\ I1 = [o \in Objects |-> I1[o]]
       /\ I1[new] = I[old] /\ I1[old] = NoInfo
       /\ \A o \in Objects : o # old /\ o # new => I1[o] = I[o]
  <2>1. I = [o \in Objects |-> I[o]]
    BY <1>1 DEF IsInfo
  <2> QED BY <2>1, <1>2
<1>16. IsInfo(I1, L1, S)
  <2>1. ASSUME NEW o \in Objects
        PROVE  IF IsScheduled(S, o) THEN NodesOf(L1, o) = {} ELSE I1[o] = InfosFrom(L1)[o]
    <3>1. CASE o = old
      BY <3>1, <1>6, <1>14, <1>15, <1>2, NoInfoThen
    <3>2. CASE o = new
      BY <3>2, <1>6, <1>14, <1>15, <1>2, <1>7, SameInfo
    <3>3. CASE o # old /\ o # new
      <4>1. NodesOf(L1, o) = NodesOf(L, o) /\ I1[o] = I[o]
        BY <3>3, <1>14, <1>15
      <4>2. InfosFrom(L1)[o] = InfosFrom(L)[o]
        BY <4>1, SameInfo
      <4> QED BY <4>1, <4>2, <1>1 DEF IsInfo
    <3> QED BY <3>1, <3>2, <3>3
  <2> QED BY <2>1, <1>15 DEF IsInfo
<1>17. \A e : (<<"refine", e>> \in T1 <=> <<"refine", e>> \in T)
              /\ (<<"erase", e>> \in T1 <=> <<"erase", e>> \in T)
  OBVIOUS
<1>18. AreItems(S, G1, L1, I1, T1, chosen)
  <2>1. SUFFICES ASSUME NEW i \in S
        PROVE  /\ i.obj \in G1
               /\ \E e \in chosen, kind \in Flat, target \in Procs : \E k \in DOMAIN Children[e] :
                    /\ DueTo(i, L1, e, k, kind, target)
                    /\ <<"refine", e>> \notin T1
                    /\ I1[i.obj] = Scheduled(kind)
    BY DEF AreItems
  <2>2. i.obj \in G
    BY <1>1 DEF AreItems
  <2>3. i.obj # old /\ i.obj # new /\ i.obj \in Objects
    BY <1>6, <1>1, <2>2 DEF IsScheduled, IsGrid
  <2>4. PICK e \in chosen, kind \in Flat, target \in Procs : \E k \in DOMAIN Children[e] :
                    /\ DueTo(i, L, e, k, kind, target)
                    /\ <<"refine", e>> \notin T
                    /\ I[i.obj] = Scheduled(kind)
    BY <1>1 DEF AreItems
  <2>5. PICK k \in DOMAIN Children[e] :
                    /\ DueTo(i, L, e, k, kind, target)
                    /\ <<"refine", e>> \notin T
                    /\ I[i.obj] = Scheduled(kind)
    BY <2>4
  <2>6. e \in Elems
    BY DEF IsContext
  <2>7. DueTo(i, L1, e, k, kind, target)
    BY <2>5, <2>6, <1>10, SameDue
  <2>8. I1[i.obj] = Scheduled(kind)
    BY <2>3, <2>5, <1>15
  <2> QED BY <2>2, <2>3, <2>5, <2>7, <2>8, <1>17
<1>19. \A e \in Elems, kind \in Flat, target \in Procs :
          ElemsOf(L1, KeyAt(e, kind, target)) = ElemsOf(L, KeyAt(e, kind, target))
  BY <1>11, KeyAtIn DEF Flat
<1>20. ss = "insert" /\ active => NoneMissing(S, L1, T1, chosen)
  <2>1. chosen \subseteq Elems
    BY DEF IsContext
  <2>2. SUFFICES ASSUME ss = "insert" /\ active PROVE NoneMissing(S, L1, T1, chosen)
    OBVIOUS
  <2>3. NoneMissing(S, L, T, chosen)
    BY <2>2, <1>1
  <2> QED BY <2>1, <2>3, <1>17, <1>19 DEF NoneMissing
<1>21. InPhase(m, T1, S, ss, active)
  BY <1>1 DEF InPhase
<1>22. AreTasks(G1, T1, ss, held[p], chosen) /\ IsHeld(G1, T1, ss, held[p], chosen)
  BY <1>1, <1>3, <1>17 DEF AreTasks, IsHeld
<1>23. Follow(G1, L1, except)
  <2>1. ASSUME NEW e \in Elems, NEW k \in DOMAIN Children[e], NEW kind \in Flat, NEW target \in Procs
        PROVE  /\ ElemsOf(L1, KeyAt(e, kind, target)) = ElemsOf(L, KeyAt(e, kind, target))
               /\ ElemsOf(L1, KeyAt(Children[e][k], kind, target)) =
                    ElemsOf(L, KeyAt(Children[e][k], kind, target))
    BY <1>19, ChildIs
  <2> QED BY <1>1, <1>3, <2>1 DEF Follow
<1>24. HoldsExpected(L1, lists[p], chosen, T1, ss, active)
  BY <1>1, <1>11, <1>17 DEF HoldsExpected, Expected
<1>25. HoldsInOrder(L1, lists[p])
  BY <1>1, <1>9c, <1>9h, SMTT(40) DEF HoldsInOrder
<1> QED BY <1>1, <1>4, <1>12, <1>16, <1>18, <1>20, <1>21, <1>22, <1>23, <1>24, <1>25
        DEF Local, bound, except
-----------------------------------------------------------------------------
(* Erasing an element.                                                     *)

\* F holds the entries of E that do not point to an object, in their order.
IsCut(E, F, n, at, old) ==
    /\ F = [k \in 1 .. n |-> E[at[k]]]
    /\ \A k \in 1 .. n : at[k] \in DOMAIN E /\ E[at[k]].elem # old
    /\ \A j, k \in 1 .. n : j < k => at[j] < at[k]
    /\ \A i \in DOMAIN E : E[i].elem # old => \E k \in 1 .. n : at[k] = i

LEMMA WithoutEntry ==
  ASSUME NEW L, NEW G, NEW bound, IsGrid(G), IsLayout(L, G, bound),
         NEW old \in Objects, NEW key \in Keys,
         NEW R, R = Without(L, NodesOf(L, old))[key]
  PROVE  /\ R = [entries |-> R.entries, idCounter |-> R.idCounter]
         /\ R.idCounter = L[key].idCounter
         /\ \E n \in Nat : \E at : IsCut(L[key].entries, R.entries, n, at, old)
<1> DEFINE F == L[key]
           list == F.entries
           kept == {k \in DOMAIN list : Node(key, list[k]) \notin NodesOf(L, old)}
           less == {ij \in kept \X kept : ij[1] < ij[2]}
           at == Sorted(kept, less)
           z == [k \in 1 .. Len(at) |-> list[at[k]]]
           n == Len(at)
<1>1. R = [F EXCEPT !.entries = z]
  BY DEF Without
<1>2. F = [entries |-> F.entries, idCounter |-> F.idCounter]
  BY DEF IsLayout, IsItf
<1>3. R = [entries |-> z, idCounter |-> F.idCounter]
  <2> HIDE DEF F, z
  <2> QED BY <1>1, <1>2, SetEntries
<1>4. DOMAIN list = 1 .. Len(list) /\ Len(list) \in Nat
  <2>1. list \in Seq([elem : G, localID : Nat])
    BY DEF IsLayout, IsItf
  <2> HIDE DEF list
  <2> QED BY <2>1, SeqDomain
<1>5. kept = {k \in DOMAIN list : list[k].elem # old}
  BY NodeOfEntry
<1>6. /\ IsFiniteSet(kept) /\ kept \subseteq DOMAIN list /\ kept \subseteq Nat
  <2>1. kept \subseteq DOMAIN list
    OBVIOUS
  <2> HIDE DEF kept, list
  <2>2. IsFiniteSet(1 .. Len(list))
    BY <1>4, FS_Interval
  <2>3. IsFiniteSet(kept)
    BY <2>1, <2>2, <1>4, FS_Subset
  <2>4. kept \subseteq Nat
    BY <2>1, <1>4
  <2> QED BY <2>1, <2>3, <2>4
<1>7. /\ \A x, y \in kept : <<x, y>> \in less <=> x < y
  OBVIOUS
<1> HIDE DEF kept, less, list, F
<1>8. /\ Cardinality(kept) \in Nat /\ at \in Seq(kept) /\ Len(at) = Cardinality(kept)
      /\ Members(at) = kept
      /\ \A j, k \in 1 .. Cardinality(kept) : j < k => <<at[j], at[k]>> \in less
  <2>1. \A x \in kept : <<x, x>> \notin less
    BY <1>6, <1>7
  <2>2. \A x, y, w \in kept : <<x, y>> \in less /\ <<y, w>> \in less => <<x, w>> \in less
    BY <1>6, <1>7
  <2>3. \A x, y \in kept : x = y \/ <<x, y>> \in less \/ <<y, x>> \in less
    <3>1. SUFFICES ASSUME NEW x \in kept, NEW y \in kept, x # y
                   PROVE  <<x, y>> \in less \/ <<y, x>> \in less
      OBVIOUS
    <3>2. x \in Nat /\ y \in Nat
      BY <1>6
    <3>3. x < y \/ y < x
      BY <3>1, <3>2
    <3> QED BY <3>3, <1>7
  <2> QED BY <2>1, <2>2, <2>3, <1>6, SortedSeq
<1> HIDE DEF at
<1>9. n \in Nat /\ DOMAIN at = 1 .. n /\ \A k \in 1 .. n : at[k] \in kept
  BY <1>8
<1>10. \A k \in 1 .. n : at[k] \in DOMAIN list /\ list[at[k]].elem # old
  BY <1>5, <1>9
<1>11. \A j, k \in 1 .. n : j < k => at[j] < at[k]
  BY <1>7, <1>8, <1>9
<1>12. \A x \in DOMAIN list : list[x].elem # old => \E k \in 1 .. n : at[k] = x
  <2>1. SUFFICES ASSUME NEW x \in DOMAIN list, list[x].elem # old
                 PROVE  \E k \in 1 .. n : at[k] = x
    OBVIOUS
  <2>2. x \in Members(at)
    BY <2>1, <1>5, <1>8
  <2> QED BY <2>2, <1>9, IsMember
<1>13. R.entries = [k \in 1 .. n |-> list[at[k]]] /\ R.idCounter = F.idCounter
  BY <1>3
<1>14. R = [entries |-> R.entries, idCounter |-> R.idCounter]
  <2> HIDE DEF z
  <2> QED BY <1>3
<1>15. \E m \in Nat : \E b : IsCut(list, R.entries, m, b, old)
  <2>1. R.entries = [k \in 1 .. n |-> list[at[k]]]
    BY <1>13
  <2> HIDE DEF n, z
  <2>2. n \in Nat
    BY <1>9
  <2> WITNESS n \in Nat
  <2> WITNESS at
  <2> QED BY <2>1, <1>10, <1>11, <1>12 DEF IsCut
<1> QED BY <1>13, <1>14, <1>15 DEF list, F

IsErased(G, L, I, T, old, G1, L1, I1, T1) ==
    /\ old \in G /\ <<"erase", old[1]>> \in T
    /\ G1 = G \ {old} /\ L1 = Without(L, I[old].entries)
    /\ I1 = [I EXCEPT ![old] = NoInfo] /\ T1 = T \ {<<"erase", old[1]>>}

LEMMA EraseKeeps ==
  ASSUME NEW lists, NEW held, NEW chosen, IsContext(lists, held, chosen), NEW p \in Procs,
         NEW G, NEW L, NEW I, NEW S, NEW T, NEW ss \in {"insert", "delete"},
         NEW active \in BOOLEAN, NEW n,
         Local(G, L, I, S, "delete", T, ss, active, n, lists[p], held[p], chosen),
         NEW old, NEW G1, NEW L1, NEW I1, NEW T1, IsErased(G, L, I, T, old, G1, L1, I1, T1)
  PROVE  Local(G1, L1, I1, S, "delete", T1, ss, active, n, lists[p], held[p], chosen)
<1>22. /\ old \in G /\ <<"erase", old[1]>> \in T
       /\ G1 = G \ {old} /\ L1 = Without(L, I[old].entries)
       /\ I1 = [I EXCEPT ![old] = NoInfo] /\ T1 = T \ {<<"erase", old[1]>>}
  BY DEF IsErased
<1> USE <1>22
<1> DEFINE bound == Bound(IF active THEN n ELSE n + 1)
           x == old[1]
<1>0. /\ IsGrid(G) /\ IsLayout(L, G, bound) /\ IsInfo(I, L, S)
      /\ AreItems(S, G, L, I, T, chosen) /\ AreNumbered(S)
      /\ InPhase("delete", T, S, ss, active)
      /\ AreTasks(G, T, ss, held[p], chosen) /\ IsHeld(G, T, ss, held[p], chosen)
      /\ Follow(G, L, IF ss = "insert" /\ active THEN chosen ELSE {})
      /\ HoldsExpected(L, lists[p], chosen, T, ss, active) /\ HoldsInOrder(L, lists[p])
  BY DEF Local
<1>2. ss = "delete" /\ S = {} /\ active = TRUE
  BY <1>0 DEF InPhase
<1>1. /\ IsGrid(G) /\ IsLayout(L, G, bound) /\ IsInfo(I, L, S)
      /\ AreTasks(G, T, ss, held[p], chosen) /\ IsHeld(G, T, ss, held[p], chosen)
      /\ Follow(G, L, {})
      /\ HoldsExpected(L, lists[p], chosen, T, ss, active) /\ HoldsInOrder(L, lists[p])
  BY <1>0, <1>2
<1> HIDE DEF bound
<1>3. old \in Objects /\ x \in Elems /\ x \in chosen
  <2>1. old \in Objects
    BY <1>1 DEF IsGrid
  <2>2. x \in chosen
    BY <1>1, TaskIs
  <2> QED BY <2>1, <2>2, ObjectIs
<1>4. Now(G1) = Now(G) \ {x} /\ IsGrid(G1)
  <2>1. \A o \in G : o[1] = x => o = old
    BY <1>1, SameObject
  <2>2. Now(G1) = Now(G) \ {x}
    BY <2>1 DEF Now
  <2>3. IsGrid(G1)
    BY <1>1 DEF IsGrid
  <2> QED BY <2>2, <2>3
<1>5. I[old].entries = NodesOf(L, old)
  <2>1. I[old] = InfosFrom(L)[old]
    BY <1>1, <1>2, <1>3 DEF IsInfo, IsScheduled
  <2> QED BY <2>1, <1>3, InfoIs
<1>6. L1 = [key \in Keys |-> L1[key]] /\ L1 = Without(L, NodesOf(L, old))
  <2>1. L1 = Without(L, NodesOf(L, old))
    BY <1>5
  <2> QED BY <2>1 DEF Without
<1>7. ASSUME NEW key \in Keys
      PROVE  /\ L1[key] = [entries |-> L1[key].entries, idCounter |-> L1[key].idCounter]
             /\ L1[key].idCounter = L[key].idCounter
             /\ \E N \in Nat : \E at : IsCut(L[key].entries, L1[key].entries, N, at, old)
  <2> DEFINE R == L1[key]
  <2>1. R = Without(L, NodesOf(L, old))[key]
    BY <1>6
  <2> HIDE DEF R
  <2>2. /\ R = [entries |-> R.entries, idCounter |-> R.idCounter]
        /\ R.idCounter = L[key].idCounter
        /\ \E N \in Nat : \E at : IsCut(L[key].entries, R.entries, N, at, old)
    BY <1>1, <1>3, <2>1, WithoutEntry
  <2> QED BY <2>2 DEF R
\* What is left of an interface.
<1>8. ASSUME NEW key \in Keys
      PROVE  /\ IsItf(G1, bound, key, L1[key])
             /\ ElemsOf(L1, key) = ElemsOf(L, key) \ {x}
             /\ \A o \in Objects \ {old} : \A y :
                  (\E k \in DOMAIN L1[key].entries :
                      L1[key].entries[k].elem = o /\ y = Node(key, L1[key].entries[k]))
                  <=> (\E k \in DOMAIN L[key].entries :
                      L[key].entries[k].elem = o /\ y = Node(key, L[key].entries[k]))
             /\ \A k \in DOMAIN L1[key].entries : L1[key].entries[k].elem # old
             /\ \A j, k \in DOMAIN L1[key].entries :
                  j < k => Precedes(lists[p], key, L1[key].entries[j].elem[1], L1[key].entries[k].elem[1])
  <2> DEFINE E == L[key].entries
             F == L1[key].entries
  <2>1. PICK N \in Nat : \E at : IsCut(E, F, N, at, old)
    BY <1>7
  <2>2. PICK at : IsCut(E, F, N, at, old)
    BY <2>1
  <2>3. /\ L1[key] = [entries |-> F, idCounter |-> L1[key].idCounter]
        /\ L1[key].idCounter = L[key].idCounter
    BY <1>7
  <2>4. IsItf(G, bound, key, L[key])
    BY <1>1 DEF IsLayout
  <2>5. /\ E \in Seq([elem : G, localID : Nat])
        /\ L[key].idCounter \in Nat /\ 0 < L[key].idCounter /\ L[key].idCounter <= bound
        /\ \A k \in DOMAIN E : /\ E[k].localID < L[key].idCounter
                               /\ Type[E[k].elem[1]] = key.type /\ Level[E[k].elem[1]] = key.level
        /\ \A j, k \in DOMAIN E : /\ j < k => E[j].localID < E[k].localID
                                  /\ E[j].elem[1] = E[k].elem[1] => j = k
    BY <2>4 DEF IsItf
  <2>5a. \A k \in DOMAIN E : /\ E[k].localID < L[key].idCounter
                             /\ Type[E[k].elem[1]] = key.type /\ Level[E[k].elem[1]] = key.level
    BY <2>5
  <2>5b. \A j, k \in DOMAIN E : j < k => E[j].localID < E[k].localID
    BY <2>5
  <2>5c. \A j, k \in DOMAIN E : E[j].elem[1] = E[k].elem[1] => j = k
    BY <2>5
  <2>5d. DOMAIN E \subseteq Nat
    BY <2>5, SeqDomain
  <2>6. /\ \A k \in DOMAIN E : E[k].elem \in G /\ E[k].localID \in Nat
        /\ \A k \in DOMAIN E : E[k] = [elem |-> E[k].elem, localID |-> E[k].localID]
        /\ \A k \in DOMAIN E : E[k].elem[1] = x => E[k].elem = old
    <3>1. \A k \in DOMAIN E : E[k].elem \in G /\ E[k].localID \in Nat
      BY <1>1, EntryElem
    <3>2. \A k \in DOMAIN E : E[k] = [elem |-> E[k].elem, localID |-> E[k].localID]
      BY <1>1, EntryIs, SMTT(40)
    <3> QED BY <3>1, <3>2, <1>1, SameObject
  <2>7. \A j, k \in DOMAIN E : j < k => Precedes(lists[p], key, E[j].elem[1], E[k].elem[1])
    BY <1>1 DEF HoldsInOrder
  <2>8. ElemsOf(L1, key) = {F[k].elem[1] : k \in DOMAIN F}
        /\ ElemsOf(L, key) = {E[k].elem[1] : k \in DOMAIN E}
    BY DEF ElemsOf
  <2> HIDE DEF E, F, x
  <2>9. /\ DOMAIN F = 1 .. N /\ \A k \in 1 .. N : F[k] = E[at[k]]
        /\ \A k \in 1 .. N : at[k] \in DOMAIN E /\ E[at[k]].elem # old
        /\ \A j, k \in 1 .. N : j < k => at[j] < at[k]
        /\ \A i \in DOMAIN E : E[i].elem # old => \E k \in 1 .. N : at[k] = i
        /\ F = [k \in 1 .. N |-> F[k]]
    BY <2>2 DEF IsCut
  <2>9a. DOMAIN F = 1 .. N /\ \A k \in 1 .. N : F[k] = E[at[k]] /\ at[k] \in DOMAIN E
    BY <2>9
  <2>9b. \A j, k \in 1 .. N : j < k => at[j] < at[k]
    BY <2>9
  <2>10. IsItf(G1, bound, key, L1[key])
    <3>1. \A k \in 1 .. N : F[k] \in [elem : G1, localID : Nat]
      <4>1. SUFFICES ASSUME NEW k \in 1 .. N PROVE F[k] \in [elem : G1, localID : Nat]
        OBVIOUS
      <4>2. F[k] = [elem |-> F[k].elem, localID |-> F[k].localID] /\ F[k].elem \in G1 /\ F[k].localID \in Nat
        BY <2>6, <2>9
      <4> QED BY <4>2, EntryType
    <3>2. F \in Seq([elem : G1, localID : Nat])
      BY <3>1, <2>9, SeqIs
    <3>3. \A k \in DOMAIN F : /\ F[k].localID < L[key].idCounter
                              /\ Type[F[k].elem[1]] = key.type /\ Level[F[k].elem[1]] = key.level
      BY <2>5a, <2>9a
    <3>4. \A j, k \in DOMAIN F : j < k => F[j].localID < F[k].localID
      BY <2>5b, <2>9a, <2>9b
    <3>5. \A j, k \in DOMAIN F : F[j].elem[1] = F[k].elem[1] => j = k
      <4>1. SUFFICES ASSUME NEW j \in 1 .. N, NEW k \in 1 .. N, F[j].elem[1] = F[k].elem[1], j # k
                     PROVE  FALSE
        BY <2>9a
      <4>2. at[j] = at[k]
        BY <4>1, <2>5c, <2>9a
      <4>3. j < k \/ k < j
        BY <4>1
      <4>4. at[j] \in Nat /\ at[k] \in Nat
        BY <2>5d, <2>9a
      <4> QED BY <4>2, <4>3, <4>4, <2>9b
    <3> QED BY <3>2, <3>3, <3>4, <3>5, <2>3, <2>5 DEF IsItf, F
  <2>11. ElemsOf(L1, key) = ElemsOf(L, key) \ {x}
    <3>1. \A k \in 1 .. N : F[k].elem[1] # x
      BY <2>6, <2>9
    <3>2. \A k \in 1 .. N : F[k].elem[1] \in {E[i].elem[1] : i \in DOMAIN E}
      BY <2>9
    <3>3. ASSUME NEW i \in DOMAIN E, E[i].elem[1] # x
          PROVE  E[i].elem[1] \in {F[k].elem[1] : k \in DOMAIN F}
      <4>1. E[i].elem # old
        BY <3>3 DEF x
      <4>2. PICK k \in 1 .. N : at[k] = i
        BY <4>1, <2>9
      <4> QED BY <4>2, <2>9
    <3> QED BY <3>1, <3>2, <3>3, <2>8, <2>9, SMTT(90)
  <2>12. \A o \in Objects \ {old} : \A y :
           (\E k \in DOMAIN F : F[k].elem = o /\ y = Node(key, F[k]))
           <=> (\E k \in DOMAIN E : E[k].elem = o /\ y = Node(key, E[k]))
    BY <2>9
  <2>13. \A k \in DOMAIN F : F[k].elem # old
    BY <2>9
  <2>14. \A j, k \in DOMAIN F : j < k => Precedes(lists[p], key, F[j].elem[1], F[k].elem[1])
    BY <2>7, <2>9
  <2> QED BY <2>10, <2>11, <2>12, <2>13, <2>14 DEF E, F
<1>8n. \A key \in Keys : \A o \in Objects \ {old} : \A y :
           (\E k \in DOMAIN L1[key].entries :
                L1[key].entries[k].elem = o /\ y = Node(key, L1[key].entries[k]))
           <=> (\E k \in DOMAIN L[key].entries :
                    L[key].entries[k].elem = o /\ y = Node(key, L[key].entries[k]))
  BY <1>8, ZenonT(60)
<1>9. \A key \in Keys : ElemsOf(L1, key) = ElemsOf(L, key) \ {x}
  BY <1>8
<1>10. \A e \in Elems, kind \in {"HM", "HS"}, target \in Procs :
          ElemsOf(L1, KeyAt(e, kind, target)) = ElemsOf(L, KeyAt(e, kind, target)) \ {x}
  BY <1>9, KeyAtIn
<1> HIDE DEF x
<1>11. IsLayout(L1, G1, bound)
  <2>1. OneSided(L1)
    BY <1>1, <1>10 DEF IsLayout, OneSided
  <2> QED BY <1>6, <1>8, <2>1 DEF IsLayout
<1>12. NodesOf(L1, old) = {} /\ \A o \in Objects \ {old} : NodesOf(L1, o) = NodesOf(L, o)
  <2>1. NodesOf(L1, old) = {}
    <3>1. \A key \in Keys : \A k \in DOMAIN L1[key].entries : L1[key].entries[k].elem # old
      BY <1>8
    <3> QED BY <3>1, <1>3, IsNode
  <2>2. ASSUME NEW o \in Objects \ {old}, NEW y
        PROVE  y \in NodesOf(L1, o) <=> y \in NodesOf(L, o)
    <3>1. \A key \in Keys :
            (\E k \in DOMAIN L1[key].entries :
                      L1[key].entries[k].elem = o /\ y = Node(key, L1[key].entries[k]))
             <=> (\E k \in DOMAIN L[key].entries :
                      L[key].entries[k].elem = o /\ y = Node(key, L[key].entries[k]))
      BY <1>8n, SMTT(40)
    <3>2. y \in NodesOf(L1, o) <=>
           \E key \in Keys : /\ key.type = Type[o[1]]
                             /\ \E k \in DOMAIN L1[key].entries :
                                  L1[key].entries[k].elem = o /\ y = Node(key, L1[key].entries[k])
      BY IsNode
    <3>3. y \in NodesOf(L, o) <=>
           \E key \in Keys : /\ key.type = Type[o[1]]
                             /\ \E k \in DOMAIN L[key].entries :
                                  L[key].entries[k].elem = o /\ y = Node(key, L[key].entries[k])
      BY IsNode
    <3> QED BY <3>1, <3>2, <3>3
  <2> QED BY <2>1, <2>2
<1>13. IsInfo(I1, L1, S)
  <2>1. I = [o \in Objects |-> I[o]]
    BY <1>1 DEF IsInfo
  <2>2. /\ I1 = [o \in Objects |-> I1[o]] /\ I1[old] = NoInfo
        /\ \A o \in Objects \ {old} : I1[o] = I[o]
    BY <2>1, <1>3
  <2>3. I1[old] = InfosFrom(L1)[old]
    BY <2>2, <1>3, <1>12, NoInfoThen
  <2>4. ASSUME NEW o \in Objects \ {old} PROVE I1[o] = InfosFrom(L1)[o]
    <3>1. I[o] = InfosFrom(L)[o]
      BY <1>1, <1>2 DEF IsInfo, IsScheduled
    <3>2. InfosFrom(L)[o] = InfosFrom(L1)[o]
      BY <1>12, SameInfo
    <3> QED BY <2>2, <3>1, <3>2
  <2> QED BY <2>2, <2>3, <2>4, <1>2 DEF IsInfo, IsScheduled
<1>14. AreItems(S, G1, L1, I1, T1, chosen) /\ AreNumbered(S)
  BY <1>2 DEF AreItems, AreNumbered
<1>15. InPhase("delete", T1, S, ss, active)
  BY <1>2 DEF InPhase
<1>16. \A e : <<"erase", e>> \in T1 <=> <<"erase", e>> \in T /\ e # x
  BY DEF x
<1>17. AreTasks(G1, T1, ss, held[p], chosen)
  BY <1>1, <1>2 DEF AreTasks
<1>18. IsHeld(G1, T1, ss, held[p], chosen)
  <2>1. Now(G) = {e \in held[p] : e \notin chosen \/ <<"erase", e>> \in T}
    BY <1>1, <1>2 DEF IsHeld
  <2>2. Now(G1) = {e \in held[p] : e \notin chosen \/ <<"erase", e>> \in T1}
    BY <2>1, <1>3, <1>4, <1>16
  <2> QED BY <2>2, <1>2 DEF IsHeld
<1>19. Follow(G1, L1, {})
  <2>1. SUFFICES ASSUME NEW e \in Elems, NEW k \in DOMAIN Children[e], FollowedAtFirst(e),
                        e \in Now(G1), Children[e][k] \in Now(G1),
                        NEW kind \in Flat, NEW target \in Procs
                 PROVE  e \in ElemsOf(L1, KeyAt(e, kind, target)) <=>
                          Children[e][k] \in ElemsOf(L1, KeyAt(Children[e][k], kind, target))
    BY DEF Follow
  <2>2. e # x /\ Children[e][k] # x /\ e \in Now(G) /\ Children[e][k] \in Now(G)
    BY <2>1, <1>4
  <2>3. e \in ElemsOf(L, KeyAt(e, kind, target)) <=>
                          Children[e][k] \in ElemsOf(L, KeyAt(Children[e][k], kind, target))
    BY <2>1, <2>2, <1>1 DEF Follow
  <2>4. /\ ElemsOf(L1, KeyAt(e, kind, target)) = ElemsOf(L, KeyAt(e, kind, target)) \ {x}
        /\ ElemsOf(L1, KeyAt(Children[e][k], kind, target)) =
             ElemsOf(L, KeyAt(Children[e][k], kind, target)) \ {x}
    <3>1. Children[e][k] \in Elems
      BY ChildIs
    <3>2. kind \in {"HM", "HS"}
      BY DEF Flat
    <3> QED BY <3>1, <3>2, <1>10
  <2> QED BY <2>2, <2>3, <2>4
<1>20. HoldsExpected(L1, lists[p], chosen, T1, ss, active)
  <2>1. SUFFICES ASSUME NEW key \in Keys
                 PROVE  ElemsOf(L1, key) = Expected(lists[p], chosen, T1, ss, active, key)
    BY DEF HoldsExpected
  <2>2. ElemsOf(L, key) = {e \in Members(lists[p][key]) : e \notin chosen \/ <<"erase", e>> \in T}
    BY <1>1, <1>2 DEF HoldsExpected, Expected
  <2>3. ElemsOf(L1, key) = {e \in Members(lists[p][key]) : e \notin chosen \/ <<"erase", e>> \in T1}
    BY <2>2, <1>3, <1>9, <1>16
  <2> QED BY <2>3, <1>2 DEF Expected
<1>21. HoldsInOrder(L1, lists[p])
  BY <1>8 DEF HoldsInOrder
<1> QED BY <1>2, <1>4, <1>11, <1>13, <1>14, <1>15, <1>17, <1>18, <1>19, <1>20, <1>21
        DEF Local, bound
-----------------------------------------------------------------------------
(* Items.                                                                  *)

LEMMA DueFields ==
  ASSUME NEW i, NEW L, NEW e, NEW k, NEW kind, NEW target, DueTo(i, L, e, k, kind, target)
  PROVE  /\ i.nr \in Nat /\ i.map = Type[e] /\ i.obj = <<Children[e][k], 0>> /\ i.target = target
         /\ i.obj[1] = Children[e][k]
         /\ e \in ElemsOf(L, KeyAt(e, kind, target))
         /\ i = [map |-> i.map, id |-> i.id, nr |-> i.nr, obj |-> i.obj, target |-> i.target]
<1> DEFINE F == L[KeyAt(e, kind, target)].entries
<1>1. PICK n \in DOMAIN F :
         /\ F[n].elem[1] = e
         /\ i = [map |-> Type[e], id |-> F[n].localID,
                 nr |-> i.nr, obj |-> <<Children[e][k], 0>>, target |-> target]
  BY DEF DueTo
<1>2. e \in ElemsOf(L, KeyAt(e, kind, target))
  BY <1>1 DEF ElemsOf
<1>3. i.nr \in Nat
  BY DEF DueTo
<1> HIDE DEF F
<1>4. i.map = Type[e] /\ i.obj = <<Children[e][k], 0>> /\ i.target = target /\ i.id = F[n].localID
  BY <1>1
<1> QED BY <1>1, <1>2, <1>3, <1>4

LEMMA ScheduledKind ==
  ASSUME NEW a \in Flat, NEW b \in Flat, Scheduled(a) = Scheduled(b)
  PROVE  a = b
<1>1. {a, "SCHED"} = {b, "SCHED"}
  BY DEF Scheduled
<1> QED BY <1>1 DEF Flat

\* An item is one of the k-th child of an element, in an interface.
IsItemOf(i, e, k, kind, target, G, L, I, T) ==
    /\ DueTo(i, L, e, k, kind, target) /\ e \in Elems /\ k \in Nat
    /\ <<"refine", e>> \notin T
    /\ I[i.obj] = Scheduled(kind)
    /\ i.obj = <<Children[e][k], 0>> /\ i.target = target /\ i.map = Type[e]
    /\ i.nr \in Nat /\ i.obj[1] = Children[e][k] /\ i.obj \in G
    /\ Children[e][k] \in Elems
    /\ e \in ElemsOf(L, KeyAt(e, kind, target))

LEMMA ItemIs ==
  ASSUME NEW lists, NEW held, NEW chosen, IsContext(lists, held, chosen),
         NEW G, NEW L, NEW I, NEW S, NEW T, AreItems(S, G, L, I, T, chosen), NEW i \in S
  PROVE  \E e \in chosen, kind \in Flat, target \in Procs : \E k \in DOMAIN Children[e] :
             IsItemOf(i, e, k, kind, target, G, L, I, T)
<1>1. PICK e \in chosen, kind \in Flat, target \in Procs : \E k \in DOMAIN Children[e] :
             /\ DueTo(i, L, e, k, kind, target)
             /\ <<"refine", e>> \notin T
             /\ I[i.obj] = Scheduled(kind)
  BY DEF AreItems
<1>2. PICK k \in DOMAIN Children[e] :
             /\ DueTo(i, L, e, k, kind, target)
             /\ <<"refine", e>> \notin T
             /\ I[i.obj] = Scheduled(kind)
  BY <1>1
<1>3. e \in Elems /\ i.obj \in G
  BY DEF IsContext, AreItems
<1>4. /\ i.obj = <<Children[e][k], 0>> /\ i.target = target /\ i.map = Type[e]
      /\ i.nr \in Nat /\ i.obj[1] = Children[e][k]
      /\ e \in ElemsOf(L, KeyAt(e, kind, target))
  BY <1>2, DueFields
<1>5. k \in Nat /\ Children[e][k] \in Elems
  BY <1>3, ChildIs
<1>6. IsItemOf(i, e, k, kind, target, G, L, I, T)
  BY <1>2, <1>3, <1>4, <1>5 DEF IsItemOf
<1> QED BY <1>6

LEMMA SameItem ==
  ASSUME NEW lists, NEW held, NEW chosen, IsContext(lists, held, chosen),
         NEW G, NEW L, NEW I, NEW S, NEW T, NEW bound,
         IsGrid(G), IsLayout(L, G, bound), AreItems(S, G, L, I, T, chosen), AreNumbered(S),
         NEW i \in S, NEW j \in S, i.obj = j.obj, i.target = j.target
  PROVE  i = j
<1>1. PICK e \in chosen, kind \in Flat, target \in Procs : \E k \in DOMAIN Children[e] :
             IsItemOf(i, e, k, kind, target, G, L, I, T)
  BY ItemIs
<1>2. PICK k \in DOMAIN Children[e] : IsItemOf(i, e, k, kind, target, G, L, I, T)
  BY <1>1
<1>3. PICK f \in chosen, kind2 \in Flat, target2 \in Procs : \E l \in DOMAIN Children[f] :
             IsItemOf(j, f, l, kind2, target2, G, L, I, T)
  BY ItemIs
<1>4. PICK l \in DOMAIN Children[f] : IsItemOf(j, f, l, kind2, target2, G, L, I, T)
  BY <1>3
<1>5. Children[e][k] = Children[f][l] /\ e \in Elems /\ f \in Elems
  BY <1>2, <1>4 DEF IsItemOf
<1>6. e = f /\ k = l
  BY <1>5, OneParent
<1>7. target = target2
  BY <1>2, <1>4 DEF IsItemOf
<1>8. kind = kind2
  BY <1>2, <1>4, ScheduledKind DEF IsItemOf
<1> DEFINE key == KeyAt(e, kind, target)
           F == L[key].entries
<1>9. PICK m \in DOMAIN F :
         /\ F[m].elem[1] = e
         /\ i = [map |-> Type[e], id |-> F[m].localID,
                 nr |-> i.nr, obj |-> <<Children[e][k], 0>>, target |-> target]
  BY <1>2 DEF DueTo, IsItemOf
<1>10. PICK n \in DOMAIN F :
         /\ F[n].elem[1] = e
         /\ j = [map |-> Type[e], id |-> F[n].localID,
                 nr |-> j.nr, obj |-> <<Children[e][k], 0>>, target |-> target]
  BY <1>4, <1>6, <1>7, <1>8 DEF DueTo, IsItemOf
<1>11. key \in Keys
  BY <1>5, KeyAtIn DEF Flat
<1>12. m = n
  <2> HIDE DEF key
  <2> QED BY <1>9, <1>10, <1>11, SameElem
<1>13. i.nr = j.nr
  <2>1. i.obj = <<Children[e][k], 0>> /\ j.obj = <<Children[e][l], 0>>
        /\ i.nr \in Nat /\ j.nr \in Nat /\ k \in Nat
    BY <1>2, <1>4, <1>6 DEF IsItemOf
  <2>2. j.nr - i.nr = l - k
    BY <2>1, <1>5, <1>6 DEF AreNumbered
  <2> QED BY <2>1, <2>2, <1>6
<1> HIDE DEF F, key
<1> QED BY <1>9, <1>10, <1>12, <1>13

LEMMA ItemsFinite ==
  ASSUME NEW lists, NEW held, NEW chosen, IsContext(lists, held, chosen),
         NEW G, NEW L, NEW I, NEW S, NEW T, NEW bound,
         IsGrid(G), IsLayout(L, G, bound), AreItems(S, G, L, I, T, chosen), AreNumbered(S)
  PROVE  IsFiniteSet(S) /\ Cardinality(S) \in Nat
<1> DEFINE f == [i \in S |-> <<i.obj[1], i.target>>]
<1>1. ASSUME NEW i \in S
      PROVE  i.obj[1] \in Elems /\ i.target \in Procs /\ i.obj = <<i.obj[1], 0>>
  <2>1. PICK e \in chosen, kind \in Flat, target \in Procs : \E k \in DOMAIN Children[e] :
             IsItemOf(i, e, k, kind, target, G, L, I, T)
    BY ItemIs
  <2>2. PICK k \in DOMAIN Children[e] : IsItemOf(i, e, k, kind, target, G, L, I, T)
    BY <2>1
  <2>3. Children[e][k] \in Elems
    BY <2>2 DEF IsItemOf
  <2> QED BY <2>2, <2>3 DEF IsItemOf
<1>2. f \in [S -> Elems \X Procs]
  BY <1>1
<1>3. ASSUME NEW i \in S, NEW j \in S, f[i] = f[j] PROVE i = j
  <2>1. i.obj[1] = j.obj[1] /\ i.target = j.target
    BY <1>3
  <2>2. i.obj = j.obj
    BY <2>1, <1>1
  <2> QED BY <2>1, <2>2, SameItem
<1>4. f \in Injection(S, Elems \X Procs)
  <2> HIDE DEF f
  <2> QED BY <1>2, <1>3 DEF Injection, IsInjective
<1>5. IsFiniteSet(Elems \X Procs)
  BY DistributedGridAssumption, FS_Product
<1> HIDE DEF f
<1>6. IsFiniteSet(S)
  BY <1>4, <1>5, FS_Injection
<1> QED BY <1>6, FS_CardinalityType
-----------------------------------------------------------------------------
(* Refining an element.                                                    *)

\* What the information of an object says of its horizontal interfaces.
LEMMA SetStatus ==
  ASSUME NEW z
  PROVE  [NoInfo EXCEPT !.status = z] = [status |-> z, entries |-> {}]
<1>1. NoInfo.entries = {}
  BY DEF NoInfo
<1>2. [NoInfo EXCEPT !.status = z] = [status |-> z, entries |-> NoInfo.entries]
  BY DEF NoInfo
<1> QED BY <1>1, <1>2

LEMMA FlatInfo ==
  ASSUME NEW L, NEW G, NEW bound, IsGrid(G), IsLayout(L, G, bound), NEW o \in G,
         NEW J, J = InfosFrom(L)[o]
  PROVE  /\ SideOf(J.status) \in Flat
         /\ FlatEntries(J) = {n \in NodesOf(L, o) : n.key.kind \in Flat}
         /\ \A n \in FlatEntries(J) : n.key.kind = SideOf(J.status)
         /\ (J.status \cap {"IN", "SCHED"} # {} /\ J.entries # {}) <=> FlatEntries(J) # {}
<1>1. o \in Objects
  BY DEF IsGrid
<1> DEFINE kinds == KindsOf(L, o)
<1>2. /\ J.entries = NodesOf(L, o)
      /\ J.status = (IF "HS" \in kinds THEN {"HS", "IN"}
                     ELSE IF "HM" \in kinds THEN {"HM", "IN"} ELSE {}) \cup (kinds \cap {"VM", "VS"})
  BY <1>1, InfoIs
<1>3. ~ ("HM" \in kinds /\ "HS" \in kinds)
  BY NotBoth
<1>4. \A n \in NodesOf(L, o) : n.key.kind \in kinds
  BY DEF KindsOf
<1>5. \A kind \in kinds : \E n \in NodesOf(L, o) : n.key.kind = kind
  BY DEF KindsOf
<1>6. FlatEntries(J) = {n \in NodesOf(L, o) : n.key.kind \in Flat}
  BY <1>2 DEF FlatEntries
<1> HIDE DEF kinds
<1>7. "HM" \in J.status <=> "HM" \in kinds
  BY <1>2, <1>3
<1>8. J.status \cap {"IN", "SCHED"} # {} <=> ("HM" \in kinds \/ "HS" \in kinds)
  BY <1>2, <1>3
<1>9. SideOf(J.status) \in Flat
  BY DEF SideOf, Flat
<1>10. \A n \in FlatEntries(J) : n.key.kind = SideOf(J.status)
  BY <1>3, <1>4, <1>6, <1>7 DEF SideOf, Flat
<1>11. FlatEntries(J) # {} <=> ("HM" \in kinds \/ "HS" \in kinds)
  BY <1>4, <1>5, <1>6 DEF Flat
<1>12. FlatEntries(J) # {} => J.entries # {}
  BY <1>2, <1>6
<1> QED BY <1>6, <1>8, <1>9, <1>10, <1>11, <1>12

LEMMA FlatFollows ==
  ASSUME NEW L, NEW G, NEW bound, IsGrid(G), IsLayout(L, G, bound), NEW o \in G,
         NEW J, J = InfosFrom(L)[o]
  PROVE  (J.status \cap {"IN", "SCHED"} # {} /\ J.entries # {}) <=> FlatEntries(J) # {}
<1> HIDE DEF FlatEntries
<1> QED BY FlatInfo

ItemsOf(e, J, c) ==
    {[map |-> Type[e], id |-> n.id, nr |-> c + k, obj |-> <<Children[e][k], 0>>,
      target |-> n.key.target] : n \in FlatEntries(J), k \in DOMAIN Children[e]}

LEMMA ItemIn ==
  ASSUME NEW e, NEW J, NEW c, NEW n \in FlatEntries(J), NEW k \in DOMAIN Children[e]
  PROVE  HasItem(ItemsOf(e, J, c), <<Children[e][k], 0>>, n.key.target)
<1> DEFINE i == [map |-> Type[e], id |-> n.id, nr |-> c + k, obj |-> <<Children[e][k], 0>>,
                 target |-> n.key.target]
<1>1. i \in ItemsOf(e, J, c)
  BY DEF ItemsOf
<1>2. i.obj = <<Children[e][k], 0>> /\ i.target = n.key.target
  OBVIOUS
<1> HIDE DEF i
<1> QED BY <1>1, <1>2 DEF HasItem

LEMMA NewItem ==
  ASSUME NEW L, NEW G, NEW bound, IsGrid(G), IsLayout(L, G, bound), NEW o \in G, NEW e, e = o[1], NEW c \in Nat,
         NEW J, J = InfosFrom(L)[o], NEW i \in ItemsOf(e, J, c)
  PROVE  \E target \in Procs : \E k \in DOMAIN Children[e] :
             DueTo(i, L, e, k, SideOf(J.status), target) /\ i.nr = c + k /\ k \in Nat
<1>1. o \in Objects /\ e \in Elems
  BY ObjectIs DEF IsGrid
<1>2. PICK n \in FlatEntries(J), k \in DOMAIN Children[e] :
         i = [map |-> Type[e], id |-> n.id, nr |-> c + k, obj |-> <<Children[e][k], 0>>,
              target |-> n.key.target]
  BY DEF ItemsOf
<1>3. n \in NodesOf(L, o) /\ n.key.kind = SideOf(J.status)
  BY FlatInfo
<1>4. PICK key \in Keys : \E m \in DOMAIN L[key].entries :
         L[key].entries[m].elem = o /\ n = Node(key, L[key].entries[m])
  BY <1>1, <1>3, IsNode
<1>5. PICK m \in DOMAIN L[key].entries :
         L[key].entries[m].elem = o /\ n = Node(key, L[key].entries[m])
  BY <1>4
<1>6. n.key = key /\ n.id = L[key].entries[m].localID
  BY <1>5 DEF Node
<1>7. key = KeyAt(L[key].entries[m].elem[1], key.kind, key.target) /\ key.target \in Procs
  BY EntryKey, EntryKeyAt
<1>8. key = KeyAt(e, SideOf(J.status), key.target)
  BY <1>3, <1>5, <1>6, <1>7
<1>9. k \in Nat /\ i.nr = c + k /\ c + k \in Nat
  <2>1. k \in Nat
    BY <1>1, ChildIs
  <2> QED BY <2>1, <1>2
<1> DEFINE F == L[key].entries
<1>10. F[m].elem[1] = e /\ m \in DOMAIN F
  BY <1>5
<1>11. i = [map |-> Type[e], id |-> F[m].localID, nr |-> i.nr, obj |-> <<Children[e][k], 0>>,
            target |-> key.target]
  BY <1>2, <1>6, <1>9
<1>12. F = L[KeyAt(e, SideOf(J.status), key.target)].entries
  BY <1>8
<1> HIDE DEF F
<1>13. DueTo(i, L, e, k, SideOf(J.status), key.target)
  BY <1>9, <1>10, <1>11, <1>12 DEF DueTo
<1> QED BY <1>7, <1>9, <1>13

LEMMA NewItemFor ==
  ASSUME NEW L, NEW G, NEW bound, IsGrid(G), IsLayout(L, G, bound), NEW o \in G, NEW e, e = o[1], NEW c,
         NEW J, J = InfosFrom(L)[o], NEW kind \in Flat, NEW target \in Procs,
         NEW k \in DOMAIN Children[e], e \in ElemsOf(L, KeyAt(e, kind, target))
  PROVE  /\ FlatEntries(J) # {}
         /\ HasItem(ItemsOf(e, J, c), <<Children[e][k], 0>>, target)
<1>1. o \in Objects /\ e \in Elems
  BY ObjectIs DEF IsGrid
<1> DEFINE key == KeyAt(e, kind, target)
<1>2. key \in Keys /\ key.kind = kind /\ key.target = target /\ key.type = Type[e]
  BY <1>1, KeyAtIn DEF Flat
<1>3. e \in ElemsOf(L, key)
  OBVIOUS
<1> HIDE DEF key
<1>4. PICK m \in DOMAIN L[key].entries : L[key].entries[m].elem = o
  BY <1>2, <1>3, InElems
<1> DEFINE n == Node(key, L[key].entries[m])
<1>5. n \in NodesOf(L, o)
  BY <1>1, <1>2, <1>4, IsNode
<1>6. n.key = key
  BY DEF Node
<1> HIDE DEF n
<1>7. n \in FlatEntries(J) /\ n.key.target = target
  BY <1>2, <1>5, <1>6, FlatInfo
<1>8. HasItem(ItemsOf(e, J, c), <<Children[e][k], 0>>, n.key.target)
  BY <1>7, ItemIn
<1> QED BY <1>7, <1>8

\* What an element gets that did not exist.
LEMMA WiderLayout ==
  ASSUME NEW L, NEW G, NEW G1, NEW bound, IsLayout(L, G, bound), G \subseteq G1
  PROVE  IsLayout(L, G1, bound)
<1> DEFINE X == [elem : G, localID : Nat]
           Y == [elem : G1, localID : Nat]
<1>1. X \subseteq Y
  OBVIOUS
<1>2. ASSUME NEW key \in Keys PROVE IsItf(G1, bound, key, L[key])
  <2>1. IsItf(G, bound, key, L[key])
    BY DEF IsLayout
  <2>2. L[key].entries \in Seq([elem : G, localID : Nat])
    BY <2>1 DEF IsItf
  <2>3. L[key].entries \in Seq([elem : G1, localID : Nat])
    <3>1. L[key].entries \in Seq(X)
      BY <2>2
    <3> HIDE DEF X, Y
    <3>2. L[key].entries \in Seq(Y)
      BY <1>1, <3>1, SeqWider
    <3> QED BY <3>2 DEF Y
  <2> QED BY <2>1, <2>3 DEF IsItf
<1> QED BY <1>2 DEF IsLayout

IsRefinedBy(G, I, S, T, old, e, objs, fresh, New, J, side, G1, I1, S1, T1) ==
    /\ old \in G /\ e = old[1] /\ <<"refine", e>> \in T
    /\ objs = Members(Children[e]) \X {0} /\ J = I[old] /\ side = SideOf(J.status)
    /\ IF J.status \cap {"IN", "SCHED"} # {} /\ J.entries # {}
       THEN /\ fresh = [NoInfo EXCEPT !.status = {side, "SCHED"}]
            /\ New = ItemsOf(e, J, Cardinality(S))
       ELSE fresh = NoInfo /\ New = {}
    /\ G1 = G \cup objs /\ S1 = S \cup New /\ T1 = T \ {<<"refine", e>>}
    /\ I1 = [o \in Objects |-> IF o \in objs THEN fresh ELSE I[o]]

IsRefined(G, I, S, T, old, G1, I1, S1, T1) ==
    \E e, objs, fresh, New, J, side :
        IsRefinedBy(G, I, S, T, old, e, objs, fresh, New, J, side, G1, I1, S1, T1)

LEMMA RefineKeeps ==
  ASSUME NEW lists, NEW held, NEW chosen, IsContext(lists, held, chosen), NEW p \in Procs,
         NEW G, NEW L, NEW I, NEW S, NEW T, NEW ss \in {"insert", "delete"},
         NEW active \in BOOLEAN, NEW n,
         Local(G, L, I, S, "insert", T, ss, active, n, lists[p], held[p], chosen),
         NEW old, NEW G1, NEW I1, NEW S1, NEW T1, IsRefined(G, I, S, T, old, G1, I1, S1, T1)
  PROVE  Local(G1, L, I1, S1, "insert", T1, ss, active, n, lists[p], held[p], chosen)
<1>000. PICK e, objs, fresh, New, J, side :
           IsRefinedBy(G, I, S, T, old, e, objs, fresh, New, J, side, G1, I1, S1, T1)
  BY DEF IsRefined
<1>00. /\ old \in G /\ e = old[1] /\ <<"refine", e>> \in T
       /\ objs = Members(Children[e]) \X {0} /\ J = I[old] /\ side = SideOf(J.status)
       /\ IF J.status \cap {"IN", "SCHED"} # {} /\ J.entries # {}
          THEN /\ fresh = [NoInfo EXCEPT !.status = {side, "SCHED"}]
               /\ New = ItemsOf(e, J, Cardinality(S))
          ELSE fresh = NoInfo /\ New = {}
       /\ G1 = G \cup objs /\ S1 = S \cup New /\ T1 = T \ {<<"refine", e>>}
       /\ I1 = [o \in Objects |-> IF o \in objs THEN fresh ELSE I[o]]
  BY <1>000 DEF IsRefinedBy
<1> USE <1>00
<1> DEFINE bound == Bound(IF active THEN n ELSE n + 1)
<1>0. /\ IsGrid(G) /\ IsLayout(L, G, bound) /\ IsInfo(I, L, S)
      /\ AreItems(S, G, L, I, T, chosen) /\ AreNumbered(S)
      /\ ss = "insert" /\ active => NoneMissing(S, L, T, chosen)
      /\ InPhase("insert", T, S, ss, active)
      /\ AreTasks(G, T, ss, held[p], chosen) /\ IsHeld(G, T, ss, held[p], chosen)
      /\ Follow(G, L, IF ss = "insert" /\ active THEN chosen ELSE {})
      /\ HoldsExpected(L, lists[p], chosen, T, ss, active) /\ HoldsInOrder(L, lists[p])
  BY DEF Local
<1>2. ss = "insert" /\ active = TRUE
  BY <1>0 DEF InPhase
<1>1. /\ IsGrid(G) /\ IsLayout(L, G, bound) /\ IsInfo(I, L, S)
      /\ AreItems(S, G, L, I, T, chosen) /\ AreNumbered(S)
      /\ NoneMissing(S, L, T, chosen)
      /\ AreTasks(G, T, ss, held[p], chosen) /\ IsHeld(G, T, ss, held[p], chosen)
      /\ Follow(G, L, chosen)
      /\ HoldsExpected(L, lists[p], chosen, T, ss, active) /\ HoldsInOrder(L, lists[p])
  BY <1>0, <1>2
<1> HIDE DEF bound
<1>3. /\ old \in Objects /\ e \in Elems /\ e \in chosen /\ e \in held[p]
      /\ \A k \in DOMAIN Children[e] : Children[e][k] \notin Now(G)
  <2>1. old \in Objects
    BY <1>1 DEF IsGrid
  <2>2. e \in chosen /\ e \in held[p] /\ \A k \in DOMAIN Children[e] : Children[e][k] \notin Now(G)
    BY <1>1, TaskIs
  <2> QED BY <2>1, <2>2, ObjectIs
<1>4. J = InfosFrom(L)[old]
  <2>1. ~ IsScheduled(S, old)
    BY <1>1, <1>3, NotScheduled
  <2> QED BY <2>1, <1>1, <1>3 DEF IsInfo
<1>5. Cardinality(S) \in Nat
  BY <1>1, ItemsFinite
<1>6. side \in Flat
      /\ ((J.status \cap {"IN", "SCHED"} # {} /\ J.entries # {}) <=> FlatEntries(J) # {})
  <2>1. side \in Flat
    BY DEF SideOf, Flat
  <2>2. (J.status \cap {"IN", "SCHED"} # {} /\ J.entries # {}) <=> FlatEntries(J) # {}
    BY <1>1, <1>4, FlatFollows
  <2> QED BY <2>1, <2>2
<1>7. IF FlatEntries(J) # {} THEN fresh = Scheduled(side) /\ New = ItemsOf(e, J, Cardinality(S))
                             ELSE fresh = NoInfo /\ New = {}
  <2>1. [NoInfo EXCEPT !.status = {side, "SCHED"}] = Scheduled(side)
    BY SetStatus DEF Scheduled
  <2> QED BY <2>1, <1>6
<1> DEFINE Child(i, k, target) == /\ DueTo(i, L, e, k, side, target) /\ i.nr = Cardinality(S) + k
                                  /\ k \in Nat
<1>8. ASSUME NEW i \in New
      PROVE  \E target \in Procs : \E k \in DOMAIN Children[e] : Child(i, k, target)
  <2>1. i \in ItemsOf(e, J, Cardinality(S))
    BY <1>7
  <2> QED BY <2>1, <1>1, <1>4, <1>5, NewItem
<1>9. ASSUME NEW kind \in Flat, NEW target \in Procs, NEW k \in DOMAIN Children[e],
             e \in ElemsOf(L, KeyAt(e, kind, target))
      PROVE  HasItem(New, <<Children[e][k], 0>>, target)
  <2>1. /\ FlatEntries(J) # {}
        /\ HasItem(ItemsOf(e, J, Cardinality(S)), <<Children[e][k], 0>>, target)
    BY <1>1, <1>4, <1>9, NewItemFor
  <2> QED BY <2>1, <1>7
<1>10. New # {} => fresh = Scheduled(side)
  BY <1>7
<1>11. New = {} => (fresh = NoInfo \/ objs = {})
  <2>1. SUFFICES ASSUME New = {}, FlatEntries(J) # {} PROVE objs = {}
    BY <1>7
  <2>2. ItemsOf(e, J, Cardinality(S)) = {}
    BY <2>1, <1>7
  <2>3. DOMAIN Children[e] = {}
    <3>1. SUFFICES ASSUME NEW k \in DOMAIN Children[e] PROVE FALSE
      OBVIOUS
    <3>2. PICK m \in FlatEntries(J) : TRUE
      BY <2>1
    <3>3. HasItem(ItemsOf(e, J, Cardinality(S)), <<Children[e][k], 0>>, m.key.target)
      BY <3>2, ItemIn
    <3> QED BY <3>3, <2>2 DEF HasItem
  <2> QED BY <2>3 DEF Members
<1>12. ASSUME NEW i \in New
       PROVE  /\ i.obj \in objs /\ i.obj[1] \in Members(Children[e]) /\ i.nr \in Nat
              /\ \E target \in Procs : \E k \in DOMAIN Children[e] :
                    Child(i, k, target) /\ i.obj = <<Children[e][k], 0>>
  <2>1. PICK target \in Procs : \E k \in DOMAIN Children[e] : Child(i, k, target)
    BY <1>8
  <2>2. PICK k \in DOMAIN Children[e] : Child(i, k, target)
    BY <2>1
  <2>3. i.obj = <<Children[e][k], 0>> /\ i.nr \in Nat
    BY <2>2, DueFields
  <2>4. Children[e][k] \in Members(Children[e])
    BY IsMember
  <2> HIDE DEF Child
  <2> QED BY <2>2, <2>3, <2>4
\* The objects are new.
<1>13. /\ objs \subseteq Objects
       /\ \A o \in objs : \E k \in DOMAIN Children[e] : o = <<Children[e][k], 0>> /\ o[1] = Children[e][k]
       /\ \A o \in objs : o \notin G /\ o[1] \notin Now(G)
       /\ \A k \in DOMAIN Children[e] : <<Children[e][k], 0>> \in objs
  <2>1. ASSUME NEW o \in objs
        PROVE  /\ o \in Objects /\ o \notin G /\ o[1] \notin Now(G)
               /\ \E k \in DOMAIN Children[e] : o = <<Children[e][k], 0>> /\ o[1] = Children[e][k]
    <3>1. PICK c \in Members(Children[e]) : o = <<c, 0>>
      OBVIOUS
    <3>2. PICK k \in DOMAIN Children[e] : Children[e][k] = c
      BY IsMember
    <3>3. o[1] = c /\ o[1] \notin Now(G)
      BY <3>1, <3>2, <1>3
    <3>4. o \in Objects
      BY <3>1, <3>2, <1>3, ChildIs
    <3> QED BY <3>1, <3>2, <3>3, <3>4 DEF Now
  <2>2. ASSUME NEW k \in DOMAIN Children[e] PROVE <<Children[e][k], 0>> \in objs
    <3>1. Children[e][k] \in Members(Children[e])
      BY IsMember
    <3> DEFINE c == Children[e][k]
    <3> HIDE DEF c
    <3>2. <<c, 0>> \in Members(Children[e]) \X {0}
      BY <3>1 DEF c
    <3> QED BY <3>2 DEF c
  <2> QED BY <2>1, <2>2
<1>14. Now(G1) = Now(G) \cup Members(Children[e])
  <2>1. {o[1] : o \in objs} = Members(Children[e])
    <3>1. \A o \in objs : o[1] \in Members(Children[e])
      BY <1>13, IsMember
    <3>2. ASSUME NEW c \in Members(Children[e]) PROVE \E o \in objs : o[1] = c
      <4>1. <<c, 0>> \in objs
        OBVIOUS
      <4>2. <<c, 0>>[1] = c
        OBVIOUS
      <4> QED BY <4>1, <4>2
    <3> HIDE DEF Members
    <3> QED BY <3>1, <3>2
  <2> QED BY <2>1 DEF Now
<1>15. \A c \in Members(Children[e]) : \E k \in DOMAIN Children[e] : c = Children[e][k]
  BY IsMember
<1>16. IsGrid(G1)
  <2>1. G1 \subseteq Objects
    BY <1>1, <1>13 DEF IsGrid
  <2>2. ASSUME NEW a \in G1, NEW b \in G1, a[1] = b[1] PROVE a = b
    <3>1. CASE a \in G /\ b \in G
      BY <3>1, <2>2, <1>1, SameObject
    <3>2. CASE a \in objs /\ b \in objs
      BY <3>2, <2>2, <1>13
    <3>3. \A o \in G : o[1] \in Now(G)
      BY DEF Now
    <3> QED BY <3>1, <3>2, <3>3, <2>2, <1>13
  <2> QED BY <2>1, <2>2 DEF IsGrid
<1>17. IsLayout(L, G1, bound)
  BY <1>1, WiderLayout
<1>18. /\ I1 = [o \in Objects |-> I1[o]] /\ \A o \in objs : I1[o] = fresh
       /\ \A o \in Objects \ objs : I1[o] = I[o]
  <2>1. \A o \in Objects : I1[o] = IF o \in objs THEN fresh ELSE I[o]
    OBVIOUS
  <2>2. I1 = [o \in Objects |-> I1[o]]
    OBVIOUS
  <2> QED BY <2>1, <2>2, <1>13
<1>19. \A o : o \notin objs => (IsScheduled(S1, o) <=> IsScheduled(S, o))
  BY <1>12 DEF IsScheduled
<1>20. IsInfo(I1, L, S1)
  <2>1. SUFFICES ASSUME NEW o \in Objects
                 PROVE  IF IsScheduled(S1, o) THEN NodesOf(L, o) = {} ELSE I1[o] = InfosFrom(L)[o]
    BY <1>18 DEF IsInfo
  <2>2. CASE o \in objs
    <3>1. NodesOf(L, o) = {}
      BY <2>2, <1>1, <1>13, NoNodes
    <3>2. ASSUME ~ IsScheduled(S1, o) PROVE fresh = NoInfo
      <4>1. PICK k \in DOMAIN Children[e] : o = <<Children[e][k], 0>>
        BY <2>2, <1>13
      <4>2. ASSUME FlatEntries(J) # {} PROVE FALSE
        <5>1. PICK m \in FlatEntries(J) : TRUE
          BY <4>2
        <5>2. New = ItemsOf(e, J, Cardinality(S))
          BY <4>2, <1>7
        <5>4. HasItem(New, <<Children[e][k], 0>>, m.key.target)
          BY <5>1, <5>2, ItemIn
        <5>3. \E i \in New : i.obj = <<Children[e][k], 0>>
          BY <5>4 DEF HasItem
        <5> QED BY <5>3, <4>1, <3>2 DEF IsScheduled
      <4> QED BY <4>2, <1>7
    <3>3. InfosFrom(L)[o] = NoInfo
      BY <3>1, NoInfoThen
    <3> QED BY <3>1, <3>2, <3>3, <2>2, <1>18
  <2>3. CASE o \notin objs
    BY <2>3, <1>1, <1>18, <1>19 DEF IsInfo
  <2> QED BY <2>2, <2>3
<1>21. AreItems(S1, G1, L, I1, T1, chosen)
  <2>1. SUFFICES ASSUME NEW i \in S1
        PROVE  /\ i.obj \in G1
               /\ \E f \in chosen, kind \in Flat, target \in Procs : \E k \in DOMAIN Children[f] :
                    /\ DueTo(i, L, f, k, kind, target)
                    /\ <<"refine", f>> \notin T1
                    /\ I1[i.obj] = Scheduled(kind)
    BY DEF AreItems
  <2>2. CASE i \in S
    <3>1. PICK f \in chosen, kind \in Flat, target \in Procs : \E k \in DOMAIN Children[f] :
                    /\ DueTo(i, L, f, k, kind, target)
                    /\ <<"refine", f>> \notin T
                    /\ I[i.obj] = Scheduled(kind)
      BY <2>2, <1>1 DEF AreItems
    <3>2. i.obj \in G
      BY <2>2, <1>1 DEF AreItems
    <3>3. I1[i.obj] = I[i.obj]
      BY <3>2, <1>1, <1>13, <1>18 DEF IsGrid
    <3> QED BY <3>1, <3>2, <3>3
  <2>3. CASE i \in New
    <3>1. PICK target \in Procs : \E k \in DOMAIN Children[e] : Child(i, k, target)
      BY <2>3, <1>8
    <3>2. PICK k \in DOMAIN Children[e] : Child(i, k, target)
      BY <3>1
    <3>3. i.obj \in objs /\ I1[i.obj] = Scheduled(side)
      BY <2>3, <1>10, <1>12, <1>18
    <3>4. <<"refine", e>> \notin T1
      OBVIOUS
    <3>5. DueTo(i, L, e, k, side, target)
      BY <3>2
    <3> HIDE DEF Child
    <3> QED BY <3>3, <3>4, <3>5, <1>3, <1>6
  <2> QED BY <2>2, <2>3
<1>22. AreNumbered(S1)
  <2>1. SUFFICES ASSUME NEW i \in S1, NEW j \in S1, NEW f \in Elems,
                        NEW k \in DOMAIN Children[f], NEW l \in DOMAIN Children[f],
                        i.obj = <<Children[f][k], 0>>, j.obj = <<Children[f][l], 0>>
                 PROVE  j.nr - i.nr = l - k
    BY DEF AreNumbered
  <2>2. ASSUME NEW h \in New, NEW m \in DOMAIN Children[f], h.obj = <<Children[f][m], 0>>
        PROVE  f = e /\ h.nr = Cardinality(S) + m /\ m \in Nat
    <3>1. PICK target \in Procs : \E q \in DOMAIN Children[e] :
                    Child(h, q, target) /\ h.obj = <<Children[e][q], 0>>
      BY <1>12
    <3>2. PICK q \in DOMAIN Children[e] : Child(h, q, target) /\ h.obj = <<Children[e][q], 0>>
      BY <3>1
    <3>3. Children[e][q] = Children[f][m]
      BY <2>2, <3>2
    <3>4. e = f /\ q = m
      BY <3>3, <1>3, OneParent
    <3>5. h.nr = Cardinality(S) + q /\ q \in Nat
      BY <3>2
    <3> QED BY <3>4, <3>5
  <2>3. ASSUME NEW h \in S, NEW m \in DOMAIN Children[f], h.obj = <<Children[f][m], 0>>
        PROVE  f # e
    <3>1. h.obj \in G /\ h.obj[1] = Children[f][m]
      BY <2>3, <1>1 DEF AreItems
    <3>2. Children[f][m] \in Now(G)
      BY <3>1 DEF Now
    <3> QED BY <3>2, <1>3
  <2>4. CASE i \in S /\ j \in S
    BY <2>4, <2>1, <1>1 DEF AreNumbered
  <2>5. CASE i \in New /\ j \in New
    <3>1. i.nr = Cardinality(S) + k /\ j.nr = Cardinality(S) + l /\ k \in Nat /\ l \in Nat
      BY <2>1, <2>2, <2>5
    <3> QED BY <3>1, <1>5
  <2> QED BY <2>1, <2>2, <2>3, <2>4, <2>5
<1>23. NoneMissing(S1, L, T1, chosen)
  <2>1. SUFFICES ASSUME NEW f \in chosen, NEW kind \in Flat, NEW target \in Procs,
                        NEW k \in DOMAIN Children[f]
                 PROVE  f \in ElemsOf(L, KeyAt(f, kind, target)) /\ <<"refine", f>> \notin T1 =>
                        HasItem(S1, <<Children[f][k], 0>>, target)
    BY DEF NoneMissing
  <2>2. SUFFICES ASSUME f \in ElemsOf(L, KeyAt(f, kind, target)), <<"refine", f>> \notin T1
                 PROVE  HasItem(S1, <<Children[f][k], 0>>, target)
    OBVIOUS
  <2>3. CASE f = e
    <3>1. HasItem(New, <<Children[f][k], 0>>, target)
      BY <2>2, <2>3, <1>9
    <3> QED BY <3>1 DEF HasItem
  <2>4. CASE f # e
    <3>1. <<"refine", f>> \notin T
      BY <2>2, <2>4
    <3>2. HasItem(S, <<Children[f][k], 0>>, target)
      BY <3>1, <2>2, <1>1 DEF NoneMissing
    <3> QED BY <3>2 DEF HasItem
  <2> QED BY <2>3, <2>4
<1>24. InPhase("insert", T1, S1, ss, active)
  BY <1>2 DEF InPhase
<1>25. AreTasks(G1, T1, ss, held[p], chosen)
  <2>1. SUFFICES ASSUME NEW t \in T1
        PROVE  /\ t = <<t[1], t[2]>> /\ t[2] \in held[p]
               /\ \/ t[1] = "replace" /\ (ss = "delete" => t[2] \notin chosen)
                  \/ /\ t[1] = "refine" /\ ss = "insert" /\ t[2] \in chosen
                     /\ \A k \in DOMAIN Children[t[2]] : Children[t[2]][k] \notin Now(G1)
                  \/ t[1] = "erase" /\ ss = "delete" /\ t[2] \in chosen
    BY DEF AreTasks
  <2>2. /\ t = <<t[1], t[2]>> /\ t[2] \in held[p]
        /\ \/ t[1] = "replace" /\ (ss = "delete" => t[2] \notin chosen)
           \/ /\ t[1] = "refine" /\ ss = "insert" /\ t[2] \in chosen
              /\ \A k \in DOMAIN Children[t[2]] : Children[t[2]][k] \notin Now(G)
           \/ t[1] = "erase" /\ ss = "delete" /\ t[2] \in chosen
    BY <1>1 DEF AreTasks
  <2>3. ASSUME t[1] = "refine", ss = "insert", t[2] \in chosen,
               \A k \in DOMAIN Children[t[2]] : Children[t[2]][k] \notin Now(G)
        PROVE  \A k \in DOMAIN Children[t[2]] : Children[t[2]][k] \notin Now(G1)
    <3>1. t[2] # e
      BY <2>2, <2>3
    <3>2. t[2] \in Elems
      BY <2>3 DEF IsContext
    <3>3. \A k \in DOMAIN Children[t[2]] : Children[t[2]][k] \notin Members(Children[e])
      BY <3>1, <3>2, <1>3, <1>15, OneParent
    <3> QED BY <3>3, <2>3, <1>14
  <2> QED BY <2>2, <2>3
<1>26. IsHeld(G1, T1, ss, held[p], chosen)
  <2>1. held[p] \subseteq Now(G) /\ \A c \in Now(G) : c \in held[p] \/ \E f \in chosen : c \in Members(Children[f])
    BY <1>1, <1>2 DEF IsHeld
  <2>2. held[p] \subseteq Now(G1) /\ \A c \in Now(G1) : c \in held[p] \/ \E f \in chosen : c \in Members(Children[f])
    BY <2>1, <1>3, <1>14
  <2> QED BY <2>2, <1>2 DEF IsHeld
<1>27. Follow(G1, L, chosen)
  <2>1. SUFFICES ASSUME NEW f \in Elems, NEW k \in DOMAIN Children[f], f \notin chosen,
                        FollowedAtFirst(f), f \in Now(G1), Children[f][k] \in Now(G1),
                        NEW kind \in Flat, NEW target \in Procs
                 PROVE  f \in ElemsOf(L, KeyAt(f, kind, target)) <=>
                          Children[f][k] \in ElemsOf(L, KeyAt(Children[f][k], kind, target))
    BY DEF Follow
  <2>2. f # e
    BY <2>1, <1>3
  <2>3. Children[f][k] \notin Members(Children[e])
    BY <2>2, <1>3, <1>15, OneParent
  <2>4. Children[f][k] \in Now(G)
    BY <2>1, <2>3, <1>14
  <2>5. f \in Now(G)
    <3>1. SUFFICES ASSUME f \in Members(Children[e]) PROVE FALSE
      BY <2>1, <1>14
    <3>2. PICK l \in DOMAIN Children[e] : f = Children[e][l]
      BY <3>1, <1>15
    <3>3. Children[f][k] \notin held[p]
      BY <3>2, <1>3, NewChild
    <3>4. PICK g \in chosen : Children[f][k] \in Members(Children[g])
      BY <3>3, <2>4, <1>1, <1>2 DEF IsHeld
    <3>5. PICK m \in DOMAIN Children[g] : Children[g][m] = Children[f][k]
      BY <3>4, IsMember
    <3>6. g \in Elems
      BY DEF IsContext
    <3>7. g = f
      BY <3>5, <3>6, OneParent
    <3> QED BY <3>7, <2>1
  <2> QED BY <2>1, <2>4, <2>5, <1>1 DEF Follow
<1>28. HoldsExpected(L, lists[p], chosen, T1, ss, active)
  BY <1>1, <1>2 DEF HoldsExpected, Expected
<1> QED BY <1>1, <1>2, <1>16, <1>17, <1>20, <1>21, <1>22, <1>23, <1>24, <1>25, <1>26, <1>27, <1>28
        DEF Local, bound
-----------------------------------------------------------------------------
(* The order of the scheduled items.                                       *)

LEMMA NrIs ==
  ASSUME NEW t \in Members(Types)
  PROVE  Nr(t) \in Nat /\ Types[Nr(t)] = t
<1>1. \E k \in DOMAIN Types : Types[k] = t
  BY IsMember
<1>2. Nr(t) \in DOMAIN Types /\ Types[Nr(t)] = t
  BY <1>1 DEF Nr
<1>3. DOMAIN Types = 1 .. 4
  BY DEF Types
<1> QED BY <1>2, <1>3

\* Where an item goes, and what it is due to.
KeyFor(I, i) ==
    [type |-> Type[i.obj[1]], level |-> Level[i.obj[1]],
     kind |-> SideOf(I[i.obj].status), target |-> i.target]

ItemAt(i, e, k, n, key, L) ==
    /\ e \in Elems /\ k \in DOMAIN Children[e] /\ k \in Nat /\ Children[e][k] \in Elems
    /\ key.kind \in Flat /\ key.target \in Procs
    /\ key.level = Level[e] + 1 /\ Level[e] \in Nat
    /\ n \in DOMAIN L[KeyAt(e, key.kind, key.target)].entries
    /\ L[KeyAt(e, key.kind, key.target)].entries[n].elem[1] = e
    /\ i.id = L[KeyAt(e, key.kind, key.target)].entries[n].localID
    /\ i.id \in Nat /\ i.nr \in Nat /\ i.map = Type[e] /\ i.target = key.target
    /\ i.obj = <<Children[e][k], 0>> /\ i.obj[1] = Children[e][k]
    /\ Nr(i.map) \in Nat /\ Types[Nr(i.map)] = i.map

LEMMA SideIs ==
  ASSUME NEW kind \in Flat
  PROVE  SideOf(Scheduled(kind).status) = kind
  BY DEF SideOf, Scheduled, Flat

LEMMA ItemKey ==
  ASSUME NEW lists, NEW held, NEW chosen, IsContext(lists, held, chosen),
         NEW G, NEW L, NEW I, NEW S, NEW T, AreItems(S, G, L, I, T, chosen), NEW i \in S,
         NEW key, key = KeyFor(I, i)
  PROVE  /\ key \in Keys /\ key.kind \in Flat /\ i.target = key.target
         /\ I[i.obj] = Scheduled(key.kind) /\ i.obj \in G
         /\ \E e \in chosen : \E k \in DOMAIN Children[e] :
               IsItemOf(i, e, k, key.kind, key.target, G, L, I, T)
<1>1. PICK e \in chosen, kind \in Flat, target \in Procs : \E k \in DOMAIN Children[e] :
             IsItemOf(i, e, k, kind, target, G, L, I, T)
  BY ItemIs
<1>2. PICK k \in DOMAIN Children[e] : IsItemOf(i, e, k, kind, target, G, L, I, T)
  BY <1>1
<1>3. /\ I[i.obj] = Scheduled(kind) /\ i.target = target /\ i.obj[1] = Children[e][k]
      /\ i.obj \in G /\ Children[e][k] \in Elems
  BY <1>2 DEF IsItemOf
<1>4. SideOf(I[i.obj].status) = kind
  BY <1>3, SideIs
<1> DEFINE c == Children[e][k]
<1>5. key = KeyAt(c, kind, target)
  BY <1>3, <1>4 DEF KeyFor, KeyAt
<1>6. c \in Elems
  BY <1>3
<1> HIDE DEF c
<1>7. key \in Keys /\ key.kind = kind /\ key.target = target
  BY <1>5, <1>6, KeyAtIn DEF Flat
<1> QED BY <1>2, <1>3, <1>7

LEMMA ItemPlace ==
  ASSUME NEW lists, NEW held, NEW chosen, IsContext(lists, held, chosen),
         NEW G, NEW L, NEW I, NEW S, NEW T, NEW bound,
         IsGrid(G), IsLayout(L, G, bound), AreItems(S, G, L, I, T, chosen), NEW i \in S,
         NEW key, key = KeyFor(I, i)
  PROVE  \E e \in chosen : \E k, n \in Nat : ItemAt(i, e, k, n, key, L)
<1>1. /\ key \in Keys /\ key.kind \in Flat /\ i.target = key.target
      /\ \E e \in chosen : \E k \in DOMAIN Children[e] :
             IsItemOf(i, e, k, key.kind, key.target, G, L, I, T)
  BY ItemKey
<1>2. PICK e \in chosen : \E k \in DOMAIN Children[e] :
             IsItemOf(i, e, k, key.kind, key.target, G, L, I, T)
  BY <1>1
<1>3. PICK k \in DOMAIN Children[e] : IsItemOf(i, e, k, key.kind, key.target, G, L, I, T)
  BY <1>2
<1>4. /\ DueTo(i, L, e, k, key.kind, key.target) /\ e \in Elems /\ k \in Nat
      /\ i.obj = <<Children[e][k], 0>> /\ i.map = Type[e]
      /\ i.nr \in Nat /\ i.obj[1] = Children[e][k] /\ Children[e][k] \in Elems
  BY <1>3 DEF IsItemOf
<1> DEFINE PK == KeyAt(e, key.kind, key.target)
           F  == L[PK].entries
<1>5. PICK n \in DOMAIN F :
         /\ F[n].elem[1] = e
         /\ i = [map |-> Type[e], id |-> F[n].localID,
                 nr |-> i.nr, obj |-> <<Children[e][k], 0>>, target |-> key.target]
  BY <1>4 DEF DueTo
<1>6. i.id = F[n].localID
  BY <1>5
<1>7. key.target \in Procs /\ key.kind \in {"HM", "HS", "VM", "VS"} /\ PK \in Keys
  BY <1>1, <1>4, KeyIs, KeyAtIn DEF Flat
<1>8. F[n].localID \in Nat /\ n \in Nat
  <2>1. F[n].localID \in Nat
    BY <1>5, <1>7, EntryElem
  <2>2. F \in Seq([elem : G, localID : Nat])
    BY <1>7 DEF IsLayout, IsItf
  <2> QED BY <2>1, <2>2, <1>5, SeqDomain
<1>9. key.level = Level[e] + 1 /\ Level[e] \in Nat
  <2>1. key.level = Level[i.obj[1]]
    BY DEF KeyFor
  <2> QED BY <2>1, <1>4, ChildIs
<1>10. Nr(i.map) \in Nat /\ Types[Nr(i.map)] = i.map
  <2>1. Type[e] \in Members(Types)
    BY <1>4, DistributedGridAssumption
  <2> QED BY <2>1, <1>4, NrIs
<1>11. ItemAt(i, e, k, n, key, L)
  <2> HIDE DEF F
  <2>1. i.id \in Nat
    BY <1>6, <1>8
  <2> QED BY <2>1, <1>1, <1>4, <1>5, <1>6, <1>7, <1>9, <1>10 DEF ItemAt, F
<1> QED BY <1>4, <1>8, <1>11

\* Items with the same id are due to the same entry.
LEMMA SamePlace ==
  ASSUME NEW G, NEW L, NEW bound, IsGrid(G), IsLayout(L, G, bound), NEW key,
         NEW i, NEW e, NEW k, NEW n, ItemAt(i, e, k, n, key, L),
         NEW j, NEW f, NEW l, NEW m, ItemAt(j, f, l, m, key, L),
         i.map = j.map
  PROVE  /\ KeyAt(e, key.kind, key.target) = KeyAt(f, key.kind, key.target)
         /\ i.id = j.id => e = f
         /\ i.id < j.id => n < m
<1> DEFINE PK == KeyAt(e, key.kind, key.target)
           F  == L[PK].entries
<1>1. /\ e \in Elems /\ f \in Elems /\ Type[e] = Type[f] /\ Level[e] = Level[f]
      /\ key.kind \in {"HM", "HS", "VM", "VS"} /\ key.target \in Procs
  BY DEF ItemAt, Flat
<1>2. KeyAt(f, key.kind, key.target) = PK
  BY <1>1 DEF KeyAt
<1>3. PK \in Keys
  BY <1>1, KeyAtIn
<1>4. /\ n \in DOMAIN F /\ F[n].elem[1] = e /\ i.id = F[n].localID
      /\ m \in DOMAIN F /\ F[m].elem[1] = f /\ j.id = F[m].localID
      /\ i.id \in Nat /\ j.id \in Nat
  BY <1>2 DEF ItemAt
<1>5. /\ F \in Seq([elem : G, localID : Nat])
      /\ \A x, y \in DOMAIN F : x < y => F[x].localID < F[y].localID
  BY <1>3 DEF IsLayout, IsItf
<1>6. n \in Nat /\ m \in Nat
  BY <1>4, <1>5, SeqDomain, SMTT(40)
<1> HIDE DEF F
<1>7. i.id = j.id => n = m
  BY <1>3, <1>4, SameId DEF F
<1>8. i.id < j.id => n < m
  <2>1. SUFFICES ASSUME i.id < j.id, ~ (n < m) PROVE FALSE
    OBVIOUS
  <2>2. n = m \/ m < n
    BY <2>1, <1>6
  <2>3. n # m
    BY <2>1, <1>4
  <2>4. F[m].localID < F[n].localID
    BY <2>2, <2>3, <1>4, <1>5
  <2> QED BY <2>1, <2>4, <1>4
<1> QED BY <1>2, <1>4, <1>7, <1>8

\* The order in which the items come is that of the parents.
LEMMA BeforeMeans ==
  ASSUME NEW G, NEW L, NEW bound, IsGrid(G), IsLayout(L, G, bound), NEW own,
         HoldsInOrder(L, own), \A key \in Keys : ElemsOf(L, key) = Members(own[key]),
         NEW S, AreNumbered(S), NEW key,
         NEW i \in S, NEW e, NEW k, NEW n, ItemAt(i, e, k, n, key, L),
         NEW j \in S, NEW f, NEW l, NEW m, ItemAt(j, f, l, m, key, L),
         Before(i, j)
  PROVE  ChildrenInOrder(own, key, i.obj[1], j.obj[1])
<1> DEFINE PK == KeyAt(e, key.kind, key.target)
           F  == L[PK].entries
<1>1. /\ e \in Elems /\ f \in Elems /\ k \in DOMAIN Children[e] /\ l \in DOMAIN Children[f]
      /\ k \in Nat /\ l \in Nat
      /\ i.obj[1] = Children[e][k] /\ j.obj[1] = Children[f][l]
      /\ i.obj = <<Children[e][k], 0>> /\ j.obj = <<Children[f][l], 0>>
      /\ i.map = Type[e] /\ j.map = Type[f] /\ i.nr \in Nat /\ j.nr \in Nat
      /\ key.kind \in {"HM", "HS", "VM", "VS"} /\ key.target \in Procs
  BY DEF ItemAt, Flat
<1>2. SUFFICES \/ Nr(Type[e]) < Nr(Type[f])
               \/ Type[e] = Type[f] /\ InOrder(own[PK], e, f)
               \/ e = f /\ k < l
  BY <1>1 DEF ChildrenInOrder
<1>3. CASE Nr(i.map) < Nr(j.map)
  BY <1>3, <1>1
<1>4. CASE i.map = j.map /\ i.id < j.id
  <2>1. n < m /\ PK = KeyAt(f, key.kind, key.target)
    BY <1>4, SamePlace
  <2>2. n \in DOMAIN F /\ F[n].elem[1] = e /\ m \in DOMAIN F /\ F[m].elem[1] = f
    BY <2>1 DEF ItemAt
  <2>3. PK \in Keys
    BY <1>1, KeyAtIn
  <2>4. Precedes(own, PK, e, f)
    BY <2>1, <2>2, <2>3 DEF HoldsInOrder
  <2>5. e \in Members(own[PK]) /\ f \in Members(own[PK])
    BY <2>2, <2>3 DEF ElemsOf
  <2>6. InOrder(own[PK], e, f)
    BY <2>4, <2>5 DEF Precedes
  <2> QED BY <2>6, <1>1, <1>4
<1>5. CASE i.map = j.map /\ i.id = j.id /\ i.nr < j.nr
  <2>1. e = f
    BY <1>5, SamePlace
  <2>2. j.nr - i.nr = l - k
    BY <2>1, <1>1 DEF AreNumbered
  <2>3. k < l
    BY <2>2, <1>1, <1>5
  <2> QED BY <2>1, <2>3
<1> QED BY <1>3, <1>4, <1>5 DEF Before

\* Nothing comes before itself, what comes before comes before what follows, and of
\* two items of an interface one comes before the other.
LEMMA BeforeIsOrder ==
  ASSUME NEW i, NEW j, NEW h,
         i.id \in Nat, i.nr \in Nat, Nr(i.map) \in Nat,
         j.id \in Nat, j.nr \in Nat, Nr(j.map) \in Nat,
         h.id \in Nat, h.nr \in Nat, Nr(h.map) \in Nat
  PROVE  ~ Before(i, i) /\ (Before(i, j) /\ Before(j, h) => Before(i, h))
  BY DEF Before

LEMMA BeforeTotal ==
  ASSUME NEW lists, NEW held, NEW chosen, IsContext(lists, held, chosen),
         NEW G, NEW L, NEW I, NEW S, NEW T, NEW bound,
         IsGrid(G), IsLayout(L, G, bound), AreItems(S, G, L, I, T, chosen), AreNumbered(S), NEW key,
         NEW i \in S, NEW e, NEW k, NEW n, ItemAt(i, e, k, n, key, L),
         NEW j \in S, NEW f, NEW l, NEW m, ItemAt(j, f, l, m, key, L)
  PROVE  i = j \/ Before(i, j) \/ Before(j, i)
<1>1. /\ e \in Elems /\ f \in Elems /\ k \in DOMAIN Children[e] /\ l \in DOMAIN Children[f]
      /\ k \in Nat /\ l \in Nat
      /\ i.obj = <<Children[e][k], 0>> /\ j.obj = <<Children[f][l], 0>>
      /\ i.nr \in Nat /\ j.nr \in Nat /\ i.id \in Nat /\ j.id \in Nat
      /\ Nr(i.map) \in Nat /\ Nr(j.map) \in Nat
      /\ Types[Nr(i.map)] = i.map /\ Types[Nr(j.map)] = j.map
      /\ i.target = key.target /\ j.target = key.target
  BY DEF ItemAt
<1>2. SUFFICES ASSUME ~ Before(i, j), ~ Before(j, i) PROVE i = j
  OBVIOUS
<1>3. ~ (Nr(i.map) < Nr(j.map)) /\ ~ (Nr(j.map) < Nr(i.map))
  BY <1>2 DEF Before
<1>4. i.map = j.map
  <2>1. Nr(i.map) = Nr(j.map)
    BY <1>1, <1>3
  <2> QED BY <2>1, <1>1
<1>5. i.id = j.id /\ i.nr = j.nr
  BY <1>1, <1>2, <1>4 DEF Before
<1>6. e = f
  BY <1>4, <1>5, SamePlace
<1>7. j.nr - i.nr = l - k
  BY <1>1, <1>6 DEF AreNumbered
<1>8. k = l
  BY <1>1, <1>5, <1>7
<1>9. i.obj = j.obj /\ i.target = j.target
  BY <1>1, <1>6, <1>8
<1> QED BY <1>9, SameItem

\* The items that go to an interface.
ItemsFor(S, I, key) == {i \in S : KeyFor(I, i) = key}
IsArriving(A, S, I, key) ==
    /\ A \in Seq(ItemsFor(S, I, key)) /\ Members(A) = ItemsFor(S, I, key)
    /\ DOMAIN A = 1 .. Len(A) /\ Len(A) \in Nat
    /\ \A j, k \in DOMAIN A : j < k => Before(A[j], A[k])
    /\ \A j, k \in DOMAIN A : A[j].obj = A[k].obj => j = k

SortedItems(S, I, key) ==
    LET S1 == ItemsFor(S, I, key)
    IN  Sorted(S1, {ij \in S1 \X S1 : Before(ij[1], ij[2])})

\* What arrives at an interface.
LEMMA ArrivingIs ==
  ASSUME NEW lists, NEW held, NEW chosen, IsContext(lists, held, chosen),
         NEW G, NEW L, NEW I, NEW S, NEW T, NEW bound,
         IsGrid(G), IsLayout(L, G, bound), AreItems(S, G, L, I, T, chosen), AreNumbered(S), NEW key
  PROVE  /\ IsArriving(SortedItems(S, I, key), S, I, key)
         /\ Len(SortedItems(S, I, key)) <= Cardinality(Elems)
<1> DEFINE S1 == ItemsFor(S, I, key)
           A  == SortedItems(S, I, key)
<1>0. \A i : i \in S1 <=> i \in S /\ KeyFor(I, i) = key
  BY DEF ItemsFor
<1> DEFINE R == {ij \in S1 \X S1 : Before(ij[1], ij[2])}
<1>1. IsFiniteSet(S1)
  <2>1. IsFiniteSet(S)
    BY ItemsFinite
  <2> QED BY <2>1, <1>0, FS_Subset
<1>2. \A x, y \in S1 : <<x, y>> \in R <=> Before(x, y)
  OBVIOUS
<1>3. \A i \in S1 : i \in S /\ \E e \in chosen : \E k, n \in Nat : ItemAt(i, e, k, n, key, L)
  BY <1>0, ItemPlace
<1>4. \A i \in S1 : i.id \in Nat /\ i.nr \in Nat /\ Nr(i.map) \in Nat
  BY <1>3 DEF ItemAt
<1>5. ASSUME NEW x \in S1, NEW y \in S1 PROVE x = y \/ Before(x, y) \/ Before(y, x)
  <2>1. PICK e \in chosen : \E k, n \in Nat : ItemAt(x, e, k, n, key, L)
    BY <1>3
  <2>2. PICK k \in Nat, n \in Nat : ItemAt(x, e, k, n, key, L)
    BY <2>1
  <2>3. PICK f \in chosen : \E l, m \in Nat : ItemAt(y, f, l, m, key, L)
    BY <1>3
  <2>4. PICK l \in Nat, m \in Nat : ItemAt(y, f, l, m, key, L)
    BY <2>3
  <2> QED BY <2>2, <2>4, <1>3, BeforeTotal
<1>9. A = Sorted(S1, R)
  BY DEF SortedItems
<1> HIDE DEF R, S1, A
<1>6. /\ \A x \in S1 : <<x, x>> \notin R
      /\ \A x, y, z \in S1 : <<x, y>> \in R /\ <<y, z>> \in R => <<x, z>> \in R
  BY <1>2, <1>4, BeforeIsOrder
<1>7. \A x, y \in S1 : x = y \/ <<x, y>> \in R \/ <<y, x>> \in R
  BY <1>2, <1>5
<1>8. /\ Cardinality(S1) \in Nat /\ Sorted(S1, R) \in Seq(S1) /\ Len(Sorted(S1, R)) = Cardinality(S1)
      /\ Members(Sorted(S1, R)) = S1
      /\ \A j, k \in 1 .. Cardinality(S1) :
              j < k => <<Sorted(S1, R)[j], Sorted(S1, R)[k]>> \in R
  BY <1>1, <1>6, <1>7, SortedSeq
<1> HIDE DEF Sorted
<1>10. A \in Seq(S1) /\ Members(A) = S1 /\ Len(A) = Cardinality(S1) /\ Len(A) \in Nat /\ DOMAIN A = 1 .. Len(A)
  <2>1. A \in Seq(S1)
    BY <1>8, <1>9
  <2>2. Members(A) = S1
    BY <1>8, <1>9
  <2>3. Len(A) = Cardinality(S1)
    BY <1>8, <1>9
  <2> QED BY <2>1, <2>2, <2>3, SeqDomain
<1>11. \A j, k \in DOMAIN A : j < k => <<A[j], A[k]>> \in R
  BY <1>8, <1>9, <1>10
<1>12. ASSUME NEW j \in DOMAIN A, NEW k \in DOMAIN A, j < k PROVE Before(A[j], A[k])
  <2>1. A[j] \in S1 /\ A[k] \in S1
    BY <1>10, SeqDomain
  <2> QED BY <2>1, <1>2, <1>11, <1>12
<1>13. ASSUME NEW x \in S1, NEW y \in S1, x.obj[1] = y.obj[1] PROVE x = y
  <2>1. x.obj = <<x.obj[1], 0>> /\ y.obj = <<y.obj[1], 0>> /\ x.target = y.target
    BY <1>3 DEF ItemAt
  <2>2. x.obj = y.obj
    BY <2>1, <1>13
  <2> QED BY <2>1, <2>2, <1>3, SameItem
<1>14. Cardinality(S1) <= Cardinality(Elems)
  <2> DEFINE g == [x \in S1 |-> x.obj[1]]
  <2>1. \A x \in S1 : x.obj[1] \in Elems
    BY <1>3 DEF ItemAt
  <2>2. g \in [S1 -> Elems]
    BY <2>1
  <2>3. \A x, y \in S1 : g[x] = g[y] => x = y
    BY <1>13
  <2> HIDE DEF g
  <2>4. g \in Injection(S1, Elems)
    BY <2>2, <2>3 DEF Injection, IsInjective
  <2> QED BY <2>4, DistributedGridAssumption, FS_Injection
<1>15. ASSUME NEW j \in DOMAIN A, NEW k \in DOMAIN A, A[j].obj = A[k].obj PROVE j = k
  <2>1. A[j] \in S1 /\ A[k] \in S1 /\ j \in Nat /\ k \in Nat
    BY <1>10, SeqDomain
  <2>2. A[j] = A[k]
    BY <2>1, <1>13, <1>15
  <2>3. \A x \in S1 : ~ Before(x, x)
    BY <1>4, BeforeIsOrder
  <2>4. ~ (j < k) /\ ~ (k < j)
    <3>1. ASSUME j < k PROVE FALSE
      BY <3>1, <2>1, <2>2, <2>3, <1>12
    <3>2. ASSUME k < j PROVE FALSE
      BY <3>2, <2>1, <2>2, <2>3, <1>12
    <3> QED BY <3>1, <3>2
  <2> QED BY <2>1, <2>4
<1> QED BY <1>10, <1>12, <1>14, <1>15 DEF IsArriving, S1, A
-----------------------------------------------------------------------------
(* Ending an insertion: the interfaces L1 are the interfaces L with what   *)
(* arrives at each.                                                        *)

Extended(F1, F, A, G) ==
    /\ F1 = [entries |-> F1.entries, idCounter |-> F1.idCounter]
    /\ F1.idCounter = F.idCounter + Len(A)
    /\ F1.entries \in Seq([elem : G, localID : Nat])
    /\ Len(F1.entries) = Len(F.entries) + Len(A)
    /\ \A k \in 1 .. Len(F.entries) : F1.entries[k] = F.entries[k]
    /\ \A k \in 1 .. Len(A) : /\ F1.entries[Len(F.entries) + k].elem = A[k].obj
                               /\ F1.entries[Len(F.entries) + k].localID = F.idCounter + k - 1

Ending(G, L, I, S, bound, own, chosen, A, L1) ==
    /\ IsGrid(G) /\ IsLayout(L, G, bound) /\ IsInfo(I, L, S)
    /\ AreItems(S, G, L, I, {}, chosen) /\ AreNumbered(S) /\ NoneMissing(S, L, {}, chosen)
    /\ HoldsInOrder(L, own) /\ \A key \in Keys : ElemsOf(L, key) = Members(own[key])
    /\ L1 = [key \in Keys |-> L1[key]]
    /\ \A key \in Keys : IsArriving(A[key], S, I, key) /\ Extended(L1[key], L[key], A[key], G)

\* An entry is an old one or that of an item.
IsOld(L1, L, key, k) == k \in DOMAIN L[key].entries /\ L1[key].entries[k] = L[key].entries[k]
IsNew(L1, L, A, S, I, key, k, a) ==
    /\ a \in DOMAIN A[key] /\ a \in Nat /\ 0 < a /\ a <= Len(A[key]) /\ k = Len(L[key].entries) + a
    /\ A[key][a] \in S /\ KeyFor(I, A[key][a]) = key
    /\ L1[key].entries[k].elem = A[key][a].obj
    /\ L1[key].entries[k].localID = L[key].idCounter + a - 1

Sized(F1, F, A, G) ==
    /\ F.entries \in Seq([elem : G, localID : Nat])
    /\ DOMAIN F.entries = 1 .. Len(F.entries) /\ Len(F.entries) \in Nat
    /\ F1.entries \in Seq([elem : G, localID : Nat])
    /\ DOMAIN F1.entries = 1 .. Len(F.entries) + Len(A)
    /\ Len(A) \in Nat /\ DOMAIN A = 1 .. Len(A)
    /\ F.idCounter \in Nat

LEMMA EntriesAre ==
  ASSUME NEW G, NEW L, NEW I, NEW S, NEW bound, NEW own, NEW chosen, NEW A, NEW L1,
         Ending(G, L, I, S, bound, own, chosen, A, L1), NEW key \in Keys
  PROVE  Sized(L1[key], L[key], A[key], G)
<1>1. /\ L[key].entries \in Seq([elem : G, localID : Nat]) /\ L[key].idCounter \in Nat
  BY DEF Ending, IsLayout, IsItf
<1>2. L1[key].entries \in Seq([elem : G, localID : Nat])
      /\ Len(L1[key].entries) = Len(L[key].entries) + Len(A[key])
  BY DEF Ending, Extended
<1>3. Len(A[key]) \in Nat /\ DOMAIN A[key] = 1 .. Len(A[key])
  BY DEF Ending, IsArriving
<1> QED BY <1>1, <1>2, <1>3, SeqDomain DEF Sized

LEMMA EntryOf ==
  ASSUME NEW G, NEW L, NEW I, NEW S, NEW bound, NEW own, NEW chosen, NEW A, NEW L1,
         Ending(G, L, I, S, bound, own, chosen, A, L1), NEW key \in Keys,
         NEW k \in DOMAIN L1[key].entries
  PROVE  IsOld(L1, L, key, k) \/ \E a \in DOMAIN A[key] : IsNew(L1, L, A, S, I, key, k, a)
<1> DEFINE m == Len(L[key].entries)
           N == Len(A[key])
<1>1. /\ m \in Nat /\ N \in Nat /\ DOMAIN L[key].entries = 1 .. m /\ DOMAIN A[key] = 1 .. N
      /\ k \in 1 .. m + N
  <2>1. Sized(L1[key], L[key], A[key], G)
    BY EntriesAre
  <2> QED BY <2>1 DEF Sized
<1>2. /\ \A x \in 1 .. m : L1[key].entries[x] = L[key].entries[x]
      /\ \A x \in 1 .. N : /\ L1[key].entries[m + x].elem = A[key][x].obj
                         /\ L1[key].entries[m + x].localID = L[key].idCounter + x - 1
  BY DEF Ending, Extended
<1>3. A[key] \in Seq(ItemsFor(S, I, key))
  BY DEF Ending, IsArriving
<1> HIDE DEF m, N
<1>4. CASE k <= m
  BY <1>1, <1>2, <1>4 DEF IsOld
<1>5. CASE m < k
  <2> DEFINE a == k - m
  <2>1. a \in 1 .. N /\ k = m + a
    BY <1>1, <1>5
  <2> HIDE DEF a
  <2>2. A[key][a] \in S /\ KeyFor(I, A[key][a]) = key
    <3>1. A[key][a] \in ItemsFor(S, I, key)
      BY <2>1, <1>1, <1>3, SeqDomain
    <3> QED BY <3>1 DEF ItemsFor
  <2>3. L1[key].entries[k].elem = A[key][a].obj
        /\ L1[key].entries[k].localID = L[key].idCounter + a - 1
    BY <2>1, <1>2
  <2>4. IsNew(L1, L, A, S, I, key, k, a)
    BY <2>1, <2>2, <2>3, <1>1 DEF IsNew, m, N
  <2> QED BY <2>1, <2>4, <1>1
<1> QED BY <1>1, <1>4, <1>5

LEMMA OldEntry ==
  ASSUME NEW G, NEW L, NEW I, NEW S, NEW bound, NEW own, NEW chosen, NEW A, NEW L1,
         Ending(G, L, I, S, bound, own, chosen, A, L1), NEW key \in Keys,
         NEW k \in DOMAIN L[key].entries
  PROVE  k \in DOMAIN L1[key].entries /\ IsOld(L1, L, key, k)
<1> DEFINE m == Len(L[key].entries)
           N == Len(A[key])
<1>1. /\ m \in Nat /\ N \in Nat /\ DOMAIN L[key].entries = 1 .. m
      /\ DOMAIN L1[key].entries = 1 .. m + N
  <2>1. Sized(L1[key], L[key], A[key], G)
    BY EntriesAre
  <2> QED BY <2>1 DEF Sized
<1>2. \A x \in 1 .. m : L1[key].entries[x] = L[key].entries[x]
  BY DEF Ending, Extended
<1> HIDE DEF m, N
<1> QED BY <1>1, <1>2 DEF IsOld

LEMMA NewEntry ==
  ASSUME NEW G, NEW L, NEW I, NEW S, NEW bound, NEW own, NEW chosen, NEW A, NEW L1,
         Ending(G, L, I, S, bound, own, chosen, A, L1), NEW key \in Keys,
         NEW a \in DOMAIN A[key]
  PROVE  \E k \in DOMAIN L1[key].entries : IsNew(L1, L, A, S, I, key, k, a)
<1> DEFINE m == Len(L[key].entries)
           N == Len(A[key])
           k == m + a
<1>1. /\ m \in Nat /\ N \in Nat /\ DOMAIN A[key] = 1 .. N
      /\ DOMAIN L1[key].entries = 1 .. m + N
  <2>1. Sized(L1[key], L[key], A[key], G)
    BY EntriesAre
  <2> QED BY <2>1 DEF Sized
<1>2. \A x \in 1 .. N : /\ L1[key].entries[m + x].elem = A[key][x].obj
                         /\ L1[key].entries[m + x].localID = L[key].idCounter + x - 1
  BY DEF Ending, Extended
<1>3. A[key] \in Seq(ItemsFor(S, I, key))
  BY DEF Ending, IsArriving
<1>4. A[key][a] \in ItemsFor(S, I, key)
  BY <1>3, SeqDomain
<1> HIDE DEF m, N, k
<1>5. L1[key].entries[k].elem = A[key][a].obj
      /\ L1[key].entries[k].localID = L[key].idCounter + a - 1
  BY <1>1, <1>2 DEF k
<1>6. k \in DOMAIN L1[key].entries
  BY <1>1 DEF k
<1>7. IsNew(L1, L, A, S, I, key, k, a)
  BY <1>1, <1>4, <1>5 DEF IsNew, ItemsFor, m, N, k
<1> QED BY <1>6, <1>7

\* Each item has an entry.
LEMMA ItemEntry ==
  ASSUME NEW lists, NEW held, NEW chosen, IsContext(lists, held, chosen),
         NEW G, NEW L, NEW I, NEW S, NEW bound, NEW own, NEW A, NEW L1,
         Ending(G, L, I, S, bound, own, chosen, A, L1), NEW i \in S, NEW key, key = KeyFor(I, i)
  PROVE  /\ key \in Keys
         /\ \E a \in DOMAIN A[key] : A[key][a] = i /\
               \E k \in DOMAIN L1[key].entries : IsNew(L1, L, A, S, I, key, k, a)
<1>1. key \in Keys
  BY ItemKey DEF Ending
<1>2. i \in Members(A[key])
  BY <1>1 DEF Ending, IsArriving, ItemsFor
<1>3. PICK a \in DOMAIN A[key] : A[key][a] = i
  BY <1>2, IsMember
<1> QED BY <1>1, <1>3, NewEntry

\* The elements of the interfaces.
LEMMA ElemsThen ==
  ASSUME NEW lists, NEW held, NEW chosen, IsContext(lists, held, chosen),
         NEW G, NEW L, NEW I, NEW S, NEW bound, NEW own, NEW A, NEW L1,
         Ending(G, L, I, S, bound, own, chosen, A, L1), NEW key \in Keys, NEW c
  PROVE  c \in ElemsOf(L1, key) <=>
           c \in ElemsOf(L, key) \/ \E i \in ItemsFor(S, I, key) : i.obj[1] = c
<1>1. ASSUME c \in ElemsOf(L1, key)
      PROVE  c \in ElemsOf(L, key) \/ \E i \in ItemsFor(S, I, key) : i.obj[1] = c
  <2>1. PICK k \in DOMAIN L1[key].entries : L1[key].entries[k].elem[1] = c
    BY <1>1 DEF ElemsOf
  <2>2. CASE IsOld(L1, L, key, k)
    BY <2>1, <2>2 DEF IsOld, ElemsOf
  <2>3. CASE \E a \in DOMAIN A[key] : IsNew(L1, L, A, S, I, key, k, a)
    <3>1. PICK a \in DOMAIN A[key] : IsNew(L1, L, A, S, I, key, k, a)
      BY <2>3
    <3>2. A[key][a] \in ItemsFor(S, I, key) /\ A[key][a].obj[1] = c
      BY <3>1, <2>1 DEF IsNew, ItemsFor
    <3> QED BY <3>2
  <2> QED BY <2>2, <2>3, EntryOf
<1>2. ASSUME c \in ElemsOf(L, key) PROVE c \in ElemsOf(L1, key)
  <2>1. PICK k \in DOMAIN L[key].entries : L[key].entries[k].elem[1] = c
    BY <1>2 DEF ElemsOf
  <2>2. k \in DOMAIN L1[key].entries /\ IsOld(L1, L, key, k)
    BY OldEntry
  <2> QED BY <2>1, <2>2 DEF IsOld, ElemsOf
<1>3. ASSUME NEW i \in ItemsFor(S, I, key), i.obj[1] = c PROVE c \in ElemsOf(L1, key)
  <2>1. i \in S /\ key = KeyFor(I, i)
    BY DEF ItemsFor
  <2>2. PICK a \in DOMAIN A[key] : A[key][a] = i /\
               \E k \in DOMAIN L1[key].entries : IsNew(L1, L, A, S, I, key, k, a)
    BY <2>1, ItemEntry
  <2>3. PICK k \in DOMAIN L1[key].entries : IsNew(L1, L, A, S, I, key, k, a)
    BY <2>2
  <2> QED BY <2>2, <2>3, <1>3 DEF IsNew, ElemsOf
<1> QED BY <1>1, <1>2, <1>3

\* What was in the interfaces was there when the session began; what is scheduled was
\* not.
LEMMA OldHeld ==
  ASSUME NEW lists, NEW held, NEW chosen, IsContext(lists, held, chosen), NEW p \in Procs,
         NEW G, NEW L, NEW I, NEW S, NEW bound, NEW A, NEW L1,
         Ending(G, L, I, S, bound, lists[p], chosen, A, L1), NEW key \in Keys,
         NEW e \in ElemsOf(L, key)
  PROVE  e \in held[p]
<1>1. e \in Members(lists[p][key])
  BY DEF Ending
<1>2. PICK k \in DOMAIN lists[p][key] : lists[p][key][k] = e
  BY <1>1, IsMember
<1>3. lists[p][key] \in Seq(held[p])
  BY DEF IsContext
<1> QED BY <1>2, <1>3, SeqDomain

LEMMA ScheduledNew ==
  ASSUME NEW lists, NEW held, NEW chosen, IsContext(lists, held, chosen), NEW p \in Procs,
         NEW G, NEW L, NEW I, NEW S, NEW T, AreItems(S, G, L, I, T, chosen), NEW i \in S
  PROVE  i.obj[1] \notin held[p]
<1>1. PICK e \in chosen, kind \in Flat, target \in Procs : \E k \in DOMAIN Children[e] :
             IsItemOf(i, e, k, kind, target, G, L, I, T)
  BY ItemIs
<1>2. PICK k \in DOMAIN Children[e] : IsItemOf(i, e, k, kind, target, G, L, I, T)
  BY <1>1
<1>3. i.obj[1] = Children[e][k]
  BY <1>2 DEF IsItemOf
<1> QED BY <1>3, NewChild

\* An interface gets the children of the elements chosen that are in the interface of
\* the same kind with the same process.
LEMMA ItemsExpected ==
  ASSUME NEW lists, NEW held, NEW chosen, IsContext(lists, held, chosen),
         NEW G, NEW L, NEW I, NEW S, NEW bound, NEW own, NEW A, NEW L1,
         Ending(G, L, I, S, bound, own, chosen, A, L1), NEW key \in Keys, NEW c
  PROVE  (\E i \in ItemsFor(S, I, key) : i.obj[1] = c) <=>
           key.kind \in Flat /\ c \in ChildrenIn(own, chosen, key)
<1>1. /\ IsGrid(G) /\ IsLayout(L, G, bound) /\ AreItems(S, G, L, I, {}, chosen)
      /\ NoneMissing(S, L, {}, chosen) /\ \A ky \in Keys : ElemsOf(L, ky) = Members(own[ky])
  BY DEF Ending
<1>2. ASSUME NEW i \in ItemsFor(S, I, key), i.obj[1] = c
      PROVE  key.kind \in Flat /\ c \in ChildrenIn(own, chosen, key)
  <2>1. i \in S /\ key = KeyFor(I, i)
    BY DEF ItemsFor
  <2>2. /\ key.kind \in Flat
        /\ \E e \in chosen : \E k \in DOMAIN Children[e] :
               IsItemOf(i, e, k, key.kind, key.target, G, L, I, {})
    BY <2>1, <1>1, ItemKey
  <2>3. PICK e \in chosen : \E k \in DOMAIN Children[e] :
               IsItemOf(i, e, k, key.kind, key.target, G, L, I, {})
    BY <2>2
  <2>4. PICK k \in DOMAIN Children[e] : IsItemOf(i, e, k, key.kind, key.target, G, L, I, {})
    BY <2>3
  <2>5. e \in Elems /\ c = Children[e][k] /\ c \in Elems /\ e \in ElemsOf(L, KeyAt(e, key.kind, key.target))
    BY <2>4, <1>2 DEF IsItemOf
  <2>6. KeyAt(e, key.kind, key.target) \in Keys
    BY <2>5, KeyIs, KeyAtIn, ZenonT(40)
  <2>7. e \in Members(own[KeyAt(e, key.kind, key.target)]) /\ c \in Members(Children[e])
    BY <2>5, <2>6, <1>1, IsMember
  <2>8. Type[c] = key.type /\ Level[c] = key.level
    BY <2>1, <1>2 DEF KeyFor
  <2> QED BY <2>2, <2>5, <2>7, <2>8 DEF ChildrenIn
<1>3. ASSUME key.kind \in Flat, c \in ChildrenIn(own, chosen, key)
      PROVE  \E i \in ItemsFor(S, I, key) : i.obj[1] = c
  <2>1. PICK e \in chosen : /\ c \in Members(Children[e])
                            /\ e \in Members(own[KeyAt(e, key.kind, key.target)])
    BY <1>3 DEF ChildrenIn
  <2>2. c \in Elems /\ Type[c] = key.type /\ Level[c] = key.level
    BY <1>3 DEF ChildrenIn
  <2>3. e \in Elems /\ key.target \in Procs
    BY KeyIs DEF IsContext
  <2>4. PICK k \in DOMAIN Children[e] : Children[e][k] = c
    BY <2>1, IsMember
  <2>5. e \in ElemsOf(L, KeyAt(e, key.kind, key.target))
    <3>1. KeyAt(e, key.kind, key.target) \in Keys
      BY <2>3, <1>3, KeyAtIn DEF Flat
    <3> QED BY <3>1, <2>1, <1>1
  <2>6. HasItem(S, <<Children[e][k], 0>>, key.target)
    BY <2>3, <2>5, <1>1, <1>3 DEF NoneMissing
  <2>7. PICK i \in S : i.obj = <<Children[e][k], 0>> /\ i.target = key.target
    BY <2>6 DEF HasItem
  <2>8. i.obj[1] = c
    <3> DEFINE x == Children[e][k]
    <3>1. i.obj = <<x, 0>> /\ x = c
      BY <2>4, <2>7
    <3> HIDE DEF x
    <3> QED BY <3>1
  <2> DEFINE K == KeyFor(I, i)
  <2>9. /\ K \in Keys /\ K.kind \in Flat /\ i.target = K.target
        /\ \E f \in chosen : \E l \in DOMAIN Children[f] :
               IsItemOf(i, f, l, K.kind, K.target, G, L, I, {})
    BY <1>1, ItemKey
  <2>10. K = KeyAt(c, K.kind, K.target)
    BY <2>8 DEF KeyFor, KeyAt
  <2> HIDE DEF K
  <2>11. PICK f \in chosen : \E l \in DOMAIN Children[f] :
               IsItemOf(i, f, l, K.kind, K.target, G, L, I, {})
    BY <2>9
  <2>12. PICK l \in DOMAIN Children[f] : IsItemOf(i, f, l, K.kind, K.target, G, L, I, {})
    BY <2>11
  <2>13. f \in Elems /\ Children[f][l] = c /\ f \in ElemsOf(L, KeyAt(f, K.kind, K.target))
    BY <2>12, <2>8 DEF IsItemOf
  <2>14. f = e
    BY <2>3, <2>4, <2>13, OneParent
  <2>15. K.target = key.target
    BY <2>7, <2>9
  <2>16. K.kind = key.kind
    <3>1. e \in ElemsOf(L, KeyAt(e, K.kind, key.target))
      BY <2>13, <2>14, <2>15
    <3>2. K.kind \in {"HM", "HS"} /\ key.kind \in {"HM", "HS"}
      BY <2>9, <1>3 DEF Flat
    <3> QED BY <3>1, <3>2, <2>3, <2>5, <1>1 DEF IsLayout, OneSided
  <2>17. key = KeyAt(c, key.kind, key.target)
    BY <2>2, IsKeyAt
  <2>18. KeyFor(I, i) = key
    BY <2>10, <2>15, <2>16, <2>17 DEF K
  <2> QED BY <2>8, <2>18 DEF ItemsFor
<1> QED BY <1>2, <1>3

\* The interfaces hold what is expected of them once the session is over.
LEMMA ExpectedThen ==
  ASSUME NEW lists, NEW held, NEW chosen, IsContext(lists, held, chosen),
         NEW G, NEW L, NEW I, NEW S, NEW bound, NEW own, NEW A, NEW L1,
         Ending(G, L, I, S, bound, own, chosen, A, L1), NEW key \in Keys, NEW c
  PROVE  c \in ElemsOf(L1, key) <=>
           c \in Members(own[key]) \/ (key.kind \in Flat /\ c \in ChildrenIn(own, chosen, key))
<1>1. ElemsOf(L, key) = Members(own[key])
  BY DEF Ending
<1> QED BY <1>1, ElemsThen, ItemsExpected

LEMMA HoldsExpectedThen ==
  ASSUME NEW lists, NEW held, NEW chosen, IsContext(lists, held, chosen),
         NEW G, NEW L, NEW I, NEW S, NEW bound, NEW own, NEW A, NEW L1,
         Ending(G, L, I, S, bound, own, chosen, A, L1)
  PROVE  HoldsExpected(L1, own, chosen, {}, "insert", FALSE)
<1>1. ASSUME NEW key \in Keys
      PROVE  ElemsOf(L1, key) = IF key.kind \notin Flat THEN Members(own[key])
                                ELSE Members(own[key]) \cup ChildrenIn(own, chosen, key)
  BY ExpectedThen
<1> QED BY <1>1 DEF HoldsExpected, Expected

\* Two items of an object go to interfaces of the same kind.
LEMMA SameKind ==
  ASSUME NEW lists, NEW held, NEW chosen, IsContext(lists, held, chosen),
         NEW G, NEW L, NEW I, NEW S, NEW T, AreItems(S, G, L, I, T, chosen),
         NEW i \in S, NEW j \in S, i.obj[1] = j.obj[1]
  PROVE  i.obj = j.obj /\ KeyFor(I, i).kind = KeyFor(I, j).kind
<1>1. ASSUME NEW h \in S PROVE h.obj = <<h.obj[1], 0>>
  <2>1. PICK e \in chosen, kind \in Flat, target \in Procs : \E k \in DOMAIN Children[e] :
             IsItemOf(h, e, k, kind, target, G, L, I, T)
    BY ItemIs
  <2>2. PICK k \in DOMAIN Children[e] : IsItemOf(h, e, k, kind, target, G, L, I, T)
    BY <2>1
  <2> QED BY <2>2 DEF IsItemOf
<1>2. i.obj = j.obj
  BY <1>1
<1> QED BY <1>2 DEF KeyFor

LEMMA OneSidedThen ==
  ASSUME NEW lists, NEW held, NEW chosen, IsContext(lists, held, chosen), NEW p \in Procs,
         NEW G, NEW L, NEW I, NEW S, NEW bound, NEW A, NEW L1,
         Ending(G, L, I, S, bound, lists[p], chosen, A, L1)
  PROVE  OneSided(L1)
<1>1. /\ IsGrid(G) /\ IsLayout(L, G, bound) /\ AreItems(S, G, L, I, {}, chosen)
  BY DEF Ending
<1>2. SUFFICES ASSUME NEW e \in Elems, NEW q \in Procs, NEW r \in Procs,
                      e \in ElemsOf(L1, KeyAt(e, "HM", q)), e \in ElemsOf(L1, KeyAt(e, "HS", r))
               PROVE  FALSE
  BY DEF OneSided
<1> DEFINE a == KeyAt(e, "HM", q)
           b == KeyAt(e, "HS", r)
<1>3. a \in Keys /\ b \in Keys /\ a.kind = "HM" /\ b.kind = "HS"
  BY KeyAtIn
<1>4. e \in ElemsOf(L1, a) /\ e \in ElemsOf(L1, b)
  BY <1>2
<1>5. ~ (e \in ElemsOf(L, a) /\ e \in ElemsOf(L, b))
  BY <1>1 DEF IsLayout, OneSided
<1> HIDE DEF a, b
<1>6. CASE e \in held[p]
  <2>1. \A i \in S : i.obj[1] # e
    BY <1>1, <1>6, ScheduledNew
  <2>2. e \in ElemsOf(L, a) /\ e \in ElemsOf(L, b)
    BY <2>1, <1>3, <1>4, ElemsThen DEF ItemsFor
  <2> QED BY <2>2, <1>5
<1>7. CASE e \notin held[p]
  <2>1. e \notin ElemsOf(L, a) /\ e \notin ElemsOf(L, b)
    BY <1>3, <1>7, OldHeld
  <2>2. PICK i \in ItemsFor(S, I, a) : i.obj[1] = e
    BY <2>1, <1>3, <1>4, ElemsThen
  <2>3. PICK j \in ItemsFor(S, I, b) : j.obj[1] = e
    BY <2>1, <1>3, <1>4, ElemsThen
  <2>4. i \in S /\ j \in S /\ KeyFor(I, i) = a /\ KeyFor(I, j) = b
    BY <2>2, <2>3 DEF ItemsFor
  <2>5. KeyFor(I, i).kind = KeyFor(I, j).kind
    BY <2>2, <2>3, <2>4, <1>1, SameKind
  <2> QED BY <2>4, <2>5, <1>3
<1> QED BY <1>6, <1>7

\* The interfaces are in order.
LEMMA ItfThen ==
  ASSUME NEW lists, NEW held, NEW chosen, IsContext(lists, held, chosen), NEW p \in Procs,
         NEW G, NEW L, NEW I, NEW S, NEW bound \in Nat, NEW A, NEW L1,
         Ending(G, L, I, S, bound, lists[p], chosen, A, L1), NEW key \in Keys,
         NEW b \in Nat, bound + Len(A[key]) <= b
  PROVE  IsItf(G, b, key, L1[key])
<1> DEFINE F  == L[key]
           F1 == L1[key]
           m  == Len(F.entries)
           N  == Len(A[key])
           d  == F.idCounter
<1>1. /\ IsGrid(G) /\ IsLayout(L, G, bound) /\ AreItems(S, G, L, I, {}, chosen)
      /\ Extended(F1, F, A[key], G) /\ IsItf(G, bound, key, F)
  BY DEF Ending, IsLayout
<1>2. /\ m \in Nat /\ N \in Nat /\ d \in Nat /\ 0 < d /\ d <= bound
      /\ DOMAIN F.entries = 1 .. m /\ DOMAIN F1.entries = 1 .. m + N
  <2>1. Sized(F1, F, A[key], G)
    BY EntriesAre
  <2>2. 0 < d /\ d <= bound
    BY <1>1 DEF IsItf
  <2> QED BY <2>1, <2>2 DEF Sized
<1>3. /\ F1 = [entries |-> F1.entries, idCounter |-> F1.idCounter]
      /\ F1.idCounter = d + N /\ F1.entries \in Seq([elem : G, localID : Nat])
  BY <1>1 DEF Extended
<1>4. /\ \A k \in DOMAIN F.entries :
           /\ F.entries[k].localID < d /\ F.entries[k].localID \in Nat
           /\ Type[F.entries[k].elem[1]] = key.type /\ Level[F.entries[k].elem[1]] = key.level
           /\ F.entries[k].elem[1] \in held[p]
      /\ \A j, k \in DOMAIN F.entries :
           /\ j < k => F.entries[j].localID < F.entries[k].localID
           /\ F.entries[j].elem[1] = F.entries[k].elem[1] => j = k
  <2>1. ASSUME NEW k \in DOMAIN F.entries
        PROVE  F.entries[k].localID \in Nat /\ F.entries[k].elem[1] \in held[p]
    <3>1. F.entries[k].elem[1] \in ElemsOf(L, key) /\ F.entries[k].localID \in Nat
      BY <1>1, EntryElem
    <3> QED BY <3>1, OldHeld
  <2> QED BY <2>1, <1>1 DEF IsItf
\* Old and new entries.
<1> DEFINE New(k, a) == IsNew(L1, L, A, S, I, key, k, a)
           Old(k) == IsOld(L1, L, key, k)
<1>5. \A k \in DOMAIN F1.entries : Old(k) \/ \E a \in DOMAIN A[key] : New(k, a)
  BY EntryOf
<1>6. ASSUME NEW k, NEW a, New(k, a)
      PROVE  /\ a \in Nat /\ 0 < a /\ a <= N /\ k = m + a /\ a \in DOMAIN A[key]
             /\ F1.entries[k].elem = A[key][a].obj /\ F1.entries[k].localID = d + a - 1
             /\ F1.entries[k].elem[1] \notin held[p]
             /\ Type[F1.entries[k].elem[1]] = key.type /\ Level[F1.entries[k].elem[1]] = key.level
  <2>1. /\ a \in Nat /\ 0 < a /\ a <= N /\ k = m + a /\ a \in DOMAIN A[key]
        /\ F1.entries[k].elem = A[key][a].obj /\ F1.entries[k].localID = d + a - 1
        /\ A[key][a] \in S /\ KeyFor(I, A[key][a]) = key
    BY <1>6 DEF IsNew
  <2>2. A[key][a].obj[1] \notin held[p]
    BY <2>1, <1>1, ScheduledNew
  <2>3. Type[A[key][a].obj[1]] = key.type /\ Level[A[key][a].obj[1]] = key.level
    BY <2>1 DEF KeyFor
  <2> QED BY <2>1, <2>2, <2>3
<1>7. ASSUME NEW k, Old(k)
      PROVE  k \in DOMAIN F.entries /\ F1.entries[k] = F.entries[k] /\ k \in 1 .. m
  BY <1>2, <1>7 DEF IsOld
<1>8. \A x, y \in DOMAIN A[key] : A[key][x].obj = A[key][y].obj => x = y
  BY DEF Ending, IsArriving
<1>9. \A x, y \in DOMAIN A[key] : A[key][x].obj[1] = A[key][y].obj[1] => x = y
  <2>1. SUFFICES ASSUME NEW x \in DOMAIN A[key], NEW y \in DOMAIN A[key],
                        A[key][x].obj[1] = A[key][y].obj[1]
                 PROVE  x = y
    OBVIOUS
  <2>2. A[key] \in Seq(ItemsFor(S, I, key))
    BY DEF Ending, IsArriving
  <2>3. A[key][x] \in S /\ A[key][y] \in S
    BY <2>2, SeqDomain DEF ItemsFor
  <2>4. A[key][x].obj = A[key][y].obj
    BY <2>1, <2>3, <1>1, SameKind
  <2> QED BY <2>4, <1>8
<1> HIDE DEF F, F1, m, N, d, New, Old
<1>10. F1.idCounter \in Nat /\ 0 < F1.idCounter /\ F1.idCounter <= b
  BY <1>2, <1>3, SMTT(40) DEF N
<1>11. ASSUME NEW k \in DOMAIN F1.entries
       PROVE  /\ F1.entries[k].localID < F1.idCounter
              /\ Type[F1.entries[k].elem[1]] = key.type /\ Level[F1.entries[k].elem[1]] = key.level
  <2>1. CASE Old(k)
    <3>1. k \in DOMAIN F.entries /\ F1.entries[k] = F.entries[k]
      BY <2>1, <1>7
    <3>2. F.entries[k].localID < d /\ F.entries[k].localID \in Nat
      BY <3>1, <1>4
    <3>3. F.entries[k].localID < d + N
      BY <3>2, <1>2
    <3>4. F1.idCounter = d + N
      BY <1>3
    <3>5. Type[F.entries[k].elem[1]] = key.type /\ Level[F.entries[k].elem[1]] = key.level
      BY <3>1, <1>4
    <3> QED BY <3>1, <3>3, <3>4, <3>5
  <2>2. CASE \E a \in DOMAIN A[key] : New(k, a)
    <3>1. PICK a \in DOMAIN A[key] : New(k, a)
      BY <2>2
    <3> QED BY <3>1, <1>2, <1>3, <1>6
  <2> QED BY <2>1, <2>2, <1>5
<1> DEFINE Apart(j, k) == /\ j < k => F1.entries[j].localID < F1.entries[k].localID
                          /\ F1.entries[j].elem[1] = F1.entries[k].elem[1] => j = k
<1> HIDE DEF Apart
<1>12. ASSUME NEW j \in DOMAIN F1.entries, NEW k \in DOMAIN F1.entries
       PROVE  Apart(j, k)
  <2>1. CASE Old(j) /\ Old(k)
    BY <2>1, <1>4, <1>7 DEF Apart
  <2>2. ASSUME NEW a, New(k, a), Old(j) PROVE Apart(j, k)
    <3>1. /\ a \in Nat /\ 0 < a /\ F1.entries[k].localID = d + a - 1
          /\ F1.entries[k].elem[1] \notin held[p]
      BY <2>2, <1>6
    <3>2. j \in DOMAIN F.entries /\ F1.entries[j] = F.entries[j]
      BY <2>2, <1>7
    <3>3. /\ F.entries[j].elem[1] \in held[p] /\ F.entries[j].localID \in Nat
          /\ F.entries[j].localID < d
      BY <3>2, <1>4
    <3>4. F1.entries[j].localID < F1.entries[k].localID
      BY <3>1, <3>2, <3>3, <1>2
    <3> QED BY <3>1, <3>2, <3>3, <3>4 DEF Apart
  <2>3. ASSUME NEW a, New(j, a), Old(k) PROVE Apart(j, k)
    <3>1. /\ a \in Nat /\ 0 < a /\ j = m + a /\ F1.entries[j].elem[1] \notin held[p]
      BY <2>3, <1>6
    <3>2. k \in 1 .. m /\ F1.entries[k].elem[1] \in held[p]
      BY <2>3, <1>4, <1>7
    <3> QED BY <3>1, <3>2, <1>2 DEF Apart
  <2>4. ASSUME NEW a, NEW c, New(j, a), New(k, c) PROVE Apart(j, k)
    <3>1. /\ a \in Nat /\ j = m + a /\ c \in Nat /\ k = m + c
          /\ a \in DOMAIN A[key] /\ c \in DOMAIN A[key]
          /\ F1.entries[j].elem = A[key][a].obj /\ F1.entries[k].elem = A[key][c].obj
          /\ F1.entries[j].localID = d + a - 1 /\ F1.entries[k].localID = d + c - 1
      BY <2>4, <1>6
    <3>2. F1.entries[j].elem[1] = F1.entries[k].elem[1] => a = c
      BY <3>1, <1>9
    <3>3. j < k => F1.entries[j].localID < F1.entries[k].localID
      BY <3>1, <1>2
    <3>4. a = c => j = k
      BY <3>1
    <3> QED BY <3>2, <3>3, <3>4 DEF Apart
  <2> QED BY <2>1, <2>2, <2>3, <2>4, <1>5
<1>13. IsItf(G, b, key, F1)
  BY <1>3, <1>10, <1>11, <1>12 DEF IsItf, Apart
<1> QED BY <1>13 DEF F1

Fits(A, bound, b) == \A key \in Keys : bound + Len(A[key]) <= b

LEMMA LayoutThen ==
  ASSUME NEW lists, NEW held, NEW chosen, IsContext(lists, held, chosen), NEW p \in Procs,
         NEW G, NEW L, NEW I, NEW S, NEW bound \in Nat, NEW A, NEW L1,
         Ending(G, L, I, S, bound, lists[p], chosen, A, L1),
         NEW b \in Nat, Fits(A, bound, b)
  PROVE  IsLayout(L1, G, b)
<1>0. \A key \in Keys : bound + Len(A[key]) <= b
  BY DEF Fits
<1>1. \A key \in Keys : IsItf(G, b, key, L1[key])
  BY <1>0, ItfThen
<1>2. OneSided(L1)
  BY OneSidedThen
<1>3. L1 = [key \in Keys |-> L1[key]]
  BY DEF Ending
<1> QED BY <1>1, <1>2, <1>3 DEF IsLayout

\* And they hold their elements in the order expected.
LEMMA HoldsInOrderThen ==
  ASSUME NEW lists, NEW held, NEW chosen, IsContext(lists, held, chosen), NEW p \in Procs,
         NEW G, NEW L, NEW I, NEW S, NEW bound, NEW A, NEW L1,
         Ending(G, L, I, S, bound, lists[p], chosen, A, L1)
  PROVE  HoldsInOrder(L1, lists[p])
<1>1. SUFFICES ASSUME NEW key \in Keys, NEW j \in DOMAIN L1[key].entries,
                      NEW k \in DOMAIN L1[key].entries, j < k
               PROVE  Precedes(lists[p], key, L1[key].entries[j].elem[1], L1[key].entries[k].elem[1])
  BY DEF HoldsInOrder
<1> DEFINE own == lists[p]
           x == L1[key].entries[j].elem[1]
           y == L1[key].entries[k].elem[1]
           New(c, a) == IsNew(L1, L, A, S, I, key, c, a)
           Old(c) == IsOld(L1, L, key, c)
           m == Len(L[key].entries)
<1>2. /\ IsGrid(G) /\ IsLayout(L, G, bound) /\ AreItems(S, G, L, I, {}, chosen) /\ AreNumbered(S)
      /\ HoldsInOrder(L, own) /\ \A ky \in Keys : ElemsOf(L, ky) = Members(own[ky])
  BY DEF Ending
<1>3. m \in Nat /\ DOMAIN L[key].entries = 1 .. m
  <2>1. Sized(L1[key], L[key], A[key], G)
    BY EntriesAre
  <2> QED BY <2>1 DEF Sized
<1>4. ASSUME NEW c, Old(c)
      PROVE  /\ c \in DOMAIN L[key].entries /\ c \in 1 .. m
             /\ L1[key].entries[c] = L[key].entries[c]
             /\ L1[key].entries[c].elem[1] \in Members(own[key])
  <2>1. c \in DOMAIN L[key].entries /\ L1[key].entries[c] = L[key].entries[c]
    BY <1>4 DEF IsOld
  <2>2. L[key].entries[c].elem[1] \in ElemsOf(L, key)
    BY <2>1 DEF ElemsOf
  <2> QED BY <2>1, <2>2, <1>2, <1>3
<1>5. ASSUME NEW c, NEW a, New(c, a)
      PROVE  /\ a \in Nat /\ 0 < a /\ c = m + a /\ a \in DOMAIN A[key]
             /\ A[key][a] \in S /\ KeyFor(I, A[key][a]) = key
             /\ L1[key].entries[c].elem = A[key][a].obj
             /\ L1[key].entries[c].elem[1] \notin Members(own[key])
  <2>1. /\ a \in Nat /\ 0 < a /\ c = m + a /\ a \in DOMAIN A[key]
        /\ A[key][a] \in S /\ KeyFor(I, A[key][a]) = key
        /\ L1[key].entries[c].elem = A[key][a].obj
    BY <1>5 DEF IsNew
  <2>2. A[key][a].obj[1] \notin held[p]
    BY <2>1, <1>2, ScheduledNew
  <2>3. A[key][a].obj[1] \notin ElemsOf(L, key)
    BY <2>2, OldHeld
  <2> QED BY <2>1, <2>3, <1>2
<1>6. /\ Old(j) \/ \E a \in DOMAIN A[key] : New(j, a)
      /\ Old(k) \/ \E a \in DOMAIN A[key] : New(k, a)
  BY EntryOf
<1> HIDE DEF New, Old, m
<1>7. CASE Old(j) /\ Old(k)
  <2>1. Precedes(own, key, L[key].entries[j].elem[1], L[key].entries[k].elem[1])
    BY <1>1, <1>2, <1>4, <1>7 DEF HoldsInOrder
  <2> QED BY <2>1, <1>4, <1>7
<1>8. ASSUME NEW a, New(k, a), Old(j) PROVE Precedes(own, key, x, y)
  BY <1>8, <1>4, <1>5 DEF Precedes
<1>9. ASSUME NEW a, New(j, a), Old(k) PROVE FALSE
  <2>1. a \in Nat /\ 0 < a /\ j = m + a /\ k \in 1 .. m
    BY <1>9, <1>4, <1>5
  <2> QED BY <2>1, <1>1, <1>3
<1>10. ASSUME NEW a, NEW c, New(j, a), New(k, c) PROVE Precedes(own, key, x, y)
  <2>1. /\ a \in Nat /\ j = m + a /\ a \in DOMAIN A[key] /\ A[key][a] \in S
        /\ KeyFor(I, A[key][a]) = key /\ x = A[key][a].obj[1] /\ x \notin Members(own[key])
    BY <1>10, <1>5
  <2>2. /\ c \in Nat /\ k = m + c /\ c \in DOMAIN A[key] /\ A[key][c] \in S
        /\ KeyFor(I, A[key][c]) = key /\ y = A[key][c].obj[1] /\ y \notin Members(own[key])
    BY <1>10, <1>5
  <2>3. a < c
    BY <2>1, <2>2, <1>1, <1>3
  <2>4. Before(A[key][a], A[key][c])
    BY <2>1, <2>2, <2>3 DEF Ending, IsArriving
  <2>5. PICK e \in chosen : \E r, n \in Nat : ItemAt(A[key][a], e, r, n, key, L)
    BY <2>1, <1>2, ItemPlace
  <2>6. PICK r \in Nat, n \in Nat : ItemAt(A[key][a], e, r, n, key, L)
    BY <2>5
  <2>7. PICK f \in chosen : \E s, o \in Nat : ItemAt(A[key][c], f, s, o, key, L)
    BY <2>2, <1>2, ItemPlace
  <2>8. PICK s \in Nat, o \in Nat : ItemAt(A[key][c], f, s, o, key, L)
    BY <2>7
  <2>9. ChildrenInOrder(own, key, A[key][a].obj[1], A[key][c].obj[1])
    BY <2>1, <2>2, <2>4, <2>6, <2>8, <1>2, BeforeMeans
  <2> QED BY <2>1, <2>2, <2>9 DEF Precedes
<1> QED BY <1>6, <1>7, <1>8, <1>9, <1>10

\* The nodes an object gets.
NodesAt(L, A, o) ==
    UNION {{[key |-> key, id |-> L[key].idCounter + a - 1] :
                a \in {a \in DOMAIN A[key] : A[key][a].obj = o}} : key \in Keys}

LEMMA NodesThen ==
  ASSUME NEW G, NEW L, NEW I, NEW S, NEW bound, NEW own, NEW chosen, NEW A, NEW L1,
         Ending(G, L, I, S, bound, own, chosen, A, L1), NEW o \in Objects
  PROVE  NodesOf(L1, o) = NodesOf(L, o) \cup NodesAt(L, A, o)
<1>1. ASSUME NEW n, n \in NodesOf(L1, o) PROVE n \in NodesOf(L, o) \/ n \in NodesAt(L, A, o)
  <2>1. PICK key \in Keys : /\ key.type = Type[o[1]]
                            /\ \E k \in DOMAIN L1[key].entries :
                                  L1[key].entries[k].elem = o /\ n = Node(key, L1[key].entries[k])
    BY <1>1, IsNode
  <2>2. PICK k \in DOMAIN L1[key].entries :
                 L1[key].entries[k].elem = o /\ n = Node(key, L1[key].entries[k])
    BY <2>1
  <2>3. CASE IsOld(L1, L, key, k)
    <3>1. k \in DOMAIN L[key].entries /\ L1[key].entries[k] = L[key].entries[k]
      BY <2>3 DEF IsOld
    <3>2. L[key].entries[k].elem = o /\ n = Node(key, L[key].entries[k])
      BY <3>1, <2>2
    <3> QED BY <3>1, <3>2, <2>1, IsNode
  <2>4. CASE \E a \in DOMAIN A[key] : IsNew(L1, L, A, S, I, key, k, a)
    <3>1. PICK a \in DOMAIN A[key] : IsNew(L1, L, A, S, I, key, k, a)
      BY <2>4
    <3>2. A[key][a].obj = o /\ L1[key].entries[k].localID = L[key].idCounter + a - 1
      BY <3>1, <2>2 DEF IsNew
    <3>3. n = [key |-> key, id |-> L[key].idCounter + a - 1]
      BY <3>2, <2>2 DEF Node
    <3> QED BY <3>2, <3>3 DEF NodesAt
  <2> QED BY <2>3, <2>4, EntryOf
<1>2. ASSUME NEW n, n \in NodesOf(L, o) PROVE n \in NodesOf(L1, o)
  <2>1. PICK key \in Keys : /\ key.type = Type[o[1]]
                            /\ \E k \in DOMAIN L[key].entries :
                                  L[key].entries[k].elem = o /\ n = Node(key, L[key].entries[k])
    BY <1>2, IsNode
  <2>2. PICK k \in DOMAIN L[key].entries :
                 L[key].entries[k].elem = o /\ n = Node(key, L[key].entries[k])
    BY <2>1
  <2>3. k \in DOMAIN L1[key].entries /\ IsOld(L1, L, key, k)
    BY OldEntry
  <2>4. L1[key].entries[k].elem = o /\ n = Node(key, L1[key].entries[k])
    BY <2>2, <2>3 DEF IsOld
  <2> QED BY <2>1, <2>3, <2>4, IsNode
<1>3. ASSUME NEW n, n \in NodesAt(L, A, o) PROVE n \in NodesOf(L1, o)
  <2>1. PICK key \in Keys : \E a \in DOMAIN A[key] :
            A[key][a].obj = o /\ n = [key |-> key, id |-> L[key].idCounter + a - 1]
    BY <1>3 DEF NodesAt
  <2>2. PICK a \in DOMAIN A[key] :
            A[key][a].obj = o /\ n = [key |-> key, id |-> L[key].idCounter + a - 1]
    BY <2>1
  <2>3. PICK k \in DOMAIN L1[key].entries : IsNew(L1, L, A, S, I, key, k, a)
    BY NewEntry
  <2>4. /\ L1[key].entries[k].elem = o /\ KeyFor(I, A[key][a]) = key
        /\ L1[key].entries[k].localID = L[key].idCounter + a - 1
    BY <2>2, <2>3 DEF IsNew
  <2>5. n = Node(key, L1[key].entries[k])
    BY <2>2, <2>4 DEF Node
  <2>6. key.type = Type[o[1]]
    BY <2>2, <2>4 DEF KeyFor
  <2> QED BY <2>4, <2>5, <2>6, IsNode
<1> QED BY <1>1, <1>2, <1>3

\* What an object knows that has been entered.
Entered(J, nodes) == [status  |-> (J.status \ {"SCHED"}) \cup {"IN", SideOf(J.status)},
                      entries |-> J.entries \cup nodes]

IsEntered(I1, I, L, S, A) ==
    /\ I1 = [o \in Objects |-> I1[o]]
    /\ \A o \in Objects : I1[o] = IF IsScheduled(S, o) THEN Entered(I[o], NodesAt(L, A, o))
                                                       ELSE I[o]

LEMMA EnteredIs ==
  ASSUME NEW kind \in Flat, NEW nodes
  PROVE  Entered(Scheduled(kind), nodes) = [status |-> {kind, "IN"}, entries |-> nodes]
<1>1. SideOf(Scheduled(kind).status) = kind
  BY SideIs
<1>2. Scheduled(kind).status = {kind, "SCHED"} /\ Scheduled(kind).entries = {}
  BY DEF Scheduled
<1>3. ({kind, "SCHED"} \ {"SCHED"}) \cup {"IN", kind} = {kind, "IN"}
  BY DEF Flat
<1> QED BY <1>1, <1>2, <1>3 DEF Entered

\* A scheduled object is in horizontal interfaces of one kind then.
IsOfOneKind(o, I, L1) ==
    \E kind \in Flat : I[o] = Scheduled(kind) /\ \A z : z \in KindsOf(L1, o) <=> z = kind

LEMMA KindsThen ==
  ASSUME NEW lists, NEW held, NEW chosen, IsContext(lists, held, chosen), NEW p \in Procs,
         NEW G, NEW L, NEW I, NEW S, NEW bound, NEW A, NEW L1,
         Ending(G, L, I, S, bound, lists[p], chosen, A, L1), NEW b, IsLayout(L1, G, b),
         NEW o \in Objects, IsScheduled(S, o)
  PROVE  IsOfOneKind(o, I, L1)
<1>1. /\ IsGrid(G) /\ IsLayout(L, G, bound) /\ AreItems(S, G, L, I, {}, chosen)
      /\ \A ky \in Keys : ElemsOf(L, ky) = Members(lists[p][ky])
  BY DEF Ending
<1>2. PICK i \in S : i.obj = o
  BY DEF IsScheduled
<1> DEFINE K == KeyFor(I, i)
<1>3. /\ K \in Keys /\ K.kind \in Flat /\ I[i.obj] = Scheduled(K.kind) /\ i.obj \in G
  BY <1>1, ItemKey
<1> DEFINE kind == K.kind
<1>4. kind \in Flat /\ I[o] = Scheduled(kind) /\ o \in G
  BY <1>2, <1>3
<1>5. K = KeyAt(o[1], kind, K.target) /\ K.target \in Procs
  <2>1. K.kind = SideOf(I[i.obj].status) /\ K.target = i.target
    BY DEF KeyFor
  <2>2. K = KeyAt(o[1], K.kind, K.target)
    BY <2>1, <1>2 DEF KeyFor, KeyAt
  <2>3. K.target \in Procs
    BY <1>3, KeyIs
  <2> QED BY <2>2, <2>3
<1>6. o[1] \in ElemsOf(L1, K)
  <2>1. i \in ItemsFor(S, I, K) /\ i.obj[1] = o[1]
    BY <1>2 DEF ItemsFor
  <2> HIDE DEF K
  <2> QED BY <2>1, <1>3, ElemsThen
<1> HIDE DEF K, kind
<1>7. kind \in KindsOf(L1, o)
  BY <1>1, <1>4, <1>5, <1>6, IsKind DEF Flat
<1>8. ~ ("HM" \in KindsOf(L1, o) /\ "HS" \in KindsOf(L1, o))
  BY <1>1, <1>4, NotBoth
<1>9. ASSUME NEW z \in KindsOf(L1, o) PROVE z = kind
  <2>1. /\ z \in {"HM", "HS", "VM", "VS"}
        /\ \E target \in Procs : o[1] \in ElemsOf(L1, KeyAt(o[1], z, target))
    BY <1>1, <1>4, IsKind
  <2>2. PICK target \in Procs : o[1] \in ElemsOf(L1, KeyAt(o[1], z, target))
    BY <2>1
  <2>3. CASE z \in Flat
    BY <2>3, <1>4, <1>7, <1>8 DEF Flat
  <2>4. CASE z \notin Flat
    <3> DEFINE Z == KeyAt(o[1], z, target)
    <3>1. Z \in Keys /\ Z.kind = z
      BY <2>1, ObjectIs, KeyAtIn
    <3>2. o[1] \in ElemsOf(L1, Z)
      BY <2>2
    <3> HIDE DEF Z
    <3>3. o[1] \in Members(lists[p][Z])
      BY <3>1, <3>2, <2>4, ExpectedThen
    <3>4. o[1] \in ElemsOf(L, Z)
      BY <3>1, <3>3, <1>1
    <3>5. o[1] \in held[p]
      BY <3>1, <3>4, OldHeld
    <3>6. i.obj[1] \notin held[p]
      BY <1>1, ScheduledNew
    <3> QED BY <3>5, <3>6, <1>2
  <2> QED BY <2>3, <2>4
<1> QED BY <1>4, <1>7, <1>9 DEF IsOfOneKind

LEMMA InfoThen ==
  ASSUME NEW lists, NEW held, NEW chosen, IsContext(lists, held, chosen), NEW p \in Procs,
         NEW G, NEW L, NEW I, NEW S, NEW bound, NEW A, NEW L1,
         Ending(G, L, I, S, bound, lists[p], chosen, A, L1), NEW b, IsLayout(L1, G, b),
         NEW I1, IsEntered(I1, I, L, S, A)
  PROVE  IsInfo(I1, L1, {})
<1>1. IsInfo(I, L, S) /\ AreItems(S, G, L, I, {}, chosen)
  BY DEF Ending
<1>2. /\ I1 = [o \in Objects |-> I1[o]]
      /\ \A o \in Objects : I1[o] = IF IsScheduled(S, o) THEN Entered(I[o], NodesAt(L, A, o)) ELSE I[o]
  BY DEF IsEntered
<1>3. ASSUME NEW o \in Objects PROVE I1[o] = InfosFrom(L1)[o]
  <2>1. NodesOf(L1, o) = NodesOf(L, o) \cup NodesAt(L, A, o)
    BY NodesThen
  <2>2. CASE IsScheduled(S, o)
    <3>1. PICK i \in S : i.obj = o
      BY <2>2 DEF IsScheduled
    <3>2. PICK kind \in Flat : I[o] = Scheduled(kind) /\ \A z : z \in KindsOf(L1, o) <=> z = kind
      <4>1. IsOfOneKind(o, I, L1)
        BY <2>2, KindsThen
      <4> QED BY <4>1 DEF IsOfOneKind
    <3>3. \A z : z \in KindsOf(L1, o) <=> z = kind
      BY <3>2
    <3>4. NodesOf(L1, o) = NodesAt(L, A, o)
      BY <2>1, <2>2, <1>1 DEF IsInfo
    <3>5. I1[o] = [status |-> {kind, "IN"}, entries |-> NodesOf(L1, o)]
      <4>1. I1[o] = Entered(Scheduled(kind), NodesOf(L1, o))
        BY <1>2, <2>2, <3>2, <3>4
      <4> QED BY <4>1, EnteredIs
    <3>6. InfosFrom(L1)[o].status = {kind, "IN"}
      <4>1. InfosFrom(L1)[o].status =
              (IF "HS" \in KindsOf(L1, o) THEN {"HS", "IN"}
               ELSE IF "HM" \in KindsOf(L1, o) THEN {"HM", "IN"} ELSE {})
              \cup (KindsOf(L1, o) \cap {"VM", "VS"})
        BY InfoIs
      <4>2. kind \in {"HM", "HS"}
        BY DEF Flat
      <4> QED BY <4>1, <4>2, <3>3
    <3>7. InfosFrom(L1)[o] = [status |-> InfosFrom(L1)[o].status, entries |-> NodesOf(L1, o)]
      BY InfoIs
    <3> QED BY <3>5, <3>6, <3>7
  <2>3. CASE ~ IsScheduled(S, o)
    <3>1. I1[o] = InfosFrom(L)[o]
      BY <2>3, <1>1, <1>2 DEF IsInfo
    <3>2. NodesAt(L, A, o) = {}
      <4>1. SUFFICES ASSUME NEW key \in Keys, NEW a \in DOMAIN A[key], A[key][a].obj = o PROVE FALSE
        BY DEF NodesAt
      <4>2. PICK k \in DOMAIN L1[key].entries : IsNew(L1, L, A, S, I, key, k, a)
        BY NewEntry
      <4>3. A[key][a] \in S
        BY <4>2 DEF IsNew
      <4> QED BY <4>1, <4>3, <2>3 DEF IsScheduled
    <3>3. NodesOf(L1, o) = NodesOf(L, o)
      BY <2>1, <3>2
    <3> QED BY <3>1, <3>3, SameInfo
  <2> QED BY <2>2, <2>3
<1>4. \A o : ~ IsScheduled({}, o)
  BY DEF IsScheduled
<1> QED BY <1>2, <1>3, <1>4 DEF IsInfo

\* Children are where their parents are.
LEMMA FollowThen ==
  ASSUME NEW lists, NEW held, NEW chosen, IsContext(lists, held, chosen), NEW p \in Procs,
         NEW G, NEW L, NEW I, NEW S, NEW bound \in Nat, NEW A, NEW L1,
         Ending(G, L, I, S, bound, lists[p], chosen, A, L1),
         Follow(G, L, chosen), IsHeld(G, {}, "insert", held[p], chosen)
  PROVE  Follow(G, L1, {})
<1>1. SUFFICES ASSUME NEW e \in Elems, NEW k \in DOMAIN Children[e], FollowedAtFirst(e),
                      e \in Now(G), Children[e][k] \in Now(G), NEW kind \in Flat, NEW target \in Procs
               PROVE  e \in ElemsOf(L1, KeyAt(e, kind, target)) <=>
                        Children[e][k] \in ElemsOf(L1, KeyAt(Children[e][k], kind, target))
  BY DEF Follow
<1> DEFINE c  == Children[e][k]
           KE == KeyAt(e, kind, target)
           KC == KeyAt(c, kind, target)
<1>2. /\ AreItems(S, G, L, I, {}, chosen)
      /\ \A key \in Keys : ElemsOf(L, key) = Members(lists[p][key])
  BY DEF Ending
<1>3. c \in Elems /\ c \in Members(Children[e])
  BY ChildIs
<1> HIDE DEF c
<1>4. /\ KE \in Keys /\ KE.kind = kind /\ KE.target = target
      /\ KC \in Keys /\ KC.kind = kind /\ KC.target = target /\ KC.type = Type[c] /\ KC.level = Level[c]
  BY <1>3, KeyAtIn DEF Flat
<1> HIDE DEF KE, KC
<1>5. \A x \in Now(G) : x \in held[p] \/ \E f \in chosen : x \in Members(Children[f])
  BY DEF IsHeld
<1>6. \A f \in chosen : f \in Elems
  BY DEF IsContext
<1>7. ASSUME NEW x \in held[p], NEW key \in Keys PROVE x \in ElemsOf(L1, key) <=> x \in ElemsOf(L, key)
  <2>1. \A i \in ItemsFor(S, I, key) : i.obj[1] # x
    BY <1>2, ScheduledNew DEF ItemsFor
  <2> QED BY <2>1, ElemsThen
<1>8. CASE e \notin chosen
  <2>1. c \in held[p]
    <3>1. SUFFICES ASSUME NEW f \in chosen, c \in Members(Children[f]) PROVE FALSE
      BY <1>1, <1>5 DEF c
    <3>2. PICK l \in DOMAIN Children[f] : Children[f][l] = c
      BY <3>1, IsMember
    <3>3. f = e
      BY <3>2, <1>6, OneParent DEF c
    <3> QED BY <3>3, <1>8
  <2>2. e \in held[p]
    <3>1. SUFFICES ASSUME NEW f \in chosen, e \in Members(Children[f]) PROVE FALSE
      BY <1>1, <1>5
    <3>2. PICK l \in DOMAIN Children[f] : Children[f][l] = e
      BY <3>1, IsMember
    <3>3. Children[e][k] \notin held[p]
      BY <3>2, NewChild
    <3> QED BY <3>3, <2>1 DEF c
  <2>3. e \in ElemsOf(L, KE) <=> c \in ElemsOf(L, KC)
    BY <1>1, <1>8 DEF Follow, c, KE, KC
  <2>4. e \in ElemsOf(L1, KE) <=> c \in ElemsOf(L1, KC)
    BY <2>1, <2>2, <2>3, <1>4, <1>7
  <2> QED BY <2>4 DEF c, KE, KC
<1>9. CASE e \in chosen
  <2>1. e \notin ChildrenIn(lists[p], chosen, KE)
    <3>1. SUFFICES ASSUME NEW f \in chosen, e \in Members(Children[f]) PROVE FALSE
      BY DEF ChildrenIn
    <3>2. PICK l \in DOMAIN Children[f] : Children[f][l] = e
      BY <3>1, IsMember
    <3> QED BY <3>2, <1>9, NewChild
  <2>2. e \in ElemsOf(L1, KE) <=> e \in Members(lists[p][KE])
    BY <2>1, <1>4, ExpectedThen
  <2>3. c \notin Members(lists[p][KC])
    <3>1. c \notin held[p]
      BY <1>9, NewChild DEF c
    <3>2. c \notin ElemsOf(L, KC)
      BY <3>1, <1>4, OldHeld
    <3> QED BY <3>2, <1>2, <1>4
  <2>4. c \in ElemsOf(L1, KC) <=> c \in ChildrenIn(lists[p], chosen, KC)
    BY <2>3, <1>4, ExpectedThen
  <2>5. c \in ChildrenIn(lists[p], chosen, KC) <=>
          \E f \in chosen : /\ c \in Members(Children[f])
                            /\ f \in Members(lists[p][KeyAt(f, kind, target)])
    BY <1>3, <1>4 DEF ChildrenIn
  <2>6. \A f \in chosen : c \in Members(Children[f]) => f = e
    <3>1. SUFFICES ASSUME NEW f \in chosen, c \in Members(Children[f]) PROVE f = e
      OBVIOUS
    <3>2. PICK l \in DOMAIN Children[f] : Children[f][l] = c
      BY <3>1, IsMember
    <3> QED BY <3>2, <1>6, OneParent DEF c
  <2>7. c \in ChildrenIn(lists[p], chosen, KC) <=> e \in Members(lists[p][KE])
    BY <2>5, <2>6, <1>3, <1>9 DEF KE
  <2> QED BY <2>2, <2>4, <2>7 DEF c, KE, KC
<1> QED BY <1>8, <1>9

\* Ending an insertion keeps the invariant.
LEMMA EndInsertionKeeps ==
  ASSUME NEW lists, NEW held, NEW chosen, IsContext(lists, held, chosen), NEW p \in Procs,
         NEW G, NEW L, NEW I, NEW S, NEW ss \in {"insert", "delete"}, NEW active \in BOOLEAN,
         NEW n \in Nat, n <= MaxSessions,
         Local(G, L, I, S, "insert", {}, ss, active, n, lists[p], held[p], chosen),
         NEW A, NEW L1, L1 = [key \in Keys |-> L1[key]],
         \A key \in Keys : /\ IsArriving(A[key], S, I, key) /\ Len(A[key]) <= Cardinality(Elems)
                           /\ Extended(L1[key], L[key], A[key], G),
         NEW I1, IsEntered(I1, I, L, S, A)
  PROVE  Local(G, L1, I1, {}, "none", {}, ss, FALSE, n, lists[p], held[p], chosen)
<1>1. /\ IsGrid(G) /\ IsLayout(L, G, Bound(IF active THEN n ELSE n + 1)) /\ IsInfo(I, L, S)
      /\ AreItems(S, G, L, I, {}, chosen) /\ AreNumbered(S)
      /\ ss = "insert" /\ active => NoneMissing(S, L, {}, chosen)
      /\ InPhase("insert", {}, S, ss, active)
      /\ AreTasks(G, {}, ss, held[p], chosen) /\ IsHeld(G, {}, ss, held[p], chosen)
      /\ Follow(G, L, IF ss = "insert" /\ active THEN chosen ELSE {})
      /\ HoldsExpected(L, lists[p], chosen, {}, ss, active) /\ HoldsInOrder(L, lists[p])
  BY DEF Local
<1>2. ss = "insert" /\ active = TRUE
  BY <1>1 DEF InPhase
<1>3. IsLayout(L, G, Bound(n)) /\ NoneMissing(S, L, {}, chosen) /\ Follow(G, L, chosen)
  BY <1>1, <1>2
<1>4. \A key \in Keys : ElemsOf(L, key) = Members(lists[p][key])
  BY <1>1, <1>2 DEF HoldsExpected, Expected
<1>5. Ending(G, L, I, S, Bound(n), lists[p], chosen, A, L1)
  BY <1>1, <1>3, <1>4 DEF Ending
<1>6. /\ Bound(n) \in Nat /\ Bound(n + 1) \in Nat /\ Cardinality(Elems) \in Nat
      /\ Bound(n + 1) = Bound(n) + Cardinality(Elems)
  BY BoundIs
<1>7. \A key \in Keys : Bound(n) + Len(A[key]) <= Bound(n + 1)
  <2>1. SUFFICES ASSUME NEW key \in Keys PROVE Bound(n) + Len(A[key]) <= Bound(n + 1)
    OBVIOUS
  <2> DEFINE l == Len(A[key])
             c == Cardinality(Elems)
             a == Bound(n)
             b == Bound(n + 1)
  <2>2. l \in Nat /\ l <= c
    BY DEF IsArriving
  <2>3. a \in Nat /\ b = a + c /\ c \in Nat
    BY <1>6
  <2> HIDE DEF l, c, a, b
  <2>4. a + l <= b
    BY <2>2, <2>3
  <2> QED BY <2>4 DEF l, a, b
<1>8. IsLayout(L1, G, Bound(n + 1))
  <2> DEFINE a == Bound(n)
             b == Bound(n + 1)
  <2>1. Ending(G, L, I, S, a, lists[p], chosen, A, L1) /\ a \in Nat /\ b \in Nat
    BY <1>5, <1>6
  <2>2. Fits(A, a, b)
    BY <1>7 DEF Fits
  <2> HIDE DEF a, b
  <2>3. IsLayout(L1, G, b)
    BY <2>1, <2>2, LayoutThen
  <2> QED BY <2>3 DEF b
<1>9. IsInfo(I1, L1, {})
  BY <1>5, <1>6, <1>8, InfoThen
<1>10. Follow(G, L1, {})
  BY <1>1, <1>2, <1>3, <1>5, <1>6, FollowThen
<1>11. HoldsExpected(L1, lists[p], chosen, {}, ss, FALSE) /\ HoldsInOrder(L1, lists[p])
  BY <1>2, <1>5, HoldsExpectedThen, HoldsInOrderThen
<1>12. AreItems({}, G, L1, I1, {}, chosen) /\ AreNumbered({}) /\ InPhase("none", {}, {}, ss, FALSE)
  BY DEF AreItems, AreNumbered, InPhase
<1>13. IsLayout(L1, G, Bound(IF FALSE THEN n ELSE n + 1))
  BY <1>8
<1>14. Follow(G, L1, IF ss = "insert" /\ FALSE THEN chosen ELSE {})
  BY <1>10
<1> QED BY <1>1, <1>9, <1>11, <1>12, <1>13, <1>14 DEF Local
-----------------------------------------------------------------------------
(* The steps of a process.                                                 *)

\* What only differs at p.
OnlyAt(x, y, p) == y = [q \in Procs |-> y[q]] /\ \A q \in Procs : q # p => y[q] = x[q]

LEMMA ExceptAt ==
  ASSUME NEW x, x = [q \in Procs |-> x[q]], NEW p \in Procs, NEW v, NEW y, y = [x EXCEPT ![p] = v]
  PROVE  OnlyAt(x, y, p) /\ y[p] = v
<1>1. y = [q \in Procs |-> IF q = p THEN v ELSE x[q]]
  OBVIOUS
<1>2. \A q \in Procs : y[q] = IF q = p THEN v ELSE x[q]
  BY <1>1
<1>3. y = [q \in Procs |-> y[q]]
  BY <1>1
<1> QED BY <1>2, <1>3 DEF OnlyAt

LEMMA SameAt ==
  ASSUME NEW x, x = [q \in Procs |-> x[q]], NEW p, NEW y, y = x
  PROVE  OnlyAt(x, y, p) /\ y[p] = x[p]
  BY DEF OnlyAt

\* What Within says of a process.
LocalAt(p, own, held, chosen) ==
    Local(grid[p], layout[p], info[p], scheduled[p], mode[p], todo[p],
          session, p \in open, sessions, own, held, chosen)

LEMMA OneProcess ==
  ASSUME NEW lists, NEW held, NEW chosen, IsShape, Within(lists, held, chosen), NEW p \in Procs,
         OnlyAt(grid, grid', p), OnlyAt(layout, layout', p), OnlyAt(info, info', p),
         OnlyAt(scheduled, scheduled', p), OnlyAt(mode, mode', p), OnlyAt(todo, todo', p),
         session' = session, sessions' = sessions, open' = open \/ open' = open \ {p},
         LocalAt(p, lists[p], held[p], chosen)'
  PROVE  IsShape' /\ Within(lists, held, chosen)'
<1>1. IsShape'
  BY DEF IsShape, OnlyAt
<1>2. ASSUME NEW q \in Procs, q # p PROVE LocalAt(q, lists[q], held[q], chosen)'
  <2>1. LocalAt(q, lists[q], held[q], chosen)
    BY DEF Within, LocalAt
  <2>2. /\ grid'[q] = grid[q] /\ layout'[q] = layout[q] /\ info'[q] = info[q]
        /\ scheduled'[q] = scheduled[q] /\ mode'[q] = mode[q] /\ todo'[q] = todo[q]
    BY <1>2 DEF OnlyAt
  <2>3. (q \in open') = (q \in open)
    BY <1>2
  <2> QED BY <2>1, <2>2, <2>3 DEF LocalAt
<1>3. \A q \in Procs : LocalAt(q, lists[q], held[q], chosen)'
  BY <1>2
<1> QED BY <1>1, <1>3 DEF Within, LocalAt

LEMMA BeginStep ==
  ASSUME NEW lists, NEW held, NEW chosen, IsShape, Within(lists, held, chosen), NEW p \in Procs,
         Begin(p)
  PROVE  IsShape' /\ Within(lists, held, chosen)'
<1>1. OnlyAt(mode, mode', p) /\ mode'[p] = session
  BY ExceptAt DEF IsShape, Begin
<1>2. /\ p \in open /\ mode[p] = "none"
      /\ grid' = grid /\ layout' = layout /\ info' = info /\ scheduled' = scheduled /\ todo' = todo
      /\ session' = session /\ open' = open /\ sessions' = sessions
  BY DEF Begin, plan
<1>3. session \in {"insert", "delete"}
  BY DEF IsShape
<1>4. Local(grid[p], layout[p], info[p], scheduled[p], "none", todo[p], session, TRUE, sessions,
            lists[p], held[p], chosen)
  <2>1. LocalAt(p, lists[p], held[p], chosen)
    BY DEF Within, LocalAt
  <2>2. (p \in open) = TRUE
    BY <1>2
  <2> QED BY <2>1, <2>2, <1>2 DEF LocalAt
<1>5. Local(grid[p], layout[p], info[p], scheduled[p], session, todo[p], session, TRUE, sessions,
            lists[p], held[p], chosen)
  BY <1>3, <1>4, BeginKeeps
<1>6. LocalAt(p, lists[p], held[p], chosen)'
  <2>1. (p \in open') = TRUE
    BY <1>2
  <2> QED BY <2>1, <1>1, <1>2, <1>5 DEF LocalAt
<1>7. /\ OnlyAt(grid, grid', p) /\ OnlyAt(layout, layout', p) /\ OnlyAt(info, info', p)
      /\ OnlyAt(scheduled, scheduled', p) /\ OnlyAt(todo, todo', p)
  BY <1>2, SameAt DEF IsShape
<1> QED BY <1>1, <1>2, <1>6, <1>7, OneProcess

LEMMA IsBoolean ==
  ASSUME NEW x, NEW S
  PROVE  \E b \in BOOLEAN : (x \in S) = b
<1>1. CASE x \in S
  <2>1. (x \in S) = TRUE
    BY <1>1
  <2> QED BY <2>1
<1>2. CASE x \notin S
  <2>1. (x \in S) = FALSE
    BY <1>2
  <2> QED BY <2>1
<1> QED BY <1>1, <1>2

LEMMA EndDeletionStep ==
  ASSUME NEW lists, NEW held, NEW chosen, IsShape, Within(lists, held, chosen), NEW p \in Procs,
         EndDeletion(p)
  PROVE  IsShape' /\ Within(lists, held, chosen)'
<1>1. OnlyAt(mode, mode', p) /\ mode'[p] = "none"
  BY ExceptAt DEF IsShape, EndDeletion
<1>2. /\ mode[p] = "delete" /\ todo[p] = {} /\ open' = open \ {p}
      /\ grid' = grid /\ layout' = layout /\ info' = info /\ scheduled' = scheduled /\ todo' = todo
      /\ session' = session /\ sessions' = sessions
  BY DEF EndDeletion
<1>3. session \in {"insert", "delete"} /\ sessions \in Nat
  BY DistributedGridAssumption DEF IsShape
<1>4. PICK active \in BOOLEAN :
        Local(grid[p], layout[p], info[p], scheduled[p], "delete", {}, session, active, sessions,
              lists[p], held[p], chosen)
  <2>1. LocalAt(p, lists[p], held[p], chosen)
    BY DEF Within, LocalAt
  <2>2. PICK active \in BOOLEAN : (p \in open) = active
    BY IsBoolean
  <2> QED BY <2>1, <2>2, <1>2 DEF LocalAt
<1>5. Local(grid[p], layout[p], info[p], scheduled[p], "none", {}, session, FALSE, sessions,
            lists[p], held[p], chosen)
  BY <1>3, <1>4, EndDeletionKeeps
<1>6. LocalAt(p, lists[p], held[p], chosen)'
  <2>1. (p \in open') = FALSE
    BY <1>2
  <2> QED BY <2>1, <1>1, <1>2, <1>5 DEF LocalAt
<1>7. /\ OnlyAt(grid, grid', p) /\ OnlyAt(layout, layout', p) /\ OnlyAt(info, info', p)
      /\ OnlyAt(scheduled, scheduled', p) /\ OnlyAt(todo, todo', p)
  BY <1>2, SameAt DEF IsShape
<1> QED BY <1>1, <1>2, <1>6, <1>7, OneProcess

LEMMA LayoutsChangedStep ==
  ASSUME NEW lists, NEW held, NEW chosen, IsShape, Within(lists, held, chosen), NEW p \in Procs,
         LayoutsChanged(p)
  PROVE  IsShape' /\ Within(lists, held, chosen)'
<1>1. OnlyAt(info, info', p) /\ info'[p] = InfosFrom(layout[p])
  <2>1. info' = [info EXCEPT ![p] = InfosFrom(layout[p])] /\ info = [q \in Procs |-> info[q]]
    BY DEF IsShape, LayoutsChanged
  <2> DEFINE v == InfosFrom(layout[p])
  <2>2. info' = [info EXCEPT ![p] = v]
    BY <2>1
  <2> HIDE DEF v
  <2>3. OnlyAt(info, info', p) /\ info'[p] = v
    BY <2>1, <2>2, ExceptAt
  <2> QED BY <2>3 DEF v
<1>2. /\ p \notin open /\ open' = open /\ mode' = mode
      /\ grid' = grid /\ layout' = layout /\ scheduled' = scheduled /\ todo' = todo
      /\ session' = session /\ sessions' = sessions
  BY DEF LayoutsChanged, plan
<1>3. session \in {"insert", "delete"}
  BY DEF IsShape
<1>4. Local(grid[p], layout[p], info[p], scheduled[p], mode[p], todo[p], session, FALSE, sessions,
            lists[p], held[p], chosen)
  <2>1. LocalAt(p, lists[p], held[p], chosen)
    BY DEF Within, LocalAt
  <2>2. (p \in open) = FALSE
    BY <1>2
  <2> QED BY <2>1, <2>2 DEF LocalAt
<1>5. Local(grid[p], layout[p], InfosFrom(layout[p]), scheduled[p], mode[p], todo[p], session, FALSE,
            sessions, lists[p], held[p], chosen)
  BY <1>3, <1>4, LayoutsChangedKeeps
<1>6. LocalAt(p, lists[p], held[p], chosen)'
  <2>1. (p \in open') = FALSE
    BY <1>2
  <2> QED BY <2>1, <1>1, <1>2, <1>5 DEF LocalAt
<1>7. /\ OnlyAt(grid, grid', p) /\ OnlyAt(layout, layout', p) /\ OnlyAt(mode, mode', p)
      /\ OnlyAt(scheduled, scheduled', p) /\ OnlyAt(todo, todo', p)
  BY <1>2, SameAt DEF IsShape
<1> QED BY <1>1, <1>2, <1>6, <1>7, OneProcess

\* What a task is done on.
LEMMA DoneIs ==
  ASSUME NEW lists, NEW held, NEW chosen, IsShape, Within(lists, held, chosen), NEW p \in Procs,
         NEW op, NEW e, Done(p, op, e)
  PROVE  /\ <<op, e>> \in todo[p] /\ OnlyAt(todo, todo', p) /\ todo'[p] = todo[p] \ {<<op, e>>}
         /\ ObjectOf(p, e) \in grid[p] /\ ObjectOf(p, e)[1] = e /\ ObjectOf(p, e) \in Objects
         /\ e \in Elems
<1>1. /\ <<op, e>> \in todo[p] /\ todo' = [todo EXCEPT ![p] = todo[p] \ {<<op, e>>}]
      /\ todo = [q \in Procs |-> todo[q]] /\ session \in {"insert", "delete"}
  BY DEF Done, IsShape
<1>2. OnlyAt(todo, todo', p) /\ todo'[p] = todo[p] \ {<<op, e>>}
  <2> DEFINE v == todo[p] \ {<<op, e>>}
  <2>1. todo' = [todo EXCEPT ![p] = v]
    BY <1>1
  <2> HIDE DEF v
  <2>2. OnlyAt(todo, todo', p) /\ todo'[p] = v
    BY <2>1, <1>1, ExceptAt
  <2> QED BY <2>2 DEF v
<1>3. /\ IsGrid(grid[p]) /\ AreTasks(grid[p], todo[p], session, held[p], chosen)
      /\ IsHeld(grid[p], todo[p], session, held[p], chosen)
  BY DEF Within, Local
<1>4. e \in Now(grid[p])
  BY <1>1, <1>3, TaskIs
<1> QED BY <1>1, <1>2, <1>3, <1>4, ObjectOfIs

LEMMA ReplaceStep ==
  ASSUME NEW lists, NEW held, NEW chosen, IsShape, Within(lists, held, chosen), NEW p \in Procs,
         NEW e \in Elems, Replace(p, e)
  PROVE  IsShape' /\ Within(lists, held, chosen)'
<1> DEFINE old == ObjectOf(p, e)
           new == <<e, 1 - old[2]>>
           G1 == (grid[p] \ {old}) \cup {new}
           L1 == Repointed(layout[p], info[p][old].entries, new)
           I1 == [info[p] EXCEPT ![new] = info[p][old], ![old] = NoInfo]
           T1 == todo[p] \ {<<"replace", e>>}
<1>1. /\ <<"replace", e>> \in todo[p] /\ OnlyAt(todo, todo', p) /\ todo'[p] = T1
      /\ old \in grid[p] /\ old[1] = e /\ old \in Objects
  BY DoneIs DEF Replace
<1>2. /\ open' = open /\ mode' = mode /\ scheduled' = scheduled
      /\ session' = session /\ sessions' = sessions
      /\ grid' = [grid EXCEPT ![p] = G1]
      /\ info' = [info EXCEPT ![p][new] = info[p][old], ![p][old] = NoInfo]
      /\ layout' = [layout EXCEPT ![p] = L1]
  BY DEF Replace, plan
<1>3. info = [q \in Procs |-> info[q]] /\ grid = [q \in Procs |-> grid[q]]
      /\ layout = [q \in Procs |-> layout[q]] /\ session \in {"insert", "delete"}
  BY DEF IsShape
<1>4. OnlyAt(info, info', p) /\ info'[p] = I1
  <2>1. info' = [info EXCEPT ![p] = I1]
    <3> DEFINE nn == new
               oo == old
               ii == info[p][old]
    <3>1. info' = [info EXCEPT ![p][nn] = ii, ![p][oo] = NoInfo]
      BY <1>2
    <3>2. I1 = [info[p] EXCEPT ![nn] = ii, ![oo] = NoInfo]
      OBVIOUS
    <3> HIDE DEF nn, oo, ii, I1, new, old
    <3> QED BY <3>1, <3>2, <1>3
  <2> HIDE DEF I1
  <2> QED BY <2>1, <1>3, ExceptAt
<1>5. OnlyAt(grid, grid', p) /\ grid'[p] = G1
  <2> HIDE DEF G1
  <2> QED BY <1>2, <1>3, ExceptAt
<1>6. OnlyAt(layout, layout', p) /\ layout'[p] = L1
  <2> HIDE DEF L1
  <2> QED BY <1>2, <1>3, ExceptAt
<1>7. PICK active \in BOOLEAN : (p \in open) = active
  BY IsBoolean
<1>8. Local(grid[p], layout[p], info[p], scheduled[p], mode[p], todo[p], session, active, sessions,
            lists[p], held[p], chosen)
  BY <1>7 DEF Within
<1>9. Local(G1, L1, I1, scheduled[p], mode[p], T1, session, active, sessions,
            lists[p], held[p], chosen)
  <2>1. IsReplaced(grid[p], layout[p], info[p], todo[p], old, new, G1, L1, I1, T1)
    BY <1>1 DEF IsReplaced
  <2>2. IsContext(lists, held, chosen)
    BY DEF Within
  <2> HIDE DEF G1, L1, I1, T1, new, old
  <2> QED BY <2>1, <2>2, <1>3, <1>8, ReplaceKeeps
<1> HIDE DEF G1, L1, I1, T1, new, old
<1>10. LocalAt(p, lists[p], held[p], chosen)'
  <2>1. (p \in open') = active
    BY <1>2, <1>7
  <2> QED BY <2>1, <1>1, <1>2, <1>4, <1>5, <1>6, <1>9 DEF LocalAt
<1>11. OnlyAt(mode, mode', p) /\ OnlyAt(scheduled, scheduled', p)
  BY <1>2, SameAt DEF IsShape
<1> QED BY <1>1, <1>2, <1>4, <1>5, <1>6, <1>10, <1>11, OneProcess

LEMMA EraseStep ==
  ASSUME NEW lists, NEW held, NEW chosen, IsShape, Within(lists, held, chosen), NEW p \in Procs,
         NEW e \in Elems, EraseElement(p, e)
  PROVE  IsShape' /\ Within(lists, held, chosen)'
<1> DEFINE old == ObjectOf(p, e)
           G1 == grid[p] \ {old}
           L1 == Without(layout[p], info[p][old].entries)
           I1 == [info[p] EXCEPT ![old] = NoInfo]
           T1 == todo[p] \ {<<"erase", e>>}
<1>1. /\ <<"erase", e>> \in todo[p] /\ OnlyAt(todo, todo', p) /\ todo'[p] = T1
      /\ old \in grid[p] /\ old[1] = e /\ old \in Objects
  BY DoneIs DEF EraseElement
<1>2. /\ open' = open /\ mode' = mode /\ scheduled' = scheduled /\ mode[p] = "delete"
      /\ session' = session /\ sessions' = sessions
      /\ grid' = [grid EXCEPT ![p] = G1]
      /\ info' = [info EXCEPT ![p][old] = NoInfo]
      /\ layout' = [layout EXCEPT ![p] = L1]
  BY DEF EraseElement, plan
<1>3. info = [q \in Procs |-> info[q]] /\ grid = [q \in Procs |-> grid[q]]
      /\ layout = [q \in Procs |-> layout[q]] /\ session \in {"insert", "delete"}
  BY DEF IsShape
<1>4. OnlyAt(info, info', p) /\ info'[p] = I1
  <2>1. info' = [info EXCEPT ![p] = I1]
    BY <1>2
  <2> HIDE DEF I1
  <2> QED BY <2>1, <1>3, ExceptAt
<1>5. OnlyAt(grid, grid', p) /\ grid'[p] = G1
  <2> HIDE DEF G1
  <2> QED BY <1>2, <1>3, ExceptAt
<1>6. OnlyAt(layout, layout', p) /\ layout'[p] = L1
  <2> HIDE DEF L1
  <2> QED BY <1>2, <1>3, ExceptAt
<1>7. PICK active \in BOOLEAN : (p \in open) = active
  BY IsBoolean
<1>8. Local(grid[p], layout[p], info[p], scheduled[p], "delete", todo[p], session, active, sessions,
            lists[p], held[p], chosen)
  BY <1>2, <1>7 DEF Within
<1>9. Local(G1, L1, I1, scheduled[p], "delete", T1, session, active, sessions,
            lists[p], held[p], chosen)
  <2>1. IsErased(grid[p], layout[p], info[p], todo[p], old, G1, L1, I1, T1)
    BY <1>1 DEF IsErased
  <2>2. IsContext(lists, held, chosen)
    BY DEF Within
  <2> HIDE DEF G1, L1, I1, T1, old
  <2> QED BY <2>1, <2>2, <1>3, <1>8, EraseKeeps, SMTT(40)
<1> HIDE DEF G1, L1, I1, T1, old
<1>10. LocalAt(p, lists[p], held[p], chosen)'
  <2>1. (p \in open') = active
    BY <1>2, <1>7
  <2> QED BY <2>1, <1>1, <1>2, <1>4, <1>5, <1>6, <1>9 DEF LocalAt
<1>11. OnlyAt(mode, mode', p) /\ OnlyAt(scheduled, scheduled', p)
  BY <1>2, SameAt DEF IsShape
<1> QED BY <1>1, <1>2, <1>4, <1>5, <1>6, <1>10, <1>11, OneProcess

LEMMA RefineStep ==
  ASSUME NEW lists, NEW held, NEW chosen, IsShape, Within(lists, held, chosen), NEW p \in Procs,
         NEW e \in Elems, Refine(p, e)
  PROVE  IsShape' /\ Within(lists, held, chosen)'
<1> DEFINE old     == ObjectOf(p, e)
           J       == info[p][old]
           objs    == Members(Children[e]) \X {0}
           follows == J.status \cap {"IN", "SCHED"} # {} /\ J.entries # {}
           side    == SideOf(J.status)
           fresh   == IF follows THEN [NoInfo EXCEPT !.status = {side, "SCHED"}] ELSE NoInfo
           New     == IF follows THEN Items(p, e, J) ELSE {}
           G1 == grid[p] \cup objs
           I1 == [o \in Objects |-> IF o \in objs THEN fresh ELSE info[p][o]]
           S1 == scheduled[p] \cup New
           T1 == todo[p] \ {<<"refine", e>>}
<1>1. /\ <<"refine", e>> \in todo[p] /\ OnlyAt(todo, todo', p) /\ todo'[p] = T1
      /\ old \in grid[p] /\ old[1] = e /\ old \in Objects
  BY DoneIs DEF Refine
<1>2. /\ open' = open /\ mode' = mode /\ layout' = layout /\ mode[p] = "insert"
      /\ session' = session /\ sessions' = sessions
      /\ grid' = [grid EXCEPT ![p] = G1]
      /\ info' = [info EXCEPT ![p] = I1]
      /\ scheduled' = [scheduled EXCEPT ![p] = S1]
  BY DEF Refine, plan
<1>3. info = [q \in Procs |-> info[q]] /\ grid = [q \in Procs |-> grid[q]]
      /\ scheduled = [q \in Procs |-> scheduled[q]] /\ session \in {"insert", "delete"}
  BY DEF IsShape
<1>4. OnlyAt(info, info', p) /\ info'[p] = I1
  <2> HIDE DEF I1
  <2> QED BY <1>2, <1>3, ExceptAt
<1>5. OnlyAt(grid, grid', p) /\ grid'[p] = G1
  <2> HIDE DEF G1
  <2> QED BY <1>2, <1>3, ExceptAt
<1>6. OnlyAt(scheduled, scheduled', p) /\ scheduled'[p] = S1
  <2> HIDE DEF S1
  <2> QED BY <1>2, <1>3, ExceptAt
<1>7. PICK active \in BOOLEAN : (p \in open) = active
  BY IsBoolean
<1>8. Local(grid[p], layout[p], info[p], scheduled[p], "insert", todo[p], session, active, sessions,
            lists[p], held[p], chosen)
  BY <1>2, <1>7 DEF Within
<1>9. Local(G1, layout[p], I1, S1, "insert", T1, session, active, sessions,
            lists[p], held[p], chosen)
  <2>1. Items(p, e, J) = ItemsOf(e, J, Cardinality(scheduled[p]))
    <3> HIDE DEF J
    <3> QED BY DEF Items, ItemsOf
  <2>2. IF follows THEN /\ fresh = [NoInfo EXCEPT !.status = {side, "SCHED"}]
                        /\ New = ItemsOf(e, J, Cardinality(scheduled[p]))
                   ELSE fresh = NoInfo /\ New = {}
    BY <2>1
  <2>3. IsRefinedBy(grid[p], info[p], scheduled[p], todo[p], old, e, objs, fresh, New, J, side,
                    G1, I1, S1, T1)
    <3>1. objs = Members(Children[e]) \X {0} /\ J = info[p][old] /\ side = SideOf(J.status)
      OBVIOUS
    <3>2. /\ G1 = grid[p] \cup objs /\ S1 = scheduled[p] \cup New /\ T1 = todo[p] \ {<<"refine", e>>}
          /\ I1 = [o \in Objects |-> IF o \in objs THEN fresh ELSE info[p][o]]
      OBVIOUS
    <3>3. IF J.status \cap {"IN", "SCHED"} # {} /\ J.entries # {}
          THEN /\ fresh = [NoInfo EXCEPT !.status = {side, "SCHED"}]
               /\ New = ItemsOf(e, J, Cardinality(scheduled[p]))
          ELSE fresh = NoInfo /\ New = {}
      BY <2>2
    <3> HIDE DEF G1, I1, S1, T1, old, objs, fresh, New, J, side
    <3> QED BY <3>1, <3>2, <3>3, <1>1 DEF IsRefinedBy
  <2>4. IsContext(lists, held, chosen)
    BY DEF Within
  <2> HIDE DEF G1, I1, S1, T1, old, objs, fresh, New, J, side
  <2>5. IsRefined(grid[p], info[p], scheduled[p], todo[p], old, G1, I1, S1, T1)
    BY <2>3 DEF IsRefined
  <2>6. session \in {"insert", "delete"}
    BY <1>3
  <2> QED BY <2>4, <2>5, <2>6, <1>8, RefineKeeps, SMTT(60)
<1> HIDE DEF G1, I1, S1, T1, old
<1>10. LocalAt(p, lists[p], held[p], chosen)'
  <2>1. (p \in open') = active
    BY <1>2, <1>7
  <2> QED BY <2>1, <1>1, <1>2, <1>4, <1>5, <1>6, <1>9 DEF LocalAt
<1>11. OnlyAt(mode, mode', p) /\ OnlyAt(layout, layout', p)
  BY <1>2, SameAt DEF IsShape
<1> QED BY <1>1, <1>2, <1>4, <1>5, <1>6, <1>10, <1>11, OneProcess

\* What is pushed back to an interface.
LEMMA FilledIs ==
  ASSUME NEW lists, NEW held, NEW chosen, IsContext(lists, held, chosen), NEW p \in Procs,
         NEW G, NEW L, L = layout[p], NEW I, I = info[p], NEW S, S = scheduled[p],
         NEW n \in Nat, n <= MaxSessions, IsGrid(G), IsLayout(L, G, Bound(n)),
         AreItems(S, G, L, I, {}, chosen), AreNumbered(S),
         NEW key \in Keys, NEW A, A = Arriving(p, key), NEW P, P = Filled(p, key)
  PROVE  /\ IsArriving(A, S, I, key) /\ Len(A) <= Cardinality(Elems)
         /\ Extended(P[Cardinality(DOMAIN P) - 1], L[key], A, G)
         /\ \A k \in DOMAIN A : FreshId(P[k - 1]).id = L[key].idCounter + k - 1
<1> DEFINE S1 == ItemsFor(S, I, key)
           N  == Len(A)
           F  == L[key]
           objs == [k \in 1 .. N |-> A[k].obj]
           d  == F.idCounter
<1>1. A = SortedItems(S, I, key)
  <2>1. \A i : KeyOf(p, i) = KeyFor(I, i)
    BY DEF KeyOf, KeyFor
  <2>2. {i \in scheduled[p] : KeyOf(p, i) = key} = S1
    BY <2>1 DEF ItemsFor
  <2> QED BY <2>2 DEF Arriving, SortedItems
<1>3. IsArriving(A, S, I, key) /\ N <= Cardinality(Elems)
  <2>1. /\ IsArriving(SortedItems(S, I, key), S, I, key)
        /\ Len(SortedItems(S, I, key)) <= Cardinality(Elems)
    BY ArrivingIs
  <2> QED BY <2>1, <1>1
<1>2. A \in Seq(S1) /\ DOMAIN A = 1 .. N /\ N \in Nat
  BY <1>3 DEF IsArriving
<1>4. objs \in Seq(G) /\ Len(objs) = N
  <2>1. \A k \in 1 .. N : A[k].obj \in G
    <3>1. SUFFICES ASSUME NEW k \in 1 .. N PROVE A[k].obj \in G
      OBVIOUS
    <3>2. A[k] \in S1
      BY <1>2, SeqDomain
    <3> QED BY <3>2 DEF ItemsFor, AreItems
  <2>2. \A k \in 1 .. N : objs[k] \in G
    BY <2>1
  <2>3. objs = [k \in 1 .. N |-> objs[k]]
    OBVIOUS
  <2> HIDE DEF objs, N, S1
  <2> QED BY <2>2, <2>3, <1>2, SeqIs
<1>5. /\ F = [entries |-> F.entries, idCounter |-> F.idCounter]
      /\ F.entries \in Seq([elem : G, localID : Nat]) /\ d \in Nat /\ 0 < d /\ d <= Bound(n)
  BY DEF IsLayout, IsItf
<1>6. d + Len(objs) < IdLimit
  <2>1. Bound(n) \in Nat /\ Bound(n + 1) = Bound(n) + Cardinality(Elems) /\ Bound(n + 1) < IdLimit
        /\ Cardinality(Elems) \in Nat
    BY BoundIs
  <2> HIDE DEF objs, d, N
  <2> QED BY <2>1, <1>2, <1>3, <1>4, <1>5, IdLimitAssumption
<1>7. P = Pushed(F, objs)
  BY DEF Filled
<1> HIDE DEF objs, F, N, S1
<1>8. ASSUME NEW k \in 0 .. N
      PROVE  /\ P[k] = [entries |-> P[k].entries, idCounter |-> d + k]
             /\ P[k].idCounter = d + k /\ FreshId(P[k]).id = d + k
             /\ P[k].entries \in Seq([elem : G, localID : Nat])
             /\ Len(P[k].entries) = Len(F.entries) + k
             /\ \A j \in 1 .. Len(F.entries) : P[k].entries[j] = F.entries[j]
             /\ \A j \in 1 .. k : P[k].entries[Len(F.entries) + j] = [elem |-> objs[j], localID |-> d + j - 1]
  <2>1. k \in 0 .. Len(objs)
    BY <1>4
  <2>2. IsPushed(P[k], F, objs, G, d, k)
    BY <2>1, <1>4, <1>5, <1>6, <1>7, PushedIs
  <2> QED BY <2>2 DEF IsPushed
<1>9. Cardinality(DOMAIN P) - 1 = N
  <2>1. DOMAIN P = 0 .. N
    BY <1>2, <1>4, <1>7, PushedSteps
  <2>2. Cardinality(0 .. N) = N + 1
    BY <1>2, FS_Interval
  <2> QED BY <2>1, <2>2, <1>2
<1>10. Extended(P[N], F, A, G)
  <2>1. N \in 0 .. N
    BY <1>2
  <2>2. \A j \in 1 .. N : /\ P[N].entries[Len(F.entries) + j].elem = A[j].obj
                          /\ P[N].entries[Len(F.entries) + j].localID = d + j - 1
    <3>1. SUFFICES ASSUME NEW j \in 1 .. N
                   PROVE  /\ P[N].entries[Len(F.entries) + j].elem = A[j].obj
                          /\ P[N].entries[Len(F.entries) + j].localID = d + j - 1
      OBVIOUS
    <3>2. P[N].entries[Len(F.entries) + j] = [elem |-> objs[j], localID |-> d + j - 1]
      BY <2>1, <1>8
    <3>3. objs[j] = A[j].obj
      BY DEF objs
    <3> QED BY <3>2, <3>3
  <2>3. /\ P[N] = [entries |-> P[N].entries, idCounter |-> P[N].idCounter]
        /\ P[N].idCounter = d + N
        /\ P[N].entries \in Seq([elem : G, localID : Nat])
        /\ Len(P[N].entries) = Len(F.entries) + N
        /\ \A k \in 1 .. Len(F.entries) : P[N].entries[k] = F.entries[k]
    BY <2>1, <1>8
  <2> QED BY <2>2, <2>3 DEF Extended, N
<1>11. ASSUME NEW k \in DOMAIN A PROVE FreshId(P[k - 1]).id = d + k - 1
  <2>1. k - 1 \in 0 .. N /\ k \in Nat
    BY <1>2
  <2>2. FreshId(P[k - 1]).id = d + (k - 1)
    BY <2>1, <1>8
  <2> QED BY <2>1, <2>2, <1>5
<1> QED BY <1>3, <1>9, <1>10, <1>11 DEF N, F

LEMMA NewNodesAre ==
  ASSUME NEW lists, NEW held, NEW chosen, IsContext(lists, held, chosen), NEW p \in Procs,
         NEW G, IsGrid(G), NEW n \in Nat, n <= MaxSessions, IsLayout(layout[p], G, Bound(n)),
         AreItems(scheduled[p], G, layout[p], info[p], {}, chosen), AreNumbered(scheduled[p]),
         NEW A, \A key \in Keys : A[key] = Arriving(p, key), NEW o
  PROVE  NewNodes(p, o) = NodesAt(layout[p], A, o)
<1> DEFINE id(key, k) == FreshId(Filled(p, key)[k - 1]).id
           KS == {KeyOf(p, i) : i \in {i \in scheduled[p] : i.obj = o}}
<1>1. ASSUME NEW key \in Keys
      PROVE  /\ IsArriving(A[key], scheduled[p], info[p], key)
             /\ \A k \in DOMAIN A[key] : id(key, k) = layout[p][key].idCounter + k - 1
  <2>1. A[key] = Arriving(p, key)
    OBVIOUS
  <2> DEFINE P == Filled(p, key)
             B == Arriving(p, key)
  <2>2. /\ IsArriving(B, scheduled[p], info[p], key)
        /\ \A k \in DOMAIN B : FreshId(P[k - 1]).id = layout[p][key].idCounter + k - 1
    <3>1. P = Filled(p, key) /\ B = Arriving(p, key)
      OBVIOUS
    <3> HIDE DEF P, B
    <3> QED BY <3>1, FilledIs
  <2> QED BY <2>1, <2>2
<1>2. \A i : KeyOf(p, i) = KeyFor(info[p], i)
  BY DEF KeyOf, KeyFor
<1>3. ASSUME NEW key \in KS PROVE key \in Keys
  <2>1. PICK i \in scheduled[p] : key = KeyFor(info[p], i)
    BY <1>2
  <2> QED BY <2>1, ItemKey
<1>4. ASSUME NEW x, x \in NewNodes(p, o) PROVE x \in NodesAt(layout[p], A, o)
  <2>1. PICK key \in KS : \E k \in DOMAIN Arriving(p, key) :
            Arriving(p, key)[k].obj = o /\ x = [key |-> key, id |-> id(key, k)]
    BY <1>4 DEF NewNodes
  <2>2. key \in Keys
    BY <1>3
  <2> HIDE DEF KS, id
  <2>3. PICK k \in DOMAIN A[key] : A[key][k].obj = o /\ x = [key |-> key, id |-> id(key, k)]
    BY <2>1, <2>2
  <2>4. x = [key |-> key, id |-> layout[p][key].idCounter + k - 1]
    BY <2>2, <2>3, <1>1
  <2> QED BY <2>2, <2>3, <2>4 DEF NodesAt
<1>5. ASSUME NEW x, x \in NodesAt(layout[p], A, o) PROVE x \in NewNodes(p, o)
  <2>1. PICK key \in Keys : \E a \in DOMAIN A[key] :
            A[key][a].obj = o /\ x = [key |-> key, id |-> layout[p][key].idCounter + a - 1]
    BY <1>5 DEF NodesAt
  <2>2. PICK a \in DOMAIN A[key] :
            A[key][a].obj = o /\ x = [key |-> key, id |-> layout[p][key].idCounter + a - 1]
    BY <2>1
  <2>3. x = [key |-> key, id |-> id(key, a)]
    BY <2>2, <1>1
  <2>4. A[key][a] \in scheduled[p] /\ KeyFor(info[p], A[key][a]) = key
    <3>1. A[key] \in Seq(ItemsFor(scheduled[p], info[p], key))
      BY <1>1 DEF IsArriving
    <3>2. A[key][a] \in ItemsFor(scheduled[p], info[p], key)
      BY <3>1, SeqDomain
    <3> QED BY <3>2 DEF ItemsFor
  <2>5. key \in KS
    BY <2>2, <2>4, <1>2
  <2>6. a \in DOMAIN Arriving(p, key) /\ Arriving(p, key)[a].obj = o
    BY <2>2
  <2> HIDE DEF id
  <2> QED BY <2>3, <2>5, <2>6 DEF NewNodes, id
<1> QED BY <1>4, <1>5

LEMMA EndInsertionStep ==
  ASSUME NEW lists, NEW held, NEW chosen, IsShape, Within(lists, held, chosen), NEW p \in Procs,
         EndInsertion(p)
  PROVE  IsShape' /\ Within(lists, held, chosen)'
<1> DEFINE L == layout[p]
           I == info[p]
           S == scheduled[p]
           A == [key \in Keys |-> Arriving(p, key)]
           last(filled) == filled[Cardinality(DOMAIN filled) - 1]
           L1 == [key \in Keys |-> last(Filled(p, key))]
           objs == {i.obj : i \in S}
           entered(o, i) == [status  |-> (i.status \ {"SCHED"}) \cup {"IN", SideOf(i.status)},
                             entries |-> i.entries \cup NewNodes(p, o)]
           I1 == [o \in Objects |-> IF o \in objs THEN entered(o, I[o]) ELSE I[o]]
<1>1. /\ mode[p] = "insert" /\ todo[p] = {} /\ open' = open \ {p}
      /\ grid' = grid /\ todo' = todo /\ session' = session /\ sessions' = sessions
      /\ layout' = [layout EXCEPT ![p] = L1] /\ info' = [info EXCEPT ![p] = I1]
      /\ scheduled' = [scheduled EXCEPT ![p] = {}] /\ mode' = [mode EXCEPT ![p] = "none"]
  BY DEF EndInsertion
<1>2. /\ info = [q \in Procs |-> info[q]] /\ grid = [q \in Procs |-> grid[q]]
      /\ layout = [q \in Procs |-> layout[q]] /\ scheduled = [q \in Procs |-> scheduled[q]]
      /\ mode = [q \in Procs |-> mode[q]]
      /\ session \in {"insert", "delete"} /\ sessions \in Nat /\ sessions <= MaxSessions
  BY DistributedGridAssumption DEF IsShape
<1>3. OnlyAt(info, info', p) /\ info'[p] = I1
  <2> HIDE DEF I1
  <2> QED BY <1>1, <1>2, ExceptAt
<1>4. OnlyAt(layout, layout', p) /\ layout'[p] = L1
  <2> HIDE DEF L1
  <2> QED BY <1>1, <1>2, ExceptAt
<1>5. OnlyAt(scheduled, scheduled', p) /\ scheduled'[p] = {} /\ OnlyAt(mode, mode', p) /\ mode'[p] = "none"
  BY <1>1, <1>2, ExceptAt
<1>6. PICK active \in BOOLEAN : (p \in open) = active
  BY IsBoolean
<1>7. Local(grid[p], L, I, S, "insert", {}, session, active, sessions, lists[p], held[p], chosen)
      /\ IsContext(lists, held, chosen)
  BY <1>1, <1>6 DEF Within
<1>8. /\ IsGrid(grid[p]) /\ AreItems(S, grid[p], L, I, {}, chosen) /\ AreNumbered(S)
      /\ IsLayout(L, grid[p], Bound(sessions))
  <2>1. InPhase("insert", {}, S, session, active)
    BY <1>7 DEF Local
  <2>2. active = TRUE
    BY <2>1 DEF InPhase
  <2> QED BY <2>2, <1>7 DEF Local
<1>9. ASSUME NEW key \in Keys
      PROVE  /\ IsArriving(A[key], S, I, key) /\ Len(A[key]) <= Cardinality(Elems)
             /\ Extended(L1[key], L[key], A[key], grid[p])
  <2> DEFINE P == Filled(p, key)
             B == Arriving(p, key)
  <2>1. A[key] = B /\ L1[key] = P[Cardinality(DOMAIN P) - 1]
    OBVIOUS
  <2>2. /\ IsArriving(B, S, I, key) /\ Len(B) <= Cardinality(Elems)
        /\ Extended(P[Cardinality(DOMAIN P) - 1], L[key], B, grid[p])
    <3>1. P = Filled(p, key) /\ B = Arriving(p, key) /\ L = layout[p] /\ I = info[p] /\ S = scheduled[p]
      OBVIOUS
    <3> HIDE DEF P, B, L, I, S
    <3> QED BY <3>1, <1>2, <1>7, <1>8, FilledIs
  <2> HIDE DEF A, L1, P, B
  <2> QED BY <2>1, <2>2
<1>10. L1 = [key \in Keys |-> L1[key]]
  OBVIOUS
<1>11. \A o : NewNodes(p, o) = NodesAt(L, A, o)
  <2>1. \A key \in Keys : A[key] = Arriving(p, key)
    OBVIOUS
  <2> HIDE DEF A
  <2> QED BY <2>1, <1>2, <1>7, <1>8, NewNodesAre
<1>12. IsEntered(I1, I, L, S, A)
  <2>1. \A o : o \in objs <=> IsScheduled(S, o)
    BY DEF IsScheduled
  <2>2. \A o : entered(o, I[o]) = Entered(I[o], NodesAt(L, A, o))
    BY <1>11 DEF Entered
  <2>3. \A o \in Objects : I1[o] = IF o \in objs THEN entered(o, I[o]) ELSE I[o]
    OBVIOUS
  <2>4. I1 = [o \in Objects |-> I1[o]]
    OBVIOUS
  <2> HIDE DEF I1, objs, entered, A, L, I, S
  <2> QED BY <2>1, <2>2, <2>3, <2>4 DEF IsEntered
<1> HIDE DEF A, L1, I1, L, I, S
<1>13. Local(grid[p], L1, I1, {}, "none", {}, session, FALSE, sessions, lists[p], held[p], chosen)
  BY <1>2, <1>7, <1>9, <1>10, <1>12, EndInsertionKeeps
<1>14. LocalAt(p, lists[p], held[p], chosen)'
  <2>1. (p \in open') = FALSE
    BY <1>1
  <2> QED BY <2>1, <1>1, <1>3, <1>4, <1>5, <1>13 DEF LocalAt
<1>15. OnlyAt(grid, grid', p) /\ OnlyAt(todo, todo', p)
  BY <1>1, SameAt DEF IsShape
<1> QED BY <1>1, <1>3, <1>4, <1>5, <1>14, <1>15, OneProcess
-----------------------------------------------------------------------------
(* The interfaces match.                                                   *)

LEMMA SetKind ==
  ASSUME NEW F, NEW a, NEW b, NEW c, NEW d, NEW x, NEW y,
         F = [type |-> a, level |-> b, kind |-> c, target |-> d]
  PROVE  [F EXCEPT !.kind = x, !.target = y] = [type |-> a, level |-> b, kind |-> x, target |-> y]
<1> DEFINE H == [F EXCEPT !.kind = x, !.target = y]
           N == {"type", "level", "kind", "target"}
<1>1. F = [f \in N |-> F[f]] /\ F["type"] = a /\ F["level"] = b
  OBVIOUS
<1>2. H = [f \in N |-> IF f = "target" THEN y ELSE IF f = "kind" THEN x ELSE F[f]]
  BY <1>1
<1>3. H.type = a /\ H.level = b /\ H.kind = x /\ H.target = y
  BY <1>1, <1>2
<1>4. H = [f \in N |-> H[f]]
  BY <1>2
<1> HIDE DEF H
<1>5. H = [type |-> a, level |-> b, kind |-> x, target |-> y]
  BY <1>3, <1>4
<1> QED BY <1>5 DEF H

LEMMA OppositeIs ==
  ASSUME NEW p \in Procs, NEW key \in Keys
  PROVE  /\ Opposite(p, key) \in Keys
         /\ Opposite(p, key).type = key.type /\ Opposite(p, key).level = key.level
         /\ Opposite(p, key).target = p /\ Opposite(p, key).kind = Other[key.kind]
         /\ (Opposite(p, key).kind \in Flat <=> key.kind \in Flat)
<1> DEFINE a == key.type
           b == key.level
           k == key.kind
           t == key.target
<1>1. /\ key = [type |-> a, level |-> b, kind |-> k, target |-> t]
      /\ a \in {Type[e] : e \in Elems} /\ b \in Levels /\ k \in {"HM", "HS", "VM", "VS"}
  BY KeyIs
<1> HIDE DEF a, b, k, t
<1>2. Opposite(p, key) = [type |-> a, level |-> b, kind |-> Other[key.kind], target |-> p]
  <2> DEFINE x == Other[key.kind]
  <2>1. Opposite(p, key) = [key EXCEPT !.kind = x, !.target = p]
    BY DEF Opposite
  <2> HIDE DEF x
  <2>2. Opposite(p, key) = [type |-> a, level |-> b, kind |-> x, target |-> p]
    BY <1>1, <2>1, SetKind
  <2> QED BY <2>2 DEF x
<1>3. Other[k] \in {"HM", "HS", "VM", "VS"} /\ (Other[k] \in Flat <=> k \in Flat)
  BY <1>1 DEF Other, Flat
<1>4. key.kind = k /\ key.type = a /\ key.level = b
  BY DEF k, a, b
<1>5. Opposite(p, key) \in Keys
  BY <1>1, <1>2, <1>3, <1>4, KindsAre DEF Keys, KeysFor
<1> QED BY <1>2, <1>3, <1>4, <1>5

LEMMA OppositeAt ==
  ASSUME NEW p \in Procs, NEW key \in Keys, NEW e
  PROVE  Opposite(p, KeyAt(e, key.kind, key.target)) =
           KeyAt(e, Opposite(p, key).kind, Opposite(p, key).target)
<1>1. Opposite(p, key).target = p /\ Opposite(p, key).kind = Other[key.kind]
  BY OppositeIs
<1>2. Opposite(p, KeyAt(e, key.kind, key.target)) =
        [type |-> Type[e], level |-> Level[e], kind |-> Other[key.kind], target |-> p]
  <2> DEFINE F == KeyAt(e, key.kind, key.target)
             x == Other[key.kind]
  <2>1. F = [type |-> Type[e], level |-> Level[e], kind |-> key.kind, target |-> key.target]
    BY DEF KeyAt
  <2>2. F.kind = key.kind
    BY DEF KeyAt
  <2>3. Opposite(p, F) = [F EXCEPT !.kind = x, !.target = p]
    BY <2>2 DEF Opposite
  <2> HIDE DEF F, x
  <2>4. Opposite(p, F) = [type |-> Type[e], level |-> Level[e], kind |-> x, target |-> p]
    BY <2>1, <2>3, SetKind
  <2> QED BY <2>4 DEF F, x
<1> QED BY <1>1, <1>2 DEF KeyAt

\* The lists of both sides are the same.
LEMMA SameOwn ==
  ASSUME NEW lists, NEW held, NEW chosen, IsContext(lists, held, chosen), NEW p \in Procs,
         NEW key \in Keys, NEW q, q = key.target, NEW opp, opp = Opposite(p, key)
  PROVE  /\ lists[q][opp] = lists[p][key]
         /\ \A e \in Elems : lists[q][KeyAt(e, opp.kind, opp.target)] = lists[p][KeyAt(e, key.kind, key.target)]
<1>1. \A ky \in Keys : lists[p][ky] = lists[ky.target][Opposite(p, ky)]
  BY DEF IsContext
<1>2. ASSUME NEW e \in Elems
      PROVE  lists[q][KeyAt(e, opp.kind, opp.target)] = lists[p][KeyAt(e, key.kind, key.target)]
  <2> DEFINE K == KeyAt(e, key.kind, key.target)
  <2>0. key.kind \in {"HM", "HS", "VM", "VS"} /\ key.target \in Procs
    BY KeyIs
  <2>1. K \in Keys /\ K.target = q
    BY <2>0, KeyAtIn
  <2>2. Opposite(p, K) = KeyAt(e, opp.kind, opp.target)
    BY OppositeAt
  <2> HIDE DEF K
  <2>3. lists[p][K] = lists[K.target][Opposite(p, K)]
    BY <2>1, <1>1
  <2>4. lists[p][K] = lists[q][KeyAt(e, opp.kind, opp.target)]
    BY <2>1, <2>2, <2>3
  <2> QED BY <2>4 DEF K
<1>3. lists[p][key] = lists[q][opp]
  BY <1>1
<1> QED BY <1>2, <1>3

\* So are what is expected and its order.
After(own, chosen, ss, key) == Expected(own, chosen, {}, ss, FALSE, key)

LEMMA SameExpected ==
  ASSUME NEW lists, NEW held, NEW chosen, IsContext(lists, held, chosen), NEW p \in Procs,
         NEW key \in Keys, NEW q, q = key.target, NEW opp, opp = Opposite(p, key), NEW ss
  PROVE  After(lists[q], chosen, ss, opp) = After(lists[p], chosen, ss, key)
<1>1. /\ lists[q][opp] = lists[p][key]
      /\ \A e \in Elems : lists[q][KeyAt(e, opp.kind, opp.target)] = lists[p][KeyAt(e, key.kind, key.target)]
  BY SameOwn
<1>2. opp.type = key.type /\ opp.level = key.level /\ (opp.kind \in Flat <=> key.kind \in Flat)
  BY OppositeIs
<1>3. \A e \in chosen : e \in Elems
  BY DEF IsContext
<1>4. ASSUME NEW c
      PROVE  c \in ChildrenIn(lists[q], chosen, opp) <=> c \in ChildrenIn(lists[p], chosen, key)
  BY <1>1, <1>2, <1>3 DEF ChildrenIn
<1>5. ChildrenIn(lists[q], chosen, opp) = ChildrenIn(lists[p], chosen, key)
  <2> DEFINE X == ChildrenIn(lists[q], chosen, opp)
             Y == ChildrenIn(lists[p], chosen, key)
  <2>1. \A c : c \in X <=> c \in Y
    BY <1>4
  <2>2. X \subseteq Elems /\ Y \subseteq Elems
    BY DEF ChildrenIn
  <2> HIDE DEF X, Y
  <2>3. X = Y
    BY <2>1, <2>2
  <2> QED BY <2>3 DEF X, Y
<1> QED BY <1>1, <1>2, <1>5 DEF Expected, After

LEMMA SameOrder ==
  ASSUME NEW lists, NEW held, NEW chosen, IsContext(lists, held, chosen), NEW p \in Procs,
         NEW key \in Keys, NEW q, q = key.target, NEW opp, opp = Opposite(p, key), NEW x, NEW y
  PROVE  Precedes(lists[q], opp, x, y) <=> Precedes(lists[p], key, x, y)
<1>1. /\ lists[q][opp] = lists[p][key]
      /\ \A e \in Elems : lists[q][KeyAt(e, opp.kind, opp.target)] = lists[p][KeyAt(e, key.kind, key.target)]
  BY SameOwn
<1>2. ChildrenInOrder(lists[q], opp, x, y) <=> ChildrenInOrder(lists[p], key, x, y)
  BY <1>1 DEF ChildrenInOrder
<1> QED BY <1>1, <1>2 DEF Precedes

\* It is an order.
LEMMA NotBothInOrder ==
  ASSUME NEW H, NEW s \in Seq(H), \A j, k \in DOMAIN s : s[j] = s[k] => j = k, NEW x, NEW y
  PROVE  /\ ~ (InOrder(s, x, y) /\ InOrder(s, y, x)) /\ ~ InOrder(s, x, x)
         /\ InOrder(s, x, y) => x \in Members(s) /\ y \in Members(s)
<1>1. \A k \in DOMAIN s : k \in Nat
  BY SeqDomain
<1> QED BY <1>1 DEF InOrder, Members

LEMMA NotBothPrecede ==
  ASSUME NEW lists, NEW held, NEW chosen, IsContext(lists, held, chosen), NEW p \in Procs,
         NEW key \in Keys, NEW x, NEW y, Level[x] = Level[y]
  PROVE  ~ (Precedes(lists[p], key, x, y) /\ Precedes(lists[p], key, y, x))
<1> DEFINE own == lists[p]
<1>1. \A ky \in Keys : /\ own[ky] \in Seq(held[p])
                       /\ \A j, k \in DOMAIN own[ky] : own[ky][j] = own[ky][k] => j = k
  BY DEF IsContext
<1>2. ASSUME NEW ky \in Keys, NEW a, NEW b
      PROVE  /\ ~ (InOrder(own[ky], a, b) /\ InOrder(own[ky], b, a)) /\ ~ InOrder(own[ky], a, a)
             /\ InOrder(own[ky], a, b) => a \in Members(own[ky]) /\ b \in Members(own[ky])
  BY <1>1, NotBothInOrder
<1> HIDE DEF own
<1>3. ~ (ChildrenInOrder(own, key, x, y) /\ ChildrenInOrder(own, key, y, x))
  <2>1. SUFFICES ASSUME ChildrenInOrder(own, key, x, y), ChildrenInOrder(own, key, y, x) PROVE FALSE
    OBVIOUS
  <2> DEFINE Rel(e, f, j, k) == \/ Nr(Type[e]) < Nr(Type[f])
                                \/ /\ Type[e] = Type[f]
                                   /\ InOrder(own[KeyAt(e, key.kind, key.target)], e, f)
                                \/ e = f /\ j < k
  <2>2. PICK e \in Elems, f \in Elems : \E j \in DOMAIN Children[e], k \in DOMAIN Children[f] :
          x = Children[e][j] /\ y = Children[f][k] /\ Rel(e, f, j, k)
    BY <2>1 DEF ChildrenInOrder
  <2>3. PICK j \in DOMAIN Children[e], k \in DOMAIN Children[f] :
          x = Children[e][j] /\ y = Children[f][k] /\ Rel(e, f, j, k)
    BY <2>2
  <2>4. PICK f2 \in Elems, e2 \in Elems : \E k2 \in DOMAIN Children[f2], j2 \in DOMAIN Children[e2] :
          y = Children[f2][k2] /\ x = Children[e2][j2] /\ Rel(f2, e2, k2, j2)
    BY <2>1 DEF ChildrenInOrder
  <2>5. PICK k2 \in DOMAIN Children[f2], j2 \in DOMAIN Children[e2] :
          y = Children[f2][k2] /\ x = Children[e2][j2] /\ Rel(f2, e2, k2, j2)
    BY <2>4
  <2>6. e2 = e /\ j2 = j /\ f2 = f /\ k2 = k
    <3> HIDE DEF Rel
    <3>1. Children[e2][j2] = Children[e][j] /\ Children[f2][k2] = Children[f][k]
      BY <2>3, <2>5
    <3>2. e2 = e /\ j2 = j
      BY <3>1, OneParent
    <3>3. f2 = f /\ k2 = k
      BY <3>1, OneParent
    <3> QED BY <3>2, <3>3
  <2>7. Rel(e, f, j, k) /\ Rel(f, e, k, j)
    BY <2>3, <2>5, <2>6
  <2>8. Nr(Type[e]) \in Nat /\ Nr(Type[f]) \in Nat /\ j \in Nat /\ k \in Nat
    <3>1. Type[e] \in Members(Types) /\ Type[f] \in Members(Types)
      BY DistributedGridAssumption
    <3> QED BY <3>1, NrIs, ChildIs
  <2>9. Level[e] = Level[f]
    <3> HIDE DEF Rel
    <3>1. Level[Children[e][j]] = Level[e] + 1 /\ Level[e] \in Nat
      BY ChildIs
    <3>2. Level[Children[f][k]] = Level[f] + 1 /\ Level[f] \in Nat
      BY ChildIs
    <3> QED BY <2>3, <3>1, <3>2
  <2> DEFINE K == KeyAt(e, key.kind, key.target)
  <2>10. K \in Keys
    <3>1. key.kind \in {"HM", "HS", "VM", "VS"} /\ key.target \in Procs
      BY KeyIs
    <3> QED BY <3>1, KeyAtIn
  <2>11. Type[e] = Type[f] => KeyAt(f, key.kind, key.target) = K
    BY <2>9 DEF KeyAt
  <2>12. ~ (InOrder(own[K], e, f) /\ InOrder(own[K], f, e)) /\ ~ InOrder(own[K], e, e)
    BY <2>10, <1>2
  <2> HIDE DEF K
  <2>13. \/ Nr(Type[e]) < Nr(Type[f])
         \/ Type[e] = Type[f] /\ InOrder(own[K], e, f)
         \/ e = f /\ j < k
    BY <2>7 DEF K
  <2>14. \/ Nr(Type[f]) < Nr(Type[e])
         \/ Type[e] = Type[f] /\ InOrder(own[K], f, e)
         \/ e = f /\ k < j
    BY <2>7, <2>11 DEF K
  <2> HIDE DEF Rel
  <2>15. CASE Nr(Type[e]) < Nr(Type[f])
    BY <2>8, <2>14, <2>15
  <2>16. CASE Type[e] = Type[f] /\ InOrder(own[K], e, f)
    BY <2>8, <2>12, <2>14, <2>16
  <2>17. CASE e = f /\ j < k
    BY <2>8, <2>12, <2>14, <2>17
  <2> QED BY <2>13, <2>15, <2>16, <2>17
<1>4. /\ ~ (InOrder(own[key], x, y) /\ InOrder(own[key], y, x))
      /\ InOrder(own[key], x, y) => x \in Members(own[key]) /\ y \in Members(own[key])
      /\ InOrder(own[key], y, x) => x \in Members(own[key]) /\ y \in Members(own[key])
  BY <1>2
<1>5. ~ (Precedes(own, key, x, y) /\ Precedes(own, key, y, x))
  BY <1>3, <1>4 DEF Precedes
<1> QED BY <1>5 DEF own

\* The list of the elements of an interface.
ListOf(L, key) == [k \in DOMAIN L[key].entries |-> L[key].entries[k].elem[1]]

LEMMA ListIs ==
  ASSUME NEW L, NEW G, NEW bound, IsGrid(G), IsLayout(L, G, bound), NEW key \in Keys
  PROVE  /\ ListOf(L, key) \in Seq(Now(G)) /\ ListOf(L, key) \in Seq(Elems)
         /\ DOMAIN ListOf(L, key) = DOMAIN L[key].entries
         /\ Members(ListOf(L, key)) = ElemsOf(L, key)
         /\ \A j, k \in DOMAIN ListOf(L, key) : ListOf(L, key)[j] = ListOf(L, key)[k] => j = k
         /\ \A k \in DOMAIN ListOf(L, key) : ListOf(L, key)[k] = L[key].entries[k].elem[1]
<1> DEFINE F == L[key].entries
           s == ListOf(L, key)
           N == Len(F)
<1>1. F \in Seq([elem : G, localID : Nat])
  BY DEF IsLayout, IsItf
<1>2. DOMAIN F = 1 .. N /\ N \in Nat
  BY <1>1, SeqDomain
<1>3. \A k \in 1 .. N : F[k].elem \in G /\ F[k].elem[1] \in Elems
  BY <1>2, EntryElem
<1>4. s = [k \in 1 .. N |-> s[k]] /\ \A k \in 1 .. N : s[k] = F[k].elem[1]
  BY <1>2 DEF ListOf
<1>5. DOMAIN s = 1 .. N
  BY <1>2 DEF ListOf
<1>6. \A k \in 1 .. N : s[k] \in Now(G) /\ s[k] \in Elems
  BY <1>3, <1>4 DEF Now
<1>7. \A j, k \in 1 .. N : F[j].elem[1] = F[k].elem[1] => j = k
  BY <1>2, SameElem
<1>8. ElemsOf(L, key) = {F[k].elem[1] : k \in 1 .. N}
  BY <1>2 DEF ElemsOf
<1> HIDE DEF F, s, N
<1>9. s \in Seq(Now(G)) /\ s \in Seq(Elems)
  BY <1>2, <1>4, <1>6, SeqIs
<1>10. Members(s) = ElemsOf(L, key)
  BY <1>4, <1>5, <1>8 DEF Members
<1>11. \A j, k \in DOMAIN s : s[j] = s[k] => j = k
  BY <1>4, <1>5, <1>7
<1> QED BY <1>2, <1>4, <1>5, <1>9, <1>10, <1>11 DEF F, s

\* Two processes that have ended the session have the same lists.
LEMMA ListsMatch ==
  ASSUME NEW lists, NEW held, NEW chosen, Within(lists, held, chosen), IsShape,
         NEW p \in Procs \ open, NEW q \in Procs \ open, NEW key \in Keys, key.target = q
  PROVE  ListOf(layout[p], key) = ListOf(layout[q], Opposite(p, key))
<1> DEFINE opp == Opposite(p, key)
           s == ListOf(layout[p], key)
           t == ListOf(layout[q], opp)
           R == {xy \in Elems \X Elems : Level[xy[1]] = Level[xy[2]] /\ Precedes(lists[p], key, xy[1], xy[2])}
           b == Bound(sessions + 1)
<1>1. IsContext(lists, held, chosen) /\ opp \in Keys /\ session \in {"insert", "delete"}
  BY OppositeIs DEF Within, IsShape
<1>2. ASSUME NEW r \in Procs \ open
      PROVE  /\ IsGrid(grid[r]) /\ IsLayout(layout[r], grid[r], b)
             /\ HoldsExpected(layout[r], lists[r], chosen, {}, session, FALSE)
             /\ HoldsInOrder(layout[r], lists[r])
  <2>1. LocalAt(r, lists[r], held[r], chosen)
    BY DEF Within, LocalAt
  <2>2. (r \in open) = FALSE
    OBVIOUS
  <2>3. Local(grid[r], layout[r], info[r], scheduled[r], mode[r], todo[r], session, FALSE, sessions,
              lists[r], held[r], chosen)
    BY <2>1, <2>2 DEF LocalAt
  <2>4. todo[r] = {}
    BY <2>3 DEF Local, InPhase
  <2>5. IsLayout(layout[r], grid[r], Bound(IF FALSE THEN sessions ELSE sessions + 1))
    BY <2>3 DEF Local
  <2> QED BY <2>3, <2>4, <2>5 DEF Local
<1>3. /\ s \in Seq(Elems) /\ Members(s) = ElemsOf(layout[p], key) /\ DOMAIN s = DOMAIN layout[p][key].entries
      /\ \A k \in DOMAIN s : s[k] = layout[p][key].entries[k].elem[1]
  BY <1>2, ListIs
<1>4. /\ t \in Seq(Elems) /\ Members(t) = ElemsOf(layout[q], opp) /\ DOMAIN t = DOMAIN layout[q][opp].entries
      /\ \A k \in DOMAIN t : t[k] = layout[q][opp].entries[k].elem[1]
  BY <1>1, <1>2, ListIs
<1>5. Members(s) = Members(t)
  <2>1. ElemsOf(layout[p], key) = After(lists[p], chosen, session, key)
    BY <1>2 DEF HoldsExpected, After
  <2>2. ElemsOf(layout[q], opp) = After(lists[q], chosen, session, opp)
    BY <1>1, <1>2 DEF HoldsExpected, After
  <2>3. q = key.target /\ opp = Opposite(p, key)
    OBVIOUS
  <2> HIDE DEF opp, s, t
  <2>4. After(lists[q], chosen, session, opp) = After(lists[p], chosen, session, key)
    BY <2>3, <1>1, SameExpected
  <2>5. Members(s) = ElemsOf(layout[p], key)
    BY <1>3
  <2>6. Members(t) = ElemsOf(layout[q], opp)
    BY <1>4
  <2> QED BY <2>1, <2>2, <2>4, <2>5, <2>6
<1>6. \A x \in Members(s) : x \in Elems /\ Level[x] = key.level
  <2>1. IsGrid(grid[p]) /\ IsLayout(layout[p], grid[p], b)
    BY <1>2
  <2> HIDE DEF b, s, t, R, opp
  <2>2. \A x \in ElemsOf(layout[p], key) : x \in Elems /\ Level[x] = key.level
    BY <2>1, ElemsAre
  <2> QED BY <2>2, <1>3
<1>7. \A j \in DOMAIN s : s[j] \in Members(s)
  BY IsMember
<1>8. \A j \in DOMAIN t : t[j] \in Members(s)
  BY <1>5, IsMember
<1> HIDE DEF s, t, opp
<1>9. ASSUME NEW x \in Members(s), NEW y \in Members(s)
      PROVE  <<x, y>> \in R <=> Precedes(lists[p], key, x, y)
  BY <1>6
<1> HIDE DEF R
<1>10. \A j, k \in DOMAIN s : j < k => <<s[j], s[k]>> \in R
  <2>1. SUFFICES ASSUME NEW j \in DOMAIN s, NEW k \in DOMAIN s, j < k PROVE <<s[j], s[k]>> \in R
    OBVIOUS
  <2>2. Precedes(lists[p], key, s[j], s[k])
    <3>1. j \in DOMAIN layout[p][key].entries /\ k \in DOMAIN layout[p][key].entries
      BY <1>3
    <3>2. Precedes(lists[p], key, layout[p][key].entries[j].elem[1], layout[p][key].entries[k].elem[1])
      BY <2>1, <3>1, <1>2 DEF HoldsInOrder
    <3>3. s[j] = layout[p][key].entries[j].elem[1] /\ s[k] = layout[p][key].entries[k].elem[1]
      BY <1>3
    <3> QED BY <3>2, <3>3
  <2> QED BY <2>2, <1>7, <1>9
<1>11. \A j, k \in DOMAIN t : j < k => <<t[j], t[k]>> \in R
  <2>1. SUFFICES ASSUME NEW j \in DOMAIN t, NEW k \in DOMAIN t, j < k PROVE <<t[j], t[k]>> \in R
    OBVIOUS
  <2>2. Precedes(lists[q], opp, t[j], t[k])
    <3>1. j \in DOMAIN layout[q][opp].entries /\ k \in DOMAIN layout[q][opp].entries
      BY <1>4
    <3>2. Precedes(lists[q], opp, layout[q][opp].entries[j].elem[1], layout[q][opp].entries[k].elem[1])
      BY <2>1, <3>1, <1>1, <1>2 DEF HoldsInOrder
    <3>3. t[j] = layout[q][opp].entries[j].elem[1] /\ t[k] = layout[q][opp].entries[k].elem[1]
      BY <1>4
    <3> QED BY <3>2, <3>3
  <2>3. Precedes(lists[p], key, t[j], t[k])
    BY <2>2, <1>1, SameOrder DEF opp
  <2> QED BY <2>3, <1>8, <1>9
<1>12. \A x, y \in Members(s) : ~ (<<x, y>> \in R /\ <<y, x>> \in R)
  <2>1. SUFFICES ASSUME NEW x \in Members(s), NEW y \in Members(s)
                 PROVE  ~ (<<x, y>> \in R /\ <<y, x>> \in R)
    OBVIOUS
  <2>2. Level[x] = Level[y]
    BY <1>6
  <2>3. ~ (Precedes(lists[p], key, x, y) /\ Precedes(lists[p], key, y, x))
    BY <2>2, <1>1, NotBothPrecede
  <2> QED BY <2>3, <1>9
<1>13. s = t
  BY <1>3, <1>4, <1>5, <1>10, <1>11, <1>12, SameSeq
<1> QED BY <1>13 DEF s, t, opp

-----------------------------------------------------------------------------
(* A new session.                                                          *)

LEMMA Ended ==
  ASSUME NEW lists, NEW held, NEW chosen, Within(lists, held, chosen), IsShape,
         NEW p \in Procs \ open
  PROVE  /\ IsGrid(grid[p]) /\ IsLayout(layout[p], grid[p], Bound(sessions + 1))
         /\ IsInfo(info[p], layout[p], scheduled[p])
         /\ scheduled[p] = {} /\ mode[p] = "none" /\ todo[p] = {}
         /\ IsHeld(grid[p], {}, session, held[p], chosen)
         /\ Follow(grid[p], layout[p], {})
<1>1. LocalAt(p, lists[p], held[p], chosen)
  BY DEF Within, LocalAt
<1>2. (p \in open) = FALSE
  OBVIOUS
<1>3. Local(grid[p], layout[p], info[p], scheduled[p], mode[p], todo[p], session, FALSE, sessions,
            lists[p], held[p], chosen)
  BY <1>1, <1>2 DEF LocalAt
<1>4. todo[p] = {} /\ mode[p] = "none" /\ scheduled[p] = {}
  BY <1>3 DEF Local, InPhase
<1>5. IsLayout(layout[p], grid[p], Bound(IF FALSE THEN sessions ELSE sessions + 1))
  BY <1>3 DEF Local
<1>6. Follow(grid[p], layout[p], IF session = "insert" /\ FALSE THEN chosen ELSE {})
  BY <1>3 DEF Local
<1>7. IsHeld(grid[p], todo[p], session, held[p], chosen)
  BY <1>3 DEF Local
<1>8. IsGrid(grid[p]) /\ IsInfo(info[p], layout[p], scheduled[p])
  BY <1>3 DEF Local
<1>9. IsHeld(grid[p], {}, session, held[p], chosen)
  BY <1>4, <1>7
<1> QED BY <1>4, <1>5, <1>6, <1>8, <1>9

\* Every parent is somewhere.
LEMMA ParentsStay ==
  ASSUME NEW lists, NEW held, NEW chosen, Within(lists, held, chosen), IsShape, open = {},
         NEW p \in Procs, NEW e \in Elems, NEW k \in DOMAIN Children[e], Children[e][k] \in Now(grid[p])
  PROVE  \E q \in Procs : e \in Now(grid[q])
<1> DEFINE c == Children[e][k]
<1>1. /\ \A q \in Procs, f \in Elems : \A l \in DOMAIN Children[f] :
           /\ Children[f][l] \in held[q] => \E r \in Procs : f \in held[r]
           /\ f \in chosen => Children[f][l] \notin held[q]
      /\ \A f \in chosen : f \in Elems /\ \E q \in Procs : f \in held[q]
  BY DEF Within, IsContext
<1>2. \A q \in Procs : IsHeld(grid[q], {}, session, held[q], chosen)
  BY Ended
<1>3. c \in held[p] => \E q \in Procs : e \in held[q] /\ e \notin chosen
  BY <1>1
<1>4. CASE session = "delete"
  <2>1. ASSUME NEW q \in Procs
        PROVE  Now(grid[q]) = {f \in held[q] : f \notin chosen \/ <<"erase", f>> \in {}}
    BY <1>2, <1>4 DEF IsHeld
  <2>2. c \in held[p]
    BY <2>1
  <2>3. PICK q \in Procs : e \in held[q] /\ e \notin chosen
    BY <1>3, <2>2
  <2>4. e \in Now(grid[q])
    BY <2>1, <2>3
  <2> QED BY <2>4
<1>5. CASE session # "delete"
  <2>1. ASSUME NEW q \in Procs
        PROVE  /\ held[q] \subseteq Now(grid[q])
               /\ \A d \in Now(grid[q]) : d \in held[q] \/ \E f \in chosen : d \in Members(Children[f])
    BY <1>2, <1>5 DEF IsHeld
  <2>2. c \in held[p] \/ \E f \in chosen : c \in Members(Children[f])
    BY <2>1
  <2>3. CASE c \in held[p]
    BY <1>3, <2>1, <2>3
  <2>4. CASE \E f \in chosen : c \in Members(Children[f])
    <3>1. PICK f \in chosen : c \in Members(Children[f])
      BY <2>4
    <3>2. PICK l \in DOMAIN Children[f] : Children[f][l] = Children[e][k]
      BY <3>1, IsMember
    <3>3. f \in Elems
      BY <1>1
    <3>4. e = f
      BY <3>2, <3>3, OneParent
    <3>5. PICK q \in Procs : e \in held[q]
      BY <1>1, <3>1, <3>4
    <3> QED BY <2>1, <3>5
  <2> QED BY <2>2, <2>3, <2>4
<1> QED BY <1>4, <1>5

\* The lists and the elements when the session begins.
Lists == [p \in Procs |-> [key \in Keys |-> ListOf(layout[p], key)]]
Held  == [p \in Procs |-> Now(grid[p])]

LEMMA ContextThen ==
  ASSUME NEW lists, NEW held, NEW chosen, Within(lists, held, chosen), IsShape, open = {},
         NEW c1, c1 \subseteq Leaves
  PROVE  IsContext(Lists, Held, c1)
<1>1. ASSUME NEW p \in Procs
      PROVE  IsGrid(grid[p]) /\ IsLayout(layout[p], grid[p], Bound(sessions + 1))
  BY Ended
<1>2. \A p \in Procs : Held[p] = Now(grid[p]) /\ Lists[p] = [key \in Keys |-> ListOf(layout[p], key)]
  BY DEF Lists, Held
<1>3. \A p \in Procs : \A key \in Keys : Lists[p][key] = ListOf(layout[p], key)
  BY <1>2
<1>4. \A p \in Procs : Held[p] \subseteq Elems
  <2>1. SUFFICES ASSUME NEW p \in Procs PROVE Now(grid[p]) \subseteq Elems
    BY <1>2
  <2>2. \A o \in grid[p] : o[1] \in Elems
    BY <1>1, ObjectIs DEF IsGrid
  <2> QED BY <2>2 DEF Now
<1>5. ASSUME NEW p \in Procs, NEW key \in Keys
      PROVE  /\ Lists[p][key] \in Seq(Held[p])
             /\ \A j, k \in DOMAIN Lists[p][key] : Lists[p][key][j] = Lists[p][key][k] => j = k
             /\ Lists[p][key] = Lists[key.target][Opposite(p, key)]
  <2>1. /\ ListOf(layout[p], key) \in Seq(Now(grid[p]))
        /\ \A j, k \in DOMAIN ListOf(layout[p], key) :
              ListOf(layout[p], key)[j] = ListOf(layout[p], key)[k] => j = k
    BY <1>1, ListIs
  <2>2. key.target \in Procs /\ Opposite(p, key) \in Keys
    BY KeyIs, OppositeIs
  <2>3. p \in Procs \ open /\ key.target \in Procs \ open
    BY <2>2
  <2>4. ListOf(layout[p], key) = ListOf(layout[key.target], Opposite(p, key))
    BY <2>3, ListsMatch
  <2>5. Lists[p][key] = ListOf(layout[p], key) /\ Held[p] = Now(grid[p])
    BY <1>2, <1>3
  <2>6. Lists[key.target][Opposite(p, key)] = ListOf(layout[key.target], Opposite(p, key))
    BY <2>2, <1>3
  <2> HIDE DEF Lists, Held
  <2> QED BY <2>1, <2>4, <2>5, <2>6
<1>6. ASSUME NEW p \in Procs, NEW e \in Elems, NEW k \in DOMAIN Children[e]
      PROVE  /\ Children[e][k] \in Held[p] => \E q \in Procs : e \in Held[q]
             /\ e \in c1 => Children[e][k] \notin Held[p]
  <2>1. Children[e][k] \in Held[p] => \E q \in Procs : e \in Held[q]
    <3>1. Children[e][k] \in Now(grid[p]) => \E q \in Procs : e \in Now(grid[q])
      BY ParentsStay
    <3> QED BY <3>1, <1>2
  <2>2. ASSUME e \in c1 PROVE Children[e][k] \notin Held[p]
    <3>1. Members(Children[e]) \cap Existing = {}
      BY <2>2 DEF Leaves
    <3>2. Children[e][k] \in Members(Children[e]) /\ Children[e][k] \in Elems
      BY ChildIs
    <3>3. ~ Has(p, Children[e][k])
      BY <3>1, <3>2 DEF Existing
    <3> QED BY <3>3, <1>2, HasIs
  <2> QED BY <2>1, <2>2
<1>7. \A e \in c1 : e \in Elems /\ \E q \in Procs : e \in Held[q]
  <2>1. SUFFICES ASSUME NEW e \in c1 PROVE e \in Elems /\ \E q \in Procs : e \in Held[q]
    OBVIOUS
  <2>2. e \in Elems /\ \E q \in Procs : Has(q, e)
    BY DEF Leaves, Existing
  <2>3. \E q \in Procs : e \in Now(grid[q])
    BY <2>2, HasIs
  <2> QED BY <2>2, <2>3, <1>2
<1> HIDE DEF Lists, Held
<1> QED BY <1>4, <1>5, <1>6, <1>7 DEF IsContext

\* A process that begins a session.
IsReady(G, L, I, S, m, T, ss, n, own, had, c1) ==
    /\ S = {} /\ m = "none" /\ had = Now(G) /\ own = [key \in Keys |-> ListOf(L, key)]
    /\ IsGrid(G) /\ IsLayout(L, G, Bound(n)) /\ IsInfo(I, L, S) /\ Follow(G, L, {})
    /\ AreTasks(G, T, ss, Now(G), c1)
    /\ ss = "insert" => NoneMissing({}, L, T, c1)
    /\ ss = "delete" => \A e \in c1 : e \in Now(G) => <<"erase", e>> \in T

LEMMA LocalThen ==
  ASSUME NEW G, NEW L, NEW I, NEW S, NEW m, NEW T, NEW ss \in {"insert", "delete"}, NEW n, NEW own,
         NEW had, NEW c1, IsReady(G, L, I, S, m, T, ss, n, own, had, c1)
  PROVE  Local(G, L, I, S, m, T, ss, TRUE, n, own, had, c1)
<1>0. /\ S = {} /\ m = "none" /\ had = Now(G) /\ own = [key \in Keys |-> ListOf(L, key)]
      /\ IsGrid(G) /\ IsLayout(L, G, Bound(n)) /\ IsInfo(I, L, S) /\ Follow(G, L, {})
      /\ AreTasks(G, T, ss, Now(G), c1)
      /\ ss = "insert" => NoneMissing({}, L, T, c1)
      /\ ss = "delete" => \A e \in c1 : e \in Now(G) => <<"erase", e>> \in T
  BY DEF IsReady
<1> USE <1>0
<1>1. IsLayout(L, G, Bound(IF TRUE THEN n ELSE n + 1))
  OBVIOUS
<1>2. AreItems(S, G, L, I, T, c1) /\ AreNumbered(S)
  BY DEF AreItems, AreNumbered
<1>3. InPhase(m, T, S, ss, TRUE)
  BY DEF InPhase
<1>4. IsHeld(G, T, ss, had, c1)
  BY DEF IsHeld
<1>5. Follow(G, L, IF ss = "insert" /\ TRUE THEN c1 ELSE {})
  BY DEF Follow
<1>6. ASSUME NEW key \in Keys
      PROVE  /\ own[key] = ListOf(L, key) /\ Members(own[key]) = ElemsOf(L, key)
             /\ DOMAIN own[key] = DOMAIN L[key].entries
             /\ \A k \in DOMAIN own[key] : own[key][k] = L[key].entries[k].elem[1]
             /\ ElemsOf(L, key) \subseteq Now(G)
  <2>1. own[key] = ListOf(L, key)
    OBVIOUS
  <2>2. ElemsOf(L, key) \subseteq Now(G)
    BY ElemsAre
  <2> QED BY <2>1, <2>2, ListIs
<1>7. ASSUME NEW key \in Keys
      PROVE  ElemsOf(L, key) = Expected(own, c1, T, ss, TRUE, key)
  BY <1>6 DEF Expected
<1>8. HoldsExpected(L, own, c1, T, ss, TRUE)
  BY <1>7 DEF HoldsExpected
<1>9. ASSUME NEW key \in Keys, NEW j \in DOMAIN L[key].entries, NEW k \in DOMAIN L[key].entries, j < k
      PROVE  Precedes(own, key, L[key].entries[j].elem[1], L[key].entries[k].elem[1])
  BY <1>6, <1>9 DEF Precedes, InOrder
<1>10. HoldsInOrder(L, own)
  BY <1>9 DEF HoldsInOrder
<1>11. ss = "insert" /\ TRUE => NoneMissing(S, L, T, c1)
  OBVIOUS
<1> QED BY <1>1, <1>2, <1>3, <1>4, <1>5, <1>8, <1>10, <1>11 DEF Local

\* An element in a horizontal interface is no ghost.
LEMMA FlatIsNoGhost ==
  ASSUME NEW p, IsGrid(grid[p]), NEW bound, IsLayout(layout[p], grid[p], bound),
         IsInfo(info[p], layout[p], {}),
         NEW kind \in Flat, NEW target \in Procs, NEW e, e \in ElemsOf(layout[p], KeyAt(e, kind, target)),
         e \in Now(grid[p])
  PROVE  ~ IsGhost(p, e)
<1> DEFINE o == ObjectOf(p, e)
           L == layout[p]
<1>1. o \in grid[p] /\ o[1] = e /\ o \in Objects
  BY ObjectOfIs
<1>2. info[p][o] = InfosFrom(L)[o]
  <2>1. ~ IsScheduled({}, o)
    BY DEF IsScheduled
  <2> QED BY <1>1, <2>1 DEF IsInfo
<1>3. kind \in {"HM", "HS"}
  BY DEF Flat
<1>4. kind \in KindsOf(L, o)
  BY <1>1, <1>3, IsKind
<1>5. InfosFrom(L)[o].status =
              (IF "HS" \in KindsOf(L, o) THEN {"HS", "IN"}
               ELSE IF "HM" \in KindsOf(L, o) THEN {"HM", "IN"} ELSE {})
              \cup (KindsOf(L, o) \cap {"VM", "VS"})
  BY <1>1, InfoIs
<1>6. "HS" \in info[p][o].status \/ "HM" \in info[p][o].status
  BY <1>2, <1>3, <1>4, <1>5
<1> HIDE DEF o
<1>7. info[p][o].status \cap {"VM", "HM", "HS"} # {"VM"}
  BY <1>6
<1> QED BY <1>7 DEF IsGhost, o

LEMMA IsTask ==
  ASSUME NEW op, NEW es, NEW p, NEW t
  PROVE  t \in Tasks(op, es, p) <=> \E e \in es : Has(p, e) /\ t = <<op, e>>
  BY DEF Tasks

\* The session begins with what it was planned with.
LEMMA SessionStart ==
  ASSUME NEW lists, NEW held, NEW chosen, Within(lists, held, chosen), IsShape, open = {},
         sessions < MaxSessions, open' = Procs, sessions' = sessions + 1,
         grid' = grid, layout' = layout, info' = info, scheduled' = scheduled, mode' = mode,
         NEW c1, c1 \subseteq Leaves, session' \in {"insert", "delete"},
         todo' = [p \in Procs |-> todo'[p]],
         \A p \in Procs :
            /\ AreTasks(grid[p], todo'[p], session', Now(grid[p]), c1)
            /\ session' = "insert" => NoneMissing({}, layout[p], todo'[p], c1)
            /\ session' = "delete" => \A e \in c1 : e \in Now(grid[p]) => <<"erase", e>> \in todo'[p]
  PROVE  IsShape' /\ \E l, h, c : Within(l, h, c)'
<1>1. IsShape'
  <2>1. MaxSessions \in Nat /\ sessions \in Nat
    BY DistributedGridAssumption DEF IsShape
  <2>2. sessions' \in 0 .. MaxSessions
    BY <2>1
  <2> QED BY <2>2 DEF IsShape
<1>2. PICK l, h : l = Lists /\ h = Held
  OBVIOUS
<1>3. IsContext(l, h, c1)
  BY <1>2, ContextThen
<1>4. ASSUME NEW p \in Procs
      PROVE  LocalAt(p, l[p], h[p], c1)'
  <2>1. /\ IsGrid(grid[p]) /\ IsLayout(layout[p], grid[p], Bound(sessions'))
        /\ IsInfo(info[p], layout[p], scheduled[p])
        /\ scheduled[p] = {} /\ mode[p] = "none"
        /\ Follow(grid[p], layout[p], {})
    BY Ended
  <2>2. IsInfo(info[p], layout[p], {})
    BY <2>1
  <2>3. l[p] = [key \in Keys |-> ListOf(layout[p], key)] /\ h[p] = Now(grid[p])
    BY <1>2 DEF Lists, Held
  <2>6. IsReady(grid[p], layout[p], info[p], scheduled[p], mode[p], todo'[p], session', sessions',
                l[p], h[p], c1)
    BY <2>1, <2>2, <2>3 DEF IsReady
  <2>4. Local(grid[p], layout[p], info[p], scheduled[p], mode[p], todo'[p], session', TRUE, sessions',
              l[p], h[p], c1)
    BY <2>6, LocalThen
  <2>5. (p \in open') = TRUE
    OBVIOUS
  <2> QED BY <2>4, <2>5 DEF LocalAt
<1>5. IsContext(l, h, c1)'
  BY <1>3
<1>6. Within(l, h, c1)'
  BY <1>4, <1>5 DEF Within, LocalAt
<1> QED BY <1>1, <1>6

LEMMA NoChildren ==
  ASSUME NEW c1, c1 \subseteq Leaves, NEW e \in c1, NEW p \in Procs, NEW k \in DOMAIN Children[e]
  PROVE  Children[e][k] \notin Now(grid[p])
<1>1. Members(Children[e]) \cap Existing = {} /\ e \in Elems
  BY DEF Leaves, Existing
<1>2. Children[e][k] \in Members(Children[e]) /\ Children[e][k] \in Elems
  BY <1>1, ChildIs
<1>3. ~ Has(p, Children[e][k])
  BY <1>1, <1>2 DEF Existing
<1> QED BY <1>3, HasIs

LEMMA InsertionPlanned ==
  ASSUME NEW lists, NEW held, NEW chosen, Within(lists, held, chosen), IsShape, open = {},
         NEW marked, marked \subseteq Leaves, NEW replaced, NEW p \in Procs, NEW T,
         T = {t \in Tasks("refine", marked, p) : ~IsGhost(p, t[2])} \cup Tasks("replace", replaced, p)
  PROVE  /\ AreTasks(grid[p], T, "insert", Now(grid[p]), marked)
         /\ NoneMissing({}, layout[p], T, marked)
<1>1. ASSUME NEW t \in T
      PROVE  \/ \E e : t = <<"replace", e>> /\ e \in Now(grid[p])
             \/ \E e \in marked : t = <<"refine", e>> /\ e \in Now(grid[p])
  <2>1. t \in Tasks("refine", marked, p) \/ t \in Tasks("replace", replaced, p)
    OBVIOUS
  <2>2. CASE t \in Tasks("refine", marked, p)
    <3>1. PICK e \in marked : Has(p, e) /\ t = <<"refine", e>>
      BY <2>2, IsTask
    <3> QED BY <3>1, HasIs
  <2>3. CASE t \in Tasks("replace", replaced, p)
    <3>1. PICK e \in replaced : Has(p, e) /\ t = <<"replace", e>>
      BY <2>3, IsTask
    <3> QED BY <3>1, HasIs
  <2> QED BY <2>1, <2>2, <2>3
<1>2. ASSUME NEW t \in T
      PROVE  /\ t = <<t[1], t[2]>> /\ t[2] \in Now(grid[p])
             /\ \/ t[1] = "replace"
                \/ /\ t[1] = "refine" /\ t[2] \in marked
                   /\ \A k \in DOMAIN Children[t[2]] : Children[t[2]][k] \notin Now(grid[p])
  <2>1. CASE \E e : t = <<"replace", e>> /\ e \in Now(grid[p])
    BY <2>1
  <2>2. CASE \E e \in marked : t = <<"refine", e>> /\ e \in Now(grid[p])
    <3>1. PICK e \in marked : t = <<"refine", e>> /\ e \in Now(grid[p])
      BY <2>2
    <3>2. \A k \in DOMAIN Children[e] : Children[e][k] \notin Now(grid[p])
      BY NoChildren
    <3>3. t[1] = "refine" /\ t[2] = e /\ t = <<t[1], t[2]>>
      BY <3>1
    <3> QED BY <3>1, <3>2, <3>3
  <2> QED BY <1>1, <2>1, <2>2
<1>3. AreTasks(grid[p], T, "insert", Now(grid[p]), marked)
  BY <1>2 DEF AreTasks
<1>4. /\ IsGrid(grid[p]) /\ IsLayout(layout[p], grid[p], Bound(sessions + 1))
      /\ IsInfo(info[p], layout[p], scheduled[p]) /\ scheduled[p] = {}
  BY Ended
<1>5. IsInfo(info[p], layout[p], {})
  BY <1>4
<1>6. ASSUME NEW e \in marked, NEW kind \in Flat, NEW target \in Procs,
             e \in ElemsOf(layout[p], KeyAt(e, kind, target))
      PROVE  <<"refine", e>> \in T
  <2>1. e \in Elems /\ kind \in {"HM", "HS", "VM", "VS"}
    BY DEF Leaves, Existing, Flat
  <2>2. KeyAt(e, kind, target) \in Keys
    BY <2>1, KeyAtIn
  <2>3. e \in Now(grid[p])
    BY <1>4, <1>6, <2>2, ElemsAre
  <2>4. ~ IsGhost(p, e)
    BY <1>4, <1>5, <1>6, <2>3, FlatIsNoGhost
  <2>5. Has(p, e)
    BY <2>3, HasIs
  <2> DEFINE t == <<"refine", e>>
  <2>6. t[2] = e
    OBVIOUS
  <2>7. t \in Tasks("refine", marked, p)
    BY <2>5, IsTask
  <2> QED BY <2>4, <2>6, <2>7
<1>7. NoneMissing({}, layout[p], T, marked)
  BY <1>6 DEF NoneMissing
<1> QED BY <1>3, <1>7

LEMMA DeletionPlanned ==
  ASSUME NEW erased, erased \subseteq Leaves, NEW replaced, NEW p \in Procs, NEW T,
         T = Tasks("erase", erased, p) \cup Tasks("replace", replaced \ erased, p)
  PROVE  /\ AreTasks(grid[p], T, "delete", Now(grid[p]), erased)
         /\ \A e \in erased : e \in Now(grid[p]) => <<"erase", e>> \in T
<1>1. ASSUME NEW t \in T
      PROVE  \/ \E e \in replaced \ erased : t = <<"replace", e>> /\ e \in Now(grid[p])
             \/ \E e \in erased : t = <<"erase", e>> /\ e \in Now(grid[p])
  <2>1. t \in Tasks("erase", erased, p) \/ t \in Tasks("replace", replaced \ erased, p)
    OBVIOUS
  <2>2. CASE t \in Tasks("erase", erased, p)
    <3>1. PICK e \in erased : Has(p, e) /\ t = <<"erase", e>>
      BY <2>2, IsTask
    <3> QED BY <3>1, HasIs
  <2>3. CASE t \in Tasks("replace", replaced \ erased, p)
    <3>1. PICK e \in replaced \ erased : Has(p, e) /\ t = <<"replace", e>>
      BY <2>3, IsTask
    <3> QED BY <3>1, HasIs
  <2> QED BY <2>1, <2>2, <2>3
<1>2. ASSUME NEW t \in T
      PROVE  /\ t = <<t[1], t[2]>> /\ t[2] \in Now(grid[p])
             /\ \/ t[1] = "replace" /\ t[2] \notin erased
                \/ t[1] = "erase" /\ t[2] \in erased
  <2>1. CASE \E e \in replaced \ erased : t = <<"replace", e>> /\ e \in Now(grid[p])
    <3>1. PICK e \in replaced \ erased : t = <<"replace", e>> /\ e \in Now(grid[p])
      BY <2>1
    <3>2. t[1] = "replace" /\ t[2] = e /\ t = <<t[1], t[2]>>
      BY <3>1
    <3> QED BY <3>1, <3>2
  <2>2. CASE \E e \in erased : t = <<"erase", e>> /\ e \in Now(grid[p])
    <3>1. PICK e \in erased : t = <<"erase", e>> /\ e \in Now(grid[p])
      BY <2>2
    <3>2. t[1] = "erase" /\ t[2] = e /\ t = <<t[1], t[2]>>
      BY <3>1
    <3> QED BY <3>1, <3>2
  <2> QED BY <1>1, <2>1, <2>2
<1>3. AreTasks(grid[p], T, "delete", Now(grid[p]), erased)
  BY <1>2 DEF AreTasks
<1>4. ASSUME NEW e \in erased, e \in Now(grid[p]) PROVE <<"erase", e>> \in T
  <2>1. Has(p, e)
    BY <1>4, HasIs
  <2>2. <<"erase", e>> \in Tasks("erase", erased, p)
    BY <2>1, IsTask
  <2> QED BY <2>2
<1> QED BY <1>3, <1>4

LEMMA NewSessionStep ==
  ASSUME NEW lists, NEW held, NEW chosen, IsShape, Within(lists, held, chosen), NewSession
  PROVE  IsShape' /\ \E l, h, c : Within(l, h, c)'
<1>1. /\ open = {} /\ sessions < MaxSessions /\ open' = Procs /\ sessions' = sessions + 1
      /\ grid' = grid /\ layout' = layout /\ info' = info /\ scheduled' = scheduled /\ mode' = mode
  BY DEF NewSession
<1>2. CASE PlanInsertion
  <2> DEFINE TI(marked, replaced, p) ==
               {t \in Tasks("refine", marked, p) : ~IsGhost(p, t[2])} \cup Tasks("replace", replaced, p)
  <2>1. PICK marked \in SUBSET {e \in Leaves : Children[e] # <<>>}, replaced \in SUBSET Replaceable :
          todo' = [p \in Procs |-> TI(marked, replaced, p)] /\ session' = "insert"
    BY <1>2 DEF PlanInsertion
  <2>2. marked \subseteq Leaves
    OBVIOUS
  <2> HIDE DEF TI
  <2>3. \A p \in Procs : todo'[p] = TI(marked, replaced, p)
    BY <2>1
  <2>4. todo' = [p \in Procs |-> todo'[p]]
    BY <2>1
  <2>5. \A p \in Procs : /\ AreTasks(grid[p], todo'[p], "insert", Now(grid[p]), marked)
                         /\ NoneMissing({}, layout[p], todo'[p], marked)
    BY <1>1, <2>2, <2>3, InsertionPlanned DEF TI
  <2>6. session' # "delete" /\ session' \in {"insert", "delete"}
    BY <2>1
  <2>7. \A p \in Procs :
          /\ AreTasks(grid[p], todo'[p], session', Now(grid[p]), marked)
          /\ session' = "insert" => NoneMissing({}, layout[p], todo'[p], marked)
          /\ session' = "delete" => \A e \in marked : e \in Now(grid[p]) => <<"erase", e>> \in todo'[p]
    BY <2>1, <2>5, <2>6
  <2> QED BY <1>1, <2>2, <2>4, <2>6, <2>7, SessionStart
<1>3. CASE PlanDeletion
  <2> DEFINE TD(erased, replaced, p) ==
               Tasks("erase", erased, p) \cup Tasks("replace", replaced \ erased, p)
  <2>1. PICK erased \in SUBSET {e \in Leaves : Level[e] > 0}, replaced \in SUBSET Replaceable :
          todo' = [p \in Procs |-> TD(erased, replaced, p)] /\ session' = "delete"
    BY <1>3 DEF PlanDeletion
  <2>2. erased \subseteq Leaves
    OBVIOUS
  <2> HIDE DEF TD
  <2>3. \A p \in Procs : todo'[p] = TD(erased, replaced, p)
    BY <2>1
  <2>4. todo' = [p \in Procs |-> todo'[p]]
    BY <2>1
  <2>5. \A p \in Procs : /\ AreTasks(grid[p], todo'[p], "delete", Now(grid[p]), erased)
                         /\ \A e \in erased : e \in Now(grid[p]) => <<"erase", e>> \in todo'[p]
    BY <2>2, <2>3, DeletionPlanned DEF TD
  <2>6. session' # "insert" /\ session' \in {"insert", "delete"}
    BY <2>1
  <2>7. \A p \in Procs :
          /\ AreTasks(grid[p], todo'[p], session', Now(grid[p]), erased)
          /\ session' = "insert" => NoneMissing({}, layout[p], todo'[p], erased)
          /\ session' = "delete" => \A e \in erased : e \in Now(grid[p]) => <<"erase", e>> \in todo'[p]
    BY <2>1, <2>5, <2>6
  <2> QED BY <1>1, <2>2, <2>4, <2>6, <2>7, SessionStart
<1> QED BY <1>2, <1>3 DEF NewSession

-----------------------------------------------------------------------------
(* The beginning.                                                          *)

FirstEnds(p) == {l \in FirstLists : p \in {l.master, l.slave}}

\* The elements of the interface of a key at first.
FirstList(p, key) ==
    IF \E l \in FirstEnds(p) : FirstKey(p, l) = key
    THEN (CHOOSE l \in FirstEnds(p) : FirstKey(p, l) = key).elems
    ELSE <<>>

LEMMA FirstIs ==
  ASSUME NEW l \in FirstLists
  PROVE  /\ l.kind \in {"H", "V"} /\ l.master # l.slave /\ l.master \in Procs /\ l.slave \in Procs
         /\ l.elems \in Seq(Elems) /\ l.elems # <<>>
         /\ \A j, k \in DOMAIN l.elems : l.elems[j] = l.elems[k] => j = k
         /\ \A e \in Members(l.elems) : Type[e] = Type[l.elems[1]] /\ Level[e] = Level[l.elems[1]]
         /\ Members(l.elems) \subseteq FirstElems[l.master]
         /\ Members(l.elems) \subseteq FirstElems[l.slave]
         /\ l.elems[1] \in Elems
<1>1. /\ l.kind \in {"H", "V"} /\ l.master # l.slave
      /\ l.elems \in Seq(Elems) \ {<<>>}
      /\ \A j, k \in DOMAIN l.elems : l.elems[j] = l.elems[k] => j = k
      /\ \A e \in Members(l.elems) : Type[e] = Type[l.elems[1]] /\ Level[e] = Level[l.elems[1]]
      /\ \A p \in {l.master, l.slave} : p \in Procs /\ Members(l.elems) \subseteq FirstElems[p]
  BY FirstAssumption
<1>2. l.elems[1] \in Elems
  <2> DEFINE s == l.elems
  <2>1. s \in Seq(Elems) /\ s # <<>>
    BY <1>1
  <2> HIDE DEF s
  <2>2. s[1] \in Elems
    BY <2>1
  <2> QED BY <2>2 DEF s
<1> QED BY <1>1, <1>2

\* The kinds of the two ends.
LEMMA FirstKeyIs ==
  ASSUME NEW p, NEW l \in FirstEnds(p)
  PROVE  /\ FirstKey(p, l).type = Type[l.elems[1]] /\ FirstKey(p, l).level = Level[l.elems[1]]
         /\ FirstKey(p, l).target = (IF p = l.master THEN l.slave ELSE l.master)
         /\ FirstKey(p, l).kind = (IF p = l.master THEN (IF l.kind = "H" THEN "HM" ELSE "VM")
                                                   ELSE (IF l.kind = "H" THEN "HS" ELSE "VS"))
         /\ FirstKey(p, l) = KeyAt(l.elems[1], FirstKey(p, l).kind, FirstKey(p, l).target)
         /\ FirstKey(p, l) \in Keys
         /\ l \in FirstLists /\ (p = l.master \/ p = l.slave)
<1>1. l \in FirstLists /\ (p = l.master \/ p = l.slave)
  BY DEF FirstEnds
<1>2. l.kind \in {"H", "V"} /\ l.master \in Procs /\ l.slave \in Procs /\ l.elems[1] \in Elems
  BY <1>1, FirstIs
<1> DEFINE a == Type[l.elems[1]]
           b == Level[l.elems[1]]
           k == IF p = l.master THEN (IF l.kind = "H" THEN "HM" ELSE "VM")
                                ELSE (IF l.kind = "H" THEN "HS" ELSE "VS")
           t == IF p = l.master THEN l.slave ELSE l.master
<1>3. FirstKey(p, l) = [type |-> a, level |-> b, kind |-> k, target |-> t]
  BY DEF FirstKey
<1>4. k \in {"HM", "HS", "VM", "VS"} /\ t \in Procs
  BY <1>2
<1> HIDE DEF k, t
<1>5. FirstKey(p, l) = KeyAt(l.elems[1], k, t)
  BY <1>3 DEF KeyAt
<1> HIDE DEF a, b
<1>6. /\ FirstKey(p, l).type = a /\ FirstKey(p, l).level = b
      /\ FirstKey(p, l).kind = k /\ FirstKey(p, l).target = t
  BY <1>3
<1>7. FirstKey(p, l) \in Keys
  BY <1>2, <1>4, <1>5, KeyAtIn
<1> QED BY <1>1, <1>5, <1>6, <1>7 DEF a, b, k, t

LEMMA OneFirst ==
  ASSUME NEW p, NEW l \in FirstEnds(p), NEW m \in FirstEnds(p), FirstKey(p, l) = FirstKey(p, m)
  PROVE  l = m
<1>1. l \in FirstLists /\ m \in FirstLists
  BY DEF FirstEnds
<1>2. /\ l.kind \in {"H", "V"} /\ l.master # l.slave /\ (p = l.master \/ p = l.slave)
      /\ m.kind \in {"H", "V"} /\ m.master # m.slave /\ (p = m.master \/ p = m.slave)
  BY <1>1, FirstIs DEF FirstEnds
<1>3. Type[l.elems[1]] = Type[m.elems[1]] /\ Level[l.elems[1]] = Level[m.elems[1]]
  BY FirstKeyIs
<1>4. (IF p = l.master THEN l.slave ELSE l.master) = (IF p = m.master THEN m.slave ELSE m.master)
  BY FirstKeyIs
<1>5. (IF p = l.master THEN (IF l.kind = "H" THEN "HM" ELSE "VM") ELSE (IF l.kind = "H" THEN "HS" ELSE "VS"))
      = (IF p = m.master THEN (IF m.kind = "H" THEN "HM" ELSE "VM") ELSE (IF m.kind = "H" THEN "HS" ELSE "VS"))
  BY FirstKeyIs
<1>6. l.kind = m.kind /\ l.master = m.master /\ l.slave = m.slave
  BY <1>2, <1>4, <1>5
<1> QED BY <1>1, <1>3, <1>6, FirstAssumption

LEMMA FirstListAt ==
  ASSUME NEW p, NEW l \in FirstEnds(p), NEW key, key = FirstKey(p, l)
  PROVE  FirstList(p, key) = l.elems
<1> DEFINE c == CHOOSE m \in FirstEnds(p) : FirstKey(p, m) = key
<1>1. c \in FirstEnds(p) /\ FirstKey(p, c) = key
  OBVIOUS
<1>2. FirstList(p, key) = c.elems
  BY DEF FirstList
<1> HIDE DEF c
<1>3. c = l
  BY <1>1, OneFirst
<1> QED BY <1>2, <1>3

\* Both sides have the same list.
LEMMA FirstListsMatch ==
  ASSUME NEW p \in Procs, NEW key \in Keys, NEW q, q = key.target, NEW opp, opp = Opposite(p, key),
         NEW l \in FirstEnds(p), FirstKey(p, l) = key
  PROVE  l \in FirstEnds(q) /\ FirstKey(q, l) = opp
<1>1. /\ l \in FirstLists /\ (p = l.master \/ p = l.slave)
      /\ q = (IF p = l.master THEN l.slave ELSE l.master)
      /\ key.kind = (IF p = l.master THEN (IF l.kind = "H" THEN "HM" ELSE "VM")
                                     ELSE (IF l.kind = "H" THEN "HS" ELSE "VS"))
      /\ key.type = Type[l.elems[1]] /\ key.level = Level[l.elems[1]]
  BY FirstKeyIs
<1>2. l.kind \in {"H", "V"} /\ l.master # l.slave
  BY <1>1, FirstIs
<1>3. l \in FirstEnds(q)
  BY <1>1 DEF FirstEnds
<1>4. /\ opp \in Keys /\ opp.type = key.type /\ opp.level = key.level /\ opp.target = p
      /\ opp.kind = Other[key.kind]
  BY OppositeIs
<1>5. /\ FirstKey(q, l) \in Keys
      /\ FirstKey(q, l).type = Type[l.elems[1]] /\ FirstKey(q, l).level = Level[l.elems[1]]
      /\ FirstKey(q, l).target = (IF q = l.master THEN l.slave ELSE l.master)
      /\ FirstKey(q, l).kind = (IF q = l.master THEN (IF l.kind = "H" THEN "HM" ELSE "VM")
                                                ELSE (IF l.kind = "H" THEN "HS" ELSE "VS"))
  BY <1>3, FirstKeyIs
<1>6. FirstKey(q, l).target = p
  BY <1>1, <1>2, <1>5
<1>7. FirstKey(q, l).kind = Other[key.kind]
  <2>1. CASE p = l.master
    <3>1. q # l.master
      BY <2>1, <1>1, <1>2
    <3> QED BY <3>1, <2>1, <1>1, <1>2, <1>5 DEF Other
  <2>2. CASE p # l.master
    <3>1. q = l.master
      BY <2>2, <1>1
    <3> QED BY <3>1, <2>2, <1>1, <1>2, <1>5 DEF Other
  <2> QED BY <2>1, <2>2
<1> DEFINE K == FirstKey(q, l)
<1>8. K \in Keys /\ K.type = opp.type /\ K.level = opp.level /\ K.kind = opp.kind /\ K.target = opp.target
  BY <1>1, <1>4, <1>5, <1>6, <1>7
<1> HIDE DEF K
<1>9. /\ K = [type |-> K.type, level |-> K.level, kind |-> K.kind, target |-> K.target]
      /\ opp = [type |-> opp.type, level |-> opp.level, kind |-> opp.kind, target |-> opp.target]
  BY <1>4, <1>8, KeyIs
<1>10. K = opp
  BY <1>8, <1>9
<1> QED BY <1>3, <1>10 DEF K

LEMMA OppositeTwice ==
  ASSUME NEW p \in Procs, NEW key \in Keys, NEW q, q = key.target, NEW opp, opp = Opposite(p, key)
  PROVE  q \in Procs /\ opp \in Keys /\ p = opp.target /\ key = Opposite(q, opp)
<1>1. q \in Procs /\ key.kind \in {"HM", "HS", "VM", "VS"}
  BY KeyIs
<1>2. /\ opp \in Keys /\ opp.type = key.type /\ opp.level = key.level /\ opp.target = p
      /\ opp.kind = Other[key.kind]
  BY OppositeIs
<1> DEFINE K == Opposite(q, opp)
<1>3. /\ K \in Keys /\ K.type = opp.type /\ K.level = opp.level /\ K.target = q
      /\ K.kind = Other[opp.kind]
  BY <1>1, <1>2, OppositeIs
<1> HIDE DEF K
<1>4. Other[Other[key.kind]] = key.kind
  BY <1>1 DEF Other
<1>5. K.type = key.type /\ K.level = key.level /\ K.target = key.target /\ K.kind = key.kind
  BY <1>2, <1>3, <1>4
<1>6. /\ K = [type |-> K.type, level |-> K.level, kind |-> K.kind, target |-> K.target]
      /\ key = [type |-> key.type, level |-> key.level, kind |-> key.kind, target |-> key.target]
  BY <1>3, KeyIs
<1>7. K = key
  BY <1>5, <1>6
<1> QED BY <1>1, <1>2, <1>7 DEF K

LEMMA SameFirst ==
  ASSUME NEW p \in Procs, NEW key \in Keys, NEW q, q = key.target, NEW opp, opp = Opposite(p, key)
  PROVE  FirstList(p, key) = FirstList(q, opp)
<1>1. q \in Procs /\ opp \in Keys /\ p = opp.target /\ key = Opposite(q, opp)
  BY OppositeTwice
<1>2. CASE \E l \in FirstEnds(p) : FirstKey(p, l) = key
  <2>1. PICK l \in FirstEnds(p) : FirstKey(p, l) = key
    BY <1>2
  <2>2. l \in FirstEnds(q) /\ FirstKey(q, l) = opp
    BY <2>1, FirstListsMatch
  <2>3. FirstList(p, key) = l.elems
    BY <2>1, FirstListAt
  <2>4. FirstList(q, opp) = l.elems
    BY <2>2, FirstListAt
  <2> QED BY <2>3, <2>4
<1>3. CASE ~ \E l \in FirstEnds(p) : FirstKey(p, l) = key
  <2>1. ~ \E l \in FirstEnds(q) : FirstKey(q, l) = opp
    <3>1. SUFFICES ASSUME NEW l \in FirstEnds(q), FirstKey(q, l) = opp PROVE FALSE
      OBVIOUS
    <3>2. l \in FirstEnds(p) /\ FirstKey(p, l) = key
      BY <3>1, <1>1, FirstListsMatch
    <3> QED BY <3>2, <1>3
  <2>2. FirstList(p, key) = <<>>
    BY <1>3 DEF FirstList
  <2>3. FirstList(q, opp) = <<>>
    BY <2>1 DEF FirstList
  <2> QED BY <2>2, <2>3
<1> QED BY <1>2, <1>3

LEMMA FirstListIs ==
  ASSUME NEW p \in Procs, NEW key \in Keys, NEW s, s = FirstList(p, key)
  PROVE  /\ s \in Seq(FirstElems[p]) /\ s \in Seq(Elems)
         /\ \A j, k \in DOMAIN s : s[j] = s[k] => j = k
         /\ \A k \in DOMAIN s : Type[s[k]] = key.type /\ Level[s[k]] = key.level
         /\ Len(s) \in Nat /\ DOMAIN s = 1 .. Len(s) /\ Len(s) <= Cardinality(Elems)
<1>1. /\ s \in Seq(Elems) /\ \A j, k \in DOMAIN s : s[j] = s[k] => j = k
      /\ \A x \in Members(s) : Type[x] = key.type /\ Level[x] = key.level /\ x \in FirstElems[p]
  <2>1. CASE \E l \in FirstEnds(p) : FirstKey(p, l) = key
    <3>1. PICK l \in FirstEnds(p) : FirstKey(p, l) = key
      BY <2>1
    <3>2. s = l.elems
      BY <3>1, FirstListAt
    <3>3. /\ l \in FirstLists /\ (p = l.master \/ p = l.slave)
          /\ key.type = Type[l.elems[1]] /\ key.level = Level[l.elems[1]]
      BY <3>1, FirstKeyIs
    <3> QED BY <3>2, <3>3, FirstIs, ZenonT(40)
  <2>2. CASE ~ \E l \in FirstEnds(p) : FirstKey(p, l) = key
    <3>1. s = <<>>
      BY <2>2 DEF FirstList
    <3>2. s \in Seq(Elems) /\ DOMAIN s = {}
      BY <3>1
    <3>3. Members(s) = {}
      BY <3>2 DEF Members
    <3> QED BY <3>2, <3>3
  <2> QED BY <2>1, <2>2
<1>2. DOMAIN s = 1 .. Len(s) /\ Len(s) \in Nat /\ \A k \in DOMAIN s : s[k] \in Elems
  BY <1>1, SeqDomain
<1>3. \A k \in DOMAIN s : s[k] \in Members(s)
  BY IsMember
<1>4. \A k \in DOMAIN s : Type[s[k]] = key.type /\ Level[s[k]] = key.level /\ s[k] \in FirstElems[p]
  BY <1>1, <1>3
<1> DEFINE N == Len(s)
<1>5. s = [k \in 1 .. N |-> s[k]]
  BY <1>1, <1>2
<1> HIDE DEF N
<1>6. N \in Nat /\ \A k \in 1 .. N : s[k] \in FirstElems[p]
  BY <1>2, <1>4 DEF N
<1>7. s \in Seq(FirstElems[p])
  BY <1>5, <1>6, SeqIs
<1>8. N <= Cardinality(Elems)
  <2>1. IsFiniteSet(Elems)
    BY DistributedGridAssumption
  <2>2. s \in [1 .. N -> Elems]
    BY <1>2, <1>5 DEF N
  <2>3. s \in Injection(1 .. N, Elems)
    BY <2>2, <1>1, <1>2 DEF Injection, IsInjective, N
  <2>4. IsFiniteSet(1 .. N) /\ Cardinality(1 .. N) = N
    BY <1>6, FS_Interval
  <2>5. Cardinality(1 .. N) <= Cardinality(Elems)
    BY <2>1, <2>3, FS_Injection
  <2> QED BY <2>4, <2>5
<1> QED BY <1>1, <1>2, <1>4, <1>7, <1>8 DEF N

\* An interface filled with the elements of a list.
IsFilled(itf, s, E) ==
    /\ itf = [entries |-> itf.entries, idCounter |-> itf.idCounter]
    /\ itf.idCounter = 1 + Len(s)
    /\ itf.entries \in Seq([elem : E, localID : Nat])
    /\ Len(itf.entries) = Len(s)
    /\ \A k \in 1 .. Len(s) : itf.entries[k].elem = <<s[k], 0>> /\ itf.entries[k].localID = k

LEMMA FilledFirst ==
  ASSUME NEW s, NEW X, s \in Seq(X), 1 + Len(s) < IdLimit, NEW E, E = X \X {0},
         NEW objs, objs = [k \in 1 .. Len(s) |-> <<s[k], 0>>]
  PROVE  IsFilled(Pushed(EmptyInterface, objs)[Len(s)], s, E)
<1> DEFINE N == Len(s)
           itf == EmptyInterface
           i == Pushed(EmptyInterface, objs)[N]
<1>1. N \in Nat /\ DOMAIN s = 1 .. N /\ \A k \in 1 .. N : s[k] \in X
  BY SeqDomain
<1>2. \A k \in 1 .. N : <<s[k], 0>> \in E
  BY <1>1
<1>3. objs = [k \in 1 .. N |-> objs[k]] /\ \A k \in 1 .. N : objs[k] \in E /\ objs[k] = <<s[k], 0>>
  BY <1>2
<1>4. objs \in Seq(E) /\ Len(objs) = N
  <2> HIDE DEF N
  <2> QED BY <1>1, <1>3, SeqIs
<1>5. itf = [entries |-> itf.entries, idCounter |-> itf.idCounter] /\ itf.entries = <<>> /\ itf.idCounter = 1
  BY DEF EmptyInterface
<1>6. itf.entries \in Seq([elem : E, localID : Nat]) /\ Len(itf.entries) = 0
  BY <1>5
<1>7. 0 < 1 /\ 1 \in Nat /\ 1 + Len(objs) < IdLimit /\ N \in 0 .. Len(objs)
  BY <1>1, <1>4
<1> HIDE DEF N, itf
<1>8. IsPushed(Pushed(itf, objs)[N], itf, objs, E, 1, N)
  <2> DEFINE d == 1
             R == [elem : E, localID : Nat]
  <2>1. /\ d \in Nat /\ itf.idCounter = d /\ 0 < d /\ d + Len(objs) < IdLimit
    BY <1>5, <1>7
  <2>2. itf.entries \in Seq(R)
    BY <1>6
  <2>3. itf = [entries |-> itf.entries, idCounter |-> itf.idCounter] /\ objs \in Seq(E) /\ N \in 0 .. Len(objs)
    BY <1>4, <1>5, <1>7
  <2> HIDE DEF d
  <2>4. IsPushed(Pushed(itf, objs)[N], itf, objs, E, d, N)
    BY <2>1, <2>2, <2>3, PushedIs
  <2> QED BY <2>4 DEF d
<1>9. i = Pushed(itf, objs)[N]
  BY DEF itf
<1> HIDE DEF i
<1>10. /\ i = [entries |-> i.entries, idCounter |-> 1 + N] /\ i.idCounter = 1 + N
       /\ i.entries \in Seq([elem : E, localID : Nat])
       /\ Len(i.entries) = Len(itf.entries) + N
       /\ \A k \in 1 .. N : i.entries[Len(itf.entries) + k] = [elem |-> objs[k], localID |-> 1 + k - 1]
  BY <1>8, <1>9 DEF IsPushed
<1>11. \A k \in 1 .. N : i.entries[k].elem = <<s[k], 0>> /\ i.entries[k].localID = k
  <2>1. SUFFICES ASSUME NEW k \in 1 .. N
                 PROVE  i.entries[k].elem = <<s[k], 0>> /\ i.entries[k].localID = k
    OBVIOUS
  <2>2. Len(itf.entries) + k = k /\ 1 + k - 1 = k
    BY <1>1, <1>6
  <2>3. i.entries[Len(itf.entries) + k] = [elem |-> objs[k], localID |-> 1 + k - 1]
    BY <1>10
  <2>4. i.entries[k] = [elem |-> objs[k], localID |-> k]
    BY <2>2, <2>3
  <2> QED BY <2>4, <1>3
<1>12. Len(i.entries) = N
  BY <1>1, <1>6, <1>10
<1>13. i = [entries |-> i.entries, idCounter |-> i.idCounter]
  BY <1>10
<1> QED BY <1>10, <1>11, <1>12, <1>13 DEF IsFilled, N, i

LEMMA FirstLayoutIs ==
  ASSUME NEW p \in Procs, NEW L, L = FirstLayout(p), NEW key \in Keys, NEW s, s = FirstList(p, key)
  PROVE  L = [ky \in Keys |-> L[ky]] /\ IsFilled(L[key], s, FirstElems[p] \X {0})
<1> DEFINE objects(l) == [k \in 1 .. Len(l.elems) |-> <<l.elems[k], 0>>]
           filled(l) == Pushed(EmptyInterface, objects(l))[Len(l.elems)]
           has(ky) == \E l \in FirstEnds(p) : FirstKey(p, l) = ky
           the(ky) == CHOOSE l \in FirstEnds(p) : FirstKey(p, l) = ky
<1>1. L = [ky \in Keys |-> IF has(ky) THEN filled(the(ky)) ELSE EmptyInterface]
  BY DEF FirstLayout, FirstEnds
<1>2. s = IF has(key) THEN the(key).elems ELSE <<>>
  BY DEF FirstList
<1>3. /\ s \in Seq(FirstElems[p]) /\ Len(s) \in Nat /\ Len(s) <= Cardinality(Elems)
  BY FirstListIs
<1>4. 1 + Len(s) < IdLimit
  <2>1. Cardinality(Elems) \in Nat /\ Bound(0 + 1) < IdLimit
    BY BoundIs, DistributedGridAssumption
  <2>2. Bound(0 + 1) = 1 + Cardinality(Elems)
    BY <2>1 DEF Bound
  <2>3. IdLimit \in Nat
    BY IdLimitAssumption
  <2> QED BY <2>1, <2>2, <2>3, <1>3
<1> DEFINE objs == [k \in 1 .. Len(s) |-> <<s[k], 0>>]
           E == FirstElems[p] \X {0}
<1>5. IsFilled(Pushed(EmptyInterface, objs)[Len(s)], s, E)
  <2> HIDE DEF objs, E
  <2>1. E = FirstElems[p] \X {0} /\ objs = [k \in 1 .. Len(s) |-> <<s[k], 0>>]
    BY DEF E, objs
  <2> QED BY <2>1, <1>3, <1>4, FilledFirst
<1>6. L[key] = IF has(key) THEN filled(the(key)) ELSE EmptyInterface
  <2> HIDE DEF has, filled, the
  <2> QED BY <1>1
<1>7. L = [ky \in Keys |-> L[ky]]
  <2> HIDE DEF has, filled, the
  <2> QED BY <1>1
<1>8. CASE has(key)
  <2>1. s = the(key).elems
    BY <1>2, <1>8
  <2>2. L[key] = filled(the(key))
    BY <1>6, <1>8
  <2> HIDE DEF the, has
  <2>3. L[key] = Pushed(EmptyInterface, objs)[Len(s)]
    BY <2>1, <2>2
  <2> QED BY <2>3, <1>5, <1>7
<1>9. CASE ~ has(key)
  <2>1. s = <<>> /\ L[key] = EmptyInterface
    BY <1>2, <1>6, <1>9
  <2>2. IsFilled(EmptyInterface, <<>>, E)
    BY DEF IsFilled, EmptyInterface
  <2> QED BY <2>1, <2>2, <1>7
<1> QED BY <1>8, <1>9

LEMMA InFirst ==
  ASSUME NEW p \in Procs, NEW L, L = FirstLayout(p), NEW key \in Keys, NEW s, s = FirstList(p, key), NEW x
  PROVE  /\ x \in ElemsOf(L, key) <=> x \in Members(s)
         /\ x \in Members(s) => \E l \in FirstEnds(p) : FirstKey(p, l) = key /\ x \in Members(l.elems)
<1>1. IsFilled(L[key], s, FirstElems[p] \X {0})
  BY FirstLayoutIs
<1>2. DOMAIN s = 1 .. Len(s) /\ Len(s) \in Nat
  BY FirstListIs
<1> DEFINE F == L[key].entries
           N == Len(s)
<1>3. /\ F \in Seq([elem : FirstElems[p] \X {0}, localID : Nat]) /\ Len(F) = N
      /\ \A k \in 1 .. N : F[k].elem = <<s[k], 0>>
  BY <1>1 DEF IsFilled
<1>4. DOMAIN F = 1 .. N
  BY <1>3, SeqDomain
<1>5. \A k \in 1 .. N : F[k].elem[1] = s[k]
  BY <1>3
<1>6. x \in ElemsOf(L, key) <=> \E k \in DOMAIN F : F[k].elem[1] = x
  BY DEF ElemsOf
<1> HIDE DEF F
<1>7. x \in ElemsOf(L, key) <=> x \in Members(s)
  BY <1>2, <1>4, <1>5, <1>6, IsMember
<1>8. ASSUME x \in Members(s)
      PROVE  \E l \in FirstEnds(p) : FirstKey(p, l) = key /\ x \in Members(l.elems)
  <2>1. CASE \E l \in FirstEnds(p) : FirstKey(p, l) = key
    <3>1. PICK l \in FirstEnds(p) : FirstKey(p, l) = key
      BY <2>1
    <3>2. s = l.elems
      BY <3>1, FirstListAt
    <3> QED BY <3>1, <3>2, <1>8
  <2>2. CASE ~ \E l \in FirstEnds(p) : FirstKey(p, l) = key
    <3>1. s = <<>>
      BY <2>2 DEF FirstList
    <3>2. DOMAIN s = {}
      BY <3>1
    <3> QED BY <3>2, <1>8, IsMember
  <2> QED BY <2>1, <2>2
<1> QED BY <1>7, <1>8

\* The horizontal lists hold the elements that are shared.
LEMMA FirstSharedIs ==
  ASSUME NEW p \in Procs, NEW L, L = FirstLayout(p), NEW e \in Elems, NEW q \in Procs
  PROVE  /\ e \in ElemsOf(L, KeyAt(e, "HM", q)) <=> e \in FirstShared(p, q)
         /\ e \in ElemsOf(L, KeyAt(e, "HS", q)) <=> e \in FirstShared(q, p)
<1>1. ASSUME NEW kind \in {"HM", "HS"}, NEW K, K = KeyAt(e, kind, q)
      PROVE  e \in ElemsOf(L, K) <=>
               \E l \in FirstLists : /\ l.kind = "H" /\ e \in Members(l.elems)
                                     /\ (kind = "HM" => l.master = p /\ l.slave = q)
                                     /\ (kind = "HS" => l.master = q /\ l.slave = p)
  <2>1. /\ K \in Keys /\ K.type = Type[e] /\ K.level = Level[e] /\ K.kind = kind /\ K.target = q
    <3>1. kind \in {"HM", "HS", "VM", "VS"}
      OBVIOUS
    <3> QED BY <3>1, <1>1, KeyAtIn
  <2> DEFINE s == FirstList(p, K)
  <2>2. /\ e \in ElemsOf(L, K) <=> e \in Members(s)
        /\ e \in Members(s) => \E l \in FirstEnds(p) : FirstKey(p, l) = K /\ e \in Members(l.elems)
    BY <2>1, InFirst
  <2>3. ASSUME e \in ElemsOf(L, K)
        PROVE  \E l \in FirstLists : /\ l.kind = "H" /\ e \in Members(l.elems)
                                     /\ (kind = "HM" => l.master = p /\ l.slave = q)
                                     /\ (kind = "HS" => l.master = q /\ l.slave = p)
    <3>1. PICK l \in FirstEnds(p) : FirstKey(p, l) = K /\ e \in Members(l.elems)
      BY <2>2, <2>3
    <3>2. /\ l \in FirstLists /\ (p = l.master \/ p = l.slave)
          /\ q = (IF p = l.master THEN l.slave ELSE l.master)
          /\ kind = (IF p = l.master THEN (IF l.kind = "H" THEN "HM" ELSE "VM")
                                     ELSE (IF l.kind = "H" THEN "HS" ELSE "VS"))
      BY <2>1, <3>1, FirstKeyIs
    <3>3. l.kind \in {"H", "V"}
      BY <3>2, FirstIs
    <3>4. l.kind = "H"
      BY <3>2, <3>3
    <3>5. (kind = "HM" => l.master = p /\ l.slave = q) /\ (kind = "HS" => l.master = q /\ l.slave = p)
      BY <3>2, <3>4
    <3> QED BY <3>1, <3>2, <3>4, <3>5
  <2>4. ASSUME NEW l \in FirstLists, l.kind = "H", e \in Members(l.elems),
               kind = "HM" => l.master = p /\ l.slave = q,
               kind = "HS" => l.master = q /\ l.slave = p
        PROVE  e \in ElemsOf(L, K)
    <3>1. l \in FirstEnds(p)
      BY <2>4, <1>1 DEF FirstEnds
    <3>2. /\ l.master # l.slave /\ Type[e] = Type[l.elems[1]] /\ Level[e] = Level[l.elems[1]]
      BY <2>4, FirstIs
    <3> DEFINE M == FirstKey(p, l)
    <3>3. /\ M \in Keys
          /\ M.type = Type[l.elems[1]] /\ M.level = Level[l.elems[1]]
          /\ M.target = (IF p = l.master THEN l.slave ELSE l.master)
          /\ M.kind = (IF p = l.master THEN (IF l.kind = "H" THEN "HM" ELSE "VM")
                                       ELSE (IF l.kind = "H" THEN "HS" ELSE "VS"))
      BY <3>1, FirstKeyIs
    <3> HIDE DEF M
    <3>4. M.type = K.type /\ M.level = K.level /\ M.target = K.target /\ M.kind = K.kind
      <4>1. CASE kind = "HM"
        BY <4>1, <2>1, <2>4, <3>2, <3>3
      <4>2. CASE kind = "HS"
        BY <4>2, <2>1, <2>4, <3>2, <3>3
      <4> QED BY <4>1, <4>2, <1>1
    <3>5. /\ M = [type |-> M.type, level |-> M.level, kind |-> M.kind, target |-> M.target]
          /\ K = [type |-> K.type, level |-> K.level, kind |-> K.kind, target |-> K.target]
      BY <2>1, <3>3, KeyIs
    <3>6. M = K
      BY <3>4, <3>5
    <3>7. K = FirstKey(p, l)
      BY <3>6 DEF M
    <3>8. s = l.elems
      BY <3>1, <3>7, FirstListAt
    <3> QED BY <3>8, <2>2, <2>4
  <2> QED BY <2>3, <2>4
<1>2. ASSUME NEW a \in Procs, NEW b \in Procs
      PROVE  e \in FirstShared(a, b) <=>
               \E l \in FirstLists : /\ l.kind = "H" /\ l.master = a /\ l.slave = b /\ e \in Members(l.elems)
  BY DEF FirstShared
<1>3. e \in ElemsOf(L, KeyAt(e, "HM", q)) <=> e \in FirstShared(p, q)
  <2>1. e \in ElemsOf(L, KeyAt(e, "HM", q)) <=>
               \E l \in FirstLists : /\ l.kind = "H" /\ e \in Members(l.elems)
                                     /\ ("HM" = "HM" => l.master = p /\ l.slave = q)
                                     /\ ("HM" = "HS" => l.master = q /\ l.slave = p)
    BY <1>1
  <2> QED BY <2>1, <1>2
<1>4. e \in ElemsOf(L, KeyAt(e, "HS", q)) <=> e \in FirstShared(q, p)
  <2>1. e \in ElemsOf(L, KeyAt(e, "HS", q)) <=>
               \E l \in FirstLists : /\ l.kind = "H" /\ e \in Members(l.elems)
                                     /\ ("HS" = "HM" => l.master = p /\ l.slave = q)
                                     /\ ("HS" = "HS" => l.master = q /\ l.slave = p)
    BY <1>1
  <2> QED BY <2>1, <1>2
<1> QED BY <1>3, <1>4

LEMMA FirstGrid ==
  ASSUME NEW p \in Procs, NEW G, G = FirstElems[p] \X {0}
  PROVE  /\ IsGrid(G) /\ Now(G) = FirstElems[p] /\ FirstElems[p] \subseteq Elems
<1>1. FirstElems[p] \subseteq Elems
  BY DistributedGridAssumption
<1>2. G \subseteq Objects
  BY <1>1 DEF Objects
<1>3. \A o1, o2 \in G : o1[1] = o2[1] => o1 = o2
  OBVIOUS
<1>4. \A e \in FirstElems[p] : <<e, 0>> \in G /\ <<e, 0>>[1] = e
  OBVIOUS
<1>5. Now(G) \subseteq FirstElems[p]
  BY DEF Now
<1>6. FirstElems[p] \subseteq Now(G)
  BY <1>4 DEF Now
<1> QED BY <1>1, <1>2, <1>3, <1>5, <1>6 DEF IsGrid

LEMMA FirstItf ==
  ASSUME NEW p \in Procs, NEW G, G = FirstElems[p] \X {0}, NEW L, L = FirstLayout(p), NEW key \in Keys
  PROVE  /\ IsItf(G, Bound(0 + 1), key, L[key])
         /\ ListOf(L, key) = FirstList(p, key)
<1> DEFINE s == FirstList(p, key)
           N == Len(s)
           itf == L[key]
           F == itf.entries
<1>1. /\ IsFilled(itf, s, G)
      /\ \A j, k \in DOMAIN s : s[j] = s[k] => j = k
      /\ \A k \in DOMAIN s : Type[s[k]] = key.type /\ Level[s[k]] = key.level
      /\ s \in Seq(Elems) /\ N \in Nat /\ DOMAIN s = 1 .. N /\ N <= Cardinality(Elems)
  BY FirstLayoutIs, FirstListIs
<1>2. /\ itf = [entries |-> itf.entries, idCounter |-> itf.idCounter]
      /\ itf.idCounter = 1 + N
      /\ F \in Seq([elem : G, localID : Nat]) /\ Len(F) = N
      /\ \A k \in 1 .. N : F[k].elem = <<s[k], 0>> /\ F[k].localID = k
  BY <1>1 DEF IsFilled
<1>3. DOMAIN F = 1 .. N
  BY <1>2, SeqDomain
<1>4. \A k \in 1 .. N : F[k].elem[1] = s[k] /\ F[k].localID = k
  BY <1>2
<1>5. Bound(0 + 1) = 1 + Cardinality(Elems) /\ Cardinality(Elems) \in Nat
  BY BoundIs DEF Bound
<1>6. ListOf(L, key) = [k \in DOMAIN F |-> F[k].elem[1]]
  BY DEF ListOf
<1>7. s = [k \in 1 .. N |-> s[k]]
  BY <1>1
<1> HIDE DEF s, N, F
<1>8. ListOf(L, key) = s
  BY <1>3, <1>4, <1>6, <1>7
<1>9. /\ itf.idCounter \in Nat /\ 0 < itf.idCounter /\ itf.idCounter <= Bound(0 + 1)
  BY <1>1, <1>2, <1>5
<1>10. \A k \in DOMAIN F : /\ F[k].localID < itf.idCounter
                           /\ Type[F[k].elem[1]] = key.type /\ Level[F[k].elem[1]] = key.level
  BY <1>1, <1>2, <1>3, <1>4
<1>11. \A j, k \in DOMAIN F : /\ j < k => F[j].localID < F[k].localID
                              /\ F[j].elem[1] = F[k].elem[1] => j = k
  BY <1>1, <1>3, <1>4
<1>12. IsItf(G, Bound(0 + 1), key, itf)
  BY <1>2, <1>9, <1>10, <1>11 DEF IsItf, F
<1> QED BY <1>8, <1>12 DEF s, itf

LEMMA FirstListOf ==
  ASSUME NEW p \in Procs, NEW key \in Keys
  PROVE  ListOf(FirstLayout(p), key) = FirstList(p, key)
<1> DEFINE G == FirstElems[p] \X {0}
           L == FirstLayout(p)
<1>1. G = FirstElems[p] \X {0} /\ L = FirstLayout(p)
  OBVIOUS
<1> HIDE DEF G, L
<1>2. ListOf(L, key) = FirstList(p, key)
  BY <1>1, FirstItf
<1> QED BY <1>1, <1>2

LEMMA FirstLayoutHolds ==
  ASSUME NEW p \in Procs, NEW G, G = FirstElems[p] \X {0}, NEW L, L = FirstLayout(p)
  PROVE  IsLayout(L, G, Bound(0 + 1)) /\ Follow(G, L, {})
<1>1. Now(G) = FirstElems[p] /\ FirstElems[p] \subseteq Elems
  BY FirstGrid
<1>2. L = [key \in Keys |-> L[key]]
  BY DEF FirstLayout
<1>3. \A key \in Keys : IsItf(G, Bound(0 + 1), key, L[key])
  BY FirstItf
<1>4. ASSUME NEW e \in Elems, NEW q \in Procs, NEW r \in Procs
      PROVE  ~ (e \in ElemsOf(L, KeyAt(e, "HM", q)) /\ e \in ElemsOf(L, KeyAt(e, "HS", r)))
  <2>1. e \in ElemsOf(L, KeyAt(e, "HM", q)) <=> e \in FirstShared(p, q)
    BY FirstSharedIs
  <2>2. e \in ElemsOf(L, KeyAt(e, "HS", r)) <=> e \in FirstShared(r, p)
    BY FirstSharedIs
  <2>3. FirstShared(p, q) \cap FirstShared(r, p) = {}
    BY FirstAssumption
  <2> QED BY <2>1, <2>2, <2>3
<1>5. OneSided(L)
  BY <1>4 DEF OneSided
<1>6. ASSUME NEW e \in Elems, NEW k \in DOMAIN Children[e], FollowedAtFirst(e),
             e \in Now(G), Children[e][k] \in Now(G), NEW kind \in Flat, NEW target \in Procs
      PROVE  e \in ElemsOf(L, KeyAt(e, kind, target)) <=>
                 Children[e][k] \in ElemsOf(L, KeyAt(Children[e][k], kind, target))
  <2> DEFINE c == Children[e][k]
  <2>1. c \in Elems /\ c \in Members(Children[e]) /\ {e, c} \subseteq FirstElems[p]
    BY <1>1, <1>6, ChildIs
  <2>2. /\ e \in FirstShared(p, target) <=> c \in FirstShared(p, target)
        /\ e \in FirstShared(target, p) <=> c \in FirstShared(target, p)
    <3>1. \A pp, q \in Procs : \A d \in Members(Children[e]) :
            {e, d} \subseteq FirstElems[pp] =>
               /\ e \in FirstShared(pp, q) <=> d \in FirstShared(pp, q)
               /\ e \in FirstShared(q, pp) <=> d \in FirstShared(q, pp)
      BY <1>6 DEF FollowedAtFirst
    <3> HIDE DEF c
    <3> QED BY <2>1, <3>1
  <2> HIDE DEF c
  <2>3. /\ e \in ElemsOf(L, KeyAt(e, "HM", target)) <=> e \in FirstShared(p, target)
        /\ e \in ElemsOf(L, KeyAt(e, "HS", target)) <=> e \in FirstShared(target, p)
    BY FirstSharedIs
  <2>4. /\ c \in ElemsOf(L, KeyAt(c, "HM", target)) <=> c \in FirstShared(p, target)
        /\ c \in ElemsOf(L, KeyAt(c, "HS", target)) <=> c \in FirstShared(target, p)
    BY <2>1, FirstSharedIs
  <2>5. kind = "HM" \/ kind = "HS"
    BY DEF Flat
  <2>6. e \in ElemsOf(L, KeyAt(e, kind, target)) <=> c \in ElemsOf(L, KeyAt(c, kind, target))
    <3>1. CASE kind = "HM"
      BY <3>1, <2>2, <2>3, <2>4
    <3>2. CASE kind = "HS"
      BY <3>2, <2>2, <2>3, <2>4
    <3> QED BY <3>1, <3>2, <2>5
  <2> QED BY <2>6 DEF c
<1>7. Follow(G, L, {})
  BY <1>6 DEF Follow
<1> QED BY <1>2, <1>3, <1>5, <1>7 DEF IsLayout

LEMMA FirstLocal ==
  ASSUME NEW p \in Procs, NEW G, G = FirstElems[p] \X {0}, NEW L, L = FirstLayout(p),
         NEW I, I = InfosFrom(L), NEW S, S = {}, NEW T, T = {}, NEW c1, c1 = {},
         NEW own, own = [key \in Keys |-> ListOf(L, key)], NEW had, had = Now(G)
  PROVE  Local(G, L, I, S, "none", T, "insert", FALSE, 0, own, had, c1)
<1>1. IsGrid(G) /\ IsLayout(L, G, Bound(0 + 1)) /\ Follow(G, L, {})
  BY FirstGrid, FirstLayoutHolds
<1>2. IsInfo(I, L, S)
  <2>1. I = [o \in Objects |-> I[o]]
    BY DEF InfosFrom
  <2>2. \A o \in Objects : ~ IsScheduled(S, o)
    BY DEF IsScheduled
  <2> QED BY <2>1, <2>2 DEF IsInfo
<1>3. AreTasks(G, T, "delete", Now(G), c1)
  BY DEF AreTasks
<1> DEFINE m == "none"
           ss == "delete"
           n == 0 + 1
<1>4. IsReady(G, L, I, S, m, T, ss, n, own, had, c1)
  <2>1. m = "none" /\ ss = "delete" /\ ss # "insert" /\ \A e \in c1 : FALSE
    OBVIOUS
  <2>2. IsLayout(L, G, Bound(n)) /\ AreTasks(G, T, ss, Now(G), c1)
    BY <1>1, <1>3
  <2> HIDE DEF m, ss, n
  <2> QED BY <1>1, <1>2, <2>1, <2>2 DEF IsReady
<1>5. ss \in {"insert", "delete"} /\ m = "none" /\ ss = "delete"
  OBVIOUS
<1>6. Local(G, L, I, S, m, T, ss, TRUE, n, own, had, c1)
  <2> HIDE DEF m, ss, n
  <2> QED BY <1>4, <1>5, LocalThen
<1>7. HoldsInOrder(L, own) /\ HoldsExpected(L, own, c1, T, "delete", TRUE)
  BY <1>6 DEF Local
<1>8. ASSUME NEW key \in Keys
      PROVE  ElemsOf(L, key) = Expected(own, c1, T, "insert", FALSE, key)
  <2>1. ElemsOf(L, key) = Expected(own, c1, T, "delete", TRUE, key)
    BY <1>7 DEF HoldsExpected
  <2>2. ElemsOf(L, key) = Members(own[key])
    BY <2>1 DEF Expected
  <2>3. ChildrenIn(own, c1, key) = {}
    BY DEF ChildrenIn
  <2> QED BY <2>2, <2>3 DEF Expected
<1>9. HoldsExpected(L, own, c1, T, "insert", FALSE)
  BY <1>8 DEF HoldsExpected
<1>10. AreItems(S, G, L, I, T, c1) /\ AreNumbered(S)
  BY DEF AreItems, AreNumbered
<1>11. InPhase("none", T, S, "insert", FALSE)
  BY DEF InPhase
<1>12. AreTasks(G, T, "insert", had, c1) /\ IsHeld(G, T, "insert", had, c1)
  BY DEF AreTasks, IsHeld
<1>13. Follow(G, L, IF "insert" = "insert" /\ FALSE THEN c1 ELSE {})
  BY <1>1
<1>14. IsLayout(L, G, Bound(IF FALSE THEN 0 ELSE 0 + 1))
  BY <1>1
<1>15. "insert" = "insert" /\ FALSE => NoneMissing(S, L, T, c1)
  OBVIOUS
<1> QED BY <1>1, <1>2, <1>7, <1>9, <1>10, <1>11, <1>12, <1>13, <1>14, <1>15 DEF Local

LEMMA InitHolds ==
  ASSUME DGInit
  PROVE  DGInv
<1>1. /\ grid = [p \in Procs |-> FirstElems[p] \X {0}]
      /\ layout = [p \in Procs |-> FirstLayout(p)]
      /\ info = [p \in Procs |-> InfosFrom(layout[p])]
      /\ scheduled = [p \in Procs |-> {}] /\ mode = [p \in Procs |-> "none"] /\ todo = [p \in Procs |-> {}]
      /\ session = "insert" /\ open = {} /\ sessions = 0
  BY DEF DGInit
<1>2. IsShape
  <2>1. sessions \in 0 .. MaxSessions
    BY <1>1, DistributedGridAssumption
  <2> QED BY <1>1, <2>1 DEF IsShape
<1>3. \A p \in Procs : /\ grid[p] = FirstElems[p] \X {0} /\ layout[p] = FirstLayout(p)
                       /\ info[p] = InfosFrom(layout[p])
                       /\ scheduled[p] = {} /\ mode[p] = "none" /\ todo[p] = {}
  BY <1>1
<1>4. PICK l, h, c : l = Lists /\ h = Held /\ c = {}
  OBVIOUS
<1>5. \A p \in Procs : h[p] = Now(grid[p]) /\ l[p] = [key \in Keys |-> ListOf(layout[p], key)]
  BY <1>4 DEF Lists, Held
<1>6. ASSUME NEW p \in Procs
      PROVE  Local(grid[p], layout[p], info[p], scheduled[p], mode[p], todo[p],
                   session, p \in open, sessions, l[p], h[p], c)
  <2>1. Local(grid[p], layout[p], info[p], scheduled[p], "none", todo[p], "insert", FALSE, 0, l[p], h[p], c)
    BY <1>3, <1>4, <1>5, FirstLocal
  <2>2. (p \in open) = FALSE
    BY <1>1
  <2> QED BY <2>1, <2>2, <1>1, <1>3
<1>7. ASSUME NEW p \in Procs, NEW key \in Keys
      PROVE  /\ l[p][key] \in Seq(h[p])
             /\ \A j, k \in DOMAIN l[p][key] : l[p][key][j] = l[p][key][k] => j = k
             /\ l[p][key] = l[key.target][Opposite(p, key)]
  <2> DEFINE opp == Opposite(p, key)
             q == key.target
  <2>1. q \in Procs /\ opp \in Keys
    BY OppositeTwice
  <2>2. l[p][key] = ListOf(layout[p], key) /\ l[q][opp] = ListOf(layout[q], opp)
    BY <1>5, <2>1
  <2>3. ListOf(layout[p], key) = FirstList(p, key) /\ ListOf(layout[q], opp) = FirstList(q, opp)
    BY <1>3, <2>1, FirstListOf
  <2>4. FirstList(p, key) = FirstList(q, opp)
    BY SameFirst
  <2>5. h[p] = FirstElems[p]
    BY <1>3, <1>5, FirstGrid
  <2>6. /\ FirstList(p, key) \in Seq(FirstElems[p])
        /\ \A j, k \in DOMAIN FirstList(p, key) : FirstList(p, key)[j] = FirstList(p, key)[k] => j = k
    BY FirstListIs
  <2> HIDE DEF opp, q
  <2>7. l[p][key] = l[q][opp]
    BY <2>2, <2>3, <2>4
  <2>8. l[p][key] = FirstList(p, key)
    BY <2>2, <2>3
  <2> QED BY <2>5, <2>6, <2>7, <2>8 DEF opp, q
<1>8. \A p \in Procs : h[p] = FirstElems[p] /\ h[p] \subseteq Elems
  BY <1>3, <1>5, FirstGrid, ZenonT(40)
<1>9. ASSUME NEW p \in Procs, NEW e \in Elems, NEW k \in DOMAIN Children[e]
      PROVE  /\ Children[e][k] \in h[p] => \E q \in Procs : e \in h[q]
             /\ e \in c => Children[e][k] \notin h[p]
  <2>1. Children[e][k] \in Members(Children[e])
    BY ChildIs
  <2>2. Children[e][k] \in FirstElems[p] => \E q \in Procs : e \in FirstElems[q]
    BY <2>1, FirstAssumption
  <2> QED BY <2>2, <1>4, <1>8
<1>10. \A e \in c : e \in Elems /\ \E q \in Procs : e \in h[q]
  BY <1>4
<1>11. IsContext(l, h, c)
  BY <1>7, <1>8, <1>9, <1>10 DEF IsContext
<1>12. Within(l, h, c)
  BY <1>6, <1>11 DEF Within
<1> QED BY <1>2, <1>12 DEF DGInv

-----------------------------------------------------------------------------
(* The invariant is kept.                                                  *)

LEMMA StepKeeps ==
  ASSUME DGInv, [DGNext]_dgVars
  PROVE  DGInv'
<1>1. IsShape
  BY DEF DGInv
<1>2. PICK lists, held, chosen : Within(lists, held, chosen)
  BY DEF DGInv
<1>3. IsShape' /\ Within(lists, held, chosen)' => DGInv'
  BY DEF DGInv
<1>4. CASE NewSession
  <2>1. IsShape' /\ \E l, h, c : Within(l, h, c)'
    BY <1>1, <1>2, <1>4, NewSessionStep
  <2> QED BY <2>1 DEF DGInv
<1>5. ASSUME NEW p \in Procs, Begin(p) PROVE DGInv'
  BY <1>1, <1>2, <1>3, <1>5, BeginStep
<1>6. ASSUME NEW p \in Procs, EndInsertion(p) PROVE DGInv'
  BY <1>1, <1>2, <1>3, <1>6, EndInsertionStep
<1>7. ASSUME NEW p \in Procs, EndDeletion(p) PROVE DGInv'
  BY <1>1, <1>2, <1>3, <1>7, EndDeletionStep
<1>8. ASSUME NEW p \in Procs, LayoutsChanged(p) PROVE DGInv'
  BY <1>1, <1>2, <1>3, <1>8, LayoutsChangedStep
<1>9. ASSUME NEW p \in Procs, NEW e \in Elems, Refine(p, e) PROVE DGInv'
  BY <1>1, <1>2, <1>3, <1>9, RefineStep
<1>10. ASSUME NEW p \in Procs, NEW e \in Elems, Replace(p, e) PROVE DGInv'
  BY <1>1, <1>2, <1>3, <1>10, ReplaceStep
<1>11. ASSUME NEW p \in Procs, NEW e \in Elems, EraseElement(p, e) PROVE DGInv'
  BY <1>1, <1>2, <1>3, <1>11, EraseStep
<1>12. CASE UNCHANGED dgVars
  <2>1. IsShape'
    BY <1>1, <1>12 DEF IsShape, dgVars
  <2>2. Within(lists, held, chosen)'
    BY <1>2, <1>12 DEF Within, dgVars
  <2> QED BY <1>3, <2>1, <2>2
<1> QED BY <1>4, <1>5, <1>6, <1>7, <1>8, <1>9, <1>10, <1>11, <1>12 DEF DGNext

\* What is always so: every process holds what it should, given how the session began.
THEOREM DGInvariant == DGSpec => []DGInv
<1>1. DGInit => DGInv
  BY InitHolds
<1>2. DGInv /\ [DGNext]_dgVars => DGInv'
  BY StepKeeps
<1> QED BY <1>1, <1>2, PTL DEF DGSpec

-----------------------------------------------------------------------------
(* What follows.                                                           *)

LEMMA MatchHolds ==
  ASSUME DGInv
  PROVE  InterfacesMatch
<1>1. IsShape
  BY DEF DGInv
<1>2. PICK lists, held, chosen : Within(lists, held, chosen)
  BY DEF DGInv
<1>3. ASSUME NEW p \in Procs \ open, NEW q \in Procs \ open, NEW key \in Keys, key.target = q
      PROVE  ElementList(p, key) = ElementList(q, Opposite(p, key))
  <2>1. ListOf(layout[p], key) = ListOf(layout[q], Opposite(p, key))
    BY <1>1, <1>2, <1>3, ListsMatch
  <2> QED BY <2>1 DEF ElementList, ListOf
<1> QED BY <1>3 DEF InterfacesMatch

\* Interfaces match: two processes that have both ended the session have the same
\* elements in the same order on the two sides of each interface between them
\* (DistributedGridManager::end_ordered_element_insertion, element_to_be_erased).
THEOREM InterfacesAlwaysMatch == DGSpec => []InterfacesMatch
<1>1. DGInv => InterfacesMatch
  BY MatchHolds
<1> QED BY <1>1, DGInvariant, PTL

\* What an information says, given how its object's nodes are.
LEMMA InfoAgrees ==
  ASSUME NEW L, NEW G, NEW bound, IsGrid(G), IsLayout(L, G, bound), NEW o \in Objects,
         NEW i, i = InfosFrom(L)[o], NEW kinds, kinds = KindsOf(L, o)
  PROVE  /\ o \notin G => i = NoInfo
         /\ i.entries = NodesOf(L, o)
         /\ ("IN" \in i.status <=> kinds \cap {"HM", "HS"} # {})
         /\ i.status \cap {"VM", "VS"} = kinds \cap {"VM", "VS"}
         /\ "SCHED" \notin i.status
         /\ i.status \cap {"HM", "HS"} = kinds \cap {"HM", "HS"}
<1>1. o \notin G => i = NoInfo
  BY NoNodes, NoInfoThen
<1>2. /\ i.entries = NodesOf(L, o)
      /\ i.status = (IF "HS" \in kinds THEN {"HS", "IN"}
                     ELSE IF "HM" \in kinds THEN {"HM", "IN"} ELSE {})
                    \cup (kinds \cap {"VM", "VS"})
  BY InfoIs
<1>3. ~ ("HM" \in kinds /\ "HS" \in kinds)
  BY NotBoth, NoNodes
<1> QED BY <1>1, <1>2, <1>3

LEMMA AgreeAt ==
  ASSUME NEW lists, NEW held, NEW chosen, Within(lists, held, chosen), NEW p \in Procs, NEW o \in Objects,
         NEW i, i = info[p][o], NEW kinds, kinds = KindsOf(layout[p], o)
  PROVE  /\ o \notin grid[p] => i = NoInfo /\ \A s \in scheduled[p] : s.obj # o
         /\ i.entries = NodesOf(layout[p], o)
         /\ ("IN" \in i.status <=> kinds \cap {"HM", "HS"} # {})
         /\ i.status \cap {"VM", "VS"} = kinds \cap {"VM", "VS"}
         /\ IF "SCHED" \in i.status
            THEN mode[p] = "insert" /\ \E s \in scheduled[p] : s.obj = o
            ELSE i.status \cap {"HM", "HS"} = kinds \cap {"HM", "HS"}
<1>0. IsContext(lists, held, chosen)
  BY DEF Within
<1>1. PICK active \in BOOLEAN : (p \in open) = active
  BY IsBoolean
<1>2. Local(grid[p], layout[p], info[p], scheduled[p], mode[p], todo[p], session, active, sessions,
            lists[p], held[p], chosen)
  BY <1>1 DEF Within
<1>3. /\ IsGrid(grid[p]) /\ IsInfo(info[p], layout[p], scheduled[p])
      /\ AreItems(scheduled[p], grid[p], layout[p], info[p], todo[p], chosen)
      /\ (mode[p] # "insert" => scheduled[p] = {})
  BY <1>2 DEF Local, InPhase
<1>4. PICK bound : IsLayout(layout[p], grid[p], bound)
  BY <1>2 DEF Local
<1>5. CASE ~ IsScheduled(scheduled[p], o)
  <2>1. i = InfosFrom(layout[p])[o]
    BY <1>3, <1>5 DEF IsInfo
  <2>2. \A s \in scheduled[p] : s.obj # o
    BY <1>5 DEF IsScheduled
  <2>3. /\ o \notin grid[p] => i = NoInfo
        /\ i.entries = NodesOf(layout[p], o)
        /\ ("IN" \in i.status <=> kinds \cap {"HM", "HS"} # {})
        /\ i.status \cap {"VM", "VS"} = kinds \cap {"VM", "VS"}
        /\ "SCHED" \notin i.status
        /\ i.status \cap {"HM", "HS"} = kinds \cap {"HM", "HS"}
    BY <2>1, <1>3, <1>4, InfoAgrees
  <2> QED BY <2>2, <2>3
<1>6. CASE IsScheduled(scheduled[p], o)
  <2>1. PICK s \in scheduled[p] : s.obj = o
    BY <1>6 DEF IsScheduled
  <2>2. s.obj \in grid[p] /\ \E kind \in Flat : info[p][s.obj] = Scheduled(kind)
    BY <1>3 DEF AreItems
  <2>3. PICK kind \in Flat : i = Scheduled(kind)
    BY <2>1, <2>2
  <2>4. i.status = {kind, "SCHED"} /\ i.entries = {} /\ kind \in {"HM", "HS"}
    BY <2>3 DEF Scheduled, Flat
  <2>5. NodesOf(layout[p], o) = {}
    BY <1>3, <1>6 DEF IsInfo
  <2>6. kinds = {}
    BY <2>5 DEF KindsOf
  <2>7. mode[p] = "insert"
    BY <1>3, <2>1
  <2>8. o \in grid[p]
    BY <2>1, <2>2
  <2> HIDE <1>3
  <2>9. /\ "IN" \notin i.status /\ i.status \cap {"VM", "VS"} = {} /\ "SCHED" \in i.status
    BY <2>4
  <2> QED BY <2>1, <2>4, <2>5, <2>6, <2>7, <2>8, <2>9
<1> QED BY <1>5, <1>6

LEMMA AgreeHolds ==
  ASSUME DGInv
  PROVE  InfosAgree
<1>1. PICK lists, held, chosen : Within(lists, held, chosen)
  BY DEF DGInv
<1>2. ASSUME NEW p \in Procs, NEW o \in Objects
      PROVE  LET i     == info[p][o]
                 nodes == NodesOf(layout[p], o)
                 kinds == {n.key.kind : n \in nodes}
             IN  /\ o \notin grid[p] => i = NoInfo /\ \A s \in scheduled[p] : s.obj # o
                 /\ i.entries = nodes
                 /\ "IN" \in i.status <=> kinds \cap {"HM", "HS"} # {}
                 /\ i.status \cap {"VM", "VS"} = kinds \cap {"VM", "VS"}
                 /\ IF "SCHED" \in i.status
                    THEN mode[p] = "insert" /\ \E s \in scheduled[p] : s.obj = o
                    ELSE i.status \cap {"HM", "HS"} = kinds \cap {"HM", "HS"}
  <2> DEFINE i == info[p][o]
             kinds == KindsOf(layout[p], o)
  <2>1. i = info[p][o] /\ kinds = KindsOf(layout[p], o)
    OBVIOUS
  <2>2. KindsOf(layout[p], o) = {n.key.kind : n \in NodesOf(layout[p], o)}
    BY DEF KindsOf
  <2> HIDE DEF i, kinds
  <2>3. /\ o \notin grid[p] => i = NoInfo /\ \A s \in scheduled[p] : s.obj # o
        /\ i.entries = NodesOf(layout[p], o)
        /\ ("IN" \in i.status <=> kinds \cap {"HM", "HS"} # {})
        /\ i.status \cap {"VM", "VS"} = kinds \cap {"VM", "VS"}
        /\ IF "SCHED" \in i.status
           THEN mode[p] = "insert" /\ \E s \in scheduled[p] : s.obj = o
           ELSE i.status \cap {"HM", "HS"} = kinds \cap {"HM", "HS"}
    BY <1>1, <2>1, AgreeAt
  <2> QED BY <2>2, <2>3 DEF i, kinds
<1> QED BY <1>2 DEF InfosAgree

\* The sides of an element: the horizontal interfaces it is in.
LEMMA SideOfElement ==
  ASSUME NEW L, NEW G, NEW bound, IsGrid(G), IsLayout(L, G, bound), NEW o \in G, NEW x, x = o[1],
         NEW J, J = InfosFrom(L)[o], NEW kind, NEW target
  PROVE  (\E n \in FlatEntries(J) : n.key.kind = kind /\ n.key.target = target) <=>
           /\ kind \in Flat /\ target \in Procs
           /\ x \in ElemsOf(L, KeyAt(x, kind, target))
<1>1. o \in Objects /\ x \in Elems
  BY ObjectIs DEF IsGrid
<1>2. FlatEntries(J) = {n \in NodesOf(L, o) : n.key.kind \in Flat}
  BY FlatInfo
<1>3. ASSUME NEW n \in FlatEntries(J), n.key.kind = kind, n.key.target = target
      PROVE  kind \in Flat /\ target \in Procs /\ x \in ElemsOf(L, KeyAt(x, kind, target))
  <2>1. n \in NodesOf(L, o) /\ kind \in Flat
    BY <1>2, <1>3
  <2>2. PICK key \in Keys : \E k \in DOMAIN L[key].entries :
                               L[key].entries[k].elem = o /\ n = Node(key, L[key].entries[k])
    BY <2>1, <1>1, IsNode
  <2>3. PICK k \in DOMAIN L[key].entries : L[key].entries[k].elem = o /\ n = Node(key, L[key].entries[k])
    BY <2>2
  <2>4. n.key = key
    BY <2>3 DEF Node
  <2>5. x \in ElemsOf(L, key)
    BY <2>3 DEF ElemsOf
  <2>6. key = KeyAt(x, key.kind, key.target)
    BY <2>5, ElemsAre
  <2>7. key.target \in Procs
    BY KeyIs
  <2> QED BY <1>3, <2>1, <2>4, <2>5, <2>6, <2>7
<1>4. ASSUME kind \in Flat, target \in Procs, x \in ElemsOf(L, KeyAt(x, kind, target))
      PROVE  \E n \in FlatEntries(J) : n.key.kind = kind /\ n.key.target = target
  <2> DEFINE key == KeyAt(x, kind, target)
  <2>1. kind \in {"HM", "HS", "VM", "VS"}
    BY <1>4 DEF Flat
  <2>2. key \in Keys /\ key.type = Type[x] /\ key.kind = kind /\ key.target = target
    BY <1>1, <1>4, <2>1, KeyAtIn
  <2>3. x \in ElemsOf(L, key)
    BY <1>4
  <2> HIDE DEF key
  <2>4. PICK k \in DOMAIN L[key].entries : L[key].entries[k].elem = o
    BY <2>2, <2>3, InElems
  <2> DEFINE n == Node(key, L[key].entries[k])
  <2>5. n.key = key
    BY DEF Node
  <2>6. n \in NodesOf(L, o)
    BY <2>2, <2>4, <1>1, IsNode
  <2> HIDE DEF n
  <2>7. n \in FlatEntries(J)
    BY <2>2, <2>5, <2>6, <1>2, <1>4
  <2> QED BY <2>2, <2>5, <2>7
<1> QED BY <1>3, <1>4

LEMMA FollowHolds ==
  ASSUME DGInv
  PROVE  ChildrenFollow
<1>1. IsShape
  BY DEF DGInv
<1>2. PICK lists, held, chosen : Within(lists, held, chosen)
  BY DEF DGInv
<1>3. ASSUME NEW p \in Procs \ open, NEW e \in Elems, NEW c \in Members(Children[e]),
             FollowedAtFirst(e), Has(p, e), Has(p, c)
      PROVE  {<<n.key.kind, n.key.target>> : n \in FlatEntries(info[p][ObjectOf(p, c)])}
               = {<<n.key.kind, n.key.target>> : n \in FlatEntries(info[p][ObjectOf(p, e)])}
  <2>1. /\ IsGrid(grid[p]) /\ IsLayout(layout[p], grid[p], Bound(sessions + 1))
        /\ IsInfo(info[p], layout[p], scheduled[p]) /\ scheduled[p] = {}
        /\ Follow(grid[p], layout[p], {})
    BY <1>1, <1>2, Ended
  <2>2. \A o \in Objects : info[p][o] = InfosFrom(layout[p])[o]
    <3>1. \A o \in Objects : ~ IsScheduled(scheduled[p], o)
      BY <2>1 DEF IsScheduled
    <3> QED BY <2>1, <3>1 DEF IsInfo
  <2>3. PICK k \in DOMAIN Children[e] : Children[e][k] = c
    BY IsMember
  <2>4. e \in Now(grid[p]) /\ c \in Now(grid[p])
    BY <1>3, HasIs
  <2>5. \A kind \in Flat, target \in Procs :
          e \in ElemsOf(layout[p], KeyAt(e, kind, target)) <=> c \in ElemsOf(layout[p], KeyAt(c, kind, target))
    BY <1>3, <2>1, <2>3, <2>4 DEF Follow
  <2>6. ASSUME NEW x, x \in Now(grid[p]), NEW J, J = info[p][ObjectOf(p, x)], NEW kind, NEW target
        PROVE  (\E n \in FlatEntries(J) : n.key.kind = kind /\ n.key.target = target) <=>
                 /\ kind \in Flat /\ target \in Procs
                 /\ x \in ElemsOf(layout[p], KeyAt(x, kind, target))
    <3> DEFINE o == ObjectOf(p, x)
               L == layout[p]
               G == grid[p]
               bound == Bound(sessions + 1)
    <3>1. o \in G /\ x = o[1] /\ o \in Objects
      BY <2>1, <2>6, ObjectOfIs
    <3>2. J = InfosFrom(L)[o] /\ IsGrid(G) /\ IsLayout(L, G, bound)
      BY <2>1, <2>2, <2>6, <3>1
    <3> HIDE DEF o, L, G, bound
    <3>3. (\E n \in FlatEntries(J) : n.key.kind = kind /\ n.key.target = target) <=>
            /\ kind \in Flat /\ target \in Procs
            /\ x \in ElemsOf(L, KeyAt(x, kind, target))
      BY <3>1, <3>2, SideOfElement
    <3> QED BY <3>3 DEF L
  <2> DEFINE Jc == info[p][ObjectOf(p, c)]
             Je == info[p][ObjectOf(p, e)]
  <2>7. \A kind, target :
          (\E n \in FlatEntries(Jc) : n.key.kind = kind /\ n.key.target = target) <=>
            (\E n \in FlatEntries(Je) : n.key.kind = kind /\ n.key.target = target)
    <3>1. SUFFICES ASSUME NEW kind, NEW target
                   PROVE  (\E n \in FlatEntries(Jc) : n.key.kind = kind /\ n.key.target = target) <=>
                            (\E n \in FlatEntries(Je) : n.key.kind = kind /\ n.key.target = target)
      OBVIOUS
    <3>2. (\E n \in FlatEntries(Jc) : n.key.kind = kind /\ n.key.target = target) <=>
            /\ kind \in Flat /\ target \in Procs
            /\ c \in ElemsOf(layout[p], KeyAt(c, kind, target))
      BY <2>4, <2>6
    <3>3. (\E n \in FlatEntries(Je) : n.key.kind = kind /\ n.key.target = target) <=>
            /\ kind \in Flat /\ target \in Procs
            /\ e \in ElemsOf(layout[p], KeyAt(e, kind, target))
      BY <2>4, <2>6
    <3> QED BY <3>2, <3>3, <2>5
  <2> HIDE DEF Jc, Je
  <2> DEFINE X == {<<n.key.kind, n.key.target>> : n \in FlatEntries(Jc)}
             Y == {<<n.key.kind, n.key.target>> : n \in FlatEntries(Je)}
  <2>8. X \subseteq Y
    <3>1. SUFFICES ASSUME NEW n \in FlatEntries(Jc) PROVE <<n.key.kind, n.key.target>> \in Y
      OBVIOUS
    <3>2. PICK m \in FlatEntries(Je) : m.key.kind = n.key.kind /\ m.key.target = n.key.target
      BY <2>7
    <3>3. <<n.key.kind, n.key.target>> = <<m.key.kind, m.key.target>>
      BY <3>2
    <3> QED BY <3>3
  <2>9. Y \subseteq X
    <3>1. SUFFICES ASSUME NEW n \in FlatEntries(Je) PROVE <<n.key.kind, n.key.target>> \in X
      OBVIOUS
    <3>2. PICK m \in FlatEntries(Jc) : m.key.kind = n.key.kind /\ m.key.target = n.key.target
      BY <2>7
    <3>3. <<n.key.kind, n.key.target>> = <<m.key.kind, m.key.target>>
      BY <3>2
    <3> QED BY <3>3
  <2> HIDE DEF X, Y
  <2>10. X = Y
    BY <2>8, <2>9
  <2> QED BY <2>10 DEF X, Y, Jc, Je
<1> QED BY <1>3 DEF ChildrenFollow

\* What a process knows about its elements is right: it is what their interfaces say,
\* at any time, and what it knows about their parents, between sessions; of children
\* that were not shared as their parents at the start nothing is said
\* (DistributedGridManager::handle_created_element, element_to_be_erased,
\* end_ordered_element_insertion).
THEOREM InfosAreAlwaysRight == DGSpec => []InfosAreRight
<1>1. DGInv => InfosAreRight
  BY AgreeHolds, FollowHolds DEF InfosAreRight
<1> QED BY <1>1, DGInvariant, PTL
================================================================================
