------------------------------ MODULE LayoutProofs ------------------------------
(***************************************************************************)
(* Ordered interfaces, and the layouts distribution makes of them.         *)
(*                                                                         *)
(* The local ids of an ordered interface follow the order of its entries.  *)
(* That ids ascend is not inductive: insert() gives the entries behind the *)
(* new one consecutive ids, and only the distance of the ids below the     *)
(* counter says that there are enough of them.  The invariant therefore    *)
(* states distances, which need no induction over the list.                *)
(*                                                                         *)
(* The two sides of all interfaces match after every distribution.  There  *)
(* are two reasons for it.  What a process builds does not depend on the   *)
(* order in which it met the targets (PutsIsSide).  And all processes      *)
(* build from the same info: the invariant says of whom each has heard     *)
(* after each round, in terms of the info the present interfaces were      *)
(* built from.                                                             *)
(***************************************************************************)
EXTENDS OrderedInterface, GridDistribution, FiniteSetTheorems, SequenceTheorems, TLAPS

-----------------------------------------------------------------------------
(* The ordered interface.                                                  *)

Entry == [elem : Elems, localID : 0 .. IdLimit - 1]

\* The ids in use are below this.
Top(i) == IF i.idCounter = 0 THEN IdLimit ELSE i.idCounter

\* From any entry on, the n ids grow at least as fast as positions, up to below top.
Spaced(ids, n, top) ==
    /\ \A j, k \in 1 .. n : j <= k => k - j <= ids[k] - ids[j]
    /\ \A k \in 1 .. n : 0 < ids[k] /\ ids[k] + (n - k) < top

\* The ids after an id was added at the end, in front of the k-th, or the k-th erased.
Appended(new, ids, n, fresh) ==
    new[n + 1] = fresh /\ \A k \in 1 .. n : new[k] = ids[k]

Shifted(new, ids, n, k) ==
    \A j \in 1 .. n + 1 : new[j] = IF j < k THEN ids[j] ELSE ids[k] + (j - k)

Erased(new, ids, n, k) ==
    \A j \in 1 .. n - 1 : new[j] = IF j < k THEN ids[j] ELSE ids[j + 1]

Ids(list) == [k \in 1 .. Len(list) |-> list[k].localID]

IIType(i) == i \in [entries : Seq(Entry), idCounter : 0 .. IdLimit - 1]

IIok(i) == IIType(i) /\ Spaced(Ids(i.entries), Len(i.entries), Top(i))

IInv == IIok(interface) /\ Length + 1 < IdLimit

------------------------------------------------------------------------------
(* Spaced ids *)

\* Numbers below the limit are not reduced.
LEMMA ModSmall ==
    ASSUME NEW a \in Nat, a < IdLimit
    PROVE  a % IdLimit = a
  BY IdLimitAssumption

\* Distances of shifted ids.
LEMMA ShiftedDistance ==
    ASSUME NEW x \in Int, NEW y \in Int, NEW a \in Int, NEW b \in Int, NEW k \in Int
    PROVE  /\ k - a <= x - y => b - a <= (x + (b - k)) - y
           /\ b - a <= (x + (b - k)) - (x + (a - k))
  OBVIOUS

\* The ids 1, 2, ... are spaced below any larger number.
LEMMA ConsecutiveSpaced ==
    ASSUME NEW n \in Nat, NEW ids \in [1 .. n -> Int], NEW top \in Int, n < top,
           \A k \in 1 .. n : ids[k] = k
    PROVE  Spaced(ids, n, top)
  BY DEF Spaced

\* An id that was above the others is put behind them.
LEMMA AppendSpaced ==
    ASSUME NEW n \in Nat, NEW ids \in [1 .. n -> Int], NEW new \in [1 .. n + 1 -> Int],
           NEW fresh \in Int, NEW top \in Int, 0 < fresh, fresh < top,
           Spaced(ids, n, fresh), Appended(new, ids, n, fresh)
    PROVE  Spaced(new, n + 1, top)
<1>1. ASSUME NEW a \in 1 .. n + 1, NEW b \in 1 .. n + 1, a <= b
      PROVE  b - a <= new[b] - new[a]
  <2>1. CASE b <= n
    <3>1. a \in 1 .. n /\ b \in 1 .. n
      BY <1>1, <2>1
    <3>2. new[a] = ids[a] /\ new[b] = ids[b]
      BY <3>1 DEF Appended
    <3>3. b - a <= ids[b] - ids[a]
      BY <1>1, <3>1 DEF Spaced
    <3> QED
      BY <3>2, <3>3
  <2>2. CASE b = n + 1 /\ a <= n
    <3>1. a \in 1 .. n /\ ids[a] \in Int
      BY <2>2
    <3>2. new[a] = ids[a] /\ new[b] = fresh
      BY <2>2, <3>1 DEF Appended
    <3>3. ids[a] + (n - a) < fresh
      BY <3>1 DEF Spaced
    <3> QED
      BY <2>2, <3>1, <3>2, <3>3
  <2>3. CASE a = n + 1
    <3>1. b = a /\ new[a] \in Int
      BY <1>1, <2>3
    <3> QED
      BY <3>1
  <2> QED
    BY <1>1, <2>1, <2>2, <2>3
<1>2. ASSUME NEW b \in 1 .. n + 1
      PROVE  0 < new[b] /\ new[b] + (n + 1 - b) < top
  <2>1. CASE b <= n
    <3>1. b \in 1 .. n /\ ids[b] \in Int
      BY <2>1
    <3>2. new[b] = ids[b]
      BY <3>1 DEF Appended
    <3>3. 0 < ids[b] /\ ids[b] + (n - b) < fresh
      BY <3>1 DEF Spaced
    <3> QED
      BY <3>1, <3>2, <3>3
  <2>2. CASE b = n + 1
    <3>1. new[b] = fresh
      BY <2>2 DEF Appended
    <3> QED
      BY <2>2, <3>1
  <2> QED
    BY <1>2, <2>1, <2>2
<1> QED
  BY <1>1, <1>2 DEF Spaced

\* From the k-th on, consecutive ids start at the one that was there.
LEMMA InsertSpaced ==
    ASSUME NEW n \in Nat, NEW ids \in [1 .. n -> Int], NEW new \in [1 .. n + 1 -> Int],
           NEW fresh \in Int, NEW top \in Int, fresh < top, NEW k \in 1 .. n,
           Spaced(ids, n, fresh), Shifted(new, ids, n, k)
    PROVE  Spaced(new, n + 1, top)
<1>0. ids[k] \in Int /\ 0 < ids[k] /\ ids[k] + (n - k) < fresh
  BY DEF Spaced
<1>1. ASSUME NEW a \in 1 .. n + 1, NEW b \in 1 .. n + 1, a <= b
      PROVE  b - a <= new[b] - new[a]
  <2>1. CASE b < k
    <3>1. a \in 1 .. n /\ b \in 1 .. n /\ a < k
      BY <1>1, <2>1
    <3>2. new[a] = ids[a] /\ new[b] = ids[b]
      BY <2>1, <3>1 DEF Shifted
    <3>3. b - a <= ids[b] - ids[a]
      BY <1>1, <3>1 DEF Spaced
    <3> QED
      BY <3>2, <3>3
  <2>2. CASE a < k /\ k <= b
    <3>1. a \in 1 .. n /\ ids[a] \in Int
      BY <2>2
    <3>2. k - a <= ids[k] - ids[a]
      BY <2>2, <3>1 DEF Spaced
    <3>3. new[a] = ids[a] /\ new[b] = ids[k] + (b - k)
      BY <2>2, SMTT(40) DEF Shifted
    <3>4. a \in Int /\ b \in Int /\ k \in Int
      OBVIOUS
    <3> QED
      BY <1>0, <3>1, <3>2, <3>3, <3>4, ShiftedDistance
  <2>3. CASE k <= a
    <3>1. new[a] = ids[k] + (a - k) /\ new[b] = ids[k] + (b - k)
      BY <1>1, <2>3, SMTT(40) DEF Shifted
    <3>2. a \in Int /\ b \in Int /\ k \in Int
      OBVIOUS
    <3> QED
      BY <1>0, <3>1, <3>2, ShiftedDistance
  <2> QED
    BY <1>1, <2>1, <2>2, <2>3
<1>2. ASSUME NEW b \in 1 .. n + 1
      PROVE  0 < new[b] /\ new[b] + (n + 1 - b) < top
  <2>1. CASE b < k
    <3>1. b \in 1 .. n /\ ids[b] \in Int
      BY <2>1
    <3>2. new[b] = ids[b]
      BY <2>1 DEF Shifted
    <3>3. 0 < ids[b] /\ ids[b] + (n - b) < fresh
      BY <3>1 DEF Spaced
    <3> QED
      BY <3>1, <3>2, <3>3, SMTT(40)
  <2>2. CASE k <= b
    <3>1. new[b] = ids[k] + (b - k)
      BY <2>2 DEF Shifted
    <3> QED
      BY <1>0, <2>2, <3>1, SMTT(40)
  <2> QED
    BY <1>2, <2>1, <2>2
<1> DEFINE m == n + 1
<1>3. m \in Int /\ \A j, l \in 1 .. m : j <= l => l - j <= new[l] - new[j]
  BY <1>1
<1>4. ASSUME NEW l \in 1 .. m
      PROVE  0 < new[l] /\ new[l] + (m - l) < top
  BY <1>2, SMTT(60)
<1> HIDE DEF m
<1>5. Spaced(new, m, top)
  BY <1>3, <1>4 DEF Spaced
<1> QED
  BY <1>5 DEF m

\* Without the k-th.
LEMMA EraseSpaced ==
    ASSUME NEW n \in Nat, NEW ids \in [1 .. n -> Int], NEW new \in [1 .. n - 1 -> Int],
           NEW top \in Int, NEW k \in 1 .. n,
           Spaced(ids, n, top), Erased(new, ids, n, k)
    PROVE  Spaced(new, n - 1, top)
<1>1. ASSUME NEW a \in 1 .. n - 1, NEW b \in 1 .. n - 1, a <= b
      PROVE  b - a <= new[b] - new[a]
  <2>1. CASE b < k
    <3>1. a \in 1 .. n /\ b \in 1 .. n /\ a < k
      BY <1>1, <2>1
    <3>2. new[a] = ids[a] /\ new[b] = ids[b]
      BY <2>1, <3>1 DEF Erased
    <3>3. b - a <= ids[b] - ids[a]
      BY <1>1, <3>1 DEF Spaced
    <3> QED
      BY <3>2, <3>3
  <2>2. CASE a < k /\ k <= b
    <3>1. a \in 1 .. n /\ b + 1 \in 1 .. n /\ ids[a] \in Int /\ ids[b + 1] \in Int
      BY <2>2
    <3>2. b + 1 - a <= ids[b + 1] - ids[a]
      BY <1>1, <3>1 DEF Spaced
    <3>3. new[a] = ids[a] /\ new[b] = ids[b + 1]
      BY <2>2 DEF Erased
    <3> QED
      BY <3>1, <3>2, <3>3
  <2>3. CASE k <= a
    <3>1. a + 1 \in 1 .. n /\ b + 1 \in 1 .. n /\ ids[a + 1] \in Int /\ ids[b + 1] \in Int
      OBVIOUS
    <3>2. (b + 1) - (a + 1) <= ids[b + 1] - ids[a + 1]
      BY <1>1, <3>1 DEF Spaced
    <3>3. new[a] = ids[a + 1] /\ new[b] = ids[b + 1]
      BY <1>1, <2>3 DEF Erased
    <3> QED
      BY <3>1, <3>2, <3>3
  <2> QED
    BY <1>1, <2>1, <2>2, <2>3
<1>2. ASSUME NEW b \in 1 .. n - 1
      PROVE  0 < new[b] /\ new[b] + (n - 1 - b) < top
  <2>1. CASE b < k
    <3>1. b \in 1 .. n /\ ids[b] \in Int
      BY <2>1
    <3>2. new[b] = ids[b]
      BY <2>1 DEF Erased
    <3>3. 0 < ids[b] /\ ids[b] + (n - b) < top
      BY <3>1 DEF Spaced
    <3> QED
      BY <3>1, <3>2, <3>3
  <2>2. CASE k <= b
    <3>1. b + 1 \in 1 .. n /\ ids[b + 1] \in Int
      OBVIOUS
    <3>2. new[b] = ids[b + 1]
      BY <2>2 DEF Erased
    <3>3. 0 < ids[b + 1] /\ ids[b + 1] + (n - (b + 1)) < top
      BY <3>1 DEF Spaced
    <3> QED
      BY <3>1, <3>2, <3>3
  <2> QED
    BY <1>2, <2>1, <2>2
<1> DEFINE m == n - 1
<1>3. m \in Int /\ \A j, l \in 1 .. m : j <= l => l - j <= new[l] - new[j]
  BY <1>1
<1>4. \A l \in 1 .. m : 0 < new[l] /\ new[l] + (m - l) < top
  BY <1>2
<1> HIDE DEF m
<1>5. Spaced(new, m, top)
  BY <1>3, <1>4 DEF Spaced
<1> QED
  BY <1>5 DEF m

------------------------------------------------------------------------------
(* Lists of entries *)

\* A function on 1 .. n is a sequence.
LEMMA ListOf ==
    ASSUME NEW n \in Nat, NEW f, f = [k \in 1 .. n |-> f[k]],
           \A k \in 1 .. n : f[k] \in Entry
    PROVE  f \in Seq(Entry) /\ Len(f) = n
<1>1. f \in [1 .. n -> Entry]
  OBVIOUS
<1> QED
  BY <1>1

\* The ids of a list.
LEMMA IdsFacts ==
    ASSUME NEW list \in Seq(Entry), NEW n, n = Len(list)
    PROVE  /\ n \in Nat
           /\ Ids(list) \in [1 .. n -> Int]
           /\ \A k \in 1 .. n : Ids(list)[k] = list[k].localID
<1>1. \A k \in 1 .. Len(list) : list[k] \in Entry
  OBVIOUS
<1>2. \A k \in 1 .. Len(list) : list[k].localID \in Int
  BY <1>1, IdLimitAssumption DEF Entry
<1> QED
  BY <1>2 DEF Ids

\* Numbered() keeps the elements; without a wrap the ids are consecutive.
LEMMA NumberedFacts ==
    ASSUME NEW list \in Seq(Entry), NEW n \in Nat, n = Len(list), n < IdLimit
    PROVE  /\ Numbered(list, 1) \in Seq(Entry)
           /\ Len(Numbered(list, 1)) = n
           /\ \A top \in Int : n < top => Spaced(Ids(Numbered(list, 1)), n, top)
<1> DEFINE N == Numbered(list, 1)
<1>1. ASSUME NEW k \in 1 .. n
      PROVE  N[k] \in Entry /\ N[k].localID = k
  <2>1. 1 + k - 1 = k /\ k % IdLimit = k /\ k \in 0 .. IdLimit - 1
    BY ModSmall, IdLimitAssumption
  <2>2. list[k] \in Entry
    OBVIOUS
  <2>3. N[k] = [list[k] EXCEPT !.localID = k]
    BY <2>1 DEF Numbered
  <2> QED
    BY <2>1, <2>2, <2>3 DEF Entry
<1>2. N \in Seq(Entry) /\ Len(N) = n
  <2>1. N = [k \in 1 .. n |-> N[k]]
    BY DEF Numbered
  <2> HIDE DEF N
  <2> QED
    BY <1>1, <2>1, ListOf
<1> HIDE DEF N
<1>3. Ids(N) \in [1 .. n -> Int] /\ \A k \in 1 .. n : Ids(N)[k] = k
  BY <1>1, <1>2, IdsFacts
<1> QED
  BY <1>2, <1>3, ConsecutiveSpaced DEF N

\* Where Placed() puts things.
LEMMA PlacedFacts ==
    ASSUME NEW list \in Seq(Entry), NEW e \in Entry, NEW k \in 1 .. Len(list) + 1
    PROVE  /\ Placed(list, e, k) \in Seq(Entry)
           /\ Len(Placed(list, e, k)) = Len(list) + 1
           /\ \A j \in 1 .. Len(list) + 1 : Placed(list, e, k)[j] =
                  IF j < k THEN list[j] ELSE IF j = k THEN e ELSE list[j - 1]
<1> DEFINE n == Len(list)
<1>0. n \in Nat
  OBVIOUS
<1> DEFINE A == SubSeq(list, 1, k - 1)
           B == SubSeq(list, k, n)
<1>1. A \in Seq(Entry) /\ Len(A) = k - 1 /\ \A j \in 1 .. k - 1 : A[j] = list[j]
  OBVIOUS
<1>2. /\ B \in Seq(Entry) /\ Len(B) = n + 1 - k
      /\ \A j \in 1 .. n + 1 - k : B[j] = list[k + j - 1]
  OBVIOUS
<1>3. Placed(list, e, k) = A \o <<e>> \o B
  BY DEF Placed
<1> HIDE DEF A, B
<1> DEFINE C == A \o <<e>>
<1>4. C \in Seq(Entry) /\ Len(C) = k /\ \A j \in 1 .. k : C[j] = IF j < k THEN list[j] ELSE e
  BY <1>1
<1>5. Placed(list, e, k) = C \o B
  BY <1>3
<1> HIDE DEF C
<1>6. C \o B \in Seq(Entry) /\ Len(C \o B) = n + 1
  <2>1. C \o B \in Seq(Entry) /\ Len(C \o B) = Len(C) + Len(B)
    BY <1>2, <1>4, ConcatProperties
  <2>2. Len(C) + Len(B) = n + 1
    BY <1>0, <1>2, <1>4
  <2> QED
    BY <2>1, <2>2
<1>7. ASSUME NEW j \in 1 .. n + 1
      PROVE  (C \o B)[j] = IF j < k THEN list[j] ELSE IF j = k THEN e ELSE list[j - 1]
  <2>1. CASE j <= k
    BY <1>2, <1>4, <2>1
  <2>2. CASE j > k
    <3>1. (C \o B)[j] = B[j - k]
      BY <1>0, <1>2, <1>4, <2>2
    <3>2. B[j - k] = list[k + (j - k) - 1]
      BY <1>2, <2>2
    <3> QED
      BY <2>2, <3>1, <3>2
  <2>3. j <= k \/ j > k
    OBVIOUS
  <2> QED
    BY <2>1, <2>2, <2>3
<1> QED
  BY <1>5, <1>6, <1>7, Zenon

------------------------------------------------------------------------------
(* The operations *)

\* A fresh id is above all ids of the interface, which keeps its entries if its counter
\* has not gone round.
LEMMA FreshIdFacts ==
    ASSUME NEW i, IIok(i), NEW n, n = Len(i.entries), n + 2 < IdLimit
    PROVE  /\ IIType(FreshId(i).itf)
           /\ FreshId(i).id \in 1 .. IdLimit - 1
           /\ FreshId(i).id < Top(FreshId(i).itf)
           /\ Len(FreshId(i).itf.entries) = n
           /\ Spaced(Ids(FreshId(i).itf.entries), n, FreshId(i).id)
           /\ i.idCounter # 0 => FreshId(i).itf.entries = i.entries
<1> USE IdLimitAssumption
<1>0. i.entries \in Seq(Entry) /\ i.idCounter \in 0 .. IdLimit - 1 /\ n \in Nat
  BY DEF IIok, IIType
<1>1. CASE i.idCounter = 0
  <2>1. (n + 1) % IdLimit = n + 1 /\ (n + 2) % IdLimit = n + 2
    <3>1. n + 1 \in Nat /\ n + 2 \in Nat /\ n + 1 < IdLimit
      BY <1>0
    <3> QED
      BY <3>1, ModSmall
  <2>2. FreshId(i) = [id |-> n + 1,
                     itf |-> [entries |-> Numbered(i.entries, 1), idCounter |-> n + 2]]
    BY <1>1, <2>1 DEF FreshId
  <2>3. /\ Numbered(i.entries, 1) \in Seq(Entry)
        /\ Len(Numbered(i.entries, 1)) = n
        /\ Spaced(Ids(Numbered(i.entries, 1)), n, n + 1)
    BY <1>0, NumberedFacts
  <2> QED
    BY <1>0, <1>1, <2>2, <2>3 DEF IIType, Top
<1>2. CASE i.idCounter # 0
  <2>1. FreshId(i) = [id |-> i.idCounter,
                     itf |-> [i EXCEPT !.idCounter = (@ + 1) % IdLimit]]
    BY <1>2 DEF FreshId
  <2>2. Spaced(Ids(i.entries), n, i.idCounter)
    BY <1>2 DEF IIok, Top
  <2>3. CASE i.idCounter = IdLimit - 1
    <3>1. (i.idCounter + 1) % IdLimit = 0
      BY <1>0, <2>3
    <3> QED
      BY <1>0, <1>2, <2>1, <2>2, <3>1 DEF IIok, IIType, Top
  <2>4. CASE i.idCounter < IdLimit - 1
    <3>1. (i.idCounter + 1) % IdLimit = i.idCounter + 1
      BY <1>0, <2>4, ModSmall
    <3> QED
      BY <1>0, <1>2, <2>1, <2>2, <2>4, <3>1 DEF IIok, IIType, Top
  <2> QED
    BY <1>0, <2>3, <2>4
<1> QED
  BY <1>1, <1>2

\* push_back() puts the largest id at the end.
LEMMA PushBackOk ==
    ASSUME NEW i, IIok(i), NEW e \in Elems, Len(i.entries) + 2 < IdLimit
    PROVE  IIok(PushBack(i, e)) /\ Len(PushBack(i, e).entries) = Len(i.entries) + 1
<1> USE IdLimitAssumption
<1> DEFINE n    == Len(i.entries)
           old  == FreshId(i).itf
           ids   == FreshId(i).id
           new  == [elem |-> e, localID |-> ids]
           list == Append(old.entries, new)
<1>1. /\ IIType(old) /\ ids \in 1 .. IdLimit - 1 /\ ids < Top(old)
      /\ Len(old.entries) = n /\ Spaced(Ids(old.entries), n, ids)
  BY FreshIdFacts
<1>2. n \in Nat
  BY DEF IIok, IIType
<1>3. PushBack(i, e) = [old EXCEPT !.entries = list]
  BY DEF PushBack
<1> HIDE DEF n, old, ids
<1>4. new \in Entry /\ new.localID = ids
  BY <1>1 DEF Entry
<1> HIDE DEF new
<1>5. old.entries \in Seq(Entry) /\ Top(old) \in Int
  BY <1>1 DEF IIType, Top
<1>6. /\ list \in Seq(Entry) /\ Len(list) = n + 1
      /\ \A k \in 1 .. n : list[k] = old.entries[k]
      /\ list[n + 1] = new
  BY <1>1, <1>2, <1>4, <1>5
<1> HIDE DEF list
<1>7. /\ Ids(old.entries) \in [1 .. n -> Int]
      /\ \A k \in 1 .. n : Ids(old.entries)[k] = old.entries[k].localID
      /\ Ids(list) \in [1 .. n + 1 -> Int]
      /\ \A k \in 1 .. n + 1 : Ids(list)[k] = list[k].localID
  BY <1>1, <1>5, <1>6, IdsFacts
<1>8. Appended(Ids(list), Ids(old.entries), n, ids)
  <2>1. n + 1 \in 1 .. n + 1 /\ \A k \in 1 .. n : k \in 1 .. n + 1
    BY <1>2
  <2>2. Ids(list)[n + 1] = ids
    BY <1>4, <1>6, <1>7, <2>1
  <2>3. \A k \in 1 .. n : Ids(list)[k] = Ids(old.entries)[k]
    BY <1>6, <1>7, <2>1
  <2> QED
    BY <2>2, <2>3 DEF Appended
<1>9. Spaced(Ids(list), n + 1, Top(old))
  <2>1. ids \in Int /\ 0 < ids
    BY <1>1
  <2> QED
    BY <1>1, <1>2, <1>5, <1>7, <1>8, <2>1, AppendSpaced
<1>10. /\ PushBack(i, e).entries = list
       /\ PushBack(i, e).idCounter = old.idCounter
       /\ IIType(PushBack(i, e))
  BY <1>1, <1>3, <1>6 DEF IIType
<1> QED
  BY <1>6, <1>9, <1>10 DEF IIok, Top, n

\* insert() numbers the entry and those behind it, and there are ids for all of them.
LEMMA InsertOk ==
    ASSUME NEW i, IIok(i), NEW e \in Elems, NEW n, n = Len(i.entries), NEW k \in 1 .. n + 1,
           n + 2 < IdLimit, i.idCounter # 0 \/ k = n + 1
    PROVE  IIok(Insert(i, e, k)) /\ Len(Insert(i, e, k).entries) = n + 1
<1> USE IdLimitAssumption
<1> DEFINE old    == FreshId(i).itf
           ids     == FreshId(i).id
           new    == [elem |-> e, localID |-> ids]
           start  == IF k <= n THEN i.entries[k].localID ELSE 0
           placed == Placed(old.entries, new, k)
           num(j) == IF start = 0 \/ j < k THEN placed[j].localID
                                           ELSE (start + j - k) % IdLimit
           list   == [j \in 1 .. Len(placed) |-> [elem |-> placed[j].elem, localID |-> num(j)]]
<1>1. /\ IIType(old) /\ ids \in 1 .. IdLimit - 1 /\ ids < Top(old)
      /\ Len(old.entries) = n /\ Spaced(Ids(old.entries), n, ids)
      /\ i.idCounter # 0 => old.entries = i.entries
  BY FreshIdFacts
<1>2. n \in Nat
  BY DEF IIok, IIType
<1>3. Insert(i, e, k) = [old EXCEPT !.entries = list]
  BY DEF Insert
<1> HIDE DEF old, ids
<1>4. new \in Entry /\ new.localID = ids
  BY <1>1 DEF Entry
<1> HIDE DEF new
<1>5. old.entries \in Seq(Entry) /\ Top(old) \in Int
  BY <1>1 DEF IIType, Top
<1>6. /\ placed \in Seq(Entry) /\ Len(placed) = n + 1
      /\ \A j \in 1 .. n + 1 : placed[j] = IF j < k THEN old.entries[j]
                                           ELSE IF j = k THEN new ELSE old.entries[j - 1]
  <2> DEFINE olds == old.entries
  <2>1. olds \in Seq(Entry) /\ n = Len(olds)
    BY <1>1, <1>5
  <2> HIDE DEF olds
  <2>2. /\ Placed(olds, new, k) \in Seq(Entry) /\ Len(Placed(olds, new, k)) = n + 1
        /\ \A j \in 1 .. n + 1 : Placed(olds, new, k)[j] =
              IF j < k THEN olds[j] ELSE IF j = k THEN new ELSE olds[j - 1]
    <3>1. new \in Entry /\ k \in 1 .. Len(olds) + 1
      BY <1>4, <2>1
    <3>2. /\ Placed(olds, new, k) \in Seq(Entry)
          /\ Len(Placed(olds, new, k)) = Len(olds) + 1
          /\ \A j \in 1 .. Len(olds) + 1 : Placed(olds, new, k)[j] =
                IF j < k THEN olds[j] ELSE IF j = k THEN new ELSE olds[j - 1]
      BY <2>1, <3>1, PlacedFacts, SMTT(60)
    <3> QED
      BY <2>1, <3>2
  <2> QED
    BY <2>2 DEF olds
<1> HIDE DEF placed
<1>7. /\ Ids(old.entries) \in [1 .. n -> Int]
      /\ \A j \in 1 .. n : Ids(old.entries)[j] = old.entries[j].localID
  BY <1>1, <1>5, IdsFacts
<1>8. \A j \in 1 .. n + 1 : placed[j].elem \in Elems /\ placed[j].localID \in 0 .. IdLimit - 1
  <2>1. \A j \in 1 .. n + 1 : placed[j] \in Entry
    BY <1>6
  <2> QED
    BY <2>1 DEF Entry
<1>9. ASSUME list \in Seq(Entry), Len(list) = n + 1, Spaced(Ids(list), n + 1, Top(old))
      PROVE  IIok(Insert(i, e, k)) /\ Len(Insert(i, e, k).entries) = n + 1
  <2> HIDE DEF list
  <2>1. /\ Insert(i, e, k).entries = list
        /\ Insert(i, e, k).idCounter = old.idCounter
        /\ IIType(Insert(i, e, k))
    BY <1>1, <1>3, <1>9 DEF IIType
  <2> QED
    BY <1>9, <2>1 DEF IIok, Top
<1>10. list = [j \in 1 .. n + 1 |-> list[j]]
  BY <1>6
<1>11. CASE k = n + 1
  <2>1. start = 0
    BY <1>2, <1>11
  <2>2. \A j \in 1 .. n + 1 : list[j] \in Entry /\ list[j].localID = placed[j].localID
    BY <1>6, <1>8, <2>1 DEF Entry
  <2> HIDE DEF list
  <2>3. list \in Seq(Entry) /\ Len(list) = n + 1
    <3>1. n + 1 \in Nat
      BY <1>2
    <3> QED
      BY <1>10, <2>2, <3>1, ListOf
  <2>4. /\ Ids(list) \in [1 .. n + 1 -> Int]
        /\ \A j \in 1 .. n + 1 : Ids(list)[j] = list[j].localID
    BY <2>3, IdsFacts
  <2>5. Appended(Ids(list), Ids(old.entries), n, ids)
    <3>1. n + 1 \in 1 .. n + 1 /\ \A j \in 1 .. n : j \in 1 .. n + 1 /\ j < k
      BY <1>2, <1>11
    <3>2. placed[n + 1] = new /\ \A j \in 1 .. n : placed[j] = old.entries[j]
      BY <1>2, <1>6, <1>11, <3>1
    <3>3. Ids(list)[n + 1] = ids
      BY <1>4, <2>2, <2>4, <3>1, <3>2
    <3>4. \A j \in 1 .. n : Ids(list)[j] = Ids(old.entries)[j]
      BY <1>7, <2>2, <2>4, <3>1, <3>2, SMTT(40)
    <3> QED
      BY <3>3, <3>4 DEF Appended
  <2>6. ids \in Int /\ 0 < ids
    BY <1>1
  <2>7. Spaced(Ids(list), n + 1, Top(old))
    BY <1>1, <1>2, <1>5, <1>7, <2>4, <2>5, <2>6, AppendSpaced
  <2> QED
    BY <1>9, <2>3, <2>7
<1>12. CASE k \in 1 .. n
  <2>1. start = Ids(old.entries)[k]
    BY <1>1, <1>2, <1>7, <1>12
  <2> HIDE DEF start
  <2>2. start \in Int /\ 0 < start /\ start + (n - k) < ids
    BY <1>1, <1>7, <1>12, <2>1 DEF Spaced
  <2>3. ASSUME NEW j \in k .. n + 1
        PROVE  start + j - k \in 0 .. IdLimit - 1 /\ (start + j - k) % IdLimit = start + j - k
    <3>1. start + j - k \in Nat /\ start + j - k < IdLimit
      BY <1>1, <1>2, <1>12, <2>2
    <3> QED
      BY <3>1, ModSmall
  <2>4. ASSUME NEW j \in 1 .. n + 1
        PROVE  list[j] \in Entry /\ list[j].localID =
                   IF j < k THEN Ids(old.entries)[j] ELSE start + (j - k)
    <3>1. CASE j < k
      <4>1. placed[j] = old.entries[j] /\ j \in 1 .. n
        BY <1>2, <1>6, <1>12, <3>1
      <4>2. list[j] = [elem |-> placed[j].elem, localID |-> placed[j].localID]
        BY <1>6, <3>1
      <4> QED
        BY <1>7, <1>8, <3>1, <4>1, <4>2, SMTT(40) DEF Entry
    <3>2. CASE k <= j
      <4>1. list[j] = [elem |-> placed[j].elem, localID |-> (start + j - k) % IdLimit]
        <5>1. start # 0 /\ ~ (j < k)
          BY <2>2, <3>2
        <5> QED
          BY <1>6, <5>1
      <4>2. j \in k .. n + 1
        BY <1>2, <1>12, <3>2
      <4> QED
        <5>1. (start + j - k) % IdLimit = start + (j - k) /\ start + (j - k) \in 0 .. IdLimit - 1
          BY <1>2, <2>2, <2>3, <4>2
        <5>2. ~ (j < k)
          BY <3>2
        <5>3. list[j] = [elem |-> placed[j].elem, localID |-> start + (j - k)]
          BY <4>1, <5>1
        <5> HIDE DEF list
        <5>4. list[j] \in Entry /\ list[j].localID = start + (j - k)
          <6> DEFINE x == placed[j].elem
                     y == start + (j - k)
          <6>1. x \in Elems /\ y \in 0 .. IdLimit - 1 /\ list[j] = [elem |-> x, localID |-> y]
            BY <1>8, <5>1, <5>3
          <6> HIDE DEF x, y
          <6>2. list[j] \in Entry /\ list[j].localID = y
            BY <6>1 DEF Entry
          <6> QED
            BY <6>2 DEF y
        <5> QED
          BY <5>2, <5>4
    <3> QED
      BY <1>2, <3>1, <3>2
  <2> HIDE DEF list
  <2>5. list \in Seq(Entry) /\ Len(list) = n + 1
    <3>1. n + 1 \in Nat
      BY <1>2
    <3> QED
      BY <1>10, <2>4, <3>1, ListOf
  <2>6. Ids(list) \in [1 .. n + 1 -> Int] /\ \A j \in 1 .. n + 1 : Ids(list)[j] = list[j].localID
    BY <2>5, IdsFacts
  <2>7. Shifted(Ids(list), Ids(old.entries), n, k)
    BY <2>1, <2>4, <2>6 DEF Shifted
  <2>8. ids \in Int
    BY <1>1
  <2>9. Spaced(Ids(list), n + 1, Top(old))
    BY <1>1, <1>2, <1>5, <1>7, <1>12, <2>6, <2>7, <2>8, InsertSpaced
  <2> QED
    BY <1>9, <2>5, <2>9
<1> QED
  BY <1>2, <1>11, <1>12

\* erase() leaves gaps, no disorder.
LEMMA EraseOk ==
    ASSUME NEW i, IIok(i), NEW n, n = Len(i.entries), NEW k \in 1 .. n
    PROVE  IIok(Erase(i, k)) /\ Len(Erase(i, k).entries) = n - 1
<1> USE IdLimitAssumption
<1> DEFINE A    == SubSeq(i.entries, 1, k - 1)
           B    == SubSeq(i.entries, k + 1, n)
           list == A \o B
<1>1. i.entries \in Seq(Entry) /\ n \in Nat /\ Top(i) \in Int
  BY DEF IIok, IIType, Top
<1>2. A \in Seq(Entry) /\ Len(A) = k - 1 /\ \A j \in 1 .. k - 1 : A[j] = i.entries[j]
  BY <1>1
<1>3. B \in Seq(Entry) /\ Len(B) = n - k /\ \A j \in 1 .. n - k : B[j] = i.entries[k + j]
  BY <1>1
<1>4. Erase(i, k) = [i EXCEPT !.entries = list]
  BY DEF Erase
<1> HIDE DEF A, B
<1>5. list \in Seq(Entry) /\ Len(list) = n - 1
  BY <1>1, <1>2, <1>3
<1>6. ASSUME NEW j \in 1 .. n - 1
      PROVE  list[j] = IF j < k THEN i.entries[j] ELSE i.entries[j + 1]
  <2>1. CASE j < k
    BY <1>1, <1>2, <1>3, <2>1
  <2>2. CASE k <= j
    <3>1. list[j] = B[j - (k - 1)]
      BY <1>1, <1>2, <1>3, <2>2, SMTT(40)
    <3>2. B[j - (k - 1)] = i.entries[k + (j - (k - 1))]
      BY <1>1, <1>3, <2>2
    <3> QED
      BY <1>1, <2>2, <3>1, <3>2
  <2>3. j < k \/ k <= j
    BY <1>1
  <2> QED
    BY <2>1, <2>2, <2>3
<1> HIDE DEF list
<1>7. /\ Ids(i.entries) \in [1 .. n -> Int]
      /\ \A j \in 1 .. n : Ids(i.entries)[j] = i.entries[j].localID
      /\ Ids(list) \in [1 .. n - 1 -> Int]
      /\ \A j \in 1 .. n - 1 : Ids(list)[j] = list[j].localID
  BY <1>1, <1>5, IdsFacts
<1>8. Erased(Ids(list), Ids(i.entries), n, k)
  <2>1. \A j \in 1 .. n - 1 : j \in 1 .. n /\ j + 1 \in 1 .. n
    BY <1>1
  <2> QED
    BY <1>6, <1>7, <2>1, SMTT(40) DEF Erased
<1>9. Spaced(Ids(list), n - 1, Top(i))
  <2>1. Spaced(Ids(i.entries), n, Top(i))
    BY DEF IIok
  <2> QED
    BY <1>1, <1>7, <1>8, <2>1, EraseSpaced
<1>10. /\ Erase(i, k).entries = list
       /\ Erase(i, k).idCounter = i.idCounter
       /\ IIType(Erase(i, k))
  BY <1>4, <1>5 DEF IIok, IIType
<1> QED
  BY <1>5, <1>9, <1>10 DEF IIok, Top

\* sort() starts again from 1.
LEMMA SortOk ==
    ASSUME NEW i, IIok(i), NEW n, n = Len(i.entries), n + 1 < IdLimit,
           NEW pi \in [1 .. n -> 1 .. n]
    PROVE  IIok(Permuted(i, pi)) /\ Len(Permuted(i, pi).entries) = n
<1> USE IdLimitAssumption
<1> DEFINE list == [k \in 1 .. n |-> i.entries[pi[k]]]
<1>1. i.entries \in Seq(Entry) /\ n \in Nat
  BY DEF IIok, IIType
<1>2. list \in Seq(Entry) /\ Len(list) = n
  <2>1. \A k \in 1 .. n : list[k] \in Entry
    <3> TAKE k \in 1 .. n
    <3>1. pi[k] \in 1 .. Len(i.entries)
      OBVIOUS
    <3>2. i.entries[pi[k]] \in Entry
      BY <1>1, <3>1
    <3> QED
      BY <3>2
  <2>2. list = [k \in 1 .. n |-> list[k]]
    OBVIOUS
  <2> HIDE DEF list
  <2> QED
    BY <1>1, <2>1, <2>2, ListOf
<1>3. (n + 1) % IdLimit = n + 1
  <2>1. n + 1 \in Nat
    BY <1>1
  <2> QED
    BY <2>1, ModSmall
<1>4. Permuted(i, pi) = [entries |-> Numbered(list, 1), idCounter |-> n + 1]
  BY <1>3 DEF Permuted
<1> HIDE DEF list
<1>5. /\ Numbered(list, 1) \in Seq(Entry) /\ Len(Numbered(list, 1)) = n
      /\ Spaced(Ids(Numbered(list, 1)), n, n + 1)
  BY <1>1, <1>2, NumberedFacts
<1> QED
  BY <1>1, <1>4, <1>5 DEF IIok, IIType, Top

------------------------------------------------------------------------------
(* The invariant *)

\* Ids keep their distances, from a new interface on, as long as insert() is not called
\* with a counter that went round.
THEOREM OIInvariant == ~InsertRound /\ OISpec => []IInv
<1> SUFFICES ASSUME ~InsertRound PROVE OISpec => []IInv
  OBVIOUS
<1> USE IdLimitAssumption
<1>1. OIInit => IInv
  <2> SUFFICES ASSUME OIInit PROVE IInv
    OBVIOUS
  <2>1. interface = [entries |-> <<>>, idCounter |-> 1]
    BY DEF OIInit, EmptyInterface
  <2>2. <<>> \in Seq(Entry) /\ Len(<<>>) = 0
    OBVIOUS
  <2>3. CASE IdLimit > 1
    BY <2>1, <2>2, <2>3 DEF IInv, IIok, IIType, Spaced, Top, Length, Ids
  <2> QED
    BY <2>3
<1>2. ASSUME IInv, [OINext]_interface
      PROVE  IInv'
  <2> USE <1>2
  <2>0. IIok(interface) /\ Length \in Nat /\ Length = Len(interface.entries) /\ Length + 1 < IdLimit
    BY DEF IInv, IIok, IIType, Length
  <2>1. ASSUME NEW e \in Elems, PushBackElem(e)
        PROVE  IInv'
    BY <2>0, <2>1, PushBackOk DEF PushBackElem, RoomForIds, IInv, Length
  <2>2. ASSUME NEW e \in Elems, NEW k \in 1 .. Length + 1, InsertElem(e, k)
        PROVE  IInv'
    BY <2>0, <2>2, InsertOk DEF InsertElem, RoomForIds, IInv, Length
  <2>3. ASSUME NEW k \in 1 .. Length, EraseElem(k)
        PROVE  IInv'
    BY <2>0, <2>3, EraseOk DEF EraseElem, IInv, Length
  <2>4. ASSUME NEW key \in Keys, Sort(key)
        PROVE  IInv'
    BY <2>0, <2>4, SortOk DEF Sort, IInv, Length
  <2>5. CASE UNCHANGED interface
    BY <2>5 DEF IInv, IIok, IIType, Length
  <2> QED
    BY <2>1, <2>2, <2>3, <2>4, <2>5 DEF OINext
<1> QED
  BY <1>1, <1>2, PTL DEF OISpec

\* The type invariant follows from it.
THEOREM OITypes == ~InsertRound /\ OISpec => []OITypeOK
<1>1. IInv => OITypeOK
  BY DEF IInv, IIok, IIType, OITypeOK, Entry
<1> QED
  BY <1>1, OIInvariant, PTL

\* Whatever was inserted, erased and sorted: local ids are in the order of the entries
\* (the order DistributedGridManager inserts children in), and the next is above them.
THEOREM OIIdsFollowOrder == ~InsertRound /\ OISpec => []IdsFollowOrder
<1> USE IdLimitAssumption
<1>1. IInv => IdsFollowOrder
  <2> SUFFICES ASSUME IInv PROVE IdsAscend(interface)
    BY DEF IdsFollowOrder
  <2>1. interface.entries \in Seq(Entry) /\ interface.idCounter \in Nat
    BY DEF IInv, IIok, IIType
  <2>2. /\ Len(interface.entries) \in Nat
        /\ Ids(interface.entries) \in [1 .. Len(interface.entries) -> Int]
        /\ \A k \in 1 .. Len(interface.entries) : Ids(interface.entries)[k] = interface.entries[k].localID
    BY <2>1, IdsFacts
  <2>3. Spaced(Ids(interface.entries), Len(interface.entries), Top(interface))
    BY DEF IInv, IIok
  <2> DEFINE n == Len(interface.entries)
             ids == Ids(interface.entries)
  <2> HIDE DEF n, ids
  <2>4. n \in Nat /\ ids \in [1 .. n -> Int] /\ Spaced(ids, n, Top(interface)) /\ Top(interface) \in Int
    BY <2>1, <2>2, <2>3 DEF n, ids, Top
  <2>5. ASSUME NEW j \in 1 .. n, NEW k \in 1 .. n, j < k
        PROVE  ids[j] < ids[k]
    <3>1. k - j <= ids[k] - ids[j] /\ ids[j] \in Int /\ ids[k] \in Int
      BY <2>4, <2>5 DEF Spaced
    <3> QED
      BY <2>5, <3>1
  <2>6. ASSUME NEW k \in 1 .. n
        PROVE  0 < ids[k] /\ ids[k] < Top(interface)
    <3>1. 0 < ids[k] /\ ids[k] + (n - k) < Top(interface) /\ ids[k] \in Int
      BY <2>4 DEF Spaced
    <3> QED
      BY <2>4, <3>1
  <2> QED
    BY <2>2, <2>5, <2>6 DEF IdsAscend, Top, n, ids
<1> QED
  BY <1>1, OIInvariant, PTL

-------------------------------------------------------------------------------
(* Distribution of an element.                                             *)

------------------------------------------------------------------------------
(* Sets of naturals *)

\* A non-empty set of naturals has a least element.
LEMMA LeastNat ==
    ASSUME NEW T \in SUBSET Nat, T # {}
    PROVE  \E m \in T : \A n \in T : m <= n
<1> DEFINE Less == {ss \in Nat \X Nat : ss[1] < ss[2]}
<1>1. IsWellFoundedOn(Less, Nat)
  BY NatLessThanWellFounded DEF OpToRel
<1>2. PICK m \in T : \A n \in T : <<n, m>> \notin Less
  <2> HIDE DEF Less
  <2> QED BY <1>1, WFMin
<1>3. \A n \in Nat : \A k \in Nat : <<n, k>> \notin Less => k <= n
  OBVIOUS
<1> QED BY <1>2, <1>3

------------------------------------------------------------------------------
(* Layouts *)

\* An info that interfaces are built from: post-processed.
Complete(i) ==
    /\ i \in Infos /\ Sensible(i)
    /\ In(i, {"VMASTER"}) # {} => \A p \in DOMAIN i : i[p] \cap {"VMASTER", "VSLAVE"} # {}

LEMMA InfoValues ==
    ASSUME NEW i \in Infos
    PROVE  /\ DOMAIN i \subseteq Procs
           /\ \A p \in DOMAIN i : /\ i[p] \subseteq Flags /\ i[p] \ {"PARENT"} # {}
                                  /\ "PARENT" \in i[p] => "DUMMY" \in i[p]
  BY DEF Infos, CopyStates

\* Seen from the horizontal master, the other copies are joined unless they are pure
\* vertical masters: in which order the targets were met does not matter.
LEMMA JoinedByMaster ==
    ASSUME NEW i \in Infos, NEW p \in DOMAIN i, NEW q \in DOMAIN i, NEW m \in DOMAIN i,
           NEW seen, IsHMaster(i, m)
    PROVE  Joined(i, m, q, NormalH(i, p, seen)) <=> i[q] # {"VMASTER"}
<1>1. CASE In(i, {"NORMAL", "DUMMY"}) # {}
  BY <1>1 DEF Joined, NormalH
<1>2. CASE In(i, {"NORMAL", "DUMMY"}) = {}
  <2>1. \A r \in DOMAIN i : "NORMAL" \notin i[r] /\ "DUMMY" \notin i[r]
    BY <1>2 DEF In
  <2>2. "VSLAVE" \in i[m]
    BY <2>1 DEF IsHMaster, Least, In
  <2>3. i[q] = {"VMASTER"} \/ "VSLAVE" \in i[q]
    BY <2>1, InfoValues DEF Flags
  <2> QED BY <2>2, <2>3 DEF Joined
<1> QED BY <1>1, <1>2

\* What a process puts into its interfaces, whatever it has seen.
Side(i, p, kind, q) ==
    CASE kind = "HM" -> IsHMaster(i, p) /\ i[q] # {"VMASTER"}
      [] kind = "HS" -> IsHMaster(i, q) /\ i[p] # {"VMASTER"}
      [] kind = "VM" -> ("VMASTER" \in i[p] /\ "VSLAVE" \in i[q]) \/ Adopted(i, q, p)
      [] kind = "VS" -> ("VSLAVE" \in i[p] /\ "VMASTER" \in i[q]) \/ Adopted(i, p, q)

Ends == {"HM", "HS", "VM", "VS"}

Sides(i, p) == {e \in Ends \X (DOMAIN i \ {p}) : Side(i, p, e[1], e[2])}

LEMMA PutsIsSide ==
    ASSUME NEW i \in Infos, NEW p \in DOMAIN i, NEW q \in DOMAIN i, NEW seen,
           NEW kind \in Ends
    PROVE  Puts(i, p, kind, q, seen) <=> Side(i, p, kind, q)
<1>1. CASE kind = "HM"
  <2>1. IsHMaster(i, p) => (Joined(i, p, q, NormalH(i, p, seen)) <=> i[q] # {"VMASTER"})
    BY JoinedByMaster
  <2> QED BY <1>1, <2>1 DEF Puts, Side
<1>2. CASE kind = "HS"
  <2>1. IsHMaster(i, q) => (Joined(i, q, p, NormalH(i, p, seen)) <=> i[p] # {"VMASTER"})
    BY JoinedByMaster
  <2> QED BY <1>2, <2>1 DEF Puts, Side
<1>3. CASE kind = "VM"
  BY <1>3 DEF Puts, Side
<1>4. CASE kind = "VS"
  BY <1>4 DEF Puts, Side
<1> QED BY <1>1, <1>2, <1>3, <1>4 DEF Ends

\* The two sides of an interface are built alike.
THEOREM SidesAgree ==
    ASSUME NEW i \in Infos, NEW p \in DOMAIN i, NEW q \in DOMAIN i, p # q,
           NEW seenP, NEW seenQ
    PROVE  /\ Puts(i, p, "HM", q, seenP) <=> Puts(i, q, "HS", p, seenQ)
           /\ Puts(i, p, "VM", q, seenP) <=> Puts(i, q, "VS", p, seenQ)
  BY PutsIsSide DEF Side, Ends

\* Post-processing keeps the copies, and leaves the info complete.
LEMMA PostProcessing ==
    ASSUME NEW i \in Infos, Sensible(i)
    PROVE  Complete(PostProcessed(i)) /\ DOMAIN PostProcessed(i) = DOMAIN i
<1> DEFINE j == PostProcessed(i)
<1>1. CASE In(i, {"VMASTER"}) = {}
  <2>1. j = i
    BY <1>1 DEF PostProcessed
  <2> QED BY <1>1, <2>1 DEF Complete
<1>2. CASE In(i, {"VMASTER"}) # {}
  <2>1. j = [p \in DOMAIN i |-> IF i[p] \cap {"VMASTER", "VSLAVE"} = {}
                                THEN i[p] \cup {"VSLAVE"} ELSE i[p]]
    BY <1>2 DEF PostProcessed
  <2>2. DOMAIN j = DOMAIN i
    BY <2>1
  <2>3. \A p \in DOMAIN i : /\ i[p] \subseteq j[p] /\ j[p] \subseteq i[p] \cup {"VSLAVE"}
                            /\ j[p] \cap {"VMASTER", "VSLAVE"} # {}
    BY <2>1
  <2> HIDE DEF j
  <2>4. \A p \in DOMAIN j : j[p] \in CopyStates
    BY <2>2, <2>3, InfoValues DEF CopyStates, Flags
  <2>5. j \in Infos
    <3>1. DOMAIN i \in SUBSET Procs
      BY InfoValues
    <3>2. j \in [DOMAIN i -> CopyStates]
      BY <2>1, <2>2, <2>4 DEF j
    <3> QED BY <3>1, <3>2 DEF Infos
  <2>6. /\ In(j, {"VMASTER"}) = In(i, {"VMASTER"})
        /\ In(j, {"DUMMY"}) = In(i, {"DUMMY"})
        /\ In(i, {"VSLAVE"}) \subseteq In(j, {"VSLAVE"})
        /\ In(i, {"NORMAL", "VSLAVE"}) \subseteq In(j, {"NORMAL", "VSLAVE"})
    BY <2>2, <2>3 DEF In
  <2>7. Sensible(j)
    BY <2>6, <1>2 DEF Sensible
  <2> QED BY <2>2, <2>3, <2>5, <2>7 DEF Complete, j
<1> QED BY <1>1, <1>2

\* A copy that is no pure vertical master belongs to a star: there is a horizontal master.
LEMMA HMasterExists ==
    ASSUME NEW i \in Infos, Sensible(i), NEW p \in DOMAIN i, i[p] # {"VMASTER"}
    PROVE  \E m \in DOMAIN i : IsHMaster(i, m) /\ i[m] # {"VMASTER"}
<1> DEFINE T == In(i, {"NORMAL", "VSLAVE"})
<1>1. T # {}
  <2>1. i[p] \cap {"NORMAL", "VSLAVE", "DUMMY"} # {}
    BY InfoValues DEF Flags
  <2>2. CASE "DUMMY" \in i[p]
    BY <2>2 DEF Sensible, In
  <2>3. CASE i[p] \cap {"NORMAL", "VSLAVE"} # {}
    BY <2>3 DEF In
  <2> QED BY <2>1, <2>2, <2>3
<1>2. T \in SUBSET Nat
  BY InfoValues, ProcsAssumption DEF In
<1>3. PICK m \in T : \A n \in T : m <= n
  BY <1>1, <1>2, LeastNat
<1> QED BY <1>3 DEF IsHMaster, Least, In

LEMMA HMasterUnique ==
    ASSUME NEW i \in Infos, NEW m, NEW n, IsHMaster(i, m), IsHMaster(i, n)
    PROVE  m = n
<1>1. m \in Nat /\ n \in Nat
  BY InfoValues, ProcsAssumption DEF IsHMaster, Least, In
<1>2. m <= n /\ n <= m
  BY DEF IsHMaster, Least
<1> QED BY <1>1, <1>2

------------------------------------------------------------------------------
(* What was heard of *)

\* Joining what others joined joins all they heard of.
LEMMA JointOfJoints ==
    ASSUME NEW S, NEW sel, NEW infos, NEW K, NEW U,
           \A q \in S : infos[q] = Joint(sel, K[q]),
           \A r : r \in U <=> \E q \in S : r \in K[q]
    PROVE  Joint(infos, S) = Joint(sel, U)
<1> DEFINE D == UNION {DOMAIN sel[r] : r \in U}
<1>1. \A q \in S : DOMAIN infos[q] = UNION {DOMAIN sel[r] : r \in K[q]}
  BY DEF Joint
<1>2. UNION {DOMAIN infos[q] : q \in S} = D
  BY <1>1
<1>3. ASSUME NEW p \in D
      PROVE  UNION {infos[q][p] : q \in {q \in S : p \in DOMAIN infos[q]}}
                 = UNION {sel[r][p] : r \in {r \in U : p \in DOMAIN sel[r]}}
  <2>1. ASSUME NEW q \in S, p \in DOMAIN infos[q]
        PROVE  infos[q][p] = UNION {sel[r][p] : r \in {r \in K[q] : p \in DOMAIN sel[r]}}
    <3>1. infos[q] = Joint(sel, K[q])
      OBVIOUS
    <3>2. \A f : f = Joint(sel, K[q]) /\ p \in DOMAIN f =>
              f[p] = UNION {sel[r][p] : r \in {r \in K[q] : p \in DOMAIN sel[r]}}
      BY DEF Joint
    <3> HIDE DEF D
    <3> QED BY <2>1, <3>1, <3>2
  <2>2. ASSUME NEW q \in S, NEW r \in K[q], p \in DOMAIN sel[r]
        PROVE  p \in DOMAIN infos[q]
    BY <1>1, <2>2
  <2>3. ASSUME NEW x, NEW q \in S, p \in DOMAIN infos[q], x \in infos[q][p]
        PROVE  \E r \in U : p \in DOMAIN sel[r] /\ x \in sel[r][p]
    BY <2>1, <2>3
  <2>4. ASSUME NEW x, NEW r \in U, p \in DOMAIN sel[r], x \in sel[r][p]
        PROVE  \E q \in S : p \in DOMAIN infos[q] /\ x \in infos[q][p]
    <3>1. PICK q \in S : r \in K[q]
      OBVIOUS
    <3>2. p \in DOMAIN infos[q]
      BY <2>2, <2>4, <3>1
    <3> QED BY <2>1, <2>4, <3>1, <3>2
  <2> HIDE DEF D
  <2> QED BY <2>3, <2>4
<1> QED BY <1>2, <1>3 DEF Joint

\* The joint info of infos is one.
LEMMA JointIsInfo ==
    ASSUME NEW S, NEW sel, \A q \in S : sel[q] \in Infos
    PROVE  Joint(sel, S) \in Infos
<1> DEFINE D == UNION {DOMAIN sel[q] : q \in S}
           J == Joint(sel, S)
<1>1. DOMAIN J = D /\ D \in SUBSET Procs
  BY InfoValues DEF Joint
<1>2. ASSUME NEW p \in D PROVE J[p] \in CopyStates
  <2>1. J[p] = UNION {sel[q][p] : q \in {q \in S : p \in DOMAIN sel[q]}}
    BY DEF Joint
  <2>2. PICK q \in S : p \in DOMAIN sel[q]
    OBVIOUS
  <2>3. sel[q][p] \subseteq J[p]
    BY <2>1, <2>2
  <2>4. J[p] \subseteq Flags
    BY <2>1, InfoValues
  <2>5. J[p] \ {"PARENT"} # {}
    BY <2>2, <2>3, InfoValues
  <2>6. "PARENT" \in J[p] => "DUMMY" \in J[p]
    <3> SUFFICES ASSUME "PARENT" \in J[p] PROVE "DUMMY" \in J[p]
      OBVIOUS
    <3>1. PICK r \in S : p \in DOMAIN sel[r] /\ "PARENT" \in sel[r][p]
      BY <2>1
    <3>2. "DUMMY" \in sel[r][p]
      BY <3>1, InfoValues
    <3> QED BY <2>1, <3>1, <3>2
  <2> HIDE DEF J
  <2> QED BY <2>4, <2>5, <2>6 DEF CopyStates
<1>3. J \in [D -> CopyStates]
  <2>1. J = [p \in D |-> J[p]]
    BY DEF Joint
  <2> HIDE DEF J, D
  <2> QED BY <1>1, <1>2, <2>1
<1> QED BY <1>1, <1>3 DEF Infos

------------------------------------------------------------------------------
(* Invariant *)

Phases == {"h_up", "h_down", "v_down", "v_up", "v_back", "post", "send", "layout", "idle"}

\* The interfaces were built from an info.
Linked(i) ==
    /\ i \in Infos /\ Complete(i)
    /\ copies = DOMAIN i
    /\ itf = [p \in Procs |-> IF p \in DOMAIN i THEN Sides(i, p) ELSE {}]

\* Each process has the joint info of the processes it heard of.
Heard(K) ==
    /\ K \in [Procs -> SUBSET copies]
    /\ info = [p \in Procs |-> Joint(selected, K[p])]

\* Of whom it heard: in the first round masters hear of the whole star, then slaves;
\* vertical slaves then of all masters, and masters from slaves.
HeardSelf(K)    == \A p \in copies : p \in K[p]
HeardStar(i, p, K) == \A q \in copies : i[q] # {"VMASTER"} => q \in K[p]
HeardAll(p, K)  == K[p] = copies

Known(ph, i, K) ==
    CASE ph = "h_up"   -> HeardSelf(K)
      [] ph = "h_down" -> HeardSelf(K) /\ \A p \in copies : IsHMaster(i, p) => HeardStar(i, p, K)
      [] ph = "v_down" -> HeardSelf(K) /\ \A p \in copies : i[p] # {"VMASTER"} => HeardStar(i, p, K)
      [] ph = "v_up"   -> \A p \in copies :
                              In(i, {"VMASTER"}) = {} \/ "VSLAVE" \in i[p] => HeardAll(p, K)
      [] ph = "v_back" -> \A p \in copies : HeardAll(p, K)
      [] ph = "post"   -> \A p \in copies : HeardAll(p, K)

Rounds == {"h_up", "h_down", "v_down", "v_up", "v_back", "post"}

Synchronizing(ph) ==
    /\ Sensible(Joint(selected, copies))
    /\ \E i \in Infos, K \in [Procs -> SUBSET copies] : Linked(i) /\ Heard(K) /\ Known(ph, i, K)

Processed ==
    /\ Sensible(Joint(selected, copies))
    /\ \A p \in copies : info[p] = PostProcessed(Joint(selected, copies))

\* Some processes have built their interfaces, from the info the others have.
Building(i) ==
    /\ i \in Infos /\ Complete(i)
    /\ copies = DOMAIN i
    /\ \A p \in Procs :
        \/ /\ phase[p] = "layout" /\ itf[p] = {}
           /\ info[p] = IF p \in DOMAIN i THEN i ELSE NoInfo
        \/ /\ phase[p] = "idle"
           /\ itf[p] = IF p \in DOMAIN i THEN Sides(i, p) ELSE {}

Types ==
    /\ phase \in [Procs -> Phases]
    /\ selected \in [Procs -> Infos]
    /\ copies \in SUBSET Procs
    /\ itf \in [Procs -> SUBSET (Ends \X Procs)]
    /\ DOMAIN info = Procs

GDInv ==
    /\ Types
    /\ \/ \E ph \in Rounds : AllIn(ph) /\ Synchronizing(ph)
       \/ AllIn("send") /\ Processed
       \/ \E i \in Infos : Building(i)

LEMMA OnePhase ==
    ASSUME NEW ph, NEW ps, AllIn(ph), AllIn(ps)
    PROVE  ph = ps
  BY ProcsAssumption DEF AllIn

LEMMA SourcesOfLinks ==
    ASSUME NEW i \in Infos, Linked(i), NEW kind \in Ends, NEW p \in Procs
    PROVE  Sources(p, kind) = IF p \in copies
                              THEN {q \in copies \ {p} : Side(i, p, kind, q)} ELSE {}
<1>1. CASE p \in DOMAIN i
  <2>1. itf[p] = Sides(i, p) /\ copies = DOMAIN i
    BY <1>1 DEF Linked
  <2>2. \A q \in copies : <<kind, q>> \in Sides(i, p) <=> q # p /\ Side(i, p, kind, q)
    BY <2>1 DEF Sides
  <2> QED BY <1>1, <2>1, <2>2 DEF Sources
<1>2. CASE p \notin DOMAIN i
  BY <1>2 DEF Linked, Sources
<1> QED BY <1>1, <1>2

\* A round with merging: the processes each has heard of afterwards.
LEMMA MergeHears ==
    ASSUME Types, NEW K, Heard(K), NEW kind, NEW from, NEW to, Merge(kind, from, to)
    PROVE  \E L \in [Procs -> SUBSET copies] :
               /\ \A p \in Procs : L[p] = UNION {K[q] : q \in {p} \cup Sources(p, kind)}
               /\ Heard(L)'
<1>0. ASSUME NEW S, NEW U, S \subseteq Procs, \A r : r \in U <=> \E q \in S : r \in K[q]
      PROVE  Joint(info, S) = Joint(selected, U)
  <2>1. \A q \in S : info[q] = Joint(selected, K[q])
    BY <1>0 DEF Heard
  <2> QED BY <2>1, <1>0, JointOfJoints
<1>1. \A p \in Procs : {p} \cup Sources(p, kind) \subseteq Procs
  BY DEF Types, Sources
<1>2. [p \in Procs |-> UNION {K[q] : q \in {p} \cup Sources(p, kind)}] \in [Procs -> SUBSET copies]
  BY <1>1 DEF Heard
<1>3. PICK L \in [Procs -> SUBSET copies] :
          \A p \in Procs : L[p] = UNION {K[q] : q \in {p} \cup Sources(p, kind)}
  BY <1>2
<1>4. ASSUME NEW p \in Procs
      PROVE  Joint(info, {p} \cup Sources(p, kind)) = Joint(selected, L[p])
  <2>1. {p} \cup Sources(p, kind) \subseteq Procs
    BY <1>1
  <2>2. \A r : r \in L[p] <=> \E q \in {p} \cup Sources(p, kind) : r \in K[q]
    BY <1>3
  <2> QED BY <2>1, <2>2, <1>0
<1>5. info' = [p \in Procs |-> Joint(selected, L[p])] /\ selected' = selected /\ copies' = copies
  BY <1>4 DEF Merge
<1> QED BY <1>3, <1>5 DEF Heard

\* A round without: each hears of those the one it heard last had heard of.
LEMMA OverwriteHears ==
    ASSUME Types, NEW K, Heard(K), NEW kind, NEW from, NEW to, Overwrite(kind, from, to)
    PROVE  \E last \in [Procs -> Procs] :
               /\ \A p \in Procs : IF Sources(p, kind) = {} THEN last[p] = p
                                                          ELSE last[p] \in Sources(p, kind)
               /\ [p \in Procs |-> K[last[p]]] \in [Procs -> SUBSET copies]
               /\ Heard([p \in Procs |-> K[last[p]]])'
<1>1. PICK last \in [Procs -> Procs] :
          /\ \A p \in Procs : IF Sources(p, kind) = {} THEN last[p] = p
                                                     ELSE last[p] \in Sources(p, kind)
          /\ info' = [p \in Procs |-> info[last[p]]]
  BY DEF Overwrite
<1>2. [p \in Procs |-> K[last[p]]] \in [Procs -> SUBSET copies]
  BY DEF Heard
<1>3. info' = [p \in Procs |-> Joint(selected, K[last[p]])]
  BY <1>1 DEF Heard
<1>4. Heard([p \in Procs |-> K[last[p]]])'
  BY <1>2, <1>3 DEF Heard, Overwrite
<1> QED BY <1>1, <1>2, <1>4

------------------------------------------------------------------------------
(* The rounds *)

\* After merging a process has heard of all that its sources had heard of.
Grown(K, L, kind) ==
    \A p \in copies : K[p] \subseteq L[p] /\ \A q \in Sources(p, kind) : K[q] \subseteq L[p]

\* Masters hear of their slaves.
LEMMA StarsAreHeard ==
    ASSUME Types, NEW i \in Infos, Linked(i), NEW K, NEW L, Grown(K, L, "HM"), Known("h_up", i, K)
    PROVE  Known("h_down", i, L)
<1>1. HeardSelf(K)
  BY DEF Known
<1>2. HeardSelf(L)
  BY <1>1 DEF HeardSelf, Grown
<1>3. ASSUME NEW p \in copies, IsHMaster(i, p), NEW q \in copies, i[q] # {"VMASTER"}
      PROVE  q \in L[p]
  <2>1. CASE q = p
    BY <2>1, <1>2 DEF HeardSelf
  <2>2. CASE q # p
    <3>1. p \in Procs
      BY DEF Types
    <3>2. Side(i, p, "HM", q)
      BY <1>3 DEF Side
    <3>3. q \in Sources(p, "HM")
      BY <2>2, <3>1, <3>2, SourcesOfLinks DEF Ends
    <3> QED BY <3>3, <1>1 DEF Grown, HeardSelf
  <2> QED BY <2>1, <2>2
<1> QED BY <1>2, <1>3 DEF Known, HeardStar

\* What slaves take over from their master is the whole star.
LEMMA StarsAreTold ==
    ASSUME Types, NEW i \in Infos, Linked(i), NEW K, NEW last \in [Procs -> Procs],
           Known("h_down", i, K),
           \A p \in Procs : IF Sources(p, "HS") = {} THEN last[p] = p
                                                 ELSE last[p] \in Sources(p, "HS"),
           NEW L, \A p \in Procs : L[p] = K[last[p]]
    PROVE  Known("v_down", i, L)
<1>1. HeardSelf(K) /\ \A p \in copies : IsHMaster(i, p) => HeardStar(i, p, K)
  BY DEF Known
<1>2. copies = DOMAIN i /\ Sensible(i) /\ copies \subseteq Procs
  BY DEF Linked, Complete, Types
<1>3. ASSUME NEW p \in copies
      PROVE  p \in L[p] /\ (i[p] # {"VMASTER"} => HeardStar(i, p, L))
  <2>1. p \in Procs /\ p \in DOMAIN i
    BY <1>2
  <2>2. CASE i[p] = {"VMASTER"}
    <3>1. Sources(p, "HS") = {}
      BY <2>1, <2>2, SourcesOfLinks DEF Ends, Side
    <3> QED BY <2>1, <2>2, <3>1, <1>1 DEF HeardSelf
  <2>3. CASE i[p] # {"VMASTER"}
    <3>1. PICK m \in DOMAIN i : IsHMaster(i, m)
      BY <1>2, <2>1, <2>3, HMasterExists
    <3>2. HeardStar(i, m, K)
      BY <1>1, <1>2, <3>1
    <3>3. \A q : IsHMaster(i, q) => q = m
      BY <3>1, HMasterUnique
    <3>4. last[p] = m
      <4>1. \A q \in Sources(p, "HS") : q = m
        BY <2>1, <3>3, SourcesOfLinks DEF Ends, Side
      <4>2. CASE p = m
        <5>1. m \notin Sources(p, "HS")
          BY <4>2, <2>1, SourcesOfLinks DEF Ends
        <5>2. Sources(p, "HS") = {}
          BY <4>1, <5>1
        <5> QED BY <4>2, <5>2, <2>1
      <4>3. CASE p # m
        <5>1. Side(i, p, "HS", m)
          BY <2>3, <3>1 DEF Side
        <5>2. m \in Sources(p, "HS")
          BY <4>3, <5>1, <2>1, <1>2, SourcesOfLinks DEF Ends
        <5> QED BY <4>1, <5>2, <2>1
      <4> QED BY <4>2, <4>3
    <3>5. L[p] = K[m]
      BY <3>4, <2>1
    <3> QED BY <3>2, <3>5, <2>3 DEF HeardStar
  <2> QED BY <2>2, <2>3
<1> QED BY <1>3 DEF Known, HeardSelf

\* Vertical slaves hear of all vertical masters, and know the star.
LEMMA SlavesHearAll ==
    ASSUME Types, NEW i \in Infos, Linked(i), NEW K, NEW L \in [Procs -> SUBSET copies],
           Grown(K, L, "VS"), Known("v_down", i, K)
    PROVE  Known("v_up", i, L)
<1>1. HeardSelf(K) /\ \A p \in copies : i[p] # {"VMASTER"} => HeardStar(i, p, K)
  BY DEF Known
<1>2. copies = DOMAIN i /\ copies \subseteq Procs
  BY DEF Linked, Types
<1>3. ASSUME NEW p \in copies, In(i, {"VMASTER"}) = {} \/ "VSLAVE" \in i[p], NEW q \in copies
      PROVE  q \in L[p]
  <2>1. i[p] # {"VMASTER"}
    BY <1>2, <1>3 DEF In
  <2>2. CASE i[q] # {"VMASTER"}
    BY <2>1, <2>2, <1>1 DEF HeardStar, Grown
  <2>3. CASE i[q] = {"VMASTER"}
    <3>1. "VSLAVE" \in i[p] /\ q # p
      BY <2>1, <2>3, <1>2, <1>3 DEF In
    <3>2. Side(i, p, "VS", q)
      BY <2>3, <3>1 DEF Side
    <3>3. q \in Sources(p, "VS")
      BY <3>1, <3>2, <1>2, SourcesOfLinks DEF Ends
    <3> QED BY <3>3, <1>1 DEF Grown, HeardSelf
  <2> QED BY <2>2, <2>3
<1>4. \A p \in copies : L[p] \subseteq copies
  BY <1>2
<1> QED BY <1>3, <1>4 DEF Known, HeardAll

\* Vertical masters hear all from a slave.
LEMMA MastersHearAll ==
    ASSUME Types, NEW i \in Infos, Linked(i), NEW K, NEW L \in [Procs -> SUBSET copies],
           Grown(K, L, "VM"), Known("v_up", i, K)
    PROVE  Known("v_back", i, L)
<1>1. \A p \in copies : In(i, {"VMASTER"}) = {} \/ "VSLAVE" \in i[p] => K[p] = copies
  BY DEF Known, HeardAll
<1>2. copies = DOMAIN i /\ copies \subseteq Procs /\ Complete(i)
  BY DEF Linked, Types
<1>3. ASSUME NEW p \in copies
      PROVE  L[p] = copies
  <2>1. L[p] \subseteq copies
    BY <1>2
  <2>2. CASE In(i, {"VMASTER"}) = {} \/ "VSLAVE" \in i[p]
    BY <2>1, <2>2, <1>1 DEF Grown
  <2>3. CASE In(i, {"VMASTER"}) # {} /\ "VSLAVE" \notin i[p]
    <3>1. "VMASTER" \in i[p]
      BY <2>3, <1>2 DEF Complete
    <3>2. PICK s \in copies : "VSLAVE" \in i[s]
      BY <2>3, <1>2 DEF Complete, Sensible, In
    <3>3. Side(i, p, "VM", s) /\ s # p
      BY <2>3, <3>1, <3>2 DEF Side
    <3>4. s \in Sources(p, "VM")
      BY <3>3, <1>2, SourcesOfLinks DEF Ends
    <3> QED BY <2>1, <3>2, <3>4, <1>1 DEF Grown
  <2> QED BY <2>2, <2>3
<1> QED BY <1>3 DEF Known, HeardAll

\* A round with merging, and one without, keep what the steps above need.
LEMMA MergeStep ==
    ASSUME Types, NEW i \in Infos, Linked(i), NEW K, Heard(K), NEW kind \in Ends,
           NEW from, NEW to, Merge(kind, from, to)
    PROVE  \E L \in [Procs -> SUBSET copies] : Grown(K, L, kind) /\ Heard(L)'
<1>1. PICK L \in [Procs -> SUBSET copies] :
          /\ \A p \in Procs : L[p] = UNION {K[q] : q \in {p} \cup Sources(p, kind)}
          /\ Heard(L)'
  BY MergeHears
<1>2. ASSUME NEW p \in copies PROVE /\ K[p] \subseteq L[p]
                                  /\ \A q \in Sources(p, kind) : K[q] \subseteq L[p]
  <2>1. p \in Procs
    BY DEF Types
  <2> QED BY <1>1, <2>1
<1>3. Grown(K, L, kind)
  BY <1>2 DEF Grown
<1> QED BY <1>1, <1>3

\* When everybody has heard of all, a round without merging changes nothing.
LEMMA BackStep ==
    ASSUME Types, NEW i \in Infos, Linked(i), NEW K, NEW last \in [Procs -> Procs],
           Known("v_back", i, K),
           \A p \in Procs : IF Sources(p, "VS") = {} THEN last[p] = p
                                                 ELSE last[p] \in Sources(p, "VS"),
           NEW L, \A p \in Procs : L[p] = K[last[p]]
    PROVE  Known("post", i, L)
<1>1. ASSUME NEW p \in copies PROVE L[p] = copies
  <2>1. p \in Procs
    BY DEF Types
  <2>2. last[p] \in copies
    BY <2>1 DEF Sources
  <2> QED BY <2>1, <2>2 DEF Known, HeardAll
<1> QED BY <1>1 DEF Known, HeardAll

LEMMA TypesInRounds ==
    ASSUME Types, NEW to \in Phases, phase' = [p \in Procs |-> to],
           DOMAIN info' = Procs, UNCHANGED <<copies, itf, selected>>
    PROVE  Types' /\ AllIn(to)'
  BY DEF Types, AllIn

\* That a round teaches what the next one needs.
MergeTeaches(kind, from, to) ==
    \A i \in Infos : \A K, L \in [Procs -> SUBSET copies] :
        Linked(i) /\ Grown(K, L, kind) /\ Known(from, i, K) => Known(to, i, L)

OverwriteTeaches(kind, from, to) ==
    \A i \in Infos : \A K, L \in [Procs -> SUBSET copies] : \A last \in [Procs -> Procs] :
        /\ Linked(i) /\ Known(from, i, K)
        /\ \A p \in Procs : IF Sources(p, kind) = {} THEN last[p] = p
                                                   ELSE last[p] \in Sources(p, kind)
        /\ \A p \in Procs : L[p] = K[last[p]]
        => Known(to, i, L)

\* SynchronizeDistInfos()
LEMMA SynchronizeStep ==
    ASSUME GDInv, Synchronize
    PROVE  GDInv'
<1>0. Rounds \subseteq Phases
  BY DEF Rounds, Phases
<1>1. ASSUME NEW from \in Rounds, NEW to \in Rounds, AllIn(from), AllIn(to)',
             UNCHANGED <<copies, itf, selected>>, Types',
             NEW i \in Infos, Linked(i), NEW L \in [Procs -> SUBSET copies], Heard(L)',
             Known(to, i, L), Sensible(Joint(selected, copies))
      PROVE  GDInv'
  <2>1. Linked(i)' /\ Known(to, i, L)'
    BY <1>1 DEF Linked, Known, HeardSelf, HeardStar, HeardAll
  <2>2. L \in [Procs -> SUBSET copies]'
    BY <1>1
  <2>3. Synchronizing(to)'
    BY <1>1, <2>1, <2>2 DEF Synchronizing
  <2> QED BY <1>1, <2>3 DEF GDInv
<1>2. ASSUME NEW ph \in Rounds, AllIn(ph)
      PROVE  Types /\ Synchronizing(ph)
  <2>1. \A ps : AllIn(ps) => ps = ph
    BY <1>2, OnePhase
  <2>2. ~\E i \in Infos : Building(i)
    BY <1>2, ProcsAssumption DEF Building, AllIn, Rounds
  <2> QED BY <1>2, <2>1, <2>2 DEF GDInv, Rounds
<1>3. ASSUME NEW kind \in Ends, NEW from \in Rounds, NEW to \in Rounds, Merge(kind, from, to),
             MergeTeaches(kind, from, to)
      PROVE  GDInv'
  <2>1. AllIn(from) /\ UNCHANGED <<copies, itf, selected>> /\ phase' = [p \in Procs |-> to]
        /\ DOMAIN info' = Procs
    BY <1>3 DEF Merge
  <2>2. Types /\ Synchronizing(from) /\ Types' /\ AllIn(to)'
    BY <2>1, <1>0, <1>2, <1>3, TypesInRounds
  <2>3. PICK i \in Infos, K \in [Procs -> SUBSET copies] : Linked(i) /\ Heard(K) /\ Known(from, i, K)
    BY <2>2 DEF Synchronizing
  <2>4. PICK L \in [Procs -> SUBSET copies] : Grown(K, L, kind) /\ Heard(L)'
    BY <1>3, <2>2, <2>3, MergeStep
  <2>5. Known(to, i, L)
    BY <1>3, <2>3, <2>4 DEF MergeTeaches
  <2> QED BY <1>1, <2>1, <2>2, <2>3, <2>4, <2>5 DEF Synchronizing
<1>4. ASSUME NEW kind \in Ends, NEW from \in Rounds, NEW to \in Rounds, Overwrite(kind, from, to),
             OverwriteTeaches(kind, from, to)
      PROVE  GDInv'
  <2>1. AllIn(from) /\ UNCHANGED <<copies, itf, selected>> /\ phase' = [p \in Procs |-> to]
        /\ DOMAIN info' = Procs
    BY <1>4 DEF Overwrite
  <2>2. Types /\ Synchronizing(from) /\ Types' /\ AllIn(to)'
    BY <2>1, <1>0, <1>2, <1>4, TypesInRounds
  <2>3. PICK i \in Infos, K \in [Procs -> SUBSET copies] : Linked(i) /\ Heard(K) /\ Known(from, i, K)
    BY <2>2 DEF Synchronizing
  <2>4. PICK last \in [Procs -> Procs] :
            /\ \A p \in Procs : IF Sources(p, kind) = {} THEN last[p] = p
                                                       ELSE last[p] \in Sources(p, kind)
            /\ [p \in Procs |-> K[last[p]]] \in [Procs -> SUBSET copies]
            /\ Heard([p \in Procs |-> K[last[p]]])'
    BY <1>4, <2>2, <2>3, OverwriteHears
  <2>5. PICK L \in [Procs -> SUBSET copies] : Heard(L)' /\ \A p \in Procs : L[p] = K[last[p]]
    BY <2>4
  <2>6. Known(to, i, L)
    BY <1>4, <2>3, <2>4, <2>5 DEF OverwriteTeaches
  <2> QED BY <1>1, <2>1, <2>2, <2>3, <2>5, <2>6 DEF Synchronizing
<1>5. CASE Merge("HM", "h_up", "h_down")
  <2>1. AllIn("h_up") /\ "HM" \in Ends /\ "h_up" \in Rounds /\ "h_down" \in Rounds
    BY <1>5 DEF Merge, Ends, Rounds
  <2>2. Types
    BY <2>1, <1>2
  <2>3. MergeTeaches("HM", "h_up", "h_down")
    BY <2>2, StarsAreHeard, SMTT(40) DEF MergeTeaches
  <2> QED BY <2>1, <2>3, <1>3, <1>5
<1>6. CASE Overwrite("HS", "h_down", "v_down")
  <2>1. AllIn("h_down") /\ "HS" \in Ends /\ "h_down" \in Rounds /\ "v_down" \in Rounds
    BY <1>6 DEF Overwrite, Ends, Rounds
  <2>2. Types
    BY <2>1, <1>2
  <2>3. OverwriteTeaches("HS", "h_down", "v_down")
    BY <2>2, StarsAreTold, SMTT(40) DEF OverwriteTeaches
  <2> QED BY <2>1, <2>3, <1>4, <1>6
<1>7. CASE Merge("VS", "v_down", "v_up")
  <2>1. AllIn("v_down") /\ "VS" \in Ends /\ "v_down" \in Rounds /\ "v_up" \in Rounds
    BY <1>7 DEF Merge, Ends, Rounds
  <2>2. Types
    BY <2>1, <1>2
  <2>3. MergeTeaches("VS", "v_down", "v_up")
    BY <2>2, SlavesHearAll, SMTT(40) DEF MergeTeaches
  <2> QED BY <2>1, <2>3, <1>3, <1>7
<1>8. CASE Merge("VM", "v_up", "v_back")
  <2>1. AllIn("v_up") /\ "VM" \in Ends /\ "v_up" \in Rounds /\ "v_back" \in Rounds
    BY <1>8 DEF Merge, Ends, Rounds
  <2>2. Types
    BY <2>1, <1>2
  <2>3. MergeTeaches("VM", "v_up", "v_back")
    BY <2>2, MastersHearAll, SMTT(40) DEF MergeTeaches
  <2> QED BY <2>1, <2>3, <1>3, <1>8
<1>9. CASE Overwrite("VS", "v_back", "post")
  <2>1. AllIn("v_back") /\ "VS" \in Ends /\ "v_back" \in Rounds /\ "post" \in Rounds
    BY <1>9 DEF Overwrite, Ends, Rounds
  <2>2. Types
    BY <2>1, <1>2
  <2>3. OverwriteTeaches("VS", "v_back", "post")
    BY <2>2, BackStep, SMTT(40) DEF OverwriteTeaches
  <2> QED BY <2>1, <2>3, <1>4, <1>9
<1> QED BY <1>5, <1>6, <1>7, <1>8, <1>9 DEF Synchronize

------------------------------------------------------------------------------
(* Selecting, sending and building *)

LEMMA NoInfoIsInfo == NoInfo \in Infos /\ \A sel : Joint(sel, {}) = NoInfo
<1>1. \A sel : Joint(sel, {}) = NoInfo
  BY DEF Joint, NoInfo
<1>2. NoInfo \in [{} -> CopyStates]
  BY DEF NoInfo
<1> QED BY <1>1, <1>2 DEF Infos

LEMMA JointOfOne ==
    ASSUME NEW sel, NEW p, NEW D, DOMAIN sel[p] = D, sel[p] = [q \in D |-> sel[p][q]]
    PROVE  Joint(sel, {p}) = sel[p]
<1>1. UNION {DOMAIN sel[q] : q \in {p}} = D
  OBVIOUS
<1>2. \A r \in D : UNION {sel[q][r] : q \in {q \in {p} : r \in DOMAIN sel[q]}} = sel[p][r]
  OBVIOUS
<1> QED BY <1>1, <1>2 DEF Joint

LEMMA InfoIsFunction ==
    ASSUME NEW i \in Infos
    PROVE  i = [q \in DOMAIN i |-> i[q]]
<1>1. PICK S \in SUBSET Procs : i \in [S -> CopyStates]
  BY DEF Infos
<1> QED BY <1>1

LEMMA AllIdle ==
    ASSUME NEW i \in Infos, Building(i), AllIn("idle"), Types
    PROVE  /\ copies = DOMAIN i
           /\ \A p \in Procs : itf[p] = IF p \in DOMAIN i THEN Sides(i, p) ELSE {}
  BY DEF Building, AllIn

LEMMA SelectStep ==
    ASSUME GDInv, Select
    PROVE  GDInv'
<1>1. Types /\ AllIn("idle")
  BY DEF GDInv, Select
<1>2. PICK i \in Infos : Building(i)
  BY <1>1, OnePhase DEF GDInv, Rounds
<1>3. PICK sel \in [copies -> Selections] :
          selected' = [p \in Procs |-> IF p \in copies THEN sel[p] ELSE NoInfo]
  BY DEF Select
<1>4. selected' \in [Procs -> Infos]
  <2>1. \A p \in copies : sel[p] \in Infos
    BY <1>3, GridDistributionAssumption
  <2> QED BY <1>3, <2>1, NoInfoIsInfo
<1>5. /\ Sensible(Joint(selected', copies)) /\ info' = selected'
      /\ phase' = [p \in Procs |-> "h_up"] /\ UNCHANGED <<copies, itf>>
  BY DEF Select
<1> DEFINE K == [p \in Procs |-> IF p \in copies THEN {p} ELSE {}]
<1>6. K \in [Procs -> SUBSET copies] /\ \A p \in copies : p \in K[p]
  BY <1>1 DEF Types
<1>7. ASSUME NEW p \in Procs PROVE selected'[p] = Joint(selected', K[p])
  <2>1. CASE p \in copies
    <3>1. selected'[p] \in Infos
      BY <1>4
    <3>2. selected'[p] = Joint(selected', {p})
      BY <3>1, InfoIsFunction, JointOfOne
    <3> QED BY <2>1, <3>2
  <2>2. CASE p \notin copies
    BY <2>2, <1>3, NoInfoIsInfo
  <2> QED BY <2>1, <2>2
<1>8. info' = [p \in Procs |-> Joint(selected', K[p])]
  BY <1>4, <1>5, <1>7
<1> HIDE DEF K
<1>9. PICK L \in [Procs -> SUBSET copies] :
          /\ \A p \in copies : p \in L[p]
          /\ info' = [p \in Procs |-> Joint(selected', L[p])]
  BY <1>6, <1>8
<1>10. Heard(L)' /\ HeardSelf(L)'
  BY <1>5, <1>9 DEF Heard, HeardSelf
<1>11. Linked(i)'
  <2>1. copies = DOMAIN i /\ \A p \in Procs : itf[p] = IF p \in DOMAIN i THEN Sides(i, p) ELSE {}
    BY <1>1, <1>2, AllIdle
  <2>2. itf = [p \in Procs |-> itf[p]]
    BY <1>1 DEF Types
  <2> QED BY <2>1, <2>2, <1>2, <1>5 DEF Linked, Building
<1>12. Types' /\ AllIn("h_up")'
  BY <1>1, <1>4, <1>5 DEF Types, AllIn, Phases
<1>13. Synchronizing("h_up")'
  <2>1. HeardSelf(L)' => Known("h_up", i, L)'
    BY DEF Known
  <2>2. L \in [Procs -> SUBSET copies]'
    BY <1>5
  <2> QED BY <2>1, <2>2, <1>5, <1>10, <1>11 DEF Synchronizing
<1> QED BY <1>12, <1>13 DEF GDInv, Rounds

LEMMA PostProcessStep ==
    ASSUME GDInv, PostProcess
    PROVE  GDInv'
<1>1. Types /\ AllIn("post")
  BY DEF GDInv, PostProcess
<1>2. Synchronizing("post")
  <2>1. \A ps : AllIn(ps) => ps = "post"
    BY <1>1, OnePhase
  <2>2. ~\E i \in Infos : Building(i)
    BY <1>1, ProcsAssumption DEF Building, AllIn
  <2> QED BY <2>1, <2>2 DEF GDInv, Rounds
<1>3. PICK K \in [Procs -> SUBSET copies] : Heard(K) /\ \A p \in copies : K[p] = copies
  <2>1. PICK i \in Infos, K \in [Procs -> SUBSET copies] : Heard(K) /\ Known("post", i, K)
    BY <1>2 DEF Synchronizing
  <2> QED BY <2>1 DEF Known, HeardAll
<1>4. \A p \in copies : info[p] = Joint(selected, copies)
  BY <1>1, <1>3 DEF Heard, Types
<1>5. /\ info' = [p \in Procs |-> PostProcessed(info[p])]
      /\ phase' = [p \in Procs |-> "send"] /\ UNCHANGED <<copies, itf, selected>>
  BY DEF PostProcess
<1>6. Types' /\ AllIn("send")'
  <2>1. "send" \in Phases /\ DOMAIN info' = Procs
    BY <1>5 DEF Phases
  <2> QED BY <1>1, <1>5, <2>1, TypesInRounds
<1>7. \A p \in copies : info'[p] = PostProcessed(Joint(selected, copies))
  BY <1>1, <1>4, <1>5 DEF Types
<1>8. Processed'
  BY <1>2, <1>5, <1>7 DEF Processed, Synchronizing
<1> QED BY <1>6, <1>8 DEF GDInv

LEMMA SendStep ==
    ASSUME GDInv, Send
    PROVE  GDInv'
<1> DEFINE J == Joint(selected, copies)
           i == PostProcessed(J)
<1>1. Types /\ AllIn("send")
  BY DEF GDInv, Send
<1>2. Processed
  <2>1. \A ps : AllIn(ps) => ps = "send"
    BY <1>1, OnePhase
  <2>2. ~\E k \in Infos : Building(k)
    BY <1>1, ProcsAssumption DEF Building, AllIn
  <2> QED BY <2>1, <2>2 DEF GDInv, Rounds
<1>3. J \in Infos /\ Sensible(J)
  BY <1>1, <1>2, JointIsInfo DEF Types, Processed
<1>4. Complete(i) /\ i \in Infos /\ DOMAIN i = DOMAIN J
  BY <1>3, PostProcessing DEF Complete
<1>5. PICK last \in [copies' -> copies] :
          info' = [p \in Procs |-> IF p \in copies' THEN info[last[p]] ELSE NoInfo]
  BY DEF Send
<1>6. /\ copies' = UNION {DOMAIN selected[p] : p \in copies}
      /\ itf' = [p \in Procs |-> {}]
      /\ selected' = [p \in Procs |-> NoInfo]
      /\ phase' = [p \in Procs |-> "layout"]
  BY DEF Send
<1>7. DOMAIN J = copies'
  BY <1>6 DEF Joint
<1>8. \A p \in copies : info[p] = i
  BY <1>2 DEF Processed
<1>9. copies' \in SUBSET Procs
  BY <1>3, <1>7, InfoValues
<1> HIDE DEF i, J
<1>10. PICK k \in Infos : k = i
  BY <1>4
<1>11. \A p \in Procs : info'[p] = IF p \in DOMAIN k THEN k ELSE NoInfo
  BY <1>4, <1>5, <1>7, <1>8, <1>10
<1>12. Building(k)'
  <2>1. Complete(k) /\ copies' = DOMAIN k
    BY <1>4, <1>7, <1>10
  <2>2. \A p \in Procs : phase'[p] = "layout" /\ itf'[p] = {}
    BY <1>6
  <2> QED BY <1>11, <2>1, <2>2 DEF Building
<1>13. Types'
  <2>1. phase' \in [Procs -> Phases]
    BY <1>6 DEF Phases
  <2>2. selected' \in [Procs -> Infos]
    BY <1>6, NoInfoIsInfo
  <2>3. itf' \in [Procs -> SUBSET (Ends \X Procs)]
    BY <1>6
  <2>4. DOMAIN info' = Procs
    BY <1>5
  <2> QED BY <1>9, <2>1, <2>2, <2>3, <2>4 DEF Types
<1> QED BY <1>12, <1>13 DEF GDInv

Built(i, p, order) ==
    {e \in {"HM", "HS", "VM", "VS"} \X (DOMAIN i \ {p}) :
        Puts(i, p, e[1], e[2], {r \in DOMAIN i \ {p} : order[r] <= order[e[2]]})}

\* What a process builds is its side of the interfaces, in whatever order it goes through
\* the targets.
LEMMA BuiltSides ==
    ASSUME NEW i \in Infos, NEW p \in DOMAIN i,
           NEW order \in [DOMAIN i \ {p} -> 1 .. Cardinality(DOMAIN i \ {p})]
    PROVE  Built(i, p, order) = Sides(i, p)
<1>1. ASSUME NEW e \in Ends \X (DOMAIN i \ {p})
      PROVE  Puts(i, p, e[1], e[2], {r \in DOMAIN i \ {p} : order[r] <= order[e[2]]})
                 <=> Side(i, p, e[1], e[2])
  <2>1. e[1] \in Ends /\ e[2] \in DOMAIN i
    OBVIOUS
  <2> QED BY <2>1, PutsIsSide
<1> QED BY <1>1 DEF Built, Sides, Ends

LEMMA CreateLayoutsStep ==
    ASSUME GDInv, NEW p \in Procs, CreateLayouts(p)
    PROVE  GDInv'
<1>1. Types /\ phase[p] = "layout"
  BY DEF GDInv, CreateLayouts
<1>2. PICK i \in Infos : Building(i)
  <2>1. ASSUME NEW ph \in Rounds \cup {"send"} PROVE ~AllIn(ph)
    BY <1>1, ProcsAssumption DEF AllIn, Rounds
  <2> QED BY <2>1 DEF GDInv
<1>3. info[p] = IF p \in DOMAIN i THEN i ELSE NoInfo
  BY <1>1, <1>2 DEF Building
<1> DEFINE others == DOMAIN info[p] \ {p}
<1>4. PICK order \in [others -> 1 .. Cardinality(others)] :
          itf' = [itf EXCEPT ![p] =
              {e \in {"HM", "HS", "VM", "VS"} \X others :
                  Puts(info[p], p, e[1], e[2], {r \in others : order[r] <= order[e[2]]})}]
  BY DEF CreateLayouts
<1>5. /\ info' = [info EXCEPT ![p] = NoInfo]
      /\ phase' = [phase EXCEPT ![p] = "idle"]
      /\ UNCHANGED <<copies, selected>>
  BY DEF CreateLayouts
<1>6. itf' = [itf EXCEPT ![p] = IF p \in DOMAIN i THEN Sides(i, p) ELSE {}]
  <2>1. CASE p \in DOMAIN i
    <3>1. info[p] = i
      BY <2>1, <1>3
    <3>2. order \in [DOMAIN i \ {p} -> 1 .. Cardinality(DOMAIN i \ {p})]
      BY <3>1
    <3>3. itf' = [itf EXCEPT ![p] = Built(i, p, order)]
      BY <3>1, <1>4 DEF Built
    <3>4. Built(i, p, order) = Sides(i, p)
      BY <2>1, <3>2, BuiltSides
    <3> QED BY <2>1, <3>3, <3>4
  <2>2. CASE p \notin DOMAIN i
    <3>1. others = {}
      BY <2>2, <1>3 DEF NoInfo
    <3> QED BY <2>2, <3>1, <1>4
  <2> QED BY <2>1, <2>2
<1>7. ASSUME NEW q \in DOMAIN i PROVE Sides(i, q) \in SUBSET (Ends \X Procs)
  BY <1>7, InfoValues DEF Sides
<1>8. Types'
  BY <1>1, <1>5, <1>6, <1>7 DEF Types, Phases
<1>9. Building(i)'
  <2>1. ASSUME NEW q \in Procs, q # p
        PROVE  phase'[q] = phase[q] /\ itf'[q] = itf[q] /\ info'[q] = info[q]
    BY <2>1, <1>1, <1>5, <1>6 DEF Types
  <2>2. phase'[p] = "idle" /\ itf'[p] = IF p \in DOMAIN i THEN Sides(i, p) ELSE {}
    BY <1>1, <1>5, <1>6 DEF Types
  <2> QED BY <2>1, <2>2, <1>2, <1>5 DEF Building
<1>10. \E k \in Infos : Building(k)'
  BY <1>9
<1> QED BY <1>8, <1>10 DEF GDInv

------------------------------------------------------------------------------
(* Theorems *)

LEMMA InitInv ==
    ASSUME GDInit
    PROVE  GDInv
<1>1. PICK first \in {k \in FirstInfos : Sensible(k)} :
          info = [p \in Procs |-> IF p \in DOMAIN first THEN PostProcessed(first) ELSE NoInfo]
  BY DEF GDInit
<1> DEFINE i == PostProcessed(first)
<1>2. first \in Infos /\ Sensible(first)
  BY <1>1, GridDistributionAssumption
<1>3. Complete(i) /\ i \in Infos /\ DOMAIN i = DOMAIN first
  BY <1>2, PostProcessing DEF Complete
<1>4. DOMAIN NoInfo = {} /\ DOMAIN first \subseteq Procs
  BY <1>2, InfoValues DEF NoInfo
<1> HIDE DEF i
<1>5. \A p \in Procs : info[p] = IF p \in DOMAIN i THEN i ELSE NoInfo
  BY <1>1, <1>3 DEF i
<1>6. copies = DOMAIN i
  BY <1>3, <1>4, <1>5 DEF GDInit
<1>7. Building(i)
  BY <1>3, <1>5, <1>6 DEF Building, GDInit
<1>8. Types
  <2>1. DOMAIN info = Procs
    BY <1>1
  <2>2. /\ phase = [p \in Procs |-> "layout"] /\ itf = [p \in Procs |-> {}]
        /\ selected = [p \in Procs |-> NoInfo]
    BY DEF GDInit
  <2> QED BY <2>1, <2>2, <1>3, <1>4, <1>6, NoInfoIsInfo DEF Types, Phases
<1> QED BY <1>3, <1>7, <1>8 DEF GDInv

LEMMA StepInv ==
    ASSUME GDInv, [GDNext]_gdVars
    PROVE  GDInv'
<1>1. CASE UNCHANGED gdVars
  <2>0. Types /\ UNCHANGED <<copies, itf, selected, info, phase>>
    BY <1>1 DEF GDInv, gdVars
  <2>1. Types' /\ (Processed => Processed') /\ \A ph : AllIn(ph) => AllIn(ph)'
    <3>1. Types'
      BY <2>0 DEF Types
    <3>2. Processed => Processed'
      BY <2>0 DEF Processed
    <3>3. \A ph : AllIn(ph) => AllIn(ph)'
      BY <2>0 DEF AllIn
    <3> QED BY <3>1, <3>2, <3>3
  <2>2. ASSUME NEW ph \in Rounds, Synchronizing(ph) PROVE Synchronizing(ph)'
    <3>1. PICK i \in Infos, K \in [Procs -> SUBSET copies] : Linked(i) /\ Heard(K) /\ Known(ph, i, K)
      BY <2>2 DEF Synchronizing
    <3>2. Linked(i)' /\ Heard(K)'
      BY <2>0, <3>1 DEF Linked, Heard
    <3>3. Known(ph, i, K)'
      BY <2>0, <3>1 DEF Known, HeardSelf, HeardStar, HeardAll
    <3>4. K \in [Procs -> SUBSET copies]' /\ Sensible(Joint(selected, copies))'
      BY <2>0, <2>2, <3>1 DEF Synchronizing
    <3> QED BY <3>2, <3>3, <3>4 DEF Synchronizing
  <2>3. \A i \in Infos : Building(i) => Building(i)'
    BY <1>1 DEF gdVars, Building
  <2> QED BY <2>1, <2>2, <2>3 DEF GDInv
<1>2. CASE Select
  BY <1>2, SelectStep
<1>3. CASE Synchronize
  BY <1>3, SynchronizeStep
<1>4. CASE PostProcess
  BY <1>4, PostProcessStep
<1>5. CASE Send
  BY <1>5, SendStep
<1>6. CASE \E p \in Procs : CreateLayouts(p)
  BY <1>6, CreateLayoutsStep
<1> QED BY <1>1, <1>2, <1>3, <1>4, <1>5, <1>6 DEF GDNext

\* The invariant, for any processes, first interfaces and selections.
THEOREM GDInvariant == GDSpec => []GDInv
<1>1. GDInit => GDInv
  BY InitInv
<1>2. GDInv /\ [GDNext]_gdVars => GDInv'
  BY StepInv
<1> QED BY <1>1, <1>2, PTL DEF GDSpec

\* After SynchronizeDistInfos() all copies have the joint info.
THEOREM InfosAreSynchronized == GDSpec => []InfosSynchronized
<1>1. GDInv => InfosSynchronized
  <2> SUFFICES ASSUME GDInv, AllIn("post") PROVE \A p \in copies : info[p] = Joint(selected, copies)
    BY DEF InfosSynchronized
  <2>1. \A ps : AllIn(ps) => ps = "post"
    BY OnePhase
  <2>2. ~\E i \in Infos : Building(i)
    BY ProcsAssumption DEF Building, AllIn
  <2>3. Types /\ Synchronizing("post")
    BY <2>1, <2>2 DEF GDInv, Rounds
  <2>4. PICK i \in Infos, K \in [Procs -> SUBSET copies] : Heard(K) /\ Known("post", i, K)
    BY <2>3 DEF Synchronizing
  <2>5. \A p \in copies : K[p] = copies
    BY <2>4 DEF Known, HeardAll
  <2> QED BY <2>3, <2>4, <2>5 DEF Heard, Types
<1> QED BY <1>1, GDInvariant, PTL

\* When all have built their interfaces, an info tells who is in whose interfaces.
LEMMA IdleLinks ==
    ASSUME GDInv, AllIn("idle")
    PROVE  \E i \in Infos :
               /\ Complete(i) /\ copies = DOMAIN i
               /\ \A r, s \in Procs, kind \in Ends :
                      <<kind, s>> \in itf[r] <=>
                          r \in DOMAIN i /\ s \in DOMAIN i /\ r # s /\ Side(i, r, kind, s)
<1>1. PICK i \in Infos : Building(i)
  BY OnePhase DEF GDInv, Rounds
<1>2. \A r \in Procs : itf[r] = IF r \in DOMAIN i THEN Sides(i, r) ELSE {}
  BY <1>1, AllIdle DEF GDInv
<1>3. ASSUME NEW r \in Procs, NEW s \in Procs, NEW kind \in Ends
      PROVE  <<kind, s>> \in itf[r] <=>
                 r \in DOMAIN i /\ s \in DOMAIN i /\ r # s /\ Side(i, r, kind, s)
  <2>1. <<kind, s>> \in Sides(i, r) <=>
            s \in DOMAIN i /\ r # s /\ Side(i, r, kind, s)
    BY DEF Sides
  <2>2. itf[r] = IF r \in DOMAIN i THEN Sides(i, r) ELSE {}
    BY <1>2
  <2> QED BY <2>1, <2>2
<1> QED BY <1>1, <1>3 DEF Building

\* Whatever is selected, and in whatever order processes go through their targets, the
\* two sides of all interfaces match.
THEOREM SidesAlwaysMatch == GDSpec => []SidesMatch
<1>1. GDInv => SidesMatch
  <2> SUFFICES ASSUME GDInv, AllIn("idle"), NEW p \in Procs, NEW q \in Procs
               PROVE  /\ <<"HM", q>> \in itf[p] <=> <<"HS", p>> \in itf[q]
                      /\ <<"VM", q>> \in itf[p] <=> <<"VS", p>> \in itf[q]
    BY DEF SidesMatch
  <2>1. PICK i \in Infos :
            \A r, s \in Procs, kind \in Ends :
                <<kind, s>> \in itf[r] <=>
                    r \in DOMAIN i /\ s \in DOMAIN i /\ r # s /\ Side(i, r, kind, s)
    BY IdleLinks
  <2>2. /\ Side(i, p, "HM", q) <=> Side(i, q, "HS", p)
        /\ Side(i, p, "VM", q) <=> Side(i, q, "VS", p)
    BY DEF Side
  <2> QED BY <2>1, <2>2 DEF Ends
<1> QED BY <1>1, GDInvariant, PTL

\* A set whose elements are all equal has one at most.
LEMMA AtMostOne ==
    ASSUME NEW S, \A x, y \in S : x = y
    PROVE  Cardinality(S) <= 1
<1>1. CASE S = {}
  BY <1>1, FS_EmptySet
<1>2. CASE S # {}
  <2>1. PICK x \in S : S = {x}
    BY <1>2
  <2> QED BY <2>1, FS_Singleton
<1> QED BY <1>1, <1>2

\* Copies that are slaves of vertical interfaces are no pure vertical masters, so they
\* belong to the star.
LEMMA SlavesAreInStar ==
    ASSUME NEW i \in Infos, NEW p \in DOMAIN i, NEW q, Side(i, p, "VS", q)
    PROVE  i[p] # {"VMASTER"}
  BY DEF Side, Adopted, PureDummy

\* After every distribution the horizontal interfaces form one star, with one master,
\* and all slaves of vertical interfaces belong to it (distribution.cpp:1536-1640).
THEOREM StarIsOne == GDSpec => []OneStar
<1>1. GDInv => OneStar
  <2> SUFFICES ASSUME GDInv, AllIn("idle")
               PROVE  /\ Cardinality({p \in Procs : \E q \in Procs : <<"HM", q>> \in itf[p]}) <= 1
                      /\ \A p \in Procs : Cardinality({q \in Procs : <<"HS", q>> \in itf[p]}) <= 1
                      /\ \A p, q \in Procs : ~(<<"HM", q>> \in itf[p] /\ \E r \in Procs : <<"HS", r>> \in itf[p])
                      /\ \A p, q \in {p \in Procs : \E q \in Procs : <<"VS", q>> \in itf[p]} :
                             p = q \/ \E m \in Procs : /\ {p, q} \subseteq Group(m)
                                                       /\ \E r \in Procs : <<"HM", r>> \in itf[m]
    BY DEF OneStar
  <2>1. PICK i \in Infos :
            /\ Complete(i)
            /\ \A r, s \in Procs, kind \in Ends :
                   <<kind, s>> \in itf[r] <=>
                       r \in DOMAIN i /\ s \in DOMAIN i /\ r # s /\ Side(i, r, kind, s)
    BY IdleLinks
  <2>2. /\ \A p, q \in Procs : <<"HM", q>> \in itf[p] => IsHMaster(i, p)
        /\ \A p, q \in Procs : <<"HS", q>> \in itf[p] => IsHMaster(i, q) /\ p # q
    BY <2>1 DEF Side, Ends
  <2>3. Cardinality({p \in Procs : \E q \in Procs : <<"HM", q>> \in itf[p]}) <= 1
    <3>1. \A p, q \in {p \in Procs : \E q \in Procs : <<"HM", q>> \in itf[p]} : p = q
      BY <2>2, HMasterUnique
    <3> QED BY <3>1, AtMostOne
  <2>4. ASSUME NEW p \in Procs
        PROVE  Cardinality({q \in Procs : <<"HS", q>> \in itf[p]}) <= 1
    <3>1. \A q, r \in {q \in Procs : <<"HS", q>> \in itf[p]} : q = r
      BY <2>2, HMasterUnique
    <3> QED BY <3>1, AtMostOne
  <2>5. \A p, q \in Procs : ~(<<"HM", q>> \in itf[p] /\ \E r \in Procs : <<"HS", r>> \in itf[p])
    BY <2>2, HMasterUnique
  <2>6. ASSUME NEW p \in {r \in Procs : \E s \in Procs : <<"VS", s>> \in itf[r]},
               NEW q \in {r \in Procs : \E s \in Procs : <<"VS", s>> \in itf[r]}, p # q
        PROVE  \E m \in Procs : {p, q} \subseteq Group(m) /\ \E r \in Procs : <<"HM", r>> \in itf[m]
    <3>1. /\ p \in DOMAIN i /\ p \in Procs /\ i[p] # {"VMASTER"}
          /\ q \in DOMAIN i /\ q \in Procs /\ i[q] # {"VMASTER"}
      BY <2>1, SlavesAreInStar DEF Ends
    <3>2. PICK m \in DOMAIN i : IsHMaster(i, m)
      BY <3>1, <2>1, HMasterExists DEF Complete
    <3>3. m \in Procs
      BY <3>2, InfoValues
    <3>4. \A r \in {p, q} : r = m \/ <<"HM", r>> \in itf[m]
      BY <3>1, <3>2, <3>3, <2>1 DEF Side, Ends
    <3>5. \E r \in Procs : <<"HM", r>> \in itf[m]
      BY <3>4, <3>1, <2>6
    <3>6. {p, q} \subseteq Group(m)
      BY <3>4, <3>1 DEF Group
    <3> QED BY <3>3, <3>5, <3>6
  <2> QED BY <2>3, <2>4, <2>5, <2>6
<1> QED BY <1>1, GDInvariant, PTL

\* After every distribution all copies are connected through interfaces: no group of
\* them could miss what is selected for the others later.
THEOREM CopiesStayConnected == GDSpec => []NoCopyIsLost
<1>1. GDInv => NoCopyIsLost
  <2> SUFFICES ASSUME GDInv, AllIn("idle"), NEW part \in SUBSET copies, part # {}, part # copies
               PROVE  \E p \in part, q \in copies \ part, kind \in Ends : <<kind, q>> \in itf[p]
    BY DEF NoCopyIsLost, Ends
  <2>1. PICK i \in Infos :
            /\ Complete(i) /\ copies = DOMAIN i
            /\ \A r, s \in Procs, kind \in Ends :
                   <<kind, s>> \in itf[r] <=>
                       r \in DOMAIN i /\ s \in DOMAIN i /\ r # s /\ Side(i, r, kind, s)
    BY IdleLinks
  <2>2. /\ part \subseteq DOMAIN i /\ DOMAIN i \subseteq Procs
        /\ \E p \in part : TRUE
        /\ \E q \in DOMAIN i \ part : TRUE
    BY <2>1, InfoValues
  <2>3. \A p \in DOMAIN i : i[p] = {"VMASTER"} => In(i, {"VSLAVE"}) # {}
    BY <2>1 DEF Complete, Sensible, In
  <2>4. \A s \in In(i, {"VSLAVE"}) : s \in DOMAIN i /\ "VSLAVE" \in i[s] /\ i[s] # {"VMASTER"}
    BY DEF In
  <2>5. PICK n \in DOMAIN i : i[n] # {"VMASTER"}
    BY <2>2, <2>3, <2>4
  <2>6. PICK m \in DOMAIN i : IsHMaster(i, m) /\ i[m] # {"VMASTER"}
    BY <2>1, <2>5, HMasterExists DEF Complete
  <2>7. CASE m \in part
    <3>1. CASE \E q \in DOMAIN i \ part : i[q] # {"VMASTER"}
      <4>1. PICK q \in DOMAIN i \ part : i[q] # {"VMASTER"}
        BY <3>1
      <4>2. <<"HM", q>> \in itf[m]
        BY <4>1, <2>1, <2>2, <2>6, <2>7 DEF Side, Ends
      <4> QED BY <4>1, <4>2, <2>1, <2>7 DEF Ends
    <3>2. CASE \A q \in DOMAIN i \ part : i[q] = {"VMASTER"}
      <4>1. PICK v \in DOMAIN i \ part : i[v] = {"VMASTER"}
        BY <2>2, <3>2
      <4>2. PICK s \in part : "VSLAVE" \in i[s]
        BY <4>1, <3>2, <2>3, <2>4
      <4>3. <<"VS", v>> \in itf[s]
        BY <4>1, <4>2, <2>1, <2>2 DEF Side, Ends
      <4> QED BY <4>1, <4>2, <4>3, <2>1 DEF Ends
    <3> QED BY <3>1, <3>2
  <2>8. CASE m \notin part
    <3>1. CASE \E p \in part : i[p] # {"VMASTER"}
      <4>1. PICK p \in part : i[p] # {"VMASTER"}
        BY <3>1
      <4>2. <<"HS", m>> \in itf[p]
        BY <4>1, <2>1, <2>2, <2>6, <2>8 DEF Side, Ends
      <4> QED BY <4>1, <4>2, <2>1, <2>6, <2>8 DEF Ends
    <3>2. CASE \A p \in part : i[p] = {"VMASTER"}
      <4>1. PICK v \in part : i[v] = {"VMASTER"}
        BY <2>2, <3>2
      <4>2. PICK s \in DOMAIN i \ part : "VSLAVE" \in i[s]
        BY <4>1, <3>2, <2>2, <2>3, <2>4
      <4>3. <<"VM", s>> \in itf[v]
        BY <4>1, <4>2, <2>1, <2>2 DEF Side, Ends
      <4> QED BY <4>1, <4>2, <4>3, <2>1 DEF Ends
    <3> QED BY <3>1, <3>2
  <2> QED BY <2>7, <2>8
<1> QED BY <1>1, GDInvariant, PTL
===============================================================================
