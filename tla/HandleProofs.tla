------------------------------ MODULE HandleProofs ------------------------------
(***************************************************************************)
(* Two components that hand out handles to what they keep: the attachment  *)
(* pipe gives every element an index into its arrays, the message hub an   *)
(* id to who registers a callback.  They share no state.                   *)
(*                                                                         *)
(* For any elements, attachments and values: an attachment pipe never      *)
(* gives one entry to two elements, and is a table of values.              *)
(*                                                                         *)
(* What the code promises of the hub is not inductive: an id with a hub    *)
(* must also be known to its entry, or the hub would not tell it; and a    *)
(* new entry is behind all posts only because serials are distinct and     *)
(* bounded by the number of registrations made.                            *)
(***************************************************************************)
EXTENDS AttachmentPipe, MessageHub, FiniteSetTheorems, SequenceTheorems, TLAPS

-------------------------------------------------------------------------------
(* The attachment pipe.                                                    *)

\* PipeInv and what makes it inductive: only finitely many elements are
\* registered at a time.
PipeIndInv == PipeInv /\ IsFiniteSet(live)

\* The sizes of containers are natural numbers that never shrink when growing.
LEMMA GrownSizeIsEnough ==
    ASSUME containerSize \in Nat, NEW n \in Nat
    PROVE  GrownSize(n) \in Nat /\ GrownSize(n) >= n /\ GrownSize(n) >= containerSize
  BY DEF GrownSize

\* A container resized to no less than it was keeps what it holds, and has the
\* default in what is new.
LEMMA ResizedKeeps ==
    ASSUME NEW m \in Nat, NEW n \in Nat, NEW v \in Values,
           NEW f \in [Indices(m) -> Values]
    PROVE  /\ Resized(f, v, n) \in [Indices(n) -> Values]
           /\ \A i \in Indices(n) : Resized(f, v, n)[i] = IF i < m THEN f[i] ELSE v
  BY DEF Resized, Indices

LEMMA PopStack ==
    ASSUME NEW s \in Seq(Nat), s # <<>>
    PROVE  /\ Len(s) \in 1 .. Len(s)
           /\ s[Len(s)] \in Nat
           /\ SubSeq(s, 1, Len(s) - 1) \in Seq(Nat)
           /\ Len(SubSeq(s, 1, Len(s) - 1)) = Len(s) - 1
           /\ \A k \in 1 .. Len(s) - 1 : SubSeq(s, 1, Len(s) - 1)[k] = s[k]
  <1>1. Len(s) \in Nat /\ Len(s) # 0 /\ \A k \in 1 .. Len(s) : s[k] \in Nat
    OBVIOUS
  <1>2. ASSUME NEW n \in Nat, n # 0
        PROVE  /\ n \in 1 .. n /\ n - 1 \in Int
               /\ \A k \in 1 .. n - 1 : k \in 1 .. n /\ k \in 1 .. n - 1 - 1 + 1 /\ 1 + k - 1 = k
               /\ 1 <= n - 1 => n - 1 - 1 + 1 = n - 1
               /\ ~(1 <= n - 1) => 0 = n - 1
    BY <1>2
  <1>3. /\ SubSeq(s, 1, Len(s) - 1) \in Seq(Nat)
        /\ Len(SubSeq(s, 1, Len(s) - 1)) = IF 1 <= Len(s) - 1 THEN Len(s) - 1 - 1 + 1 ELSE 0
        /\ \A k \in 1 .. Len(s) - 1 - 1 + 1 : SubSeq(s, 1, Len(s) - 1)[k] = s[1 + k - 1]
    <2>1. \A k \in 1 .. Len(s) - 1 : s[k] \in Nat
      BY <1>1, <1>2
    <2>2. 1 \in Int /\ Len(s) - 1 \in Int
      BY <1>1
    <2>3. QED
      BY <2>1, <2>2, SubSeqProperties
  <1>4. Len(SubSeq(s, 1, Len(s) - 1)) = Len(s) - 1
    BY <1>1, <1>2, <1>3, Zenon
  <1>5. ASSUME NEW k \in 1 .. Len(s) - 1
        PROVE  SubSeq(s, 1, Len(s) - 1)[k] = s[k]
    BY <1>1, <1>2, <1>3, Zenon
  <1>6. QED
    BY <1>1, <1>2, <1>3, <1>4, <1>5

------------------------------------------------------------------------------
(* The inductive invariant *)

LEMMA PipeInitInv == PipeInit => PipeIndInv
  <1>1. IsFiniteSet({}) /\ Cardinality({}) = 0
    BY FS_EmptySet
  <1>2. QED
    BY <1>1 DEF PipeInit, PipeIndInv, PipeInv, PipeTypeOK, IndicesArePartitioned,
                IndicesAreDistinct, UnusedEntriesAreDefault

LEMMA RegisterReusedInv ==
    ASSUME PipeIndInv, NEW e \in Elems, RegisterReused(e)
    PROVE  PipeIndInv'
  <1> DEFINE top == free[Len(free)]
  <1> USE DEF PipeIndInv, PipeInv
  <1>1. /\ Len(free) \in 1 .. Len(free) /\ Len(free) \in Nat
        /\ top \in Nat
        /\ free' \in Seq(Nat)
        /\ Len(free') = Len(free) - 1
        /\ \A k \in 1 .. Len(free) - 1 : free'[k] = free[k]
    BY PopStack DEF PipeTypeOK, RegisterReused
  <1>2. /\ top < numDataEntries
        /\ \A f \in live : index[f] # top
        /\ \A k \in 1 .. Len(free) - 1 : free[k] # top
    <2>1. Len(free) \in DOMAIN free /\ \A k \in 1 .. Len(free) - 1 : k \in DOMAIN free /\ k # Len(free)
      BY <1>1 DEF PipeTypeOK
    <2>2. QED
      BY <2>1, <1>1 DEF IndicesArePartitioned
  <1>3. IsFiniteSet(live') /\ Cardinality(live') = Cardinality(live) + 1
    BY FS_AddElement DEF RegisterReused
  <1>4. /\ live' = live \cup {e}
        /\ index' = [index EXCEPT ![e] = top]
        /\ data' = [a \in DOMAIN data |-> [data[a] EXCEPT ![top] = Default[a]]]
        /\ numElements' = numElements + 1
        /\ UNCHANGED <<numDataEntries, containerSize>>
        /\ e \notin live
    BY DEF RegisterReused
  <1>5. PipeTypeOK'
    <2>1. /\ live' \subseteq Elems
          /\ index' \in [Elems -> Nat]
          /\ free' \in Seq(Nat)
      BY <1>1, <1>4 DEF PipeTypeOK
    <2>2. numElements' \in Nat /\ numDataEntries' \in Nat /\ containerSize' \in Nat
      BY <1>4 DEF PipeTypeOK
    <2>3. DOMAIN data' \subseteq Attachments
      BY <1>4 DEF PipeTypeOK
    <2>4. ASSUME NEW a \in DOMAIN data'
          PROVE  data'[a] \in [Indices(containerSize') -> Values]
      <3>1. a \in DOMAIN data /\ data[a] \in [Indices(containerSize) -> Values]
        BY <1>4 DEF PipeTypeOK
      <3>2. Default[a] \in Values
        BY <3>1, PipeAssumption DEF PipeTypeOK
      <3>3. data'[a] = [data[a] EXCEPT ![top] = Default[a]] /\ containerSize' = containerSize
        BY <3>1, <1>4
      <3>4. QED
        BY <3>1, <3>2, <3>3
    <2>5. QED
      BY <2>1, <2>2, <2>3, <2>4 DEF PipeTypeOK
  <1>6. /\ \A f \in live' : index'[f] = IF f = e THEN top ELSE index[f]
        /\ DOMAIN free' = 1 .. Len(free) - 1
        /\ DOMAIN free = 1 .. Len(free)
    BY <1>1, <1>4 DEF PipeTypeOK
  <1>7. IndicesArePartitioned'
    <2> DEFINE kept == 1 .. Len(free) - 1
    <2>a. /\ \A f \in live : index[f] < numDataEntries /\ index[f] # top
          /\ \A k \in kept : /\ k \in DOMAIN free /\ free'[k] = free[k]
                              /\ free[k] < numDataEntries /\ free[k] # top
      <3>1. \A k \in kept : k \in 1 .. Len(free)
        BY <1>1
      <3>2. \A f \in live : index[f] < numDataEntries /\ index[f] # top
        BY <1>2 DEF IndicesArePartitioned
      <3>3. \A k \in DOMAIN free : free[k] < numDataEntries
        BY DEF IndicesArePartitioned
      <3>4. \A k \in kept : k \in DOMAIN free /\ free'[k] = free[k] /\ free[k] # top
        BY <3>1, <1>1, <1>2, <1>6
      <3>5. QED
        BY <3>2, <3>3, <3>4
    <2>b. /\ \A f \in live' : (f = e /\ index'[f] = top) \/ (f \in live /\ index'[f] = index[f])
          /\ DOMAIN free' = kept /\ numDataEntries' = numDataEntries
      <3>1. live' = live \cup {e} /\ numDataEntries' = numDataEntries
        BY <1>4
      <3>2. \A f \in live' : index'[f] = IF f = e THEN top ELSE index[f]
        BY <1>6
      <3>3. ASSUME NEW f \in live'
            PROVE  (f = e /\ index'[f] = top) \/ (f \in live /\ index'[f] = index[f])
        <4>1. CASE f = e
          BY <4>1, <3>2
        <4>2. CASE f # e
          <5>1. f \in live
            BY <4>2, <3>1
          <5>2. index'[f] = index[f]
            BY <4>2, <3>2
          <5>3. QED
            BY <5>1, <5>2
        <4>3. QED
          BY <4>1, <4>2
      <3>4. QED
        BY <1>6, <3>1, <3>3, Zenon
    <2>c. \A f \in live, k \in DOMAIN free : index[f] # free[k]
      BY DEF IndicesArePartitioned
    <2> HIDE DEF kept, top
    <2>1. /\ \A f \in live' : index'[f] < numDataEntries'
          /\ \A k \in DOMAIN free' : free'[k] < numDataEntries'
      BY <1>2, <2>a, <2>b
    <2>2. \A f \in live', k \in DOMAIN free' : index'[f] # free'[k]
      BY <2>a, <2>b, <2>c, Zenon
    <2>3. \A j, k \in DOMAIN free' : free'[j] = free'[k] => j = k
      BY <1>1, <1>6 DEF IndicesArePartitioned
    <2>4. /\ numElements' = Cardinality(live')
          /\ numElements' + Len(free') = numDataEntries'
          /\ numDataEntries' <= containerSize'
      BY <1>1, <1>3, <1>4 DEF IndicesArePartitioned, PipeTypeOK
    <2>5. QED
      BY <2>1, <2>2, <2>3, <2>4 DEF IndicesArePartitioned
  <1>8. IndicesAreDistinct'
    <2>1. \A f, g \in live' : index'[f] = index'[g] => f = g
      BY <1>2, <1>4, <1>6 DEF IndicesAreDistinct
    <2>2. \A f \in live', a \in DOMAIN data' : index'[f] \in DOMAIN data'[a]
      <3>1. SUFFICES ASSUME NEW f \in live', NEW a \in DOMAIN data'
                     PROVE  index'[f] \in Indices(containerSize')
        BY <1>5 DEF PipeTypeOK
      <3>2. index'[f] \in Nat
        BY <1>5, <3>1 DEF PipeTypeOK
      <3>3. index'[f] < containerSize'
        <4>1. index'[f] < numDataEntries' /\ numDataEntries' <= containerSize'
          BY <1>7, <3>1 DEF IndicesArePartitioned
        <4>2. numDataEntries' \in Nat /\ containerSize' \in Nat
          BY <1>5 DEF PipeTypeOK
        <4>3. QED
          BY <3>2, <4>1, <4>2
      <3>4. QED
        BY <3>2, <3>3, <1>5 DEF Indices, PipeTypeOK
    <2>3. QED
      BY <2>1, <2>2 DEF IndicesAreDistinct
  <1>9. UnusedEntriesAreDefault'
    BY <1>1, <1>2, <1>4 DEF UnusedEntriesAreDefault, PipeTypeOK
  <1>10. QED
    BY <1>3, <1>5, <1>7, <1>8, <1>9

LEMMA RegisterNewInv ==
    ASSUME PipeIndInv, NEW e \in Elems, RegisterNew(e)
    PROVE  PipeIndInv'
  <1> DEFINE size == GrownSize(numDataEntries + 1)
  <1> USE DEF PipeIndInv, PipeInv
  <1>1. /\ size \in Nat /\ size >= numDataEntries + 1 /\ size >= containerSize
        /\ numDataEntries \in Nat
    BY GrownSizeIsEnough DEF PipeTypeOK
  <1>2. /\ live' = live \cup {e}
        /\ index' = [index EXCEPT ![e] = numDataEntries]
        /\ numDataEntries' = numDataEntries + 1
        /\ containerSize' = size
        /\ numElements' = numElements + 1
        /\ free = <<>> /\ free' = <<>>
        /\ e \notin live
    BY DEF RegisterNew
  <1>3. IsFiniteSet(live') /\ Cardinality(live') = Cardinality(live) + 1
    BY FS_AddElement, <1>2
  <1>4. /\ DOMAIN data' = DOMAIN data
        /\ \A a \in DOMAIN data :
              /\ data'[a] \in [Indices(size) -> Values]
              /\ \A i \in Indices(size) :
                     data'[a][i] = IF i < containerSize THEN data[a][i] ELSE Default[a]
    <2>1. CASE size = containerSize
      BY <2>1 DEF RegisterNew, PipeTypeOK, Indices
    <2>2. CASE size # containerSize
      <3>1. data' = ResizedContainers(size)
        BY <2>2 DEF RegisterNew
      <3>2. SUFFICES ASSUME NEW a \in DOMAIN data
                     PROVE  /\ data'[a] \in [Indices(size) -> Values]
                            /\ \A i \in Indices(size) :
                                  data'[a][i] = IF i < containerSize THEN data[a][i]
                                                ELSE Default[a]
        BY <3>1 DEF ResizedContainers
      <3>3. /\ data[a] \in [Indices(containerSize) -> Values] /\ Default[a] \in Values
            /\ containerSize \in Nat
        BY PipeAssumption DEF PipeTypeOK
      <3>4. data'[a] = Resized(data[a], Default[a], size)
        BY <3>1, <3>2 DEF ResizedContainers
      <3>5. QED
        BY <3>3, <3>4, <1>1, ResizedKeeps
    <2>3. QED
      BY <2>1, <2>2
  <1>5. PipeTypeOK'
    BY <1>1, <1>2, <1>4 DEF PipeTypeOK
  <1>6. \A f \in live' : index'[f] = IF f = e THEN numDataEntries ELSE index[f]
    BY <1>2 DEF PipeTypeOK
  <1>7. IndicesArePartitioned'
    <2>1. \A f \in live' : index'[f] < numDataEntries'
      <3>1. SUFFICES ASSUME NEW f \in live'
                     PROVE  index'[f] < numDataEntries + 1
        BY <1>2
      <3>2. CASE f = e
        BY <3>2, <1>1, <1>6
      <3>3. CASE f # e
        <4>1. index'[f] = index[f] /\ index[f] < numDataEntries /\ index[f] \in Nat
          BY <3>3, <1>2, <1>6 DEF IndicesArePartitioned, PipeTypeOK
        <4>2. QED
          BY <4>1, <1>1
      <3>4. QED
        BY <3>2, <3>3
    <2>2. /\ numElements' = Cardinality(live')
          /\ numElements' + Len(free') = numDataEntries'
          /\ numDataEntries' <= containerSize'
      BY <1>1, <1>2, <1>3 DEF IndicesArePartitioned, PipeTypeOK
    <2>3. QED
      BY <2>1, <2>2, <1>2 DEF IndicesArePartitioned
  <1>8. IndicesAreDistinct'
    <2>1. \A f, g \in live' : index'[f] = index'[g] => f = g
      <3>1. \A f \in live : index[f] # numDataEntries
        BY <1>1 DEF IndicesArePartitioned, PipeTypeOK
      <3>2. QED
        BY <3>1, <1>2, <1>6 DEF IndicesAreDistinct
    <2>2. \A f \in live', a \in DOMAIN data' : index'[f] \in DOMAIN data'[a]
      <3>1. SUFFICES ASSUME NEW f \in live', NEW a \in DOMAIN data'
                     PROVE  index'[f] \in Indices(containerSize')
        BY <1>5 DEF PipeTypeOK
      <3>2. index'[f] \in Nat
        BY <1>5, <3>1 DEF PipeTypeOK
      <3>3. index'[f] < containerSize'
        <4>1. index'[f] < numDataEntries' /\ numDataEntries' <= containerSize'
          BY <1>7, <3>1 DEF IndicesArePartitioned
        <4>2. numDataEntries' \in Nat /\ containerSize' \in Nat
          BY <1>5 DEF PipeTypeOK
        <4>3. QED
          BY <3>2, <4>1, <4>2
      <3>4. QED
        BY <3>2, <3>3, <1>5 DEF Indices, PipeTypeOK
    <2>3. QED
      BY <2>1, <2>2 DEF IndicesAreDistinct
  <1>9. UnusedEntriesAreDefault'
    <2>1. SUFFICES ASSUME NEW a \in DOMAIN data, NEW i \in numDataEntries + 1 .. size - 1
                   PROVE  data'[a][i] = Default[a]
      BY <1>2, <1>4 DEF UnusedEntriesAreDefault
    <2>2. i \in Indices(size) /\ i \in Int /\ i >= numDataEntries
      BY <1>1 DEF Indices
    <2>3. CASE i < containerSize
      <3>1. i \in numDataEntries .. containerSize - 1
        BY <2>2, <2>3, <1>1 DEF PipeTypeOK
      <3>2. QED
        BY <3>1, <2>2, <2>3, <1>4 DEF UnusedEntriesAreDefault
    <2>4. CASE ~(i < containerSize)
      BY <2>2, <2>4, <1>4
    <2>5. QED
      BY <2>3, <2>4
  <1>10. QED
    BY <1>3, <1>5, <1>7, <1>8, <1>9

LEMMA UnregisterElementInv ==
    ASSUME PipeIndInv, NEW e \in Elems, UnregisterElement(e)
    PROVE  PipeIndInv'
  <1> USE DEF PipeIndInv, PipeInv
  <1>1. /\ live' = live \ {e} /\ e \in live
        /\ free' = Append(free, index[e])
        /\ numElements' = numElements - 1
        /\ UNCHANGED <<index, numDataEntries, containerSize, data>>
    BY DEF UnregisterElement
  <1>2. /\ IsFiniteSet(live') /\ Cardinality(live') = Cardinality(live) - 1
        /\ Cardinality(live) \in Nat
    BY FS_RemoveElement, FS_CardinalityType, <1>1
  <1>3. Cardinality(live) # 0
    BY FS_EmptySet, <1>1
  <1>4. /\ free' \in Seq(Nat)
        /\ DOMAIN free = 1 .. Len(free) /\ Len(free) \in Nat
        /\ Len(free') = Len(free) + 1
        /\ DOMAIN free' = 1 .. Len(free) + 1
        /\ \A k \in 1 .. Len(free) : free'[k] = free[k]
        /\ free'[Len(free) + 1] = index[e]
    BY <1>1, AppendProperties DEF PipeTypeOK
  <1>5. PipeTypeOK'
    BY <1>1, <1>2, <1>3, <1>4 DEF PipeTypeOK, IndicesArePartitioned
  <1>6. IndicesArePartitioned'
    <2>1. \A k \in DOMAIN free' : k \in 1 .. Len(free) \/ k = Len(free) + 1
      BY <1>4
    <2>2. /\ \A f \in live' : index'[f] < numDataEntries'
          /\ \A k \in DOMAIN free' : free'[k] < numDataEntries'
      BY <2>1, <1>1, <1>4 DEF IndicesArePartitioned
    <2>3. \A f \in live', k \in DOMAIN free' : index'[f] # free'[k]
      BY <2>1, <1>1, <1>4 DEF IndicesArePartitioned, IndicesAreDistinct
    <2>4. \A j, k \in DOMAIN free' : free'[j] = free'[k] => j = k
      BY <2>1, <1>1, <1>4 DEF IndicesArePartitioned
    <2>5. /\ numElements' = Cardinality(live')
          /\ numElements' + Len(free') = numDataEntries'
          /\ numDataEntries' <= containerSize'
      BY <1>1, <1>2, <1>4 DEF IndicesArePartitioned, PipeTypeOK
    <2>6. QED
      BY <2>2, <2>3, <2>4, <2>5 DEF IndicesArePartitioned
  <1>7. IndicesAreDistinct'
    BY <1>1 DEF IndicesAreDistinct
  <1>8. UnusedEntriesAreDefault'
    BY <1>1 DEF UnusedEntriesAreDefault
  <1>9. QED
    BY <1>2, <1>5, <1>6, <1>7, <1>8

\* Attaching, detaching and writing only concern the arrays.
LEMMA DataStepInv ==
    ASSUME PipeIndInv,
           UNCHANGED <<live, index, free, numElements, numDataEntries, containerSize>>,
           DOMAIN data' \subseteq Attachments,
           \A a \in DOMAIN data' :
              /\ data'[a] \in [Indices(containerSize) -> Values]
              /\ \A i \in numDataEntries .. containerSize - 1 : data'[a][i] = Default[a]
    PROVE  PipeIndInv'
  <1> USE DEF PipeIndInv, PipeInv
  <1>1. PipeTypeOK'
    BY DEF PipeTypeOK
  <1>2. IndicesArePartitioned'
    BY DEF IndicesArePartitioned
  <1>3. IndicesAreDistinct'
    <2>1. SUFFICES ASSUME NEW f \in live, NEW a \in DOMAIN data'
                   PROVE  index[f] \in Indices(containerSize)
      BY DEF IndicesAreDistinct
    <2>2. index[f] \in Nat /\ index[f] < numDataEntries /\ numDataEntries <= containerSize
      BY DEF PipeTypeOK, IndicesArePartitioned
    <2>3. QED
      BY <2>2 DEF Indices, PipeTypeOK
  <1>4. UnusedEntriesAreDefault'
    BY DEF UnusedEntriesAreDefault
  <1>5. QED
    BY <1>1, <1>2, <1>3, <1>4

LEMMA AttachInv ==
    ASSUME PipeIndInv, NEW a \in Attachments, Attach(a)
    PROVE  PipeIndInv'
  <1>1. Default[a] \in Values /\ containerSize \in Nat /\ numDataEntries \in Nat
    BY PipeAssumption DEF PipeIndInv, PipeInv, PipeTypeOK
  <1>2. ASSUME NEW b \in DOMAIN data'
        PROVE  /\ data'[b] \in [Indices(containerSize) -> Values]
               /\ \A i \in numDataEntries .. containerSize - 1 : data'[b][i] = Default[b]
    <2>1. CASE b = a
      <3>1. data'[b] = [i \in Indices(containerSize) |-> Default[a]]
        BY <2>1, <1>2 DEF Attach
      <3>2. QED
        BY <3>1, <2>1, <1>1 DEF Indices
    <2>2. CASE b # a
      <3>1. b \in DOMAIN data /\ data'[b] = data[b]
        BY <2>2, <1>2 DEF Attach
      <3>2. QED
        BY <3>1 DEF PipeIndInv, PipeInv, PipeTypeOK, UnusedEntriesAreDefault
    <2>3. QED
      BY <2>1, <2>2
  <1>3. DOMAIN data' \subseteq Attachments
    BY DEF Attach, PipeIndInv, PipeInv, PipeTypeOK
  <1>4. QED
    BY <1>2, <1>3, DataStepInv DEF Attach

LEMMA DetachInv ==
    ASSUME PipeIndInv, NEW a \in Attachments, Detach(a)
    PROVE  PipeIndInv'
  <1>1. \A b \in DOMAIN data' :
           /\ b \in Attachments
           /\ data'[b] \in [Indices(containerSize) -> Values]
           /\ \A i \in numDataEntries .. containerSize - 1 : data'[b][i] = Default[b]
    BY DEF Detach, PipeIndInv, PipeInv, PipeTypeOK, UnusedEntriesAreDefault
  <1>2. QED
    BY <1>1, DataStepInv DEF Detach

LEMMA ClearAttachmentsInv ==
    ASSUME PipeIndInv, ClearAttachments
    PROVE  PipeIndInv'
  BY DataStepInv DEF ClearAttachments

LEMMA WriteInv ==
    ASSUME PipeIndInv, NEW a \in Attachments, NEW e \in Elems, NEW v \in Values,
           Write(a, e, v)
    PROVE  PipeIndInv'
  <1>1. /\ index[e] \in Indices(containerSize) /\ index[e] < numDataEntries
        /\ index[e] \in Nat /\ numDataEntries \in Nat
    BY DEF PipeIndInv, PipeInv, PipeTypeOK, IndicesAreDistinct, IndicesArePartitioned, Write
  <1>2. /\ a \in DOMAIN data /\ DOMAIN data' = DOMAIN data
        /\ data'[a] = [data[a] EXCEPT ![index[e]] = v]
        /\ \A b \in DOMAIN data : b # a => data'[b] = data[b]
    BY DEF Write
  <1>3. ASSUME NEW b \in DOMAIN data'
        PROVE  /\ data'[b] \in [Indices(containerSize) -> Values]
               /\ \A i \in numDataEntries .. containerSize - 1 : data'[b][i] = Default[b]
    <2>1. /\ data[b] \in [Indices(containerSize) -> Values]
          /\ \A i \in numDataEntries .. containerSize - 1 : data[b][i] = Default[b]
      BY <1>2, <1>3 DEF PipeIndInv, PipeInv, PipeTypeOK, UnusedEntriesAreDefault
    <2>2. CASE b = a
      <3>1. \A i \in numDataEntries .. containerSize - 1 : i # index[e]
        BY <1>1
      <3>2. data'[b] = [data[b] EXCEPT ![index[e]] = v]
        BY <2>2, <1>2
      <3>3. data'[b] \in [Indices(containerSize) -> Values]
        BY <3>2, <2>1
      <3>4. ASSUME NEW i \in numDataEntries .. containerSize - 1
            PROVE  data'[b][i] = data[b][i]
        <4>1. i \in Indices(containerSize) /\ i # index[e]
          BY <3>1, <1>1 DEF Indices
        <4>2. QED
          BY <4>1, <3>2, <2>1
      <3>5. QED
        BY <3>3, <3>4, <2>1
    <2>3. CASE b # a
      BY <2>1, <2>3, <1>2
    <2>4. QED
      BY <2>2, <2>3
  <1>4. DOMAIN data' \subseteq Attachments
    BY <1>2 DEF PipeIndInv, PipeInv, PipeTypeOK
  <1>5. QED
    BY <1>3, <1>4, DataStepInv DEF Write

LEMMA ReserveInv ==
    ASSUME PipeIndInv, NEW size \in Sizes, Reserve(size)
    PROVE  PipeIndInv'
  <1> USE DEF PipeIndInv, PipeInv
  <1>1. /\ size \in Nat /\ containerSize \in Nat /\ numDataEntries \in Nat
        /\ size > containerSize
        /\ containerSize' = size
        /\ data' = ResizedContainers(size)
        /\ UNCHANGED <<live, index, free, numElements, numDataEntries>>
    BY PipeAssumption DEF Reserve, PipeTypeOK
  <1>2. /\ DOMAIN data' = DOMAIN data
        /\ \A a \in DOMAIN data : data'[a] = Resized(data[a], Default[a], size)
    BY <1>1 DEF ResizedContainers
  <1>3. ASSUME NEW a \in DOMAIN data
        PROVE  /\ data'[a] \in [Indices(size) -> Values]
               /\ \A i \in Indices(size) :
                      data'[a][i] = IF i < containerSize THEN data[a][i] ELSE Default[a]
    <2>1. data[a] \in [Indices(containerSize) -> Values] /\ Default[a] \in Values
      BY PipeAssumption DEF PipeTypeOK
    <2>2. QED
      BY <2>1, <1>1, <1>2, ResizedKeeps
  <1>4. PipeTypeOK'
    BY <1>1, <1>2, <1>3 DEF PipeTypeOK
  <1>5. IndicesArePartitioned'
    BY <1>1 DEF IndicesArePartitioned
  <1>6. IndicesAreDistinct'
    <2>1. SUFFICES ASSUME NEW f \in live, NEW a \in DOMAIN data
                   PROVE  index[f] \in Indices(size)
      BY <1>1, <1>2, <1>3 DEF IndicesAreDistinct
    <2>2. index[f] \in Nat /\ index[f] < numDataEntries /\ numDataEntries <= containerSize
      BY DEF PipeTypeOK, IndicesArePartitioned
    <2>3. QED
      BY <2>2, <1>1 DEF Indices
  <1>7. UnusedEntriesAreDefault'
    <2>1. SUFFICES ASSUME NEW a \in DOMAIN data, NEW i \in numDataEntries .. size - 1
                   PROVE  data'[a][i] = Default[a]
      BY <1>1, <1>2 DEF UnusedEntriesAreDefault
    <2>2. i \in Indices(size) /\ i \in Int /\ i >= numDataEntries
      BY <1>1 DEF Indices
    <2>3. i < containerSize => i \in numDataEntries .. containerSize - 1
      BY <2>2, <1>1
    <2>4. QED
      BY <2>2, <2>3, <1>3 DEF UnusedEntriesAreDefault
  <1>8. QED
    BY <1>1, <1>4, <1>5, <1>6, <1>7

LEMMA ForgetElementsInv ==
    ASSUME PipeIndInv, ForgetElements,
           DOMAIN data' \subseteq Attachments,
           \A a \in DOMAIN data' : data'[a] \in [Indices(0) -> Values]
    PROVE  PipeIndInv'
  <1>1. IsFiniteSet({}) /\ Cardinality({}) = 0
    BY FS_EmptySet
  <1>2. QED
    BY <1>1 DEF ForgetElements, PipeIndInv, PipeInv, PipeTypeOK, IndicesArePartitioned,
                IndicesAreDistinct, UnusedEntriesAreDefault

LEMMA ClearElementsInv ==
    ASSUME PipeIndInv, ClearElements
    PROVE  PipeIndInv'
  <1>1. ASSUME NEW a \in DOMAIN data
        PROVE  data'[a] \in [Indices(0) -> Values]
    <2>1. /\ data[a] \in [Indices(containerSize) -> Values] /\ Default[a] \in Values
          /\ containerSize \in Nat /\ 0 \in Nat
      BY PipeAssumption DEF PipeIndInv, PipeInv, PipeTypeOK
    <2>2. data'[a] = Resized(data[a], Default[a], 0)
      BY DEF ClearElements, ResizedContainers
    <2>3. Resized(data[a], Default[a], 0) \in [Indices(0) -> Values]
      BY <2>1, ResizedKeeps
    <2>4. QED
      BY <2>2, <2>3
  <1>2. DOMAIN data' = DOMAIN data
    BY DEF ClearElements, ResizedContainers
  <1>3. QED
    BY <1>1, <1>2, ForgetElementsInv DEF ClearElements, PipeIndInv, PipeInv, PipeTypeOK

LEMMA ClearInv ==
    ASSUME PipeIndInv, Clear
    PROVE  PipeIndInv'
  BY ForgetElementsInv DEF Clear

LEMMA PipeStepInv == PipeIndInv /\ [PipeNext]_pipeVars => PipeIndInv'
  <1> SUFFICES ASSUME PipeIndInv, [PipeNext]_pipeVars
               PROVE  PipeIndInv'
    OBVIOUS
  <1>1. ASSUME NEW e \in Elems, RegisterElement(e)
        PROVE  PipeIndInv'
    BY <1>1, RegisterReusedInv, RegisterNewInv DEF RegisterElement
  <1>2. ASSUME NEW e \in Elems, UnregisterElement(e)
        PROVE  PipeIndInv'
    BY <1>2, UnregisterElementInv
  <1>3. ASSUME NEW a \in Attachments, Attach(a) \/ Detach(a)
        PROVE  PipeIndInv'
    BY <1>3, AttachInv, DetachInv
  <1>4. ASSUME NEW a \in Attachments, NEW e \in Elems, NEW v \in Values, Write(a, e, v)
        PROVE  PipeIndInv'
    BY <1>4, WriteInv
  <1>5. ASSUME NEW size \in Sizes, Reserve(size)
        PROVE  PipeIndInv'
    BY <1>5, ReserveInv
  <1>6. CASE ClearElements \/ ClearAttachments \/ Clear
    BY <1>6, ClearElementsInv, ClearAttachmentsInv, ClearInv
  <1>7. CASE UNCHANGED pipeVars
    BY <1>7 DEF pipeVars, PipeIndInv, PipeInv, PipeTypeOK, IndicesArePartitioned,
                IndicesAreDistinct, UnusedEntriesAreDefault
  <1>8. QED
    BY <1>1, <1>2, <1>3, <1>4, <1>5, <1>6, <1>7 DEF PipeNext

\* At any time the variables of a pipe have their types, the indices of the
\* registered elements and those on the stack are the entries in use, each once,
\* and entries never given out hold the default (attachment_pipe.hpp:131-171).
THEOREM PipeInvariant == PipeSpec => []PipeInv
  <1>1. PipeSpec => []PipeIndInv
    BY PipeInitInv, PipeStepInv, PTL DEF PipeSpec
  <1>2. PipeIndInv => PipeInv
    BY DEF PipeIndInv
  <1>3. QED
    BY <1>1, <1>2, PTL

\* Entries that were not given out since the arrays were last cleared hold the
\* default, which register_element() relies on: it only resets entries that it takes
\* from the stack (attachment_pipe.hpp:143).
THEOREM PipeUnusedAreDefault == PipeSpec => []UnusedEntriesAreDefault
  <1>1. PipeInv => UnusedEntriesAreDefault
    BY DEF PipeInv
  <1>2. QED
    BY <1>1, PipeInvariant, PTL

\* No two registered elements share an entry of the arrays, and every array has
\* an entry for every registered element.
THEOREM PipeIndicesDistinct == PipeSpec => []IndicesAreDistinct
  <1>1. PipeInv => IndicesAreDistinct
    BY DEF PipeInv
  <1>2. QED
    BY <1>1, PipeInvariant, PTL

------------------------------------------------------------------------------
(* Refinement *)

\* The cell of an element and an attachment.
Cells == [a \in DOMAIN data |-> [e \in live |-> data[a][index[e]]]]

\* A step that leaves the registered elements and all their cells alone.
LEMMA SameCells ==
    ASSUME live' = live, DOMAIN data' = DOMAIN data,
           \A a \in DOMAIN data, e \in live : data'[a][index'[e]] = data[a][index[e]]
    PROVE  Cells' = Cells
  BY DEF Cells

LEMMA RegisterRefines ==
    ASSUME PipeIndInv, NEW e \in Elems, RegisterElement(e)
    PROVE  /\ e \notin live /\ live' = live \cup {e}
           /\ Cells' = [a \in DOMAIN Cells |->
                 [f \in live \cup {e} |-> IF f = e THEN Default[a] ELSE Cells[a][f]]]
  <1> USE DEF PipeIndInv, PipeInv
  <1>1. e \notin live /\ live' = live \cup {e}
    BY DEF RegisterElement, RegisterReused, RegisterNew
  <1>2. /\ DOMAIN data' = DOMAIN data
        /\ \A a \in DOMAIN data : \A f \in live' :
              data'[a][index'[f]] = IF f = e THEN Default[a] ELSE data[a][index[f]]
    <2>1. CASE RegisterReused(e)
      <3> DEFINE top == free[Len(free)]
      <3>1. /\ index' = [index EXCEPT ![e] = top]
            /\ data' = [a \in DOMAIN data |-> [data[a] EXCEPT ![top] = Default[a]]]
        BY <2>1 DEF RegisterReused
      <3>2. Len(free) \in DOMAIN free /\ top \in Nat
        BY <2>1, PopStack DEF RegisterReused, PipeTypeOK
      <3>3. top < numDataEntries /\ \A f \in live : index[f] # top
        BY <3>2 DEF IndicesArePartitioned
      <3>4. top \in Indices(containerSize)
        BY <3>2, <3>3 DEF IndicesArePartitioned, PipeTypeOK, Indices
      <3>5. ASSUME NEW a \in DOMAIN data, NEW f \in live'
            PROVE  data'[a][index'[f]] = IF f = e THEN Default[a] ELSE data[a][index[f]]
        <4>1. /\ data[a] \in [Indices(containerSize) -> Values]
              /\ data'[a] = [data[a] EXCEPT ![top] = Default[a]]
          BY <3>1 DEF PipeTypeOK
        <4>2. CASE f = e
          <5>1. index'[f] = top
            BY <4>2, <3>1 DEF PipeTypeOK
          <5>2. QED
            BY <5>1, <4>1, <4>2, <3>4
        <4>3. CASE f # e
          <5>1. f \in live /\ index'[f] = index[f] /\ index[f] # top
            BY <4>3, <3>1, <3>3, <3>5, <1>1 DEF PipeTypeOK
          <5>2. index[f] \in DOMAIN data[a]
            BY <5>1 DEF IndicesAreDistinct
          <5>3. QED
            BY <5>1, <5>2, <4>1, <4>3
        <4>4. QED
          BY <4>2, <4>3
      <3>6. QED
        BY <3>1, <3>5
    <2>2. CASE RegisterNew(e)
      <3> DEFINE size == GrownSize(numDataEntries + 1)
      <3>1. /\ size \in Nat /\ size >= numDataEntries + 1 /\ size >= containerSize
            /\ numDataEntries \in Nat /\ containerSize \in Nat
        <4>1. /\ numDataEntries \in Nat /\ containerSize \in Nat
              /\ numDataEntries + 1 \in Nat
          BY DEF PipeTypeOK
        <4>2. QED
          BY <4>1, GrownSizeIsEnough
      <3>2. index' = [index EXCEPT ![e] = numDataEntries]
        BY <2>2 DEF RegisterNew
      <3>3. /\ DOMAIN data' = DOMAIN data
            /\ \A a \in DOMAIN data : \A i \in Indices(size) :
                    data'[a][i] = IF i < containerSize THEN data[a][i] ELSE Default[a]
        <4>1. CASE size = containerSize
          <5>1. data' = data
            BY <4>1, <2>2 DEF RegisterNew
          <5>2. \A i \in Indices(size) : i < containerSize
            BY <4>1, <3>1 DEF Indices
          <5>3. QED
            BY <5>1, <5>2
        <4>2. CASE size # containerSize
          <5>1. data' = ResizedContainers(size)
            BY <4>2, <2>2 DEF RegisterNew
          <5>2. DOMAIN data' = DOMAIN data
            BY <5>1 DEF ResizedContainers
          <5>3. ASSUME NEW a \in DOMAIN data
                PROVE  \A i \in Indices(size) :
                          data'[a][i] = IF i < containerSize THEN data[a][i] ELSE Default[a]
            <6>1. data[a] \in [Indices(containerSize) -> Values] /\ Default[a] \in Values
              BY PipeAssumption DEF PipeTypeOK
            <6>2. data'[a] = Resized(data[a], Default[a], size)
              BY <5>1 DEF ResizedContainers
            <6>3. QED
              BY <6>1, <6>2, <3>1, ResizedKeeps
          <5>4. QED
            BY <5>2, <5>3
        <4>3. QED
          BY <4>1, <4>2
      <3>4. ASSUME NEW a \in DOMAIN data, NEW f \in live'
            PROVE  data'[a][index'[f]] = IF f = e THEN Default[a] ELSE data[a][index[f]]
        <4>1. CASE f = e
          <5>1. index'[f] = numDataEntries
            BY <4>1, <3>2 DEF PipeTypeOK
          <5>2. numDataEntries \in Indices(size)
            BY <3>1 DEF Indices
          <5>3. CASE numDataEntries < containerSize
            <6>1. data[a][numDataEntries] = Default[a]
              BY <5>3, <3>1 DEF UnusedEntriesAreDefault
            <6>2. QED
              BY <6>1, <5>1, <5>2, <5>3, <3>3, <4>1
          <5>4. CASE ~(numDataEntries < containerSize)
            BY <5>1, <5>2, <5>4, <3>3, <4>1
          <5>5. QED
            BY <5>3, <5>4
        <4>2. CASE f # e
          <5>1. f \in live /\ index'[f] = index[f] /\ index[f] \in Nat
            BY <4>2, <3>2, <3>4, <1>1 DEF PipeTypeOK
          <5>2. index[f] < containerSize /\ index[f] \in Indices(size)
            BY <5>1, <3>1 DEF IndicesArePartitioned, Indices
          <5>3. QED
            BY <5>1, <5>2, <3>3, <4>2
        <4>3. QED
          BY <4>1, <4>2
      <3>5. QED
        BY <3>3, <3>4
    <2>3. QED
      BY <2>1, <2>2 DEF RegisterElement
  <1>3. DOMAIN Cells = DOMAIN data
    BY DEF Cells
  <1>4. Cells' = [a \in DOMAIN data |->
                    [f \in live \cup {e} |-> IF f = e THEN Default[a] ELSE Cells[a][f]]]
    <2>1. \A a \in DOMAIN data, f \in live : Cells[a][f] = data[a][index[f]]
      BY DEF Cells
    <2>2. Cells' = [a \in DOMAIN data |-> [f \in live \cup {e} |-> data'[a][index'[f]]]]
      BY <1>1, <1>2 DEF Cells
    <2>3. \A a \in DOMAIN data : \A f \in live \cup {e} :
             data'[a][index'[f]] = IF f = e THEN Default[a] ELSE Cells[a][f]
      BY <1>1, <1>2, <2>1
    <2>4. \A a \in DOMAIN data :
             [f \in live \cup {e} |-> data'[a][index'[f]]]
           = [f \in live \cup {e} |-> IF f = e THEN Default[a] ELSE Cells[a][f]]
      BY <2>3
    <2>5. QED
      BY <2>2, <2>4
  <1>5. QED
    BY <1>1, <1>3, <1>4

LEMMA UnregisterRefines ==
    ASSUME NEW e \in Elems, UnregisterElement(e)
    PROVE  /\ e \in live /\ live' = live \ {e}
           /\ Cells' = [a \in DOMAIN Cells |-> [f \in live \ {e} |-> Cells[a][f]]]
  BY DEF UnregisterElement, Cells

LEMMA AttachRefines ==
    ASSUME PipeIndInv, NEW a \in Attachments, Attach(a)
    PROVE  /\ a \in Attachments \ DOMAIN Cells /\ live' = live
           /\ Cells' = [b \in DOMAIN Cells \cup {a} |->
                  IF b = a THEN [f \in live |-> Default[a]] ELSE Cells[b]]
  <1>1. /\ a \notin DOMAIN data /\ UNCHANGED <<live, index>>
        /\ data' = [b \in DOMAIN data \cup {a} |->
               IF b = a THEN [i \in Indices(containerSize) |-> Default[a]] ELSE data[b]]
    BY DEF Attach
  <1>2. \A f \in live : index[f] \in Indices(containerSize)
    BY DEF PipeIndInv, PipeInv, PipeTypeOK, IndicesArePartitioned, Indices
  <1>3. DOMAIN Cells = DOMAIN data
    BY DEF Cells
  <1>4. Cells' = [b \in DOMAIN data \cup {a} |-> [f \in live |-> data'[b][index[f]]]]
    BY <1>1 DEF Cells
  <1>5. ASSUME NEW b \in DOMAIN data \cup {a}
        PROVE  [f \in live |-> data'[b][index[f]]]
             = IF b = a THEN [f \in live |-> Default[a]] ELSE Cells[b]
    BY <1>1, <1>2 DEF Cells
  <1>6. QED
    BY <1>1, <1>3, <1>4, <1>5

LEMMA DetachRefines ==
    ASSUME NEW a \in Attachments, Detach(a)
    PROVE  /\ a \in DOMAIN Cells /\ live' = live
           /\ Cells' = [b \in DOMAIN Cells \ {a} |-> Cells[b]]
  BY DEF Detach, Cells

LEMMA WriteRefines ==
    ASSUME PipeIndInv, NEW a \in Attachments, NEW e \in Elems, NEW v \in Values,
           Write(a, e, v)
    PROVE  /\ a \in DOMAIN Cells /\ e \in live /\ live' = live
           /\ Cells' = [b \in DOMAIN Cells |->
                  [f \in live |-> IF b = a /\ f = e THEN v ELSE Cells[b][f]]]
  <1>1. /\ a \in DOMAIN data /\ e \in live /\ UNCHANGED <<live, index>>
        /\ DOMAIN data' = DOMAIN data
        /\ data'[a] = [data[a] EXCEPT ![index[e]] = v]
        /\ \A b \in DOMAIN data : b # a => data'[b] = data[b]
    BY DEF Write
  <1>2. /\ \A f \in live : index[f] \in DOMAIN data[a]
        /\ \A f, g \in live : index[f] = index[g] => f = g
    BY <1>1 DEF PipeIndInv, PipeInv, IndicesAreDistinct
  <1>3. \A b \in DOMAIN data, f \in live :
           data'[b][index[f]] = IF b = a /\ f = e THEN v ELSE data[b][index[f]]
    BY <1>1, <1>2
  <1>4. QED
    BY <1>1, <1>3 DEF Cells

LEMMA ReserveRefines ==
    ASSUME PipeIndInv, NEW size \in Sizes, Reserve(size)
    PROVE  live' = live /\ Cells' = Cells
  <1> USE DEF PipeIndInv, PipeInv
  <1>1. /\ size \in Nat /\ containerSize \in Nat /\ size > containerSize
        /\ data' = ResizedContainers(size)
        /\ UNCHANGED <<live, index>>
    BY PipeAssumption DEF Reserve, PipeTypeOK
  <1>2. ASSUME NEW a \in DOMAIN data, NEW f \in live
        PROVE  data'[a][index'[f]] = data[a][index[f]]
    <2>1. /\ data[a] \in [Indices(containerSize) -> Values] /\ Default[a] \in Values
          /\ data'[a] = Resized(data[a], Default[a], size)
      BY <1>1, PipeAssumption DEF PipeTypeOK, ResizedContainers
    <2>2. index[f] \in Indices(size) /\ index[f] < containerSize
      BY <1>1 DEF PipeTypeOK, IndicesArePartitioned, Indices
    <2>3. QED
      BY <2>1, <2>2, <1>1, ResizedKeeps
  <1>3. DOMAIN data' = DOMAIN data
    BY <1>1 DEF ResizedContainers
  <1>4. QED
    BY <1>1, <1>2, <1>3, SameCells

LEMMA ClearElementsRefines ==
    ASSUME ClearElements
    PROVE  live' = {} /\ Cells' = [a \in DOMAIN Cells |-> [f \in {} |-> Default[a]]]
  <1>1. live' = {} /\ DOMAIN data' = DOMAIN data /\ DOMAIN Cells = DOMAIN data
    BY DEF ClearElements, ForgetElements, ResizedContainers, Cells
  <1>2. Cells' = [a \in DOMAIN data |-> [f \in {} |-> data'[a][index'[f]]]]
    BY <1>1 DEF Cells
  <1>3. \A a \in DOMAIN data : [f \in {} |-> data'[a][index'[f]]] = [f \in {} |-> Default[a]]
    OBVIOUS
  <1>4. QED
    BY <1>1, <1>2, <1>3

LEMMA ClearAttachmentsRefines ==
    ASSUME ClearAttachments
    PROVE  live' = live /\ Cells' = [a \in {} |-> {}]
  <1>1. live' = live /\ DOMAIN data' = {}
    BY DEF ClearAttachments
  <1>2. QED
    BY <1>1 DEF Cells

LEMMA ClearRefines ==
    ASSUME Clear
    PROVE  live' = {} /\ Cells' = [a \in {} |-> {}]
  <1>1. live' = {} /\ DOMAIN data' = {}
    BY DEF Clear, ForgetElements
  <1>2. QED
    BY <1>1 DEF Cells

\* The pipe behaves as a table with a cell for every registered element and
\* every attachment, whatever is reserved, grown and reused below.
THEOREM PipeIsElementTable == PipeSpec => ImplementsElementTable
  <1>1. PipeInit => Table!TableInit
    BY DEF PipeInit, Table!TableInit
  <1>2. PipeIndInv /\ [PipeNext]_pipeVars => [Table!TableNext]_(Table!tableVars)
    <2> SUFFICES ASSUME PipeIndInv, [PipeNext]_pipeVars
                 PROVE  Table!TableNext \/ UNCHANGED <<live, Cells>>
      BY DEF Table!tableVars, Cells
    <2>1. ASSUME NEW e \in Elems, RegisterElement(e)
          PROVE  Table!Register(e)
      BY <2>1, RegisterRefines DEF Table!Register, Cells
    <2>2. ASSUME NEW e \in Elems, UnregisterElement(e)
          PROVE  Table!Unregister(e)
      BY <2>2, UnregisterRefines DEF Table!Unregister, Cells
    <2>3. ASSUME NEW a \in Attachments, Attach(a)
          PROVE  Table!Attach(a)
      BY <2>3, AttachRefines DEF Table!Attach, Cells
    <2>4. ASSUME NEW a \in Attachments, Detach(a)
          PROVE  Table!Detach(a)
      BY <2>4, DetachRefines DEF Table!Detach, Cells
    <2>5. ASSUME NEW a \in Attachments, NEW e \in Elems, NEW v \in Values, Write(a, e, v)
          PROVE  Table!Write(a, e, v)
      BY <2>5, WriteRefines DEF Table!Write, Cells
    <2>6. ASSUME NEW size \in Sizes, Reserve(size)
          PROVE  UNCHANGED <<live, Cells>>
      BY <2>6, ReserveRefines
    <2>7. CASE ClearElements
      BY <2>7, ClearElementsRefines DEF Table!TableNext, Table!ClearElements, Cells
    <2>8. CASE ClearAttachments
      BY <2>8, ClearAttachmentsRefines DEF Table!TableNext, Table!ClearAttachments, Cells
    <2>9. CASE Clear
      BY <2>9, ClearRefines DEF Table!TableNext, Table!ClearTable, Cells
    <2>10. CASE UNCHANGED pipeVars
      BY <2>10 DEF pipeVars, Cells
    <2>11. QED
      BY <2>1, <2>2, <2>3, <2>4, <2>5, <2>6, <2>7, <2>8, <2>9, <2>10
      DEF PipeNext, Table!TableNext
  <1>3. PipeSpec => []PipeIndInv
    BY PipeInitInv, PipeStepInv, PTL DEF PipeSpec
  <1>4. QED
    BY <1>1, <1>2, <1>3, PTL DEF PipeSpec, ImplementsElementTable, Table!TableSpec

-----------------------------------------------------------------------------
(* The message hub, for any number of registrations, types and posts       *)
(* within posts.                                                           *)

Used == {r \in Registrations : id[r] # "unused"}
FrameType == [at : Registrations, called : SUBSET Registrations, astray : BOOLEAN]

\* Registrations point at their ids and back.
Linking ==
  /\ linked \cup idHub \cup entryId \subseteq Used
  /\ \A r \in Registrations : id[r] = "held" /\ r \in linked \cup idHub => r \in entryId
  /\ \A r \in idHub \cup entryId : id[r] = "held"

\* Serials order the registrations.
Bounded == \A r \in Used : serial[r] <= Cardinality(Used)
Distinct == \A r, s \in Used : serial[r] = serial[s] => r = s

\* One post: where it stands and what it has called.
CallsUsed(f) == f.at \in Used /\ f.called \subseteq Used
CalledAllBefore(f) ==
  \A r \in EntriesOf(typeOf[f.at]) : serial[r] <= serial[f.at] => r \in f.called
CalledNoneBehind(f) == \A r \in f.called : serial[r] <= serial[f.at]
InOrder(f) == CallsUsed(f) /\ (~f.astray => CalledAllBefore(f) /\ CalledNoneBehind(f))

PostsOK == \A i \in DOMAIN posts, f \in FrameType : f = posts[i] => InOrder(f)

HubInv ==
  /\ HubTypeOK /\ NoDanglingPointers /\ NoCallAfterAutoFree
  /\ Linking /\ Bounded /\ Distinct /\ PostsOK

-----------------------------------------------------------------------------
(* One post.                                                               *)

\* A post is left in order by whatever only removes entries, its own as well.
LEMMA FrameKept ==
  ASSUME HubTypeOK, NEW f \in FrameType, InOrder(f),
         linked' \subseteq linked,
         serial' = serial, typeOf' = typeOf, Used \subseteq Used'
  PROVE  InOrder(f)'
  BY DEF HubTypeOK, FrameType, InOrder, CallsUsed, CalledAllBefore, CalledNoneBehind, EntriesOf

LEMMA PostInOrder ==
  ASSUME HubTypeOK, PostsOK, NEW i \in DOMAIN posts
  PROVE  posts[i] \in FrameType /\ InOrder(posts[i])
<1>1. posts[i] \in FrameType
  <2>1. posts \in Seq(FrameType)
    BY DEF HubTypeOK, FrameType
  <2> QED
    BY <2>1, LenProperties
<1>2. ASSUME NEW f \in FrameType, f = posts[i]
      PROVE  InOrder(f)
  BY <1>2 DEF PostsOK
<1> QED
  BY <1>1, <1>2, Zenon

\* The first of some entries of a type, when all entries of the type in
\* front of them were called, is where a post may stand.
LEMMA FrameOfFirst ==
  ASSUME HubTypeOK, Linking, Distinct,
         NEW r \in linked, NEW S \in SUBSET EntriesOf(typeOf[r]), IsFirst(r, S),
         NEW C \in SUBSET Used,
         \A s \in EntriesOf(typeOf[r]) : s \in S \/ s \in C,
         \A s \in C : serial[s] <= serial[r]
  PROVE  Frame(r, C) \in FrameType /\ InOrder(Frame(r, C))
<1> DEFINE f == Frame(r, C)
<1>1. f.at = r /\ f.called = C \cup {r} /\ f.astray = FALSE
  BY DEF Frame
<1>2. r \in Registrations /\ r \in Used /\ C \subseteq Registrations
  BY DEF HubTypeOK, Linking, Used
<1>3. f \in FrameType
  BY <1>2 DEF Frame, FrameType
<1>4. CallsUsed(f)
  BY <1>1, <1>2 DEF CallsUsed
<1>5. CalledAllBefore(f)
  <2> SUFFICES ASSUME NEW s \in EntriesOf(typeOf[r]), serial[s] <= serial[r], s \notin C
               PROVE  s = r
    BY <1>1 DEF CalledAllBefore
  <2>1. s \in S /\ s \in linked /\ s \in Registrations
    BY DEF EntriesOf, HubTypeOK
  <2>2. serial[r] <= serial[s]
    BY <2>1 DEF IsFirst
  <2>3. serial[r] \in Nat /\ serial[s] \in Nat
    BY <1>2, <2>1 DEF HubTypeOK
  <2>4. serial[r] = serial[s]
    BY <2>2, <2>3
  <2> QED
    BY <1>2, <2>1, <2>4 DEF Distinct, Linking
<1>6. CalledNoneBehind(f)
  <2>1. serial[r] \in Nat
    BY <1>2 DEF HubTypeOK
  <2> QED
    BY <1>1, <2>1 DEF CalledNoneBehind
<1> QED
  BY <1>3, <1>4, <1>5, <1>6 DEF InOrder

\* The posts stay in order when entries go.
LEMMA PostsKept ==
  ASSUME HubTypeOK, PostsOK, posts' = posts, linked' \subseteq linked,
         serial' = serial, typeOf' = typeOf, Used \subseteq Used'
  PROVE  PostsOK'
<1> SUFFICES ASSUME NEW i \in DOMAIN posts, NEW f \in FrameType, f = posts[i]
             PROVE  InOrder(f)'
  BY DEF PostsOK
<1> QED
  BY FrameKept DEF PostsOK

-----------------------------------------------------------------------------
(* The steps.                                                              *)

LEMMA InitHub == ASSUME Init PROVE HubInv
<1>1. HubTypeOK
  <2>1. posts \in Seq([at : Registrations, called : SUBSET Registrations, astray : BOOLEAN])
    BY EmptySeq, Zenon DEF Init
  <2>2. id \in [Registrations -> {"unused", "held", "deleted"}]
    BY DEF Init
  <2>3. serial \in [Registrations -> Nat] /\ autoFree \in [Registrations -> BOOLEAN]
    BY DEF Init
  <2> QED
    BY <2>1, <2>2, <2>3 DEF Init, HubTypeOK
<1>2. NoDanglingPointers /\ NoCallAfterAutoFree /\ Linking /\ Bounded /\ Distinct
  BY DEF Init, NoDanglingPointers, NoCallAfterAutoFree, Linking, Bounded, Distinct, Used
<1>3. PostsOK
  BY DEF Init, PostsOK
<1> QED
  BY <1>1, <1>2, <1>3 DEF HubInv

LEMMA RegisterStep ==
  ASSUME HubInv, NEW r \in Registrations, NEW auto \in BOOLEAN, Register(r, auto)
  PROVE  HubInv'
<1> USE DEF HubInv
<1>2. r \notin Used /\ Used' = Used \cup {r} /\ r \notin linked \cup idHub \cup entryId
  BY DEF Register, HubTypeOK, Used, Linking
<1>3. NoDanglingPointers' /\ NoCallAfterAutoFree' /\ Linking'
  BY <1>2 DEF Register, HubTypeOK, NoDanglingPointers, NoCallAfterAutoFree, Linking
<1>4. /\ Cardinality(Used) \in Nat /\ Cardinality(Used') = Cardinality(Used) + 1
      /\ serial' = [serial EXCEPT ![r] = Cardinality(Used) + 1]
  <2>1. IsFiniteSet(Used)
    BY RegistrationsAssumption, FS_Subset DEF Used
  <2> QED
    BY <1>2, <2>1, FS_AddElement, FS_CardinalityType DEF Register, Used
<1>5. \A s \in Used : serial'[s] = serial[s] /\ serial[s] \in Nat /\ serial[s] < serial'[r]
  <2> SUFFICES ASSUME NEW s \in Used
               PROVE  serial'[s] = serial[s] /\ serial[s] \in Nat /\ serial[s] < serial'[r]
    OBVIOUS
  <2>1. s \in Registrations /\ s # r /\ serial[s] <= Cardinality(Used)
    BY <1>2 DEF Bounded, Used
  <2>2. serial \in [Registrations -> Nat]
    BY DEF HubTypeOK
  <2> HIDE DEF HubInv
  <2>3. serial'[s] = serial[s] /\ serial'[r] = Cardinality(Used) + 1 /\ serial[s] \in Nat
    BY <1>4, <2>1, <2>2
  <2> QED
    BY <1>4, <2>1, <2>3
<1>6. serial'[r] = Cardinality(Used')
  BY <1>4 DEF HubTypeOK
<1>1. HubTypeOK'
  BY <1>4 DEF Register, HubTypeOK
<1>7. Bounded'
  BY <1>2, <1>4, <1>5, <1>6 DEF Bounded
<1>8. Distinct'
  BY <1>2, <1>4, <1>5, <1>6 DEF Distinct
<1>9. PostsOK'
  <2> SUFFICES ASSUME NEW i \in DOMAIN posts, NEW f \in FrameType, f = posts[i]
               PROVE  InOrder(f)'
    BY DEF PostsOK, Register
  <2>1. InOrder(f) /\ f.at \in Used /\ f.at # r
    BY <1>2 DEF PostsOK, InOrder, CallsUsed
  <2>2. CallsUsed(f)'
    BY <1>2, <2>1 DEF InOrder, CallsUsed, Register
  <2>3. ~f.astray => CalledNoneBehind(f)'
    BY <1>5, <2>1 DEF CalledNoneBehind, InOrder, CallsUsed
  <2>4. ~f.astray => CalledAllBefore(f)'
    <3>1. \A s \in linked : s \in Used
      BY DEF Linking
    <3>2. serial'[f.at] = serial[f.at] /\ serial[f.at] \in Nat /\ serial'[r] \in Nat
      BY <1>4, <1>5, <1>6, <2>1
    <3>3. ~(serial'[r] <= serial'[f.at])
      BY <1>5, <2>1, <3>2
    <3>4. \A s \in linked' : s = r \/ s \in linked
      BY DEF Register
    <3> QED
      BY <1>5, <2>1, <3>1, <3>2, <3>3, <3>4
      DEF CalledAllBefore, InOrder, EntriesOf, Register
  <2> QED
    BY <2>2, <2>3, <2>4 DEF InOrder
<1> QED
  BY <1>1, <1>3, <1>7, <1>8, <1>9

LEMMA SetAutoFreeStep ==
  ASSUME HubInv, NEW r \in Registrations, NEW auto \in BOOLEAN, SetAutoFree(r, auto)
  PROVE  HubInv'
<1> USE DEF HubInv
<1>1. HubTypeOK' /\ NoDanglingPointers' /\ NoCallAfterAutoFree'
  BY DEF SetAutoFree, HubTypeOK, NoDanglingPointers, NoCallAfterAutoFree
<1>2. Used' = Used /\ Linking' /\ Bounded' /\ Distinct'
  BY DEF SetAutoFree, Used, Linking, Bounded, Distinct
<1>3. PostsOK'
  BY <1>2, PostsKept DEF SetAutoFree
<1> QED
  BY <1>1, <1>2, <1>3

LEMMA UnregisterStep ==
  ASSUME HubInv, NEW r \in Registrations, Unregister(r)
  PROVE  HubInv'
<1> USE DEF HubInv, Unregister, idVars
<1>1. HubTypeOK' /\ NoDanglingPointers' /\ NoCallAfterAutoFree'
  BY DEF HubTypeOK, NoDanglingPointers, NoCallAfterAutoFree
<1>2. Used' = Used /\ Linking' /\ Bounded' /\ Distinct'
  BY DEF Used, Linking, Bounded, Distinct
<1>3. PostsOK'
  BY <1>2, PostsKept
<1> QED
  BY <1>1, <1>2, <1>3

LEMMA DeleteIdStep ==
  ASSUME HubInv, NEW r \in Registrations, DeleteId(r)
  PROVE  HubInv'
<1> USE DEF HubInv, DeleteId, idVars
<1>1. HubTypeOK'
  BY DEF HubTypeOK
<1>2. Used' = Used
  BY DEF Used, HubTypeOK
<1>3. NoDanglingPointers' /\ NoCallAfterAutoFree' /\ Linking'
  BY <1>2 DEF HubTypeOK, NoDanglingPointers, NoCallAfterAutoFree, Linking
<1>4. Bounded' /\ Distinct'
  BY <1>2 DEF Bounded, Distinct
<1>5. PostsOK'
  <2>1. CASE r \in idHub /\ autoFree[r]
    BY <1>2, <2>1, PostsKept
  <2>2. CASE ~(r \in idHub /\ autoFree[r])
    <3>1. linked' = linked
      BY <2>2
    <3> QED
      BY <1>2, <3>1, PostsKept
  <2> QED
    BY <2>1, <2>2
<1> QED
  BY <1>1, <1>3, <1>4, <1>5

\* A post that is not the innermost does not see what the others do.
LEMMA PostStep ==
  ASSUME HubInv, NEW t \in Types, Post(t)
  PROVE  HubInv'
<1> USE DEF HubInv
<1> PICK r \in linked : IsFirst(r, EntriesOf(t)) /\ posts' = Append(posts, Frame(r, {}))
  BY DEF Post
<1>1. typeOf[r] = t
  BY DEF IsFirst, EntriesOf
<1>2. Frame(r, {}) \in FrameType /\ InOrder(Frame(r, {}))
  BY <1>1, FrameOfFirst DEF Post
<1>3. posts \in Seq(FrameType) /\ posts' \in Seq(FrameType)
  BY <1>2 DEF HubTypeOK, FrameType
<1>4. HubTypeOK'
  BY <1>3 DEF HubTypeOK, Post, idVars, FrameType
<1>5. NoDanglingPointers' /\ NoCallAfterAutoFree' /\ Linking' /\ Bounded' /\ Distinct'
  BY DEF Post, idVars, NoDanglingPointers, NoCallAfterAutoFree, Linking, Bounded, Distinct, Used
<1>6. PostsOK'
  <2> SUFFICES ASSUME NEW i \in DOMAIN posts', NEW f \in FrameType, f = posts'[i]
               PROVE  InOrder(f)'
    BY DEF PostsOK
  <2>1. InOrder(f)
    BY <1>2, <1>3 DEF PostsOK
  <2> QED
    BY <2>1 DEF InOrder, CallsUsed, CalledAllBefore, CalledNoneBehind, EntriesOf, Post, idVars, Used
<1> QED
  BY <1>4, <1>5, <1>6

LEMMA InnermostPost ==
  ASSUME HubInv, posts # <<>>, NEW top, top = posts[Len(posts)],
         NEW rest, rest = SubSeq(posts, 1, Len(posts) - 1)
  PROVE  /\ top \in FrameType /\ InOrder(top)
         /\ rest \in Seq(FrameType) /\ \A i \in 1 .. Len(rest) : InOrder(rest[i])
<1> USE DEF HubInv
<1>1. /\ posts \in Seq(FrameType) /\ Len(posts) \in Nat \ {0}
      /\ top \in FrameType /\ InOrder(top)
  <2>1. posts \in Seq(FrameType)
    BY DEF HubTypeOK, FrameType
  <2>2. Len(posts) \in Nat \ {0} /\ Len(posts) \in DOMAIN posts
    BY <2>1, EmptySeq
  <2> QED
    BY <2>1, <2>2, PostInOrder
<1>2. /\ rest \in Seq(FrameType) /\ Len(rest) = Len(posts) - 1
      /\ \A i \in 1 .. Len(rest) : rest[i] = posts[i]
  <2> DEFINE n == Len(posts) - 1
  <2>1. n \in Nat /\ \A i \in 1 .. n : posts[i] \in FrameType
    BY <1>1, LenProperties
  <2> HIDE DEF n
  <2>2. /\ SubSeq(posts, 1, n) \in Seq(FrameType)
        /\ Len(SubSeq(posts, 1, n)) = IF 1 <= n THEN n - 1 + 1 ELSE 0
        /\ \A i \in 1 .. n - 1 + 1 : SubSeq(posts, 1, n)[i] = posts[1 + i - 1]
    BY <2>1, SubSeqProperties
  <2>3. Len(SubSeq(posts, 1, n)) = n /\ \A i \in 1 .. n : SubSeq(posts, 1, n)[i] = posts[i]
    BY <2>1, <2>2
  <2> QED
    BY <2>2, <2>3 DEF n
<1>3. ASSUME NEW i \in 1 .. Len(rest)
      PROVE  InOrder(rest[i])
  <2>1. i \in DOMAIN posts /\ rest[i] = posts[i]
    BY <1>1, <1>2, <1>3
  <2> QED
    BY <2>1, PostInOrder, Zenon
<1> QED
  BY <1>1, <1>2, <1>3

\* The innermost post goes on.
LEMMA PostsGoOn ==
  ASSUME NEW rest \in Seq(FrameType), \A i \in 1 .. Len(rest) : InOrder(rest[i]),
         NEW new \in FrameType, InOrder(new)
  PROVE  /\ Append(rest, new) \in Seq(FrameType)
         /\ \A i \in DOMAIN Append(rest, new) : InOrder(Append(rest, new)[i])
<1> DEFINE all == Append(rest, new)
<1>1. all \in Seq(FrameType) /\ DOMAIN all = 1 .. Len(rest) + 1 /\ Len(rest) \in Nat
  OBVIOUS
<1>2. \A i \in 1 .. Len(rest) + 1 : all[i] = IF i = Len(rest) + 1 THEN new ELSE rest[i]
  OBVIOUS
<1> HIDE DEF all
<1>3. ASSUME NEW i \in DOMAIN all
      PROVE  InOrder(all[i])
  <2>1. CASE i = Len(rest) + 1
    <3>1. all[i] = new
      BY <1>1, <1>2, <2>1
    <3> QED
      BY <3>1
  <2>2. CASE i # Len(rest) + 1
    <3>1. i \in 1 .. Len(rest) /\ all[i] = rest[i]
      BY <1>1, <1>2, <2>2
    <3> QED
      BY <3>1
  <2> QED
    BY <2>1, <2>2
<1> QED
  BY <1>1, <1>3 DEF all

LEMMA ReturnStep ==
  ASSUME HubInv, Return
  PROVE  HubInv'
<1> USE DEF HubInv
<1> DEFINE top == posts[Len(posts)]
           rest == SubSeq(posts, 1, Len(posts) - 1)
<1>1. top \in FrameType /\ InOrder(top) /\ Stands(top)
  BY InnermostPost DEF Return
<1>2. rest \in Seq(FrameType) /\ \A i \in 1 .. Len(rest) : InOrder(rest[i])
  BY InnermostPost DEF Return
<1> HIDE DEF top, rest
<1>4. \/ posts' = rest
      \/ \E r \in linked : IsFirst(r, Behind(top.at)) /\ posts' = Append(rest, Frame(r, top.called))
  BY DEF Return, top, rest
<1>5. ASSUME NEW r \in linked, IsFirst(r, Behind(top.at))
      PROVE  Frame(r, top.called) \in FrameType /\ InOrder(Frame(r, top.called))
  <2>1. /\ typeOf[r] = typeOf[top.at] /\ Behind(top.at) \subseteq EntriesOf(typeOf[r])
        /\ serial[top.at] < serial[r] /\ top.at \in linked
        /\ top.called \subseteq Used /\ CalledAllBefore(top) /\ CalledNoneBehind(top)
    BY <1>1, <1>5 DEF IsFirst, Behind, EntriesOf, InOrder, CallsUsed, Stands
  <2>2. \A s \in Registrations : serial[s] \in Nat
    BY DEF HubTypeOK
  <2>3. \A s \in EntriesOf(typeOf[r]) : s \in Behind(top.at) \/ s \in top.called
    BY <1>1, <2>1, <2>2 DEF CalledAllBefore, Behind, EntriesOf, HubTypeOK, FrameType
  <2>4. \A s \in top.called : serial[s] <= serial[r]
    BY <1>1, <2>1, <2>2 DEF CalledNoneBehind, FrameType, HubTypeOK
  <2> QED
    BY <1>5, <2>1, <2>3, <2>4, FrameOfFirst
<1>6. posts' \in Seq(FrameType) /\ \A i \in DOMAIN posts' : InOrder(posts'[i])
  <2>1. CASE posts' = rest
    BY <1>2, <2>1
  <2>2. ASSUME NEW r \in linked, IsFirst(r, Behind(top.at)), posts' = Append(rest, Frame(r, top.called))
        PROVE  posts' \in Seq(FrameType) /\ \A i \in DOMAIN posts' : InOrder(posts'[i])
    <3> DEFINE new == Frame(r, top.called)
    <3>1. new \in FrameType /\ InOrder(new)
      BY <1>5, <2>2
    <3>2. posts' = Append(rest, new)
      BY <2>2
    <3> HIDE DEF new
    <3> QED
      BY <1>2, <3>1, <3>2, PostsGoOn
  <2> QED
    BY <1>4, <2>1, <2>2
<1>7. HubTypeOK'
  BY <1>6 DEF HubTypeOK, Return, idVars, FrameType
<1>8. NoDanglingPointers' /\ NoCallAfterAutoFree' /\ Linking' /\ Bounded' /\ Distinct'
  BY DEF Return, idVars, NoDanglingPointers, NoCallAfterAutoFree, Linking, Bounded, Distinct, Used
<1>9. PostsOK'
  <2> SUFFICES ASSUME NEW i \in DOMAIN posts', NEW f \in FrameType, f = posts'[i]
               PROVE  InOrder(f)'
    BY DEF PostsOK
  <2>1. InOrder(f)
    BY <1>6
  <2> QED
    BY <2>1 DEF InOrder, CallsUsed, CalledAllBefore, CalledNoneBehind, EntriesOf, Return, idVars, Used
<1> QED
  BY <1>7, <1>8, <1>9

\* A post that goes astray promises nothing any more.
LEMMA ReturnAstrayStep ==
  ASSUME HubInv, ReturnAstray
  PROVE  HubInv'
<1> USE DEF HubInv
<1> DEFINE top == posts[Len(posts)]
           rest == SubSeq(posts, 1, Len(posts) - 1)
<1>1. rest \in Seq(FrameType) /\ \A i \in 1 .. Len(rest) : InOrder(rest[i])
  <2>1. top = posts[Len(posts)] /\ rest = SubSeq(posts, 1, Len(posts) - 1)
    OBVIOUS
  <2> HIDE DEF top, rest
  <2> QED
    BY <2>1, InnermostPost DEF ReturnAstray
<1> HIDE DEF top, rest
<1>2. \/ posts' = rest \/ posts' = posts
      \/ \E r \in linked : posts' = Append(rest, Astray(r))
  BY DEF ReturnAstray, rest
<1>3. posts \in Seq(FrameType) /\ \A i \in DOMAIN posts : InOrder(posts[i])
  BY PostInOrder DEF HubTypeOK, FrameType
<1>4. ASSUME NEW r \in linked
      PROVE  Astray(r) \in FrameType /\ InOrder(Astray(r))
  BY <1>4 DEF Astray, FrameType, InOrder, CallsUsed, HubTypeOK, Linking
<1>5. posts' \in Seq(FrameType) /\ \A i \in DOMAIN posts' : InOrder(posts'[i])
  <2>1. ASSUME NEW r \in linked, posts' = Append(rest, Astray(r))
        PROVE  posts' \in Seq(FrameType) /\ \A i \in DOMAIN posts' : InOrder(posts'[i])
    <3> DEFINE new == Astray(r)
    <3>1. new \in FrameType /\ InOrder(new)
      BY <1>4
    <3>2. posts' = Append(rest, new)
      BY <2>1
    <3> HIDE DEF new
    <3> QED
      BY <1>1, <3>1, <3>2, PostsGoOn
  <2>2. CASE posts' = rest
    BY <1>1, <2>2
  <2> QED
    BY <1>2, <1>3, <2>1, <2>2
<1>6. HubTypeOK'
  <2>1. crashed' \in BOOLEAN
    BY DEF ReturnAstray, HubTypeOK
  <2> QED
    BY <1>5, <2>1 DEF HubTypeOK, ReturnAstray, idVars, FrameType
<1>7. NoDanglingPointers' /\ NoCallAfterAutoFree' /\ Linking' /\ Bounded' /\ Distinct'
  BY DEF ReturnAstray, idVars, NoDanglingPointers, NoCallAfterAutoFree, Linking, Bounded, Distinct, Used
<1>8. PostsOK'
  <2> SUFFICES ASSUME NEW i \in DOMAIN posts', NEW f \in FrameType, f = posts'[i]
               PROVE  InOrder(f)'
    BY DEF PostsOK
  <2>1. InOrder(f)
    BY <1>5
  <2> QED
    BY <2>1 DEF InOrder, CallsUsed, CalledAllBefore, CalledNoneBehind, EntriesOf, ReturnAstray, idVars, Used
<1> QED
  BY <1>6, <1>7, <1>8

LEMMA DestroyHubStep ==
  ASSUME HubInv, DestroyHub
  PROVE  HubInv'
<1> USE DEF HubInv, DestroyHub, idVars
<1>1. HubTypeOK' /\ NoDanglingPointers' /\ NoCallAfterAutoFree'
  BY DEF HubTypeOK, NoDanglingPointers, NoCallAfterAutoFree, Linking
<1>2. Used' = Used /\ Linking' /\ Bounded' /\ Distinct'
  BY DEF Used, Linking, Bounded, Distinct
<1>3. PostsOK'
  BY <1>2, PostsKept
<1> QED
  BY <1>1, <1>2, <1>3

-----------------------------------------------------------------------------
\* Everything the hub promises, and what it rests on, holds in every state:
\* ids and entries point at each other or nowhere, and posts keep the order
\* of registration while callbacks register, unregister and post.
THEOREM HubInvariant == Spec => []HubInv
<1>1. Init => HubInv
  BY InitHub
<1>2. HubInv /\ [Next]_vars => HubInv'
  <2> SUFFICES ASSUME HubInv, [Next]_vars
               PROVE  HubInv'
    OBVIOUS
  <2>1. ASSUME NEW r \in Registrations, NEW auto \in BOOLEAN, Register(r, auto)
        PROVE  HubInv'
    BY <2>1, RegisterStep
  <2>2. ASSUME NEW r \in Registrations, NEW auto \in BOOLEAN, SetAutoFree(r, auto)
        PROVE  HubInv'
    BY <2>2, SetAutoFreeStep
  <2>3. ASSUME NEW r \in Registrations, Unregister(r)
        PROVE  HubInv'
    BY <2>3, UnregisterStep
  <2>4. ASSUME NEW r \in Registrations, DeleteId(r)
        PROVE  HubInv'
    BY <2>4, DeleteIdStep
  <2>5. ASSUME NEW t \in Types, Post(t)
        PROVE  HubInv'
    BY <2>5, PostStep
  <2>6. CASE Return
    BY <2>6, ReturnStep
  <2>7. CASE DestroyHub
    BY <2>7, DestroyHubStep
  <2>9. CASE ReturnAstray
    BY <2>9, ReturnAstrayStep
  <2>8. CASE UNCHANGED vars
    BY <2>8 DEF vars, HubInv, HubTypeOK, NoDanglingPointers, NoCallAfterAutoFree, Linking,
       Bounded, Distinct, PostsOK, Used, InOrder, CallsUsed, CalledAllBefore,
       CalledNoneBehind, EntriesOf
  <2> QED
    BY <2>1, <2>2, <2>3, <2>4, <2>5, <2>6, <2>7, <2>8, <2>9 DEF Next, Step
<1> QED
  BY <1>1, <1>2, PTL DEF Spec

\* No entry points at a deleted id and no id at a destroyed hub or an erased
\* entry, whichever of them goes first.
THEOREM HubNeverDangles == Spec => []NoDanglingPointers
<1>1. HubInv => NoDanglingPointers
  BY DEF HubInv
<1> QED
  BY <1>1, HubInvariant, PTL

\* An object that unregisters itself by deleting its id is never called again.
THEOREM HubForgetsTheDead == Spec => []NoCallAfterAutoFree
<1>1. HubInv => NoCallAfterAutoFree
  BY DEF HubInv
<1> QED
  BY <1>1, HubInvariant, PTL

\* A post calls each callback that stays registered once and in order, for
\* any number of callbacks and posts within posts, whichever other callbacks
\* are registered and unregistered meanwhile; a post goes astray only by
\* moving on from an entry that was erased under it.
THEOREM HubPostsInOrder == Spec => []PostsCallInOrder
<1>1. HubInv => PostsCallInOrder
  <2> SUFFICES ASSUME HubInv, NEW i \in DOMAIN posts
               PROVE  InOrder(posts[i])
    BY DEF PostsCallInOrder, InOrder, CallsUsed, CalledAllBefore, CalledNoneBehind
  <2> QED
    BY PostInOrder DEF HubInv
<1> QED
  BY <1>1, HubInvariant, PTL
===============================================================================
