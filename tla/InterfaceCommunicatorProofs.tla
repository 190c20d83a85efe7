--------------------- MODULE InterfaceCommunicatorProofs ---------------------
(***************************************************************************)
(* Theorems about InterfaceCommunicator: type correctness; that no receive *)
(* ever meets a message of another round or phase, for any set of          *)
(* processes and any plan on whose sizes the neighbours agree; that every  *)
(* message fits the receive it meets, that the extractors find what they   *)
(* were registered for, and that the whole communicator implements         *)
(* NeighbourExchange.                                                      *)
(***************************************************************************)
EXTENDS InterfaceCommunicator, FiniteSetTheorems, TLAPS, SequenceTheorems

------------------------------------------------------------------------------
(* Sets of naturals *)

\* A non-empty set of naturals has a least element.
LEMMA LeastNat ==
    ASSUME NEW T \in SUBSET Nat, T # {}
    PROVE  \E m \in T : \A n \in T : m <= n
<1> DEFINE Less == {ss \in Nat \X Nat : ss[1] < ss[2]}
<1>1. IsWellFoundedOn(Less, Nat)
  BY NatLessThanWellFounded DEF OpToRel
<1>2. PICK m \in T : \A n \in T : <<n, m>> \notin Less
  <2> HIDE DEF Less
  <2> QED BY <1>1, WFMin
<1>3. \A n \in Nat : \A k \in Nat : <<n, k>> \notin Less => k <= n
  OBVIOUS
<1> QED BY <1>2, <1>3

\* The place of an element among the smaller ones counts the set.
Rank(C, c) == Cardinality({d \in C : d <= c})

LEMMA RankGrows ==
    ASSUME NEW C \in SUBSET Nat, IsFiniteSet(C), NEW a \in C, NEW b \in C, a < b
    PROVE  Rank(C, a) < Rank(C, b)
<1> DEFINE A == {d \in C : d <= a}
           B == {d \in C : d <= b}
<1>1. A \in SUBSET B /\ B \in SUBSET C /\ b \in B /\ b \notin A
  <2>1. a \in Nat /\ b \in Nat /\ \A d \in C : d \in Nat
    OBVIOUS
  <2>2. \A d \in C : d <= a => d <= b
    BY <2>1
  <2>3. b <= b /\ ~(b <= a)
    BY <2>1
  <2>4. A \subseteq B
    BY <2>2
  <2>5. b \in B /\ b \notin A
    BY <2>3
  <2> QED BY <2>4, <2>5
<1> HIDE DEF A, B
<1>2. IsFiniteSet(B) /\ Cardinality(B) \in Nat
  BY <1>1, FS_Subset, FS_CardinalityType
<1>3. IsFiniteSet(A) /\ Cardinality(A) \in Nat /\ Cardinality(A) <= Cardinality(B)
  BY <1>1, <1>2, FS_Subset, FS_CardinalityType
<1>4. Cardinality(A) # Cardinality(B)
  BY <1>1, <1>2, FS_Subset
<1> QED BY <1>2, <1>3, <1>4 DEF Rank, A, B

LEMMA RankCounts ==
    ASSUME NEW C \in SUBSET Nat, IsFiniteSet(C)
    PROVE  /\ Cardinality(C) \in Nat
           /\ \A c \in C : Rank(C, c) \in 1 .. Cardinality(C)
           /\ \A i \in 1 .. Cardinality(C) : \E c \in C : Rank(C, c) = i
<1> DEFINE n == Cardinality(C)
           f == [c \in C |-> Rank(C, c)]
<1>1. n \in Nat
  BY FS_CardinalityType
<1>2. ASSUME NEW c \in C PROVE Rank(C, c) \in 1 .. n
  <2> DEFINE A == {d \in C : d <= c}
  <2>1. A \in SUBSET C /\ c \in A
    <3>1. c \in Nat
      OBVIOUS
    <3>2. c <= c
      BY <3>1
    <3> QED BY <3>2
  <2> HIDE DEF A
  <2>2. IsFiniteSet(A) /\ Cardinality(A) \in Nat /\ Cardinality(A) <= n
    BY <2>1, FS_Subset, FS_CardinalityType
  <2>3. Cardinality(A) # 0
    BY <2>1, <2>2, FS_EmptySet
  <2> QED BY <1>1, <2>2, <2>3 DEF Rank, A
<1>3. f \in Injection(C, 1 .. n)
  <2>1. f \in [C -> 1 .. n]
    BY <1>2
  <2>2. ASSUME NEW a \in C, NEW b \in C, f[a] = f[b] PROVE a = b
    <3>1. a \in Nat /\ b \in Nat /\ Rank(C, a) = Rank(C, b) /\ Rank(C, a) \in Nat
      BY <1>2, <2>2
    <3>2. ~(a < b) /\ ~(b < a)
      BY <3>1, RankGrows
    <3> QED BY <3>1, <3>2
  <2> HIDE DEF f, n
  <2>3. IsInjective(f)
    BY <2>1, <2>2 DEF IsInjective
  <2> QED BY <2>1, <2>3 DEF Injection
<1>4. IsFiniteSet(1 .. n) /\ Cardinality(1 .. n) = n
  <2> HIDE DEF n
  <2>1. n \in Int /\ 1 \in Int
    BY <1>1
  <2>2. IsFiniteSet(1 .. n) /\ Cardinality(1 .. n) = IF 1 > n THEN 0 ELSE n - 1 + 1
    BY <2>1, FS_Interval
  <2> QED BY <1>1, <2>2
<1>5. f \in Surjection(C, 1 .. n)
  BY <1>3, <1>4, FS_Injection
<1>6. ASSUME NEW i \in 1 .. n PROVE \E c \in C : Rank(C, c) = i
  <2>1. \E c \in C : f[c] = i
    <3> HIDE DEF f, n
    <3> QED BY <1>5 DEF Surjection
  <2> QED BY <2>1
<1> QED BY <1>1, <1>2, <1>6

------------------------------------------------------------------------------
(* Type correctness *)

\* MPI pairs only what has been posted, and a process that is waiting for sizes
\* has posted a receive for every source it will extract from.
Pairing ==
    /\ \A p, q \in Procs :
           /\ matched[p][q] <= Len(sends[p][q])
           /\ matched[p][q] <= Len(recvs[p][q])
    /\ \A p, q \in Procs :
           pc[p] = "sizes" /\ extractors[p][q] # <<>> => recvs[q][p] # <<>>

TypeInv == TypeOK /\ Pairing

\* The value a process reads out of a completed receive is a sequence of items.
LEMMA ReceivedType ==
    ASSUME TypeInv, NEW p \in Procs, NEW q \in Procs,
           RequestsDone(p), recvs[q][p] # <<>>
    PROVE  Received(p, q) \in Seq(Item)
<1> DEFINE n == Len(recvs[q][p])
<1>1. recvs[q][p] \in Seq(Message) /\ sends[q][p] \in Seq(Message)
  BY DEF TypeInv, TypeOK
<1>2. n \in Nat \ {0}
  BY <1>1, EmptySeq
<1>3. n = matched[q][p] /\ n <= Len(sends[q][p])
  BY DEF RequestsDone, TypeInv, Pairing
<1>4. n \in 1 .. Len(sends[q][p])
  BY <1>1, <1>2, <1>3, LenProperties
<1>5. sends[q][p][n] \in Message
  BY <1>1, <1>4, ElementOfSeq
<1> QED
  BY <1>5 DEF Received, Message

\* Posting appends to the channels of p and leaves the others alone.
LEMMA PostEffect ==
    ASSUME TypeOK, NEW p \in Procs, NEW kind \in {"size", "data"}, NEW STATE capacity,
           \A q \in CurInProcs(p) : capacity[q] \in Seq(Item),
           Post(p, kind, capacity)
    PROVE  /\ sends' \in [Procs -> [Procs -> Seq(Message)]]
           /\ recvs' \in [Procs -> [Procs -> Seq(Message)]]
           /\ \A x, y \in Procs :
                  /\ Len(sends[x][y]) <= Len(sends'[x][y])
                  /\ Len(recvs[x][y]) <= Len(recvs'[x][y])
           /\ \A q \in Procs : extractors[p][q] # <<>> => recvs'[q][p] # <<>>
           /\ \A q \in Procs : \A x \in Procs \ {p} : recvs'[q][x] = recvs[q][x]
<1> DEFINE out(q) == [round |-> round[p], kind |-> kind, items |-> bufOut[p][q]]
           in(q)  == [round |-> round[p], kind |-> kind, items |-> capacity[q]]
<1>1. /\ sends \in [Procs -> [Procs -> Seq(Message)]]
      /\ recvs \in [Procs -> [Procs -> Seq(Message)]]
      /\ round[p] \in Nat \ {0}
      /\ \A q \in Procs : bufOut[p][q] \in Seq(Item)
  BY DEF TypeOK
<1>2. /\ \A q \in Procs : out(q) \in Message
      /\ \A q \in CurInProcs(p) : in(q) \in Message
  BY <1>1 DEF Message
<1>3. sends' = [sends EXCEPT ![p] = [q \in Procs |->
          IF q \in CurOutProcs(p) THEN Append(sends[p][q], out(q)) ELSE sends[p][q]]]
  BY <1>1 DEF Post
<1>4. recvs' = [q \in Procs |-> [recvs[q] EXCEPT ![p] =
          IF q \in CurInProcs(p) THEN Append(recvs[q][p], in(q)) ELSE recvs[q][p]]]
  BY <1>1 DEF Post
<1> HIDE DEF out, in
<1>5. \A q \in Procs :
         /\ sends[p][q] \in Seq(Message)
         /\ Append(sends[p][q], out(q)) \in Seq(Message)
         /\ Len(Append(sends[p][q], out(q))) = Len(sends[p][q]) + 1
  <2> TAKE q \in Procs
  <2>1. sends[p][q] \in Seq(Message) /\ out(q) \in Message
    BY <1>1, <1>2
  <2> QED BY <2>1, AppendProperties
<1>6. \A q \in CurInProcs(p) :
         /\ recvs[q][p] \in Seq(Message)
         /\ Append(recvs[q][p], in(q)) \in Seq(Message)
         /\ Append(recvs[q][p], in(q)) # <<>>
         /\ Len(Append(recvs[q][p], in(q))) = Len(recvs[q][p]) + 1
  <2> TAKE q \in CurInProcs(p)
  <2>1. q \in Procs
    BY DEF CurInProcs
  <2>2. recvs[q][p] \in Seq(Message) /\ in(q) \in Message
    BY <1>1, <1>2, <2>1
  <2> QED BY <2>2, AppendProperties
<1>7. sends' \in [Procs -> [Procs -> Seq(Message)]]
  BY <1>1, <1>3, <1>5
<1>8. recvs' \in [Procs -> [Procs -> Seq(Message)]]
  BY <1>1, <1>4, <1>6
<1>9. ASSUME NEW x \in Procs, NEW y \in Procs
      PROVE  /\ Len(sends[x][y]) <= Len(sends'[x][y])
             /\ Len(recvs[x][y]) <= Len(recvs'[x][y])
  <2>1. Len(sends[x][y]) \in Nat /\ Len(recvs[x][y]) \in Nat
    BY <1>1, LenProperties
  <2>2. Len(sends[x][y]) <= Len(sends'[x][y])
    <3>1. x # p => sends'[x][y] = sends[x][y]
      BY <1>1, <1>3
    <3>2. x = p => sends'[x][y] = IF y \in CurOutProcs(p)
                                     THEN Append(sends[p][y], out(y)) ELSE sends[p][y]
      BY <1>1, <1>3
    <3>3. Len(Append(sends[p][y], out(y))) = Len(sends[p][y]) + 1
      BY <1>5
    <3>4. CASE x # p
      BY <3>1, <3>4, <2>1
    <3>5. CASE x = p /\ y \in CurOutProcs(p)
      <4>1. sends'[x][y] = Append(sends[p][y], out(y))
        BY <3>2, <3>5
      <4> QED BY <4>1, <3>3, <3>5, <2>1
    <3>6. CASE x = p /\ y \notin CurOutProcs(p)
      BY <3>2, <3>6, <2>1
    <3> QED BY <3>4, <3>5, <3>6
  <2>3. Len(recvs[x][y]) <= Len(recvs'[x][y])
    BY <1>1, <1>4, <1>6, <2>1
  <2> QED BY <2>2, <2>3
<1>10. \A q \in Procs : extractors[p][q] # <<>> => recvs'[q][p] # <<>>
  BY <1>1, <1>4, <1>6 DEF CurInProcs
<1>11. \A q \in Procs : \A x \in Procs \ {p} : recvs'[q][x] = recvs[q][x]
  BY <1>1, <1>4
<1> QED
  BY <1>7, <1>8, <1>9, <1>10, <1>11

\* The state an execution starts in.
LEMMA InitTypeInv == Init => TypeInv
<1> SUFFICES ASSUME Init PROVE TypeInv
  OBVIOUS
<1>1. <<>> \in Seq(Item) /\ <<>> \in Seq(Message) /\ Len(<<>>) = 0
  BY EmptySeq
<1>2. TypeOK
  <2>1. Empty \in [Procs -> Seq(Item)] /\ Empty \in [Procs -> Seq(Message)]
    BY <1>1 DEF Empty
  <2>2. /\ bufOut \in [Procs -> [Procs -> Seq(Item)]]
        /\ extractors \in [Procs -> [Procs -> Seq(Item)]]
        /\ inbox \in [Procs -> [Procs -> Seq(Item)]]
        /\ sends \in [Procs -> [Procs -> Seq(Message)]]
        /\ recvs \in [Procs -> [Procs -> Seq(Message)]]
    BY <2>1 DEF Init
  <2>3. matched \in [Procs -> [Procs -> Nat]]
    BY DEF Init
  <2>4. /\ round \in [Procs -> Nat \ {0}]
        /\ nSent \in [Procs -> Nat] /\ nRcvd \in [Procs -> Nat]
    BY DEF Init
  <2>5. /\ plan \in Plans /\ aborted \in BOOLEAN
        /\ pc \in [Procs -> {"collect", "sizes", "data"}]
        /\ sendFixed \in [Procs -> BOOLEAN]
    BY DEF Init
  <2> QED BY <2>2, <2>3, <2>4, <2>5 DEF TypeOK
<1>3. Pairing
  BY <1>1 DEF Init, Pairing, Empty
<1> QED BY <1>2, <1>3 DEF TypeInv

\* A call of the coming round adds well-typed items.
LEMMA CallType ==
    ASSUME TypeOK, NEW r \in DOMAIN plan, NEW c \in DOMAIN plan[r]
    PROVE  /\ r \in Nat \ {0} /\ c \in Nat \ {0}
           /\ plan[r][c] \in Call
           /\ ItemOf(plan, r, c) \in Item
<1>1. plan \in Seq(Seq(Call))
  BY PlansAssumption DEF TypeOK, Plan
<1>2. r \in 1 .. Len(plan) /\ Len(plan) \in Nat
  BY <1>1, LenProperties
<1>3. plan[r] \in Seq(Call)
  BY <1>1, <1>2, ElementOfSeq
<1>4. c \in 1 .. Len(plan[r]) /\ Len(plan[r]) \in Nat
  BY <1>3, LenProperties
<1>5. plan[r][c] \in Call
  BY <1>3, <1>4, ElementOfSeq
<1> QED BY <1>2, <1>4, <1>5 DEF ItemOf, Item, Call

\* One step of a process or of MPI keeps the types and the pairing.
LEMMA NextTypeInv == TypeInv /\ [Next]_vars => TypeInv'
<1> SUFFICES ASSUME TypeInv, [Next]_vars PROVE TypeInv'
  OBVIOUS
<1> USE DEF TypeInv
<1>1. ASSUME NEW p \in Procs, SendData(p) PROVE TypeInv'
  <2> DEFINE r == CallRound(p)
             c == nSent[p] + 1
  <2>1. ItemOf(plan, r, c) \in Item /\ c \in Nat
    BY <1>1, CallType DEF SendData, MayCall
  <2>2. \A q \in Procs : Append(bufOut[p][q], ItemOf(plan, r, c)) \in Seq(Item)
    <3> TAKE q \in Procs
    <3>1. bufOut[p][q] \in Seq(Item)
      BY DEF TypeOK
    <3> QED BY <2>1, <3>1, AppendProperties
  <2>3. bufOut' \in [Procs -> [Procs -> Seq(Item)]]
    BY <1>1, <2>2 DEF SendData, TypeOK
  <2>4. TypeOK'
    BY <1>1, <2>1, <2>3 DEF SendData, TypeOK, mpiVars
  <2>5. Pairing'
    BY <1>1 DEF SendData, Pairing, mpiVars
  <2> QED BY <2>4, <2>5
<1>2. ASSUME NEW p \in Procs, ReceiveData(p) PROVE TypeInv'
  <2> DEFINE r == CallRound(p)
             c == nRcvd[p] + 1
  <2>1. ItemOf(plan, r, c) \in Item /\ c \in Nat
    BY <1>2, CallType DEF ReceiveData, MayCall
  <2>2. \A q \in Procs : Append(extractors[p][q], ItemOf(plan, r, c)) \in Seq(Item)
    <3> TAKE q \in Procs
    <3>1. extractors[p][q] \in Seq(Item)
      BY DEF TypeOK
    <3> QED BY <2>1, <3>1, AppendProperties
  <2>3. extractors' \in [Procs -> [Procs -> Seq(Item)]]
    BY <1>2, <2>2 DEF ReceiveData, TypeOK
  <2>4. TypeOK'
    BY <1>2, <2>1, <2>3 DEF ReceiveData, TypeOK, mpiVars
  <2>5. pc[p] # "sizes"
    BY <1>2 DEF ReceiveData, MayCall
  <2>6. \A x \in Procs \ {p} : extractors'[x] = extractors[x]
    BY <1>2 DEF ReceiveData, TypeOK
  <2>7. Pairing'
    BY <1>2, <2>5, <2>6 DEF ReceiveData, Pairing, mpiVars
  <2> QED BY <2>4, <2>7
<1>3. ASSUME NEW p \in Procs, NEW kind \in {"size", "data"}, NEW STATE capacity,
             \A q \in CurInProcs(p) : capacity[q] \in Seq(Item),
             Post(p, kind, capacity),
             pc' = [pc EXCEPT ![p] = IF kind = "size" THEN "sizes" ELSE "data"],
             UNCHANGED extractors
      PROVE  Pairing'
  <2>1. matched' = matched
    BY <1>3 DEF Post
  <2>2. \A x, y \in Procs :
           /\ Len(sends[x][y]) <= Len(sends'[x][y])
           /\ Len(recvs[x][y]) <= Len(recvs'[x][y])
    BY <1>3, PostEffect
  <2>3. \A x, y \in Procs :
           /\ Len(sends[x][y]) \in Nat /\ Len(sends'[x][y]) \in Nat
           /\ Len(recvs[x][y]) \in Nat /\ Len(recvs'[x][y]) \in Nat
           /\ matched[x][y] \in Nat
    <3>1. /\ sends' \in [Procs -> [Procs -> Seq(Message)]]
          /\ recvs' \in [Procs -> [Procs -> Seq(Message)]]
      BY <1>3, PostEffect
    <3> TAKE x, y \in Procs
    <3>2. /\ sends[x][y] \in Seq(Message) /\ sends'[x][y] \in Seq(Message)
          /\ recvs[x][y] \in Seq(Message) /\ recvs'[x][y] \in Seq(Message)
          /\ matched[x][y] \in Nat
      BY <3>1 DEF TypeOK
    <3> QED BY <3>2, LenProperties
  <2>4. \A q \in Procs : extractors[p][q] # <<>> => recvs'[q][p] # <<>>
    BY <1>3, PostEffect
  <2>5. \A q \in Procs : \A x \in Procs \ {p} : recvs'[q][x] = recvs[q][x]
    BY <1>3, PostEffect
  <2>6. \A x \in Procs \ {p} : pc'[x] = pc[x]
    BY <1>3 DEF TypeOK
  <2>7. \A x, y \in Procs :
           matched'[x][y] <= Len(sends'[x][y]) /\ matched'[x][y] <= Len(recvs'[x][y])
    <3> TAKE x, y \in Procs
    <3>1. matched[x][y] <= Len(sends[x][y]) /\ matched[x][y] <= Len(recvs[x][y])
      BY DEF Pairing
    <3> QED BY <2>1, <2>2, <2>3, <3>1, SMTT(20)
  <2>9. extractors' = extractors
    BY <1>3
  <2>8. \A x, q \in Procs :
           pc'[x] = "sizes" /\ extractors'[x][q] # <<>> => recvs'[q][x] # <<>>
    <3> TAKE x, q \in Procs
    <3>1. CASE x = p
      BY <2>4, <3>1, <2>9
    <3>2. CASE x # p
      BY <2>5, <2>6, <2>9, <3>2 DEF Pairing
    <3> QED BY <3>1, <3>2
  <2> QED BY <2>7, <2>8 DEF Pairing
<1>4. ASSUME NEW p \in Procs, CommunicateFixed(p) PROVE TypeInv'
  <2>1. \A q \in CurInProcs(p) : extractors[p][q] \in Seq(Item)
    BY DEF CurInProcs, TypeOK
  <2>2. sends' \in [Procs -> [Procs -> Seq(Message)]]
        /\ recvs' \in [Procs -> [Procs -> Seq(Message)]]
    BY <1>4, <2>1, PostEffect DEF CommunicateFixed
  <2>3. TypeOK'
    BY <1>4, <2>2 DEF CommunicateFixed, Post, TypeOK
  <2>4. Pairing'
    BY <1>3, <1>4, <2>1 DEF CommunicateFixed
  <2> QED BY <2>3, <2>4
<1>5. ASSUME NEW p \in Procs, CommunicateSizes(p) PROVE TypeInv'
  <2>1. \A q \in CurInProcs(p) : Empty[q] \in Seq(Item)
    BY EmptySeq DEF CurInProcs, Empty
  <2>2. sends' \in [Procs -> [Procs -> Seq(Message)]]
        /\ recvs' \in [Procs -> [Procs -> Seq(Message)]]
    BY <1>5, <2>1, PostEffect DEF CommunicateSizes
  <2>3. TypeOK'
    BY <1>5, <2>2 DEF CommunicateSizes, Post, TypeOK
  <2>4. Pairing'
    BY <1>3, <1>5, <2>1 DEF CommunicateSizes
  <2> QED BY <2>3, <2>4
<1>6. ASSUME NEW p \in Procs, FinishSizes(p) PROVE TypeInv'
  <2> DEFINE capacity == [q \in CurInProcs(p) |-> Received(p, q)]
  <2>1. \A q \in CurInProcs(p) : capacity[q] \in Seq(Item)
    <3> TAKE q \in CurInProcs(p)
    <3>1. q \in Procs /\ recvs[q][p] # <<>>
      BY <1>6 DEF CurInProcs, FinishSizes, Pairing
    <3> QED BY <1>6, <3>1, ReceivedType DEF FinishSizes
  <2> HIDE DEF capacity
  <2>2. Post(p, "data", capacity)
    BY <1>6 DEF FinishSizes, capacity
  <2>3. sends' \in [Procs -> [Procs -> Seq(Message)]]
        /\ recvs' \in [Procs -> [Procs -> Seq(Message)]]
    BY <2>1, <2>2, PostEffect
  <2>4. TypeOK'
    <3>1. UNCHANGED <<matched, aborted>>
      BY <2>2 DEF Post
    <3> QED BY <1>6, <2>3, <3>1 DEF FinishSizes, TypeOK
  <2>5. Pairing'
    BY <1>3, <1>6, <2>1, <2>2 DEF FinishSizes
  <2> QED BY <2>4, <2>5
<1>7. ASSUME NEW p \in Procs, Wait(p) PROVE TypeInv'
  <2>1. \A q \in Procs :
           (IF q \in PostedFrom(p) THEN Received(p, q) ELSE <<>>) \in Seq(Item)
    BY <1>7, ReceivedType, EmptySeq DEF Wait, PostedFrom
  <2>2. inbox' \in [Procs -> [Procs -> Seq(Item)]]
    BY <1>7, <2>1 DEF Wait, TypeOK
  <2>3. Empty \in [Procs -> Seq(Item)]
    BY EmptySeq DEF Empty
  <2>4. TypeOK'
    BY <1>7, <2>2, <2>3, SMTT(20) DEF Wait, TypeOK, mpiVars
  <2>5. /\ UNCHANGED <<sends, recvs, matched>>
        /\ pc'[p] = "collect"
        /\ \A x \in Procs \ {p} : pc'[x] = pc[x] /\ extractors'[x] = extractors[x]
    <3>1. /\ pc \in [Procs -> {"collect", "sizes", "data"}]
          /\ extractors \in [Procs -> [Procs -> Seq(Item)]]
      BY DEF TypeInv, TypeOK
    <3>2. /\ pc' = [pc EXCEPT ![p] = "collect"]
          /\ extractors' = [extractors EXCEPT ![p] = Empty]
          /\ UNCHANGED <<sends, recvs, matched>>
      BY <1>7 DEF Wait, mpiVars
    <3> QED BY ONLY p \in Procs, <3>1, <3>2
  <2>6. Pairing'
    BY <2>5 DEF Pairing
  <2> QED BY <2>4, <2>6
<1>8. ASSUME NEW p \in Procs, NEW q \in Procs, MpiTransfer(p, q) PROVE TypeInv'
  <2>1. TypeOK'
    <3>1. aborted' \in BOOLEAN
      BY <1>8 DEF MpiTransfer, Fits
    <3>2. matched' \in [Procs -> [Procs -> Nat]]
      <4>1. matched \in [Procs -> [Procs -> Nat]]
        BY DEF TypeOK
      <4>2. matched' = [matched EXCEPT ![p][q] = matched[p][q] + 1]
        BY <1>8 DEF MpiTransfer
      <4> QED BY <4>1, <4>2
    <3> QED BY <1>8, <3>1, <3>2 DEF MpiTransfer, TypeOK, procVars
  <2>2. matched[p][q] + 1 <= Len(sends[p][q]) /\ matched[p][q] + 1 <= Len(recvs[p][q])
    <3>1. sends[p][q] \in Seq(Message) /\ recvs[p][q] \in Seq(Message)
      BY DEF TypeOK
    <3> QED BY <1>8, <3>1, LenProperties DEF MpiTransfer
  <2>3. Pairing'
    BY <1>8, <2>2 DEF MpiTransfer, Pairing, TypeOK, procVars
  <2> QED BY <2>1, <2>3
<1>9. CASE UNCHANGED vars
  BY <1>9 DEF TypeOK, Pairing, vars, procVars, mpiVars, RequestsDone
<1> QED
  BY <1>1, <1>2, <1>4, <1>5, <1>6, <1>7, <1>8, <1>9 DEF Next, ProcessStep, Terminated

\* Every variable stays in its type, whatever the plans, the number of processes
\* and the way MPI completes sends.
THEOREM TypeCorrect == Spec => []TypeOK
<1>1. Spec => []TypeInv
  BY InitTypeInv, NextTypeInv, PTL DEF Spec
<1>2. TypeInv => TypeOK
  BY DEF TypeInv
<1> QED BY <1>1, <1>2, PTL
------------------------------------------------------------------------------
(* Histories: sequences of messages ordered by round and phase *)

Phases == {"size", "data"}

Before(a, b) == Stamp(a[1], a[2]) < Stamp(b[1], b[2])

\* Two messages with the same stamp are of the same round and phase.
LEMMA StampInjective ==
    ASSUME NEW r1 \in Nat, NEW r2 \in Nat, NEW k1 \in Phases, NEW k2 \in Phases
    PROVE  /\ Stamp(r1, k1) \in Nat
           /\ Stamp(r1, k1) = Stamp(r2, k2) => r1 = r2 /\ k1 = k2
           /\ r1 < r2 => Stamp(r1, k1) < Stamp(r2, k2)
BY DEF Stamp, Phases

\* The fields of a message that a history looks at.
LEMMA MessageAt ==
    ASSUME NEW s \in Seq(Message), NEW i \in DOMAIN s
    PROVE  s[i].round \in Nat /\ s[i].kind \in Phases
<1>1. s[i] \in Message
  BY LenProperties, ElementOfSeq
<1> QED BY <1>1 DEF Message, Phases

\* If the n-th elements of two histories are the first to differ, one of them
\* cannot be the smaller one: the other history would already contain it.
LEMMA NoEarlier ==
    ASSUME NEW S \in SUBSET (Nat \X Phases), NEW A \in SUBSET S, NEW B \in SUBSET S,
           \A b \in B, x \in S : Before(x, b) => x \in B,
           NEW s \in Seq(Message), NEW t \in Seq(Message),
           History(s, A), History(t, B),
           NEW n \in DOMAIN s \cap DOMAIN t,
           \A i \in DOMAIN s \cap DOMAIN t :
               i < n => s[i].round = t[i].round /\ s[i].kind = t[i].kind
    PROVE  ~(Stamp(s[n].round, s[n].kind) < Stamp(t[n].round, t[n].kind))
<1> SUFFICES ASSUME Stamp(s[n].round, s[n].kind) < Stamp(t[n].round, t[n].kind)
             PROVE  FALSE
  OBVIOUS
<1>1. /\ DOMAIN s = 1 .. Len(s) /\ Len(s) \in Nat
      /\ DOMAIN t = 1 .. Len(t) /\ Len(t) \in Nat
  BY LenProperties
<1>2. \A i \in DOMAIN s : s[i].round \in Nat /\ s[i].kind \in Phases
  BY MessageAt
<1>3. \A i \in DOMAIN t : t[i].round \in Nat /\ t[i].kind \in Phases
  BY MessageAt
<1>11. Stamp(s[n].round, s[n].kind) \in Nat /\ Stamp(t[n].round, t[n].kind) \in Nat
  BY <1>2, <1>3, StampInjective
<1>4. <<s[n].round, s[n].kind>> \in S /\ <<t[n].round, t[n].kind>> \in B
  BY DEF History
<1>5. <<s[n].round, s[n].kind>> \in B
  BY <1>4 DEF Before
<1>6. PICK i \in DOMAIN t : t[i].round = s[n].round /\ t[i].kind = s[n].kind
  BY <1>5 DEF History
<1>7. i < n
  <2>1. ~(n < i)
    <3> SUFFICES ASSUME n < i PROVE FALSE
      OBVIOUS
    <3>1. Stamp(t[n].round, t[n].kind) < Stamp(t[i].round, t[i].kind)
      BY DEF History
    <3> QED BY <1>11, <1>6, <3>1
  <2>2. n # i
    BY <1>11, <1>6
  <2> QED BY <1>1, <2>1, <2>2
<1>8. i \in DOMAIN s \cap DOMAIN t
  BY <1>1, <1>7
<1>9. s[i].round = s[n].round /\ s[i].kind = s[n].kind
  BY <1>6, <1>7, <1>8
<1>10. Stamp(s[i].round, s[i].kind) < Stamp(s[n].round, s[n].kind)
  BY <1>7, <1>8 DEF History
<1> QED BY <1>9, <1>10, <1>11

\* Two histories that both are initial parts of the same due messages agree
\* wherever both are defined.
LEMMA SameOrder ==
    ASSUME NEW S \in SUBSET (Nat \X Phases), NEW A \in SUBSET S, NEW B \in SUBSET S,
           \A a \in A, x \in S : Before(x, a) => x \in A,
           \A b \in B, x \in S : Before(x, b) => x \in B,
           NEW s \in Seq(Message), NEW t \in Seq(Message),
           History(s, A), History(t, B)
    PROVE  \A n \in DOMAIN s \cap DOMAIN t :
               s[n].round = t[n].round /\ s[n].kind = t[n].kind
<1> DEFINE Same(n) == s[n].round = t[n].round /\ s[n].kind = t[n].kind
           D == {n \in DOMAIN s \cap DOMAIN t : ~Same(n)}
<1>1. /\ DOMAIN s = 1 .. Len(s) /\ Len(s) \in Nat
      /\ DOMAIN t = 1 .. Len(t) /\ Len(t) \in Nat
  BY LenProperties
<1>2. /\ \A i \in DOMAIN s : s[i].round \in Nat /\ s[i].kind \in Phases
      /\ \A i \in DOMAIN t : t[i].round \in Nat /\ t[i].kind \in Phases
  BY MessageAt
<1>3. ASSUME NEW k \in D PROVE FALSE
  <2>1. D \in SUBSET Nat
    BY <1>1
  <2>2. PICK n \in D : \A i \in D : n <= i
    BY <2>1, <1>3, LeastNat
  <2>3. n \in DOMAIN s \cap DOMAIN t /\ n \in Nat
    BY <1>1, <2>2
  <2>4. \A i \in DOMAIN s \cap DOMAIN t : i < n => Same(i)
    BY <1>1, <2>2, <2>3
  <2>5. ~(Stamp(s[n].round, s[n].kind) < Stamp(t[n].round, t[n].kind))
    BY <2>3, <2>4, NoEarlier
  <2>6. ~(Stamp(t[n].round, t[n].kind) < Stamp(s[n].round, s[n].kind))
    <3>1. \A i \in DOMAIN t \cap DOMAIN s :
              i < n => t[i].round = s[i].round /\ t[i].kind = s[i].kind
      BY <2>4
    <3>2. n \in DOMAIN t \cap DOMAIN s
      BY <2>3
    <3> HIDE DEF D, Same
    <3> QED BY <3>1, <3>2, NoEarlier
  <2>7. s[n].round = t[n].round /\ s[n].kind = t[n].kind
    <3> HIDE DEF D, Same
    <3>1. /\ s[n].round \in Nat /\ s[n].kind \in Phases
          /\ t[n].round \in Nat /\ t[n].kind \in Phases
      BY <1>2, <2>3
    <3>2. Stamp(s[n].round, s[n].kind) \in Nat /\ Stamp(t[n].round, t[n].kind) \in Nat
      BY <3>1, StampInjective
    <3>3. Stamp(s[n].round, s[n].kind) = Stamp(t[n].round, t[n].kind)
      BY <2>5, <2>6, <3>2
    <3> DEFINE r1 == s[n].round
               r2 == t[n].round
               k1 == s[n].kind
               k2 == t[n].kind
    <3>4. /\ r1 \in Nat /\ r2 \in Nat /\ k1 \in Phases /\ k2 \in Phases
          /\ Stamp(r1, k1) = Stamp(r2, k2)
      BY <3>1, <3>3
    <3> HIDE DEF r1, r2, k1, k2
    <3>5. r1 = r2 /\ k1 = k2
      BY <3>4, StampInjective
    <3> QED BY <3>5 DEF r1, r2, k1, k2
  <2> QED BY <2>2, <2>7
<1> QED BY <1>3

\* Posting a message later than all posted ones extends the history.
LEMMA HistoryAppend ==
    ASSUME NEW P \in SUBSET (Nat \X Phases), NEW s \in Seq(Message), History(s, P),
           NEW m \in Message, \A rk \in P : Before(rk, <<m.round, m.kind>>)
    PROVE  History(Append(s, m), P \cup {<<m.round, m.kind>>})
<1> DEFINE a == Append(s, m)
           Id(q, i) == <<q[i].round, q[i].kind>>
<1>1. /\ DOMAIN s = 1 .. Len(s) /\ Len(s) \in Nat
      /\ a \in Seq(Message) /\ Len(a) = Len(s) + 1
      /\ \A i \in 1 .. Len(s) : a[i] = s[i]
      /\ a[Len(s) + 1] = m
  BY LenProperties, AppendProperties
<1>2. DOMAIN a = 1 .. Len(s) + 1
  BY <1>1, LenProperties
<1> HIDE DEF a
<1>3. {Id(a, i) : i \in DOMAIN a} = P \cup {<<m.round, m.kind>>}
  <2>1. {Id(s, i) : i \in 1 .. Len(s)} = P
    BY <1>1 DEF History
  <2>2. \A i \in 1 .. Len(s) : Id(a, i) = Id(s, i)
    BY <1>1
  <2>3. Id(a, Len(s) + 1) = <<m.round, m.kind>>
    BY <1>1
  <2>4. 1 .. Len(s) + 1 = (1 .. Len(s)) \cup {Len(s) + 1}
    BY <1>1
  <2> HIDE DEF Id
  <2> QED BY <1>2, <2>1, <2>2, <2>3, <2>4, ZenonT(40)
<1>4. ASSUME NEW i \in DOMAIN a, NEW j \in DOMAIN a, i < j
      PROVE  Stamp(a[i].round, a[i].kind) < Stamp(a[j].round, a[j].kind)
  <2>1. i \in 1 .. Len(s) /\ a[i] = s[i]
    BY <1>1, <1>2, <1>4
  <2>2. CASE j \in 1 .. Len(s)
    BY <1>1, <1>4, <2>1, <2>2 DEF History
  <2>3. CASE j = Len(s) + 1
    <3>1. <<s[i].round, s[i].kind>> \in P
      BY <1>1, <2>1 DEF History
    <3> QED BY <1>1, <2>1, <2>3, <3>1 DEF Before
  <2> QED BY <1>2, <2>2, <2>3
<1> QED BY <1>3, <1>4 DEF History, a
------------------------------------------------------------------------------
(* What a process has collected when it communicates *)

Collected(p) == CallsMade(p) /\ SendsCollected(p) /\ ReceivesRegistered(p)

\* The calls of a round are numbered, and each is a call.
LEMMA PlanTypes ==
    ASSUME TypeOK, NEW r \in DOMAIN plan
    PROVE  /\ r \in Nat \ {0}
           /\ Len(plan[r]) \in Nat
           /\ DOMAIN plan[r] = 1 .. Len(plan[r])
           /\ \A c \in DOMAIN plan[r] : plan[r][c].known \in BOOLEAN
<1>1. plan \in Seq(Seq(Call))
  BY PlansAssumption DEF TypeOK, Plan
<1>2. r \in 1 .. Len(plan) /\ Len(plan) \in Nat
  BY <1>1, LenProperties
<1>3. plan[r] \in Seq(Call)
  BY <1>1, <1>2, ElementOfSeq
<1>4. Len(plan[r]) \in Nat /\ DOMAIN plan[r] = 1 .. Len(plan[r])
  BY <1>3, LenProperties
<1>5. \A c \in DOMAIN plan[r] : plan[r][c].known \in BOOLEAN
  <2> TAKE c \in DOMAIN plan[r]
  <2>1. plan[r][c] \in Call
    BY <1>3, <1>4, ElementOfSeq
  <2> QED BY <2>1 DEF Call
<1> QED BY <1>2, <1>4, <1>5

\* A step that leaves the extractors of p and its place in the plan alone, though it
\* may begin to communicate.
LEMMA ReceivesKept ==
    ASSUME NEW p \in Procs, ReceivesRegistered(p),
           plan' = plan, round'[p] = round[p], pc'[p] = pc[p] \/ pc[p] = "collect",
           nRcvd'[p] = nRcvd[p], extractors'[p] = extractors[p]
    PROVE  ReceivesRegistered(p)'
<1> DEFINE Made(pl, r, n, e, q) ==
        /\ \A i \in DOMAIN e : /\ e[i].round = r
                             /\ e[i].call \in 1 .. n
                             /\ <<q, p>> \in pl[r][e[i].call].edges
        /\ \A c \in 1 .. n : <<q, p>> \in pl[r][c].edges =>
               \E i \in DOMAIN e : e[i].call = c
<1>1. ReceivesRegistered(p) <=>
          (pc[p] # "data" => \A q \in Procs :
               Made(plan, round[p], nRcvd[p], extractors[p][q], q))
  BY Zenon DEF ReceivesRegistered
<1>2. ReceivesRegistered(p)' <=>
          (pc'[p] # "data" => \A q \in Procs :
               Made(plan', round'[p], nRcvd'[p], extractors'[p][q], q))
  BY Zenon DEF ReceivesRegistered
<1> HIDE DEF Made
<1> QED BY <1>1, <1>2

\* send_data adds one call to what is collected.
LEMMA SendDataCollected ==
    ASSUME TypeInv, ~EarlyCalls, NEW p \in Procs, Collected(p), SendData(p)
    PROVE  Collected(p)'
<1> DEFINE r == round[p]
           c == nSent[p] + 1
<1>1. pc[p] = "collect" /\ r \in DOMAIN plan /\ CallRound(p) = r
  BY DEF SendData, MayCall, CallRound
<1>2. /\ c \in DOMAIN plan[r] /\ c \in 1 .. Len(plan[r]) /\ Len(plan[r]) \in Nat
      /\ nSent[p] \in Nat /\ nRcvd[p] \in Nat
      /\ plan[r][c].known \in BOOLEAN
  BY <1>1, PlanTypes DEF SendData, TypeInv, TypeOK
<1>3. /\ nSent'[p] = c
      /\ sendFixed'[p] = (sendFixed[p] /\ (Sends(plan, r, p, c) => plan[r][c].known))
      /\ \A q \in Procs : bufOut'[p][q] = IF <<p, q>> \in plan[r][c].edges
             THEN Append(bufOut[p][q], ItemOf(plan, r, c)) ELSE bufOut[p][q]
      /\ UNCHANGED <<plan, round, pc, nRcvd, extractors>>
  BY <1>1 DEF SendData, TypeInv, TypeOK
<1>4. 1 .. c = (1 .. nSent[p]) \cup {c}
  BY <1>2
<1>5. CallsMade(p)'
  BY <1>1, <1>2, <1>3 DEF Collected, CallsMade
<1>6. SendsCollected(p)'
  <2>1. sendFixed'[p] <=> \A d \in 1 .. c : Sends(plan, r, p, d) => plan[r][d].known
    BY <1>1, <1>3, <1>4 DEF Collected, SendsCollected
  <2>2. ASSUME NEW q \in Procs
        PROVE  bufOut'[p][q] # <<>> <=> \E d \in 1 .. c : <<p, q>> \in plan[r][d].edges
    <3>1. bufOut[p][q] \in Seq(Item) /\ ItemOf(plan, r, c) \in Item
      <4>1. TypeOK
        BY DEF TypeInv
      <4>2. bufOut[p][q] \in Seq(Item)
        BY <4>1 DEF TypeOK
      <4>3. ItemOf(plan, r, c) \in Item
        <5> HIDE DEF r, c
        <5> QED BY <1>1, <1>2, <4>1, CallType
      <4> QED BY <4>2, <4>3
    <3>2. Append(bufOut[p][q], ItemOf(plan, r, c)) # <<>>
      BY <3>1, AppendProperties
    <3>3. bufOut[p][q] # <<>> <=> \E d \in 1 .. nSent[p] : <<p, q>> \in plan[r][d].edges
      BY <1>1 DEF Collected, SendsCollected
    <3> QED BY <1>3, <1>4, <3>2, <3>3
  <2> QED BY <1>3, <2>1, <2>2 DEF SendsCollected, Sends
<1>7. ReceivesRegistered(p)'
  <2>1. ReceivesRegistered(p)
    BY DEF Collected
  <2>2. UNCHANGED <<plan, round, pc, nRcvd, extractors>>
    BY <1>3
  <2> QED BY <2>1, <2>2, ReceivesKept
<1> QED BY <1>5, <1>6, <1>7 DEF Collected

\* receive_data adds one call to what is registered.
LEMMA ReceiveDataCollected ==
    ASSUME TypeInv, ~EarlyCalls, NEW p \in Procs, Collected(p), ReceiveData(p)
    PROVE  Collected(p)'
<1> DEFINE r == round[p]
           c == nRcvd[p] + 1
           item == ItemOf(plan, r, c)
<1>1. pc[p] = "collect" /\ r \in DOMAIN plan /\ CallRound(p) = r
  BY DEF ReceiveData, MayCall, CallRound
<1>2. /\ c \in DOMAIN plan[r] /\ c \in 1 .. Len(plan[r]) /\ Len(plan[r]) \in Nat
      /\ nSent[p] \in Nat /\ nRcvd[p] \in Nat
  BY <1>1, PlanTypes DEF ReceiveData, TypeInv, TypeOK
<1>3. /\ nRcvd'[p] = c
      /\ \A q \in Procs : extractors'[p][q] = IF <<q, p>> \in plan[r][c].edges
             THEN Append(extractors[p][q], item) ELSE extractors[p][q]
      /\ UNCHANGED <<plan, round, pc, nSent, bufOut, sendFixed>>
  BY <1>1 DEF ReceiveData, TypeInv, TypeOK
<1>4. 1 .. c = (1 .. nRcvd[p]) \cup {c}
  BY <1>2
<1>5. CallsMade(p)'
  BY <1>1, <1>2, <1>3 DEF Collected, CallsMade
<1>6. SendsCollected(p)'
  BY <1>3 DEF Collected, SendsCollected, Sends
<1>7. ASSUME NEW q \in Procs
      PROVE  /\ \A i \in DOMAIN extractors'[p][q] :
                    /\ extractors'[p][q][i].round = r
                    /\ extractors'[p][q][i].call \in 1 .. c
                    /\ <<q, p>> \in plan[r][extractors'[p][q][i].call].edges
             /\ \A d \in 1 .. c : <<q, p>> \in plan[r][d].edges =>
                    \E i \in DOMAIN extractors'[p][q] : extractors'[p][q][i].call = d
  <2> DEFINE old == extractors[p][q]
             new == extractors'[p][q]
  <2>1. /\ \A i \in DOMAIN old : /\ old[i].round = r
                                 /\ old[i].call \in 1 .. nRcvd[p]
                                 /\ <<q, p>> \in plan[r][old[i].call].edges
        /\ \A d \in 1 .. nRcvd[p] : <<q, p>> \in plan[r][d].edges =>
               \E i \in DOMAIN old : old[i].call = d
    BY <1>1 DEF Collected, ReceivesRegistered
  <2>2. CASE <<q, p>> \notin plan[r][c].edges
    <3>1. new = old
      BY <1>3, <2>2
    <3> HIDE DEF old, new
    <3> QED BY <1>4, <2>1, <2>2, <3>1 DEF new
  <2>3. CASE <<q, p>> \in plan[r][c].edges
    <3>1. old \in Seq(Item) /\ item \in Item
      <4>1. TypeOK
        BY DEF TypeInv
      <4>2. old \in Seq(Item)
        BY <4>1 DEF TypeOK
      <4>3. item \in Item
        <5> HIDE DEF r, c
        <5> QED BY <1>1, <1>2, <4>1, CallType
      <4> QED BY <4>2, <4>3
    <3>2. item.round = r /\ item.call = c
      BY DEF ItemOf
    <3>3. new = Append(old, item)
      BY <1>3, <2>3
    <3> HIDE DEF old, new, item
    <3>4. /\ new \in Seq(Item) /\ Len(new) = Len(old) + 1
          /\ \A i \in 1 .. Len(old) : new[i] = old[i]
          /\ new[Len(old) + 1] = item
      BY <3>1, <3>3, AppendProperties
    <3>5. DOMAIN old = 1 .. Len(old) /\ Len(old) \in Nat /\ DOMAIN new = 1 .. Len(old) + 1
      BY <3>1, <3>4, LenProperties
    <3>6. \A i \in DOMAIN new : /\ new[i].round = r
                                /\ new[i].call \in 1 .. c
                                /\ <<q, p>> \in plan[r][new[i].call].edges
      <4> TAKE i \in DOMAIN new
      <4>1. CASE i \in 1 .. Len(old)
        BY <1>4, <2>1, <3>4, <3>5, <4>1
      <4>2. CASE i = Len(old) + 1
        BY <1>4, <2>3, <3>2, <3>4, <4>2
      <4> QED BY <3>5, <4>1, <4>2
    <3>7. \A d \in 1 .. c : <<q, p>> \in plan[r][d].edges =>
               \E i \in DOMAIN new : new[i].call = d
      <4> TAKE d \in 1 .. c
      <4>1. CASE d \in 1 .. nRcvd[p]
        BY <2>1, <3>4, <3>5, <4>1, SMTT(20)
      <4>2. CASE d = c
        BY <3>2, <3>4, <3>5, <4>2
      <4> QED BY <1>4, <4>1, <4>2
    <3> QED BY <3>6, <3>7 DEF new
  <2> QED BY <2>2, <2>3
<1>8. ReceivesRegistered(p)'
  <2>1. round'[p] = r /\ plan' = plan /\ nRcvd'[p] = c
    BY <1>3
  <2>2. ASSUME NEW q \in Procs
        PROVE  /\ \A i \in DOMAIN extractors'[p][q] :
                      /\ extractors'[p][q][i].round = round'[p]
                      /\ extractors'[p][q][i].call \in 1 .. nRcvd'[p]
                      /\ <<q, p>> \in plan'[round'[p]][extractors'[p][q][i].call].edges
               /\ \A d \in 1 .. nRcvd'[p] : <<q, p>> \in plan'[round'[p]][d].edges =>
                      \E i \in DOMAIN extractors'[p][q] : extractors'[p][q][i].call = d
    <3> HIDE DEF r, c
    <3> QED BY ONLY q \in Procs, <1>7, <2>1
  <2> QED BY ONLY <2>2, Zenon DEF ReceivesRegistered
<1> QED BY <1>5, <1>6, <1>8 DEF Collected
\* When all calls are made, p has something for q, and awaits something from q,
\* exactly if the plan of the round says so.
LEMMA CurrentProcs ==
    ASSUME TypeInv, NEW p \in Procs, Collected(p),
           round[p] \in DOMAIN plan, pc[p] # "data",
           nSent[p] = Len(plan[round[p]]), nRcvd[p] = Len(plan[round[p]])
    PROVE  \A q \in Procs : /\ q \in CurOutProcs(p) <=> Active(plan, round[p], p, q)
                            /\ q \in CurInProcs(p) <=> Active(plan, round[p], q, p)
<1> DEFINE r == round[p]
<1>1. DOMAIN plan[r] = 1 .. Len(plan[r])
  BY PlanTypes DEF TypeInv
<1> TAKE q \in Procs
<1>2. q \in CurOutProcs(p) <=> Active(plan, r, p, q)
  BY <1>1 DEF Collected, SendsCollected, CurOutProcs, Active
<1>3. q \in CurInProcs(p) <=> Active(plan, r, q, p)
  <2>1. extractors[p][q] \in Seq(Item)
    BY DEF TypeInv, TypeOK
  <2>2. extractors[p][q] # <<>> <=> \E i \in DOMAIN extractors[p][q] : TRUE
    <3> DEFINE e == extractors[p][q]
    <3>1. e \in Seq(Item) /\ DOMAIN e = 1 .. Len(e) /\ Len(e) \in Nat
      BY <2>1, LenProperties
    <3> HIDE DEF e
    <3>2. e = <<>> => ~ \E i \in DOMAIN e : TRUE
      <4>1. Len(<<>>) = 0
        BY EmptySeq
      <4>2. e = <<>> => DOMAIN e = 1 .. 0
        BY <3>1, <4>1
      <4> QED BY <4>2
    <3>3. e # <<>> => \E i \in DOMAIN e : TRUE
      <4>1. e # <<>> => Len(e) \in Nat \ {0}
        BY <3>1, EmptySeq
      <4>2. e # <<>> => 1 \in DOMAIN e
        BY <3>1, <4>1
      <4> QED BY <4>2
    <3> QED BY <3>2, <3>3 DEF e
  <2> QED
    BY <1>1, <2>2 DEF Collected, ReceivesRegistered, CurInProcs, Active
<1> QED BY <1>2, <1>3

\* What communicate_and_resume() finds out about sizes is what the plan says.
LEMMA SizesKnown ==
    ASSUME TypeInv, NEW p \in Procs, Collected(p), ReadyToCommunicate(p)
    PROVE  AllBufferSizesFixed(p) <=> AllSizesKnown(plan, round[p], p)
<1> DEFINE r == round[p]
<1>1. /\ r \in DOMAIN plan /\ DOMAIN plan[r] = 1 .. Len(plan[r])
      /\ pc[p] # "data"
      /\ nSent[p] = Len(plan[r]) /\ nRcvd[p] = Len(plan[r])
  BY PlanTypes DEF ReadyToCommunicate, TypeInv
<1>2. sendFixed[p] <=> \A c \in DOMAIN plan[r] : Sends(plan, r, p, c) => plan[r][c].known
  BY <1>1 DEF Collected, SendsCollected
<1>3. (\A q \in Procs : \A i \in DOMAIN extractors[p][q] :
          plan[extractors[p][q][i].round][extractors[p][q][i].call].known)
      <=> \A c \in DOMAIN plan[r] : Receives(plan, r, p, c) => plan[r][c].known
  <2>1. ASSUME NEW q \in Procs, NEW i \in DOMAIN extractors[p][q]
        PROVE  /\ extractors[p][q][i].round = r
               /\ extractors[p][q][i].call \in DOMAIN plan[r]
               /\ Receives(plan, r, p, extractors[p][q][i].call)
    BY <1>1 DEF Collected, ReceivesRegistered, Receives
  <2>2. ASSUME NEW c \in DOMAIN plan[r], Receives(plan, r, p, c)
        PROVE  \E q \in Procs : \E i \in DOMAIN extractors[p][q] :
                   extractors[p][q][i].call = c
    BY <1>1, <2>2 DEF Collected, ReceivesRegistered, Receives
  <2> QED BY <2>1, <2>2
<1> QED
  BY <1>2, <1>3 DEF AllBufferSizesFixed, AllSizesKnown

\* Every step keeps what a process has collected in line with its calls.
LEMMA NextCollected ==
    ASSUME TypeInv, ~EarlyCalls, CollectedInOrder, [Next]_vars
    PROVE  CollectedInOrder'
<1> SUFFICES ASSUME NEW x \in Procs PROVE Collected(x)'
  BY DEF CollectedInOrder, Collected
<1>1. Collected(x)
  BY DEF CollectedInOrder, Collected
<1> DEFINE Unchanged(y) == /\ plan' = plan
                           /\ round'[y] = round[y] /\ pc'[y] = pc[y]
                           /\ nSent'[y] = nSent[y] /\ nRcvd'[y] = nRcvd[y]
                           /\ bufOut'[y] = bufOut[y] /\ sendFixed'[y] = sendFixed[y]
                           /\ extractors'[y] = extractors[y]
<1>2. Unchanged(x) => Collected(x)'
  <2> SUFFICES ASSUME Unchanged(x) PROVE Collected(x)'
    OBVIOUS
  <2>1. CallsMade(x)'
    BY <1>1 DEF Collected, CallsMade, AllSizesKnown, Sends, Receives
  <2>2. SendsCollected(x)'
    BY <1>1 DEF Collected, SendsCollected, Sends
  <2>3. ReceivesRegistered(x)'
    <3>1. ReceivesRegistered(x)
      BY <1>1 DEF Collected
    <3> QED BY <3>1, ReceivesKept
  <2> QED BY <2>1, <2>2, <2>3 DEF Collected
<1>3. ASSUME NEW p \in Procs, p # x, ProcessStep(p) PROVE Unchanged(x)
  BY <1>3, ZenonT(40) DEF ProcessStep, SendData, ReceiveData, CommunicateFixed, CommunicateSizes,
              FinishSizes, Wait, Post, TypeInv, TypeOK, mpiVars
<1>4. CASE SendData(x)
  BY <1>1, <1>4, SendDataCollected
<1>5. CASE ReceiveData(x)
  BY <1>1, <1>5, ReceiveDataCollected
<1>6. CASE CommunicateFixed(x) \/ FinishSizes(x)
  <2>1. /\ pc'[x] = "data" /\ nSent'[x] = 0 /\ nRcvd'[x] = 0 /\ sendFixed'[x] = TRUE
        /\ plan' = plan /\ round' = round
    BY <1>6 DEF CommunicateFixed, FinishSizes, TypeInv, TypeOK
  <2>2. round[x] \in DOMAIN plan
    BY <1>1, <1>6 DEF CommunicateFixed, FinishSizes, ReadyToCommunicate, Collected, CallsMade
  <2>3. Len(plan[round[x]]) \in Nat
    BY <2>2, PlanTypes DEF TypeInv
  <2>4. CallsMade(x)'
    BY <2>1, <2>2, <2>3 DEF CallsMade
  <2> QED BY <2>1, <2>4 DEF Collected, SendsCollected, ReceivesRegistered
<1>7. CASE CommunicateSizes(x)
  <2>1. /\ pc'[x] = "sizes"
        /\ UNCHANGED <<plan, round, nSent, nRcvd, bufOut, sendFixed, extractors>>
    BY <1>7 DEF CommunicateSizes, TypeInv, TypeOK
  <2>2. /\ round[x] \in DOMAIN plan /\ pc[x] = "collect"
        /\ nSent[x] = Len(plan[round[x]]) /\ nRcvd[x] = Len(plan[round[x]])
    BY <1>7 DEF CommunicateSizes, ReadyToCommunicate
  <2>3. ~AllSizesKnown(plan, round[x], x)
    BY <1>1, <1>7, SizesKnown DEF CommunicateSizes
  <2>4. CallsMade(x)'
    BY <1>1, <2>1, <2>2, <2>3 DEF Collected, CallsMade, AllSizesKnown, Sends, Receives
  <2> QED
    <3>1. ReceivesRegistered(x)'
      <4>1. ReceivesRegistered(x)
        BY <1>1 DEF Collected
      <4> QED BY <2>1, <2>2, <4>1, ReceivesKept
    <3>2. SendsCollected(x)'
      <4>1. SendsCollected(x)
        BY <1>1 DEF Collected
      <4> QED BY ONLY <2>1, <2>2, <4>1 DEF SendsCollected, Sends
    <3> QED BY <2>4, <3>1, <3>2 DEF Collected
<1>8. CASE Wait(x)
  <2>1. /\ pc[x] = "data" /\ pc'[x] = "collect" /\ bufOut'[x] = Empty
        /\ extractors'[x] = Empty /\ round'[x] = round[x] + 1
        /\ UNCHANGED <<plan, nSent, nRcvd, sendFixed>>
    BY <1>8 DEF Wait, TypeInv, TypeOK
  <2>2. nSent[x] = 0 /\ nRcvd[x] = 0 /\ sendFixed[x]
    BY <1>1, <2>1 DEF Collected, CallsMade
  <2>3. CallsMade(x)'
    <3>1. round[x] + 1 \in DOMAIN plan => Len(plan[round[x] + 1]) \in Nat
      BY PlanTypes DEF TypeInv
    <3> QED BY <2>1, <2>2, <3>1 DEF CallsMade
  <2>4. DOMAIN <<>> = {} /\ 1 .. 0 = {}
    OBVIOUS
  <2> QED BY <2>1, <2>2, <2>3, <2>4 DEF Collected, SendsCollected, ReceivesRegistered, Empty
<1>9. ASSUME NEW p \in Procs, NEW q \in Procs, MpiTransfer(p, q) PROVE Unchanged(x)
  BY <1>9 DEF MpiTransfer, procVars
<1>10. UNCHANGED vars => Unchanged(x)
  BY DEF vars, procVars
<1> QED
  BY <1>2, <1>3, <1>4, <1>5, <1>6, <1>7, <1>8, <1>9, <1>10
     DEF Next, ProcessStep, Terminated
------------------------------------------------------------------------------
(* The channels hold what has been posted, in order *)

\* What is due on an edge depends on the plan only.
LEMMA DueType ==
    ASSUME TypeOK, NEW p \in Procs, NEW x \in Procs, NEW y \in Procs
    PROVE  Due(p, x, y) \in SUBSET (Nat \X Phases)
<1>1. DOMAIN plan \subseteq Nat
  BY PlanTypes
<1> QED BY <1>1 DEF Due, Phases

\* Posting kind k in its round adds that one message to what p has posted on the
\* edges that are active in the round, after everything posted before.
LEMMA PostedGrows ==
    ASSUME TypeOK, NEW p \in Procs, NEW kind \in Phases, plan' = plan, round' = round,
           round[p] \in DOMAIN plan,
           \/ /\ kind = "size" /\ pc[p] = "collect" /\ ~AllSizesKnown(plan, round[p], p)
              /\ pc' = [pc EXCEPT ![p] = "sizes"]
           \/ /\ kind = "data" /\ pc' = [pc EXCEPT ![p] = "data"]
              /\ pc[p] = "sizes" \/ (pc[p] = "collect" /\ AllSizesKnown(plan, round[p], p))
    PROVE  \A x, y \in Procs :
               /\ Posted(p, x, y)' = Posted(p, x, y) \cup
                      IF Active(plan, round[p], x, y) THEN {<<round[p], kind>>} ELSE {}
               /\ \A rk \in Posted(p, x, y) : Before(rk, <<round[p], kind>>)
               /\ \A z \in Procs \ {p} : Posted(z, x, y)' = Posted(z, x, y)
<1> DEFINE R == round[p]
<1>1. R \in Nat /\ DOMAIN plan \subseteq Nat
  BY PlanTypes
<1>2. /\ kind = "size" => pc'[p] = "sizes"
      /\ kind = "data" => pc'[p] = "data"
      /\ \A z \in Procs \ {p} : pc'[z] = pc[z]
  BY DEF TypeOK, Phases
<1> TAKE x, y \in Procs
<1>3. \A z \in Procs : Due(z, x, y)' = Due(z, x, y)
  BY DEF Due, Active, AllSizesKnown, Sends, Receives
<1>4. ASSUME NEW rk \in Due(p, x, y)
      PROVE  HasPosted(p, rk[1], rk[2])' <=>
                 HasPosted(p, rk[1], rk[2]) \/ rk = <<R, kind>>
  <2>1. PICK r \in DOMAIN plan, k \in {"size", "data"} : rk = <<r, k>>
    BY DEF Due
  <2>2. k = "data" \/ ~AllSizesKnown(plan, r, p)
    BY <2>1 DEF Due
  <2>3. rk[1] = r /\ rk[2] = k /\ (rk = <<R, kind>> <=> r = R /\ k = kind)
    BY <2>1
  <2>4. HasPosted(p, r, k)' <=> HasPosted(p, r, k) \/ (r = R /\ k = kind)
    BY <1>1, <1>2, <2>2 DEF HasPosted, Phases
  <2> QED BY <2>3, <2>4
<1>5. <<R, kind>> \in Due(p, x, y) <=> Active(plan, R, x, y)
  BY DEF Due, Phases
<1>6. Posted(p, x, y)' = Posted(p, x, y) \cup
          IF Active(plan, R, x, y) THEN {<<R, kind>>} ELSE {}
  BY <1>3, <1>4, <1>5 DEF Posted
<1>7. ASSUME NEW rk \in Posted(p, x, y) PROVE Before(rk, <<R, kind>>)
  <2>1. PICK r \in DOMAIN plan, k \in {"size", "data"} : rk = <<r, k>>
    BY DEF Posted, Due
  <2>2. HasPosted(p, r, k)
    BY <2>1 DEF Posted
  <2>3. r \in Nat /\ (r < R \/ (r = R /\ pc[p] = "sizes" /\ k = "size" /\ kind = "data"))
    BY <1>1, <2>2 DEF HasPosted
  <2>4. Stamp(r, k) < Stamp(R, kind)
    BY <1>1, <2>3 DEF Stamp, Phases
  <2> QED BY <2>1, <2>4 DEF Before
<1>8. ASSUME NEW z \in Procs \ {p} PROVE Posted(z, x, y)' = Posted(z, x, y)
  <2>1. \A r, k : HasPosted(z, r, k)' <=> HasPosted(z, r, k)
    BY <1>2 DEF HasPosted
  <2> QED BY <1>3, <2>1 DEF Posted
<1> QED BY <1>6, <1>7, <1>8

\* Posting a round's messages keeps every channel a history of what was posted.
LEMMA PostHistory ==
    ASSUME TypeInv, ChannelHistory, NEW p \in Procs, Collected(p),
           NEW kind \in Phases, NEW STATE capacity,
           \A q \in CurInProcs(p) : capacity[q] \in Seq(Item),
           Post(p, kind, capacity),
           plan' = plan, round' = round,
           round[p] \in DOMAIN plan, pc[p] # "data",
           nSent[p] = Len(plan[round[p]]), nRcvd[p] = Len(plan[round[p]]),
           \/ /\ kind = "size" /\ pc[p] = "collect" /\ ~AllSizesKnown(plan, round[p], p)
              /\ pc' = [pc EXCEPT ![p] = "sizes"]
           \/ /\ kind = "data" /\ pc' = [pc EXCEPT ![p] = "data"]
              /\ pc[p] = "sizes" \/ (pc[p] = "collect" /\ AllSizesKnown(plan, round[p], p))
    PROVE  ChannelHistory'
<1> DEFINE R == round[p]
           out(q) == [round |-> R, kind |-> kind, items |-> bufOut[p][q]]
           in(q)  == [round |-> R, kind |-> kind, items |-> capacity[q]]
<1>1. TypeOK
  BY DEF TypeInv
<1>2. \A x, y \in Procs :
          /\ Posted(p, x, y)' = Posted(p, x, y) \cup
                 IF Active(plan, R, x, y) THEN {<<R, kind>>} ELSE {}
          /\ \A rk \in Posted(p, x, y) : Before(rk, <<R, kind>>)
          /\ \A z \in Procs \ {p} : Posted(z, x, y)' = Posted(z, x, y)
  BY <1>1, PostedGrows
<1>3. \A q \in Procs : /\ q \in CurOutProcs(p) <=> Active(plan, R, p, q)
                       /\ q \in CurInProcs(p) <=> Active(plan, R, q, p)
  BY CurrentProcs
<1>4. \A x, y \in Procs :
          /\ sends[x][y] \in Seq(Message) /\ recvs[x][y] \in Seq(Message)
          /\ Posted(p, x, y) \in SUBSET (Nat \X Phases)
  <2> TAKE x, y \in Procs
  <2>1. sends[x][y] \in Seq(Message) /\ recvs[x][y] \in Seq(Message)
    BY <1>1 DEF TypeOK
  <2>2. Due(p, x, y) \in SUBSET (Nat \X Phases)
    BY <1>1, DueType
  <2>3. Posted(p, x, y) \subseteq Due(p, x, y)
    BY DEF Posted
  <2> QED BY <2>1, <2>2, <2>3
<1>5. /\ \A q \in Procs : out(q) \in Message
      /\ \A q \in CurInProcs(p) : in(q) \in Message
  BY <1>1 DEF TypeOK, Message, Phases
<1>6. \A q \in Procs : sends'[p][q] =
          IF Active(plan, R, p, q) THEN Append(sends[p][q], out(q)) ELSE sends[p][q]
  BY <1>1, <1>3 DEF Post, TypeOK
<1>7. \A q \in Procs : recvs'[q][p] =
          IF Active(plan, R, q, p) THEN Append(recvs[q][p], in(q)) ELSE recvs[q][p]
  BY <1>1, <1>3 DEF Post, TypeOK
<1>8. /\ \A x \in Procs \ {p}, y \in Procs : sends'[x][y] = sends[x][y]
      /\ \A x \in Procs, y \in Procs \ {p} : recvs'[x][y] = recvs[x][y]
  BY <1>1 DEF Post, TypeOK
<1>9. \A q \in Procs : /\ out(q).round = R /\ out(q).kind = kind
                       /\ in(q).round = R /\ in(q).kind = kind
  OBVIOUS
<1> HIDE DEF out, in
<1>10. ASSUME NEW x \in Procs, NEW y \in Procs
       PROVE  History(sends'[x][y], Posted(x, x, y)')
  <2>1. History(sends[x][y], Posted(x, x, y))
    BY DEF ChannelHistory
  <2>2. CASE x = p /\ Active(plan, R, x, y)
    <3>1. out(y) \in Message /\ out(y).round = R /\ out(y).kind = kind
      BY <1>5, <1>9
    <3>2. \A rk \in Posted(p, x, y) : Before(rk, <<out(y).round, out(y).kind>>)
      BY <1>2, <3>1
    <3>3. History(Append(sends[x][y], out(y)),
                  Posted(p, x, y) \cup {<<out(y).round, out(y).kind>>})
      BY <1>4, <2>1, <2>2, <3>1, <3>2, HistoryAppend
    <3>4. sends'[x][y] = Append(sends[x][y], out(y))
      BY <1>6, <2>2
    <3>5. Posted(x, x, y)' = Posted(p, x, y) \cup {<<R, kind>>}
      BY <1>2, <2>2
    <3> QED BY <3>1, <3>3, <3>4, <3>5
  <2>3. CASE x = p /\ ~Active(plan, R, x, y)
    <3>1. sends'[x][y] = sends[x][y]
      BY <1>6, <2>3
    <3>2. Posted(p, x, y)' = Posted(p, x, y) \cup {}
      BY <1>2, <2>3
    <3>3. Posted(x, x, y)' = Posted(x, x, y)
      BY <2>3, <3>2
    <3> QED BY <2>1, <3>1, <3>3
  <2>4. CASE x # p
    <3>1. sends'[x][y] = sends[x][y] /\ Posted(x, x, y)' = Posted(x, x, y)
      BY <1>2, <1>8, <2>4
    <3> QED BY <2>1, <3>1
  <2> QED BY <2>2, <2>3, <2>4
<1>11. ASSUME NEW x \in Procs, NEW y \in Procs
       PROVE  History(recvs'[x][y], Posted(y, x, y)')
  <2>1. History(recvs[x][y], Posted(y, x, y))
    BY DEF ChannelHistory
  <2>2. CASE y = p /\ Active(plan, R, x, y)
    <3>1. in(x) \in Message /\ in(x).round = R /\ in(x).kind = kind
      BY <1>3, <1>5, <1>9, <2>2
    <3>2. \A rk \in Posted(p, x, y) : Before(rk, <<in(x).round, in(x).kind>>)
      BY <1>2, <3>1
    <3>3. History(Append(recvs[x][y], in(x)),
                  Posted(p, x, y) \cup {<<in(x).round, in(x).kind>>})
      BY <1>4, <2>1, <2>2, <3>1, <3>2, HistoryAppend
    <3>4. recvs'[x][y] = Append(recvs[x][y], in(x))
      BY <1>7, <2>2
    <3>5. Posted(y, x, y)' = Posted(p, x, y) \cup {<<R, kind>>}
      BY <1>2, <2>2
    <3> QED BY <3>1, <3>3, <3>4, <3>5
  <2>3. CASE y = p /\ ~Active(plan, R, x, y)
    <3>1. recvs'[x][y] = recvs[x][y]
      BY <1>7, <2>3
    <3>2. Posted(p, x, y)' = Posted(p, x, y) \cup {}
      BY <1>2, <2>3
    <3>3. Posted(y, x, y)' = Posted(y, x, y)
      BY <2>3, <3>2
    <3> QED BY <2>1, <3>1, <3>3
  <2>4. CASE y # p
    <3>1. recvs'[x][y] = recvs[x][y] /\ Posted(y, x, y)' = Posted(y, x, y)
      BY <1>2, <1>8, <2>4
    <3> QED BY <2>1, <3>1
  <2> QED BY <2>2, <2>3, <2>4
<1> QED BY <1>10, <1>11 DEF ChannelHistory

\* Every step keeps the channels histories.
LEMMA NextHistory ==
    ASSUME TypeInv, ~EarlyCalls, CollectedInOrder, ChannelHistory, [Next]_vars
    PROVE  ChannelHistory'
<1> DEFINE Same == UNCHANGED <<plan, round, pc, sends, recvs>>
<1>1. Same => ChannelHistory'
  <2> SUFFICES ASSUME Same PROVE ChannelHistory'
    OBVIOUS
  <2>1. \A z, x, y \in Procs : Due(z, x, y)' = Due(z, x, y)
    BY DEF Due, Active, AllSizesKnown, Sends, Receives
  <2>2. \A z, x, y \in Procs : Posted(z, x, y)' = Posted(z, x, y)
    BY <2>1 DEF Posted, HasPosted
  <2> QED BY <2>2 DEF ChannelHistory
<1>2. ASSUME NEW p \in Procs, CommunicateFixed(p) PROVE ChannelHistory'
  <2>1. Collected(p) /\ ReadyToCommunicate(p)
    BY <1>2 DEF CollectedInOrder, Collected, CommunicateFixed
  <2>2. AllSizesKnown(plan, round[p], p)
    BY <1>2, <2>1, SizesKnown DEF CommunicateFixed
  <2>3. \A q \in CurInProcs(p) : extractors[p][q] \in Seq(Item)
    BY DEF CurInProcs, TypeInv, TypeOK
  <2>4. /\ Post(p, "data", extractors[p]) /\ plan' = plan /\ round' = round
        /\ pc' = [pc EXCEPT ![p] = "data"]
    BY <1>2 DEF CommunicateFixed
  <2> QED BY <2>1, <2>2, <2>3, <2>4, PostHistory DEF ReadyToCommunicate, Phases
<1>3. ASSUME NEW p \in Procs, CommunicateSizes(p) PROVE ChannelHistory'
  <2>1. Collected(p) /\ ReadyToCommunicate(p)
    BY <1>3 DEF CollectedInOrder, Collected, CommunicateSizes
  <2>2. ~AllSizesKnown(plan, round[p], p)
    BY <1>3, <2>1, SizesKnown DEF CommunicateSizes
  <2>3. \A q \in CurInProcs(p) : Empty[q] \in Seq(Item)
    BY EmptySeq DEF CurInProcs, Empty
  <2>4. /\ Post(p, "size", Empty) /\ plan' = plan /\ round' = round
        /\ pc' = [pc EXCEPT ![p] = "sizes"]
    BY <1>3 DEF CommunicateSizes
  <2> QED BY <2>1, <2>2, <2>3, <2>4, PostHistory DEF ReadyToCommunicate, Phases
<1>4. ASSUME NEW p \in Procs, FinishSizes(p) PROVE ChannelHistory'
  <2> DEFINE capacity == [q \in CurInProcs(p) |-> Received(p, q)]
  <2>1. /\ Collected(p) /\ pc[p] = "sizes" /\ round[p] \in DOMAIN plan
        /\ nSent[p] = Len(plan[round[p]]) /\ nRcvd[p] = Len(plan[round[p]])
    BY <1>4 DEF CollectedInOrder, Collected, CallsMade, FinishSizes
  <2>2. \A q \in CurInProcs(p) : capacity[q] \in Seq(Item)
    <3> TAKE q \in CurInProcs(p)
    <3>1. q \in Procs /\ recvs[q][p] # <<>>
      BY <2>1 DEF CurInProcs, TypeInv, Pairing
    <3> QED BY <1>4, <3>1, ReceivedType DEF FinishSizes
  <2> HIDE DEF capacity
  <2>3. /\ Post(p, "data", capacity) /\ plan' = plan /\ round' = round
        /\ pc' = [pc EXCEPT ![p] = "data"]
    BY <1>4 DEF FinishSizes, capacity
  <2> QED BY <2>1, <2>2, <2>3, PostHistory DEF Phases
<1>5. ASSUME NEW p \in Procs, Wait(p) PROVE ChannelHistory'
  <2>1. /\ plan' = plan /\ sends' = sends /\ recvs' = recvs
        /\ pc[p] = "data" /\ round[p] \in Nat
        /\ round'[p] = round[p] + 1 /\ pc'[p] = "collect"
        /\ \A z \in Procs \ {p} : round'[z] = round[z] /\ pc'[z] = pc[z]
    BY <1>5 DEF Wait, TypeInv, TypeOK, mpiVars
  <2>2. DOMAIN plan \subseteq Nat
    BY PlanTypes DEF TypeInv
  <2>3. \A z \in Procs, r \in DOMAIN plan, k \in {"size", "data"} :
            HasPosted(z, r, k)' <=> HasPosted(z, r, k)
    <3> TAKE z \in Procs, r \in DOMAIN plan, k \in {"size", "data"}
    <3>1. CASE z = p
      BY <2>1, <2>2, <3>1 DEF HasPosted
    <3>2. CASE z # p
      BY <2>1, <3>2 DEF HasPosted
    <3> QED BY <3>1, <3>2
  <2>4. \A z, x, y \in Procs : Due(z, x, y)' = Due(z, x, y)
    BY <2>1 DEF Due, Active, AllSizesKnown, Sends, Receives
  <2>5. \A z, x, y \in Procs : Posted(z, x, y)' = Posted(z, x, y)
    <3> TAKE z, x, y \in Procs
    <3>1. \A rk \in Due(z, x, y) :
              HasPosted(z, rk[1], rk[2])' <=> HasPosted(z, rk[1], rk[2])
      BY <2>3 DEF Due
    <3> QED BY <2>4, <3>1 DEF Posted
  <2> QED BY <2>1, <2>5 DEF ChannelHistory
<1>6. ASSUME NEW p \in Procs, SendData(p) \/ ReceiveData(p) PROVE Same
  BY <1>6 DEF SendData, ReceiveData, mpiVars
<1>7. ASSUME NEW p \in Procs, NEW q \in Procs, MpiTransfer(p, q) PROVE Same
  BY <1>7 DEF MpiTransfer, procVars
<1>8. UNCHANGED vars => Same
  BY DEF vars, procVars, mpiVars
<1> QED
  BY <1>1, <1>2, <1>3, <1>4, <1>5, <1>6, <1>7, <1>8 DEF Next, ProcessStep, Terminated
------------------------------------------------------------------------------
(* Rounds and phases stay separate *)

\* Nothing is collected and nothing is posted when a program starts.
LEMMA InitHistory == Init => CollectedInOrder /\ ChannelHistory
<1> SUFFICES ASSUME Init PROVE CollectedInOrder /\ ChannelHistory
  OBVIOUS
<1>1. TypeOK
  BY InitTypeInv DEF TypeInv
<1>2. DOMAIN <<>> = {} /\ 1 .. 0 = {}
  OBVIOUS
<1>3. ASSUME NEW p \in Procs PROVE CallsMade(p) /\ SendsCollected(p) /\ ReceivesRegistered(p)
  <2>1. /\ round[p] = 1 /\ pc[p] = "collect" /\ nSent[p] = 0 /\ nRcvd[p] = 0
        /\ bufOut[p] = Empty /\ sendFixed[p] = TRUE /\ extractors[p] = Empty
    BY DEF Init
  <2>2. 1 \in DOMAIN plan => Len(plan[1]) \in Nat
    BY <1>1, PlanTypes
  <2> QED
    BY <1>2, <2>1, <2>2 DEF CallsMade, SendsCollected, ReceivesRegistered, Empty
<1>4. ASSUME NEW p \in Procs, NEW x \in Procs, NEW y \in Procs
      PROVE  Posted(p, x, y) = {}
  <2>1. DOMAIN plan \subseteq Nat \ {0} /\ round[p] = 1 /\ pc[p] = "collect"
    BY <1>1, PlanTypes DEF Init
  <2> QED BY <2>1 DEF Posted, Due, HasPosted
<1>5. ASSUME NEW x \in Procs, NEW y \in Procs
      PROVE  sends[x][y] = <<>> /\ recvs[x][y] = <<>>
  BY DEF Init, Empty
<1>6. History(<<>>, {})
  BY <1>2 DEF History
<1> QED BY <1>3, <1>4, <1>5, <1>6 DEF CollectedInOrder, ChannelHistory

\* What a process has posted is an initial part of what it has to post.
LEMMA PostedIsInitial ==
    ASSUME TypeOK, NEW p \in Procs, NEW x \in Procs, NEW y \in Procs,
           NEW late \in Posted(p, x, y), NEW early \in Due(p, x, y), Before(early, late)
    PROVE  early \in Posted(p, x, y)
<1>1. PICK r1 \in DOMAIN plan, k1 \in {"size", "data"} : early = <<r1, k1>>
  BY DEF Due
<1>2. PICK r2 \in DOMAIN plan, k2 \in {"size", "data"} : late = <<r2, k2>>
  BY DEF Posted, Due
<1>3. r1 \in Nat /\ r2 \in Nat /\ round[p] \in Nat
  BY PlanTypes DEF TypeOK
<1>4. HasPosted(p, r2, k2)
  BY <1>2 DEF Posted
<1>5. r1 < r2 \/ (r1 = r2 /\ k1 = "size" /\ k2 = "data")
  BY <1>1, <1>2, <1>3 DEF Before, Stamp
<1>6. HasPosted(p, r1, k1)
  BY <1>3, <1>4, <1>5 DEF HasPosted
<1> QED BY <1>1, <1>6 DEF Posted

\* Neighbours that agree about sizes have the same messages to post on an edge;
\* both have posted an initial part of them, each in order.
LEMMA HistoriesAgree ==
    ASSUME TypeOK, Agreeing(plan), ChannelHistory
    PROVE  RoundsNeverMix
<1> SUFFICES ASSUME NEW p \in Procs, NEW q \in Procs
             PROVE  \A n \in DOMAIN sends[p][q] \cap DOMAIN recvs[p][q] :
                        /\ sends[p][q][n].round = recvs[p][q][n].round
                        /\ sends[p][q][n].kind = recvs[p][q][n].kind
  BY DEF RoundsNeverMix
<1> DEFINE S == Due(p, p, q)
           A == Posted(p, p, q)
           B == Posted(q, p, q)
           s == sends[p][q]
           t == recvs[p][q]
<1>1. S = Due(q, p, q)
  BY DEF Due, Agreeing
<1>2. S \in SUBSET (Nat \X Phases)
  BY DueType
<1>3. A \in SUBSET S /\ B \in SUBSET S
  BY <1>1 DEF Posted
<1>4. \A a \in A, x \in S : Before(x, a) => x \in A
  BY PostedIsInitial
<1>5. \A b \in B, x \in S : Before(x, b) => x \in B
  BY <1>1, PostedIsInitial
<1>6. s \in Seq(Message) /\ t \in Seq(Message)
  BY DEF TypeOK
<1>7. History(s, A) /\ History(t, B)
  BY DEF ChannelHistory
<1> HIDE DEF S, A, B, s, t
<1>8. \A n \in DOMAIN s \cap DOMAIN t : s[n].round = t[n].round /\ s[n].kind = t[n].kind
  BY <1>2, <1>3, <1>4, <1>5, <1>6, <1>7, SameOrder
<1> QED BY <1>8 DEF s, t

\* What the next two theorems and the last one rest on, together.
LEMMA CommunicatorInvariant ==
    ASSUME ~EarlyCalls
    PROVE  Spec => [](TypeInv /\ CollectedInOrder /\ ChannelHistory)
<1> DEFINE IInv == TypeInv /\ CollectedInOrder /\ ChannelHistory
<1>1. Init => IInv
  BY InitTypeInv, InitHistory
<1>2. IInv /\ [Next]_vars => IInv'
  <2> SUFFICES ASSUME IInv, [Next]_vars PROVE IInv'
    OBVIOUS
  <2>1. TypeInv'
    BY NextTypeInv
  <2>2. CollectedInOrder'
    BY NextCollected
  <2>3. ChannelHistory'
    BY NextHistory
  <2> QED BY <2>1, <2>2, <2>3
<1> QED BY <1>1, <1>2, PTL DEF Spec

\* In every program that calls communicate() after the calls of its round, the
\* send buffers, the flag for fixed sizes and the extractors of a process reflect
\* the calls of its current round made so far, and nothing of an earlier round.
THEOREM CallsAreCollected == ASSUME ~EarlyCalls PROVE Spec => []CollectedInOrder
<1>1. TypeInv /\ CollectedInOrder /\ ChannelHistory => CollectedInOrder
  OBVIOUS
<1> QED BY <1>1, CommunicatorInvariant, PTL

\* In every such program the messages a process has handed to MPI for a
\* neighbour, and the receives it has posted for one, are those of the rounds it
\* went through, one per phase, in the order of the rounds: none is lost, posted
\* twice or overtaken by a later round's.
THEOREM HistoryIsKept == ASSUME ~EarlyCalls PROVE Spec => []ChannelHistory
<1>1. TypeInv /\ CollectedInOrder /\ ChannelHistory => ChannelHistory
  OBVIOUS
<1> QED BY <1>1, CommunicatorInvariant, PTL

\* For every number of processes and every program whose neighbours agree on
\* sizes, no receive ever meets a message of another round or phase, although all
\* of them travel under one tag.
THEOREM RoundsStaySeparate ==
    ASSUME ~EarlyCalls, \A pl \in Plans : Agreeing(pl)
    PROVE  Spec => []RoundsNeverMix
<1>1. TypeInv /\ CollectedInOrder /\ ChannelHistory => RoundsNeverMix
  BY HistoriesAgree DEF TypeInv, TypeOK
<1> QED BY <1>1, CommunicatorInvariant, PTL

------------------------------------------------------------------------------
(* What the communicator delivers.  The invariants above say which calls are in a
   buffer; here they are strengthened by the order in which they are, since two
   buffers with the same calls in the same order are equal. *)

\* s holds the items of those of the first n calls of round r that use edge e,
\* in the order of the calls.
CarriesFirst(pl, r, n, e, s) ==
    /\ \A i \in DOMAIN s : /\ s[i].call \in 1 .. n
                           /\ e \in pl[r][s[i].call].edges
                           /\ s[i] = ItemOf(pl, r, s[i].call)
    /\ \A c \in 1 .. n : e \in pl[r][c].edges => \E i \in DOMAIN s : s[i].call = c
    /\ \A i, j \in DOMAIN s : i < j => s[i].call < s[j].call

\* s holds all items of round r for edge e.
Carries(pl, r, e, s) == CarriesFirst(pl, r, Len(pl[r]), e, s)

\* The calls that the extractors of p stand for.
Registered(p) == IF pc[p] = "data" THEN Len(plan[round[p]]) ELSE nRcvd[p]

\* Buffers and extractors of p are in the order of the calls made.
InOrderAt(p) ==
    \A q \in Procs :
        /\ pc[p] # "data" => CarriesFirst(plan, round[p], nSent[p], <<p, q>>, bufOut[p][q])
        /\ CarriesFirst(plan, round[p], Registered(p), <<q, p>>, extractors[p][q])

ItemsInOrder == \A p \in Procs : InOrderAt(p)

\* What p sends to q, and has made room for, are whole rounds.
EdgeCarries(p, q) ==
    /\ \A n \in DOMAIN sends[p][q] :
           Carries(plan, sends[p][q][n].round, <<p, q>>, sends[p][q][n].items)
    /\ \A n \in DOMAIN recvs[p][q] : recvs[p][q][n].kind = "data" =>
           Carries(plan, recvs[p][q][n].round, <<p, q>>, recvs[p][q][n].items)

MessagesCarryRounds == \A p, q \in Procs : EdgeCarries(p, q)

DeliveryInv ==
    /\ TypeInv /\ CollectedInOrder /\ ChannelHistory
    /\ ItemsInOrder /\ MessagesCarryRounds /\ NoTruncation

------------------------------------------------------------------------------
(* Sequences in the order of the calls *)

\* f counts the elements of C, the smaller ones first.
Enumerates(f, n, C) ==
    /\ f \in [1 .. n -> C]
    /\ \A i, j \in 1 .. n : i < j => f[i] < f[j]
    /\ \A c \in C : \E i \in 1 .. n : f[i] = c

\* f and g agree below k.
AgreeBelow(f, g, k) == \A i \in Nat : 0 < i /\ i < k => f[i] = g[i]

\* Where two enumerations first differ, neither has the smaller element: the
\* other one would have had it before.
LEMMA SmallestDifference ==
    ASSUME NEW C, C \subseteq Nat, NEW m \in Nat, NEW n \in Nat, NEW f, NEW g,
           Enumerates(f, m, C), Enumerates(g, n, C),
           NEW k \in Nat, 0 < k, k <= m, k <= n, AgreeBelow(f, g, k)
    PROVE  ~(f[k] < g[k])
<1> USE DEF Enumerates, AgreeBelow
<1> SUFFICES ASSUME f[k] < g[k] PROVE FALSE
  OBVIOUS
<1>2. f[k] \in C /\ g[k] \in C /\ k \in 1 .. n /\ f[k] \in Nat /\ g[k] \in Nat
  <2>1. k \in 1 .. m /\ k \in 1 .. n
    OBVIOUS
  <2> QED BY <2>1
<1>1. PICK j \in 1 .. n : g[j] = f[k]
  <2>1. \A c \in C : \E j \in 1 .. n : g[j] = c
    OBVIOUS
  <2> QED BY <1>2, <2>1
<1>3. j < k
  <2>1. ~(k < j)
    BY <1>1, <1>2
  <2>2. k # j
    BY <1>1, <1>2
  <2> QED BY <2>1, <2>2
<1>4. j \in 1 .. m /\ f[j] = g[j] /\ f[j] < f[k]
  BY <1>3
<1> QED BY <1>1, <1>2, <1>4

\* A set of numbers has one such enumeration.
LEMMA SameEnumeration ==
    ASSUME NEW C, C \subseteq Nat, NEW m \in Nat, NEW n \in Nat, NEW f, NEW g,
           Enumerates(f, m, C), Enumerates(g, n, C)
    PROVE  m = n /\ AgreeBelow(f, g, m + 1)
<1> DEFINE D == {i \in Nat : 0 < i /\ i <= m /\ i <= n /\ f[i] # g[i]}
<1>1. ASSUME NEW x \in D PROVE FALSE
  <2>1. D \in SUBSET Nat /\ D # {}
    BY <1>1
  <2>2. PICK k \in D : \A i \in D : k <= i
    BY <2>1, LeastNat
  <2>3. k \in Nat /\ 0 < k /\ k <= m /\ k <= n /\ f[k] # g[k]
    OBVIOUS
  <2>4. AgreeBelow(f, g, k)
    <3> SUFFICES ASSUME NEW i \in Nat, 0 < i, i < k, f[i] # g[i] PROVE FALSE
      BY DEF AgreeBelow
    <3>1. i \in D
      BY <2>3
    <3>2. k <= i
      BY <2>2, <3>1
    <3> QED BY <2>3, <3>2
  <2>5. AgreeBelow(g, f, k)
    BY <2>4 DEF AgreeBelow
  <2> HIDE DEF D
  <2>6. ~(f[k] < g[k])
    BY <2>3, <2>4, SmallestDifference
  <2>7. ~(g[k] < f[k])
    BY <2>3, <2>5, SmallestDifference
  <2>8. f[k] \in Nat /\ g[k] \in Nat
    <3>1. k \in 1 .. m /\ k \in 1 .. n
      BY <2>3
    <3> QED BY <3>1 DEF Enumerates
  <2> QED BY <2>3, <2>6, <2>7, <2>8
<1>2. \A i \in Nat : 0 < i /\ i <= m /\ i <= n => f[i] = g[i]
  BY <1>1
<1> HIDE DEF D
<1>3. ASSUME NEW a \in Nat, NEW b \in Nat, NEW u, NEW v, a < b,
             Enumerates(u, a, C), Enumerates(v, b, C),
             \A i \in Nat : 0 < i /\ i <= a /\ i <= b => u[i] = v[i]
      PROVE  FALSE
  <2>1. a + 1 \in 1 .. b /\ v[a + 1] \in C
    BY <1>3 DEF Enumerates
  <2>2. PICK j \in 1 .. a : u[j] = v[a + 1]
    BY <1>3, <2>1 DEF Enumerates
  <2>3. j \in 1 .. b /\ j < a + 1 /\ u[j] = v[j]
    BY <1>3, <2>2
  <2>4. v[j] < v[a + 1] /\ v[j] \in Nat
    BY <1>3, <2>1, <2>3 DEF Enumerates
  <2> QED BY <2>2, <2>3, <2>4
<1>4. ~(m < n)
  BY <1>2, <1>3
<1>5. ~(n < m)
  <2>1. \A i \in Nat : 0 < i /\ i <= n /\ i <= m => g[i] = f[i]
    BY <1>2
  <2> QED BY <1>3, <2>1
<1> QED BY <1>2, <1>4, <1>5 DEF AgreeBelow

\* Nothing is carried before the first call.
LEMMA CarriesNone ==
    ASSUME NEW pl, NEW r, NEW e PROVE CarriesFirst(pl, r, 0, e, <<>>)
<1>1. DOMAIN <<>> = {} /\ 1 .. 0 = {}
  OBVIOUS
<1> QED BY <1>1 DEF CarriesFirst

\* One more call adds its item if it uses the edge, and nothing otherwise.
LEMMA CarriesOneMore ==
    ASSUME NEW pl, NEW r, NEW n \in Nat, NEW e, NEW s \in Seq(Item),
           ItemOf(pl, r, n + 1) \in Item, CarriesFirst(pl, r, n, e, s)
    PROVE  CarriesFirst(pl, r, n + 1, e,
               IF e \in pl[r][n + 1].edges THEN Append(s, ItemOf(pl, r, n + 1)) ELSE s)
<1> DEFINE item == ItemOf(pl, r, n + 1)
           new  == Append(s, item)
           on(c) == e \in pl[r][c].edges
<1>1. 1 .. n + 1 = (1 .. n) \cup {n + 1}
  OBVIOUS
<1>2. item.call = n + 1
  BY DEF ItemOf
<1>3. /\ new \in Seq(Item) /\ DOMAIN new = 1 .. Len(s) + 1
      /\ DOMAIN s = 1 .. Len(s) /\ Len(s) \in Nat
      /\ \A i \in 1 .. Len(s) : new[i] = s[i]
      /\ new[Len(s) + 1] = item
  BY LenProperties, AppendProperties
<1>4. /\ \A i \in 1 .. Len(s) : /\ s[i].call \in 1 .. n /\ on(s[i].call)
                                /\ s[i] = ItemOf(pl, r, s[i].call)
      /\ \A c \in 1 .. n : on(c) => \E i \in 1 .. Len(s) : s[i].call = c
      /\ \A i, j \in 1 .. Len(s) : i < j => s[i].call < s[j].call
  BY <1>3 DEF CarriesFirst
<1>5. CASE ~on(n + 1)
  BY <1>1, <1>3, <1>4, <1>5 DEF CarriesFirst
<1>6. CASE on(n + 1)
  <2> HIDE DEF new, item, on
  <2>1. \A i \in 1 .. Len(s) + 1 : /\ new[i].call \in 1 .. n + 1 /\ on(new[i].call)
                                   /\ new[i] = ItemOf(pl, r, new[i].call)
    <3> TAKE i \in 1 .. Len(s) + 1
    <3>1. CASE i \in 1 .. Len(s)
      BY <1>1, <1>3, <1>4, <3>1
    <3>2. CASE i = Len(s) + 1
      BY <1>1, <1>2, <1>3, <1>6, <3>2 DEF item
    <3> QED BY <1>3, <3>1, <3>2
  <2>2. ASSUME NEW c \in 1 .. n + 1, on(c)
        PROVE  \E i \in 1 .. Len(s) + 1 : new[i].call = c
    <3>1. CASE c \in 1 .. n
      <4>1. PICK i \in 1 .. Len(s) : s[i].call = c
        BY <1>4, <2>2, <3>1
      <4>2. i \in 1 .. Len(s) + 1 /\ new[i] = s[i]
        BY <1>3
      <4> QED BY <4>1, <4>2
    <3>2. CASE c = n + 1
      BY <1>2, <1>3, <3>2
    <3> QED BY <1>1, <3>1, <3>2
  <2>3. ASSUME NEW i \in 1 .. Len(s) + 1, NEW j \in 1 .. Len(s) + 1, i < j
        PROVE  new[i].call < new[j].call
    <3>1. i \in 1 .. Len(s) /\ new[i] = s[i]
      BY <1>3, <2>3
    <3>2. CASE j \in 1 .. Len(s)
      BY <1>3, <1>4, <2>3, <3>1, <3>2
    <3>3. CASE j = Len(s) + 1
      BY <1>2, <1>3, <1>4, <3>1, <3>3
    <3> QED BY <1>3, <3>2, <3>3
  <2> QED
    BY <1>3, <1>6, <2>1, <2>2, <2>3 DEF CarriesFirst, new, item, on
<1> QED BY <1>5, <1>6

\* Two sequences that carry the same calls are equal.
LEMMA CarriesUnique ==
    ASSUME NEW pl, NEW r, NEW n \in Nat, NEW e, NEW s \in Seq(Item), NEW t \in Seq(Item),
           CarriesFirst(pl, r, n, e, s), CarriesFirst(pl, r, n, e, t)
    PROVE  s = t
<1> DEFINE C == {c \in 1 .. n : e \in pl[r][c].edges}
           f == [i \in 1 .. Len(s) |-> s[i].call]
           g == [i \in 1 .. Len(t) |-> t[i].call]
<1>1. /\ DOMAIN s = 1 .. Len(s) /\ Len(s) \in Nat
      /\ DOMAIN t = 1 .. Len(t) /\ Len(t) \in Nat
  BY LenProperties
<1>2. C \subseteq Nat
  OBVIOUS
<1>3. Enumerates(f, Len(s), C)
  BY <1>1 DEF CarriesFirst, Enumerates
<1>4. Enumerates(g, Len(t), C)
  BY <1>1 DEF CarriesFirst, Enumerates
<1>7. Len(s) = Len(t) /\ AgreeBelow(f, g, Len(s) + 1)
  <2>1. Len(s) \in Nat /\ Len(t) \in Nat
    BY <1>1
  <2> HIDE DEF C, f, g
  <2> QED BY <1>2, <1>3, <1>4, <2>1, SameEnumeration
<1>5. Len(s) = Len(t) /\ \A i \in 1 .. Len(s) : s[i].call = t[i].call
  <2>1. \A i \in 1 .. Len(s) : i \in Nat /\ 0 < i /\ i < Len(s) + 1
    BY <1>1
  <2>2. \A i \in 1 .. Len(s) : f[i] = g[i]
    <3> HIDE DEF f, g
    <3> QED BY <1>7, <2>1 DEF AgreeBelow
  <2> QED BY <1>7, <2>2
<1>6. \A i \in 1 .. Len(s) : s[i] = t[i]
  BY <1>1, <1>5 DEF CarriesFirst
<1> QED BY <1>1, <1>5, <1>6, SeqEqual
------------------------------------------------------------------------------
(* Buffers and extractors keep the order of the calls *)

\* What p collected is in order as long as nothing of p changes.
LEMMA InOrderKept ==
    ASSUME NEW p \in Procs, InOrderAt(p), plan' = plan, round'[p] = round[p],
           pc'[p] = pc[p] \/ pc[p] # "data", pc'[p] = pc[p] \/ Registered(p)' = Registered(p),
           nSent'[p] = nSent[p] \/ pc'[p] = "data", nRcvd'[p] = nRcvd[p] \/ pc'[p] = "data",
           bufOut'[p] = bufOut[p], extractors'[p] = extractors[p]
    PROVE  InOrderAt(p)'
<1>1. Registered(p)' = Registered(p)
  BY DEF Registered
<1>2. ASSUME NEW q \in Procs
      PROVE  /\ pc'[p] # "data" =>
                    CarriesFirst(plan', round'[p], nSent'[p], <<p, q>>, bufOut'[p][q])
             /\ CarriesFirst(plan', round'[p], Registered(p)', <<q, p>>, extractors'[p][q])
  BY <1>1 DEF InOrderAt
<1> QED BY <1>2, Zenon DEF InOrderAt

\* send_data puts the item of the next call behind the others.
LEMMA SendDataInOrder ==
    ASSUME TypeInv, ~EarlyCalls, NEW p \in Procs, InOrderAt(p), SendData(p)
    PROVE  InOrderAt(p)'
<1> DEFINE r == round[p]
           n == nSent[p]
<1>1. pc[p] = "collect" /\ r \in DOMAIN plan /\ CallRound(p) = r
  BY DEF SendData, MayCall, CallRound
<1>2. n \in Nat /\ n + 1 \in DOMAIN plan[r] /\ ItemOf(plan, r, n + 1) \in Item
  BY <1>1, CallType DEF SendData, TypeInv, TypeOK
<1>3. /\ nSent'[p] = n + 1
      /\ \A q \in Procs : bufOut'[p][q] = IF <<p, q>> \in plan[r][n + 1].edges
             THEN Append(bufOut[p][q], ItemOf(plan, r, n + 1)) ELSE bufOut[p][q]
      /\ UNCHANGED <<plan, round, pc, nRcvd, extractors>>
  BY <1>1 DEF SendData, TypeInv, TypeOK
<1>4. Registered(p)' = Registered(p)
  BY <1>3 DEF Registered
<1>5. ASSUME NEW q \in Procs
      PROVE  /\ CarriesFirst(plan', round'[p], nSent'[p], <<p, q>>, bufOut'[p][q])
             /\ CarriesFirst(plan', round'[p], Registered(p)', <<q, p>>, extractors'[p][q])
  <2> DEFINE b == bufOut[p][q]
             e == <<p, q>>
  <2>1. b \in Seq(Item)
    BY DEF TypeInv, TypeOK
  <2>2. CarriesFirst(plan, r, n, e, b)
    BY <1>1 DEF InOrderAt
  <2>3. bufOut'[p][q] = IF e \in plan[r][n + 1].edges THEN Append(b, ItemOf(plan, r, n + 1)) ELSE b
    BY <1>3
  <2>4. CarriesFirst(plan, r, n + 1, e, bufOut'[p][q])
    <3> HIDE DEF b, e, r, n
    <3> QED BY <1>2, <2>1, <2>2, <2>3, CarriesOneMore
  <2>5. CarriesFirst(plan, r, Registered(p), <<q, p>>, extractors[p][q])
    BY DEF InOrderAt
  <2> QED BY <1>3, <1>4, <2>4, <2>5
<1> QED BY <1>5, Zenon DEF InOrderAt

\* receive_data registers the next call behind the others.
LEMMA ReceiveDataInOrder ==
    ASSUME TypeInv, ~EarlyCalls, NEW p \in Procs, InOrderAt(p), ReceiveData(p)
    PROVE  InOrderAt(p)'
<1> DEFINE r == round[p]
           n == nRcvd[p]
<1>1. pc[p] = "collect" /\ r \in DOMAIN plan /\ CallRound(p) = r
  BY DEF ReceiveData, MayCall, CallRound
<1>2. n \in Nat /\ n + 1 \in DOMAIN plan[r] /\ ItemOf(plan, r, n + 1) \in Item
  BY <1>1, CallType DEF ReceiveData, TypeInv, TypeOK
<1>3. /\ nRcvd'[p] = n + 1
      /\ \A q \in Procs : extractors'[p][q] = IF <<q, p>> \in plan[r][n + 1].edges
             THEN Append(extractors[p][q], ItemOf(plan, r, n + 1)) ELSE extractors[p][q]
      /\ UNCHANGED <<plan, round, pc, nSent, bufOut>>
  BY <1>1 DEF ReceiveData, TypeInv, TypeOK
<1>4. Registered(p) = n /\ Registered(p)' = n + 1
  BY <1>1, <1>3 DEF Registered
<1>5. ASSUME NEW q \in Procs
      PROVE  /\ CarriesFirst(plan', round'[p], nSent'[p], <<p, q>>, bufOut'[p][q])
             /\ CarriesFirst(plan', round'[p], Registered(p)', <<q, p>>, extractors'[p][q])
  <2> DEFINE b == extractors[p][q]
             e == <<q, p>>
  <2>1. b \in Seq(Item)
    BY DEF TypeInv, TypeOK
  <2>2. CarriesFirst(plan, r, n, e, b)
    BY <1>4 DEF InOrderAt
  <2>3. extractors'[p][q] = IF e \in plan[r][n + 1].edges THEN Append(b, ItemOf(plan, r, n + 1)) ELSE b
    BY <1>3
  <2>4. CarriesFirst(plan, r, n + 1, e, extractors'[p][q])
    <3> HIDE DEF b, e, r, n
    <3> QED BY <1>2, <2>1, <2>2, <2>3, CarriesOneMore
  <2>5. CarriesFirst(plan, r, nSent[p], <<p, q>>, bufOut[p][q])
    BY <1>1 DEF InOrderAt
  <2> QED BY <1>3, <1>4, <2>4, <2>5
<1> QED BY <1>5, Zenon DEF InOrderAt

\* Every step of a process or of MPI keeps them in order.
LEMMA NextInOrder ==
    ASSUME TypeInv, ~EarlyCalls, CollectedInOrder, ItemsInOrder, [Next]_vars
    PROVE  ItemsInOrder'
<1> SUFFICES ASSUME NEW x \in Procs PROVE InOrderAt(x)'
  BY DEF ItemsInOrder
<1>1. InOrderAt(x) /\ CallsMade(x)
  BY DEF ItemsInOrder, CollectedInOrder
<1> DEFINE Unchanged(y) == /\ plan' = plan
                           /\ round'[y] = round[y] /\ pc'[y] = pc[y]
                           /\ nSent'[y] = nSent[y] /\ nRcvd'[y] = nRcvd[y]
                           /\ bufOut'[y] = bufOut[y] /\ extractors'[y] = extractors[y]
<1>2. Unchanged(x) => InOrderAt(x)'
  BY <1>1, InOrderKept
<1>3. ASSUME NEW p \in Procs, p # x, ProcessStep(p) PROVE Unchanged(x)
  BY <1>3, ZenonT(40) DEF ProcessStep, SendData, ReceiveData, CommunicateFixed, CommunicateSizes,
              FinishSizes, Wait, Post, TypeInv, TypeOK, mpiVars
<1>4. CASE SendData(x)
  BY <1>1, <1>4, SendDataInOrder
<1>5. CASE ReceiveData(x)
  BY <1>1, <1>5, ReceiveDataInOrder
<1>6. CASE CommunicateFixed(x) \/ FinishSizes(x)
  <2>1. /\ pc'[x] = "data" /\ pc[x] # "data"
        /\ plan' = plan /\ round' = round /\ bufOut' = bufOut /\ extractors' = extractors
    BY <1>6 DEF CommunicateFixed, FinishSizes, ReadyToCommunicate, TypeInv, TypeOK
  <2>2. nRcvd[x] = Len(plan[round[x]])
    BY <1>1, <1>6 DEF CommunicateFixed, FinishSizes, ReadyToCommunicate, CallsMade
  <2>3. Registered(x)' = Registered(x)
    BY <2>1, <2>2 DEF Registered
  <2> QED BY <1>1, <2>1, <2>3, InOrderKept
<1>7. CASE CommunicateSizes(x)
  <2>1. /\ pc'[x] # "data" /\ pc[x] # "data"
        /\ UNCHANGED <<plan, round, nSent, nRcvd, bufOut, extractors>>
    BY <1>7 DEF CommunicateSizes, ReadyToCommunicate, TypeInv, TypeOK
  <2>2. Registered(x)' = Registered(x)
    BY <2>1 DEF Registered
  <2> QED BY <1>1, <2>1, <2>2, InOrderKept
<1>8. CASE Wait(x)
  <2>1. /\ pc[x] = "data" /\ pc'[x] = "collect" /\ bufOut'[x] = Empty
        /\ extractors'[x] = Empty /\ UNCHANGED <<nSent, nRcvd>>
    BY <1>8 DEF Wait, TypeInv, TypeOK
  <2>2. nSent'[x] = 0 /\ Registered(x)' = 0
    BY <1>1, <2>1 DEF CallsMade, Registered
  <2>3. ASSUME NEW q \in Procs
        PROVE  /\ CarriesFirst(plan', round'[x], nSent'[x], <<x, q>>, bufOut'[x][q])
               /\ CarriesFirst(plan', round'[x], Registered(x)', <<q, x>>, extractors'[x][q])
    <3>1. bufOut'[x][q] = <<>> /\ extractors'[x][q] = <<>>
      BY <2>1 DEF Empty
    <3> QED BY <2>2, <3>1, CarriesNone
  <2> QED BY <2>3, Zenon DEF InOrderAt
<1>9. ASSUME NEW p \in Procs, NEW q \in Procs, MpiTransfer(p, q) PROVE Unchanged(x)
  BY <1>9 DEF MpiTransfer, procVars
<1>10. UNCHANGED vars => Unchanged(x)
  BY DEF vars, procVars
<1> QED
  BY <1>2, <1>3, <1>4, <1>5, <1>6, <1>7, <1>8, <1>9, <1>10
     DEF Next, ProcessStep, Terminated
------------------------------------------------------------------------------
(* Messages carry whole rounds *)

\* The kind of the messages p waits for.
Phase(p) == IF pc[p] = "sizes" THEN "size" ELSE "data"

\* A process that waits in a round in which q sends something has posted a
\* receive for it, as its last one for q, and MPI has paired it.
LEMMA LastReceive ==
    ASSUME TypeInv, CollectedInOrder, ChannelHistory, RoundsNeverMix,
           NEW p \in Procs, NEW q \in Procs, RequestsDone(p), pc[p] # "collect",
           round[p] \in DOMAIN plan, Active(plan, round[p], q, p)
    PROVE  LET n == Len(recvs[q][p])
           IN  /\ recvs[q][p] # <<>>
               /\ n \in DOMAIN recvs[q][p] /\ n \in DOMAIN sends[q][p]
               /\ recvs[q][p][n].round = round[p] /\ recvs[q][p][n].kind = Phase(p)
               /\ sends[q][p][n].round = round[p] /\ sends[q][p][n].kind = Phase(p)
<1> DEFINE t == recvs[q][p]
           n == Len(t)
           R == round[p]
           k == Phase(p)
<1>1. t \in Seq(Message) /\ sends[q][p] \in Seq(Message) /\ R \in Nat /\ k \in Phases
  BY DEF TypeInv, TypeOK, Phase, Phases
<1>2. DOMAIN t = 1 .. n /\ n \in Nat /\ DOMAIN sends[q][p] = 1 .. Len(sends[q][p])
  BY <1>1, LenProperties
<1>3. CallsMade(p) /\ pc[p] \in {"sizes", "data"}
  BY DEF CollectedInOrder, TypeInv, TypeOK
<1>4. <<R, k>> \in Posted(p, q, p)
  <2>1. k = "data" \/ ~AllSizesKnown(plan, R, p)
    BY <1>3 DEF Phase, CallsMade
  <2>2. HasPosted(p, R, k)
    BY <1>3 DEF Phase, HasPosted
  <2>3. <<R, k>> \in Due(p, q, p)
    BY <1>1, <2>1 DEF Due, Phases
  <2> QED BY <2>2, <2>3 DEF Posted
<1>5. History(t, Posted(p, q, p))
  BY DEF ChannelHistory
<1>6. PICK i \in 1 .. n : t[i].round = R /\ t[i].kind = k
  <2>1. <<R, k>> \in {<<t[i].round, t[i].kind>> : i \in DOMAIN t}
    BY <1>4, <1>5 DEF History
  <2> QED BY <1>2, <2>1
<1>7. n \in 1 .. n /\ n \in DOMAIN t /\ t # <<>>
  <2>1. n \in 1 .. n
    BY <1>2, <1>6
  <2>2. Len(<<>>) = 0
    BY EmptySeq
  <2> QED BY <1>2, <2>1, <2>2
<1>8. i = n
  <2> SUFFICES ASSUME i < n PROVE FALSE
    BY <1>2, <1>6
  <2>1. Stamp(R, k) < Stamp(t[n].round, t[n].kind)
    BY <1>2, <1>5, <1>6, <1>7 DEF History
  <2>2. <<t[n].round, t[n].kind>> \in Posted(p, q, p)
    BY <1>5, <1>7 DEF History
  <2>3. HasPosted(p, t[n].round, t[n].kind)
    BY <2>2 DEF Posted
  <2>4. t[n].round \in Nat /\ t[n].kind \in Phases
    BY <1>1, <1>7, MessageAt
  <2>5. t[n].round < R \/ (t[n].round = R /\ (k = "data" \/ t[n].kind = "size"))
    BY <1>3, <2>3 DEF HasPosted, Phase
  <2> HIDE DEF n, t, R, k
  <2>6. CASE t[n].round < R
    BY <1>1, <2>1, <2>4, <2>6 DEF Stamp, Phases
  <2>7. CASE t[n].round = R /\ (k = "data" \/ t[n].kind = "size")
    BY <1>1, <2>1, <2>4, <2>7 DEF Stamp, Phases
  <2> QED BY <2>5, <2>6, <2>7
<1>9. n \in DOMAIN sends[q][p]
  <2>1. matched[q][p] = n /\ matched[q][p] <= Len(sends[q][p])
    BY DEF RequestsDone, TypeInv, Pairing
  <2>2. Len(sends[q][p]) \in Nat
    BY <1>1, LenProperties
  <2> QED BY <1>2, <1>7, <2>1, <2>2
<1>10. sends[q][p][n].round = t[n].round /\ sends[q][p][n].kind = t[n].kind
  BY <1>7, <1>9 DEF RoundsNeverMix
<1> QED BY <1>6, <1>7, <1>8, <1>9, <1>10

\* What p reads out of it is what the round carries.
LEMMA ReceivedCarries ==
    ASSUME TypeInv, CollectedInOrder, ChannelHistory, RoundsNeverMix, MessagesCarryRounds,
           NEW p \in Procs, NEW q \in Procs, RequestsDone(p), pc[p] # "collect",
           round[p] \in DOMAIN plan, Active(plan, round[p], q, p)
    PROVE  Carries(plan, round[p], <<q, p>>, Received(p, q)) /\ Received(p, q) \in Seq(Item)
<1> DEFINE n == Len(recvs[q][p])
<1>1. /\ n \in DOMAIN sends[q][p] /\ sends[q][p][n].round = round[p]
      /\ recvs[q][p] # <<>>
  BY LastReceive
<1>2. EdgeCarries(q, p)
  BY DEF MessagesCarryRounds
<1>3. Carries(plan, round[p], <<q, p>>, sends[q][p][n].items)
  BY <1>1, <1>2 DEF EdgeCarries
<1> QED BY <1>1, <1>3, ReceivedType DEF Received

\* One more message that carries its round.
LEMMA MoreCarried ==
    ASSUME NEW pl, NEW e, NEW kinds, NEW s \in Seq(Message), NEW m \in Message,
           \A n \in DOMAIN s : s[n].kind \in kinds => Carries(pl, s[n].round, e, s[n].items),
           m.kind \in kinds => Carries(pl, m.round, e, m.items)
    PROVE  \A n \in DOMAIN Append(s, m) : Append(s, m)[n].kind \in kinds =>
               Carries(pl, Append(s, m)[n].round, e, Append(s, m)[n].items)
<1> DEFINE a == Append(s, m)
<1>1. /\ DOMAIN s = 1 .. Len(s) /\ Len(s) \in Nat /\ a \in Seq(Message)
      /\ Len(a) = Len(s) + 1 /\ \A i \in 1 .. Len(s) : a[i] = s[i]
      /\ a[Len(s) + 1] = m
  BY LenProperties, AppendProperties
<1>2. DOMAIN a = 1 .. Len(s) + 1
  BY <1>1, LenProperties
<1> HIDE DEF a
<1>3. ASSUME NEW n \in DOMAIN a, a[n].kind \in kinds PROVE Carries(pl, a[n].round, e, a[n].items)
  <2>1. CASE n \in 1 .. Len(s)
    BY <1>1, <1>3, <2>1
  <2>2. CASE n = Len(s) + 1
    BY <1>1, <1>3, <2>2
  <2> QED BY <1>1, <1>2, <2>1, <2>2
<1> QED BY <1>3 DEF a

\* Posting adds messages of the current round.
LEMMA PostCarries ==
    ASSUME TypeInv, ItemsInOrder, MessagesCarryRounds, NEW p \in Procs, Collected(p),
           NEW kind \in Phases, NEW STATE capacity,
           \A q \in CurInProcs(p) : capacity[q] \in Seq(Item),
           kind = "data" => \A q \in CurInProcs(p) : Carries(plan, round[p], <<q, p>>, capacity[q]),
           Post(p, kind, capacity), plan' = plan,
           round[p] \in DOMAIN plan, pc[p] # "data", nSent[p] = Len(plan[round[p]])
    PROVE  MessagesCarryRounds'
<1> DEFINE R == round[p]
           out(q) == [round |-> R, kind |-> kind, items |-> bufOut[p][q]]
           in(q)  == [round |-> R, kind |-> kind, items |-> capacity[q]]
<1>1. TypeOK
  BY DEF TypeInv
<1>2. /\ \A q \in Procs : out(q) \in Message
      /\ \A q \in CurInProcs(p) : in(q) \in Message
  BY <1>1 DEF TypeOK, Message, Phases
<1>3. \A q \in Procs : Carries(plan, R, <<p, q>>, bufOut[p][q])
  BY DEF ItemsInOrder, InOrderAt, Carries
<1>4. ASSUME NEW x \in Procs, NEW y \in Procs
      PROVE  /\ sends[x][y] \in Seq(Message) /\ recvs[x][y] \in Seq(Message)
             /\ \/ sends'[x][y] = sends[x][y]
                \/ x = p /\ sends'[x][y] = Append(sends[x][y], out(y))
             /\ \/ recvs'[x][y] = recvs[x][y]
                \/ y = p /\ x \in CurInProcs(p) /\ recvs'[x][y] = Append(recvs[x][y], in(x))
  BY <1>1 DEF Post, TypeOK
<1>5. /\ \A q \in Procs : out(q).kind = kind /\ out(q).round = R /\ out(q).items = bufOut[p][q]
      /\ \A q \in Procs : in(q).kind = kind /\ in(q).round = R /\ in(q).items = capacity[q]
  OBVIOUS
<1> HIDE DEF out, in
<1>6. ASSUME NEW x \in Procs, NEW y \in Procs
      PROVE  \A n \in DOMAIN sends'[x][y] :
                 Carries(plan, sends'[x][y][n].round, <<x, y>>, sends'[x][y][n].items)
  <2> DEFINE s == sends[x][y]
             e == <<x, y>>
  <2>1. /\ s \in Seq(Message)
        /\ \A n \in DOMAIN s : s[n].kind \in Phases => Carries(plan, s[n].round, e, s[n].items)
    BY <1>4 DEF MessagesCarryRounds, EdgeCarries
  <2>2. CASE sends'[x][y] = s
    BY <2>2 DEF MessagesCarryRounds, EdgeCarries
  <2>3. CASE x = p /\ sends'[x][y] = Append(s, out(y))
    <3> DEFINE m == out(y)
    <3>1. m \in Message /\ Carries(plan, m.round, e, m.items)
      BY <1>2, <1>3, <1>5, <2>3
    <3> HIDE DEF s, e, m
    <3>2. \A n \in DOMAIN Append(s, m) : Append(s, m)[n].kind \in Phases =>
               Carries(plan, Append(s, m)[n].round, e, Append(s, m)[n].items)
      BY <2>1, <3>1, MoreCarried
    <3>3. Append(s, m) \in Seq(Message)
      BY <2>1, <3>1, AppendProperties
    <3>4. \A n \in DOMAIN Append(s, m) : Append(s, m)[n].kind \in Phases
      BY <3>3, MessageAt
    <3> QED BY <2>3, <3>2, <3>4 DEF s, e, m
  <2> QED BY <1>4, <2>2, <2>3
<1>7. ASSUME NEW x \in Procs, NEW y \in Procs
      PROVE  \A n \in DOMAIN recvs'[x][y] : recvs'[x][y][n].kind = "data" =>
                 Carries(plan, recvs'[x][y][n].round, <<x, y>>, recvs'[x][y][n].items)
  <2> DEFINE s == recvs[x][y]
             e == <<x, y>>
  <2>1. /\ s \in Seq(Message)
        /\ \A n \in DOMAIN s : s[n].kind \in {"data"} => Carries(plan, s[n].round, e, s[n].items)
    BY <1>4 DEF MessagesCarryRounds, EdgeCarries
  <2>2. CASE recvs'[x][y] = s
    BY <2>2 DEF MessagesCarryRounds, EdgeCarries
  <2>3. CASE y = p /\ x \in CurInProcs(p) /\ recvs'[x][y] = Append(s, in(x))
    <3> DEFINE m == in(x)
    <3>1. m \in Message /\ (m.kind \in {"data"} => Carries(plan, m.round, e, m.items))
      BY <1>2, <1>5, <2>3
    <3> HIDE DEF s, e, m
    <3>2. \A n \in DOMAIN Append(s, m) : Append(s, m)[n].kind \in {"data"} =>
               Carries(plan, Append(s, m)[n].round, e, Append(s, m)[n].items)
      BY <2>1, <3>1, MoreCarried
    <3> QED BY <2>3, <3>2 DEF s, e, m
  <2> QED BY <1>4, <2>2, <2>3
<1>8. ASSUME NEW x \in Procs, NEW y \in Procs PROVE EdgeCarries(x, y)'
  BY <1>6, <1>7 DEF EdgeCarries
<1> QED BY <1>8 DEF MessagesCarryRounds

\* Every step keeps it so.
LEMMA NextCarries ==
    ASSUME DeliveryInv, Agreeing(plan), ~EarlyCalls, [Next]_vars
    PROVE  MessagesCarryRounds'
<1> USE DEF DeliveryInv
<1>0. RoundsNeverMix
  BY HistoriesAgree DEF TypeInv
<1>1. UNCHANGED <<plan, sends, recvs>> => MessagesCarryRounds'
  BY DEF MessagesCarryRounds, EdgeCarries
<1>2. ASSUME NEW p \in Procs, CommunicateFixed(p) PROVE MessagesCarryRounds'
  <2>1. Collected(p) /\ ReadyToCommunicate(p)
    BY <1>2 DEF CollectedInOrder, Collected, CommunicateFixed
  <2>2. \A q \in CurInProcs(p) : extractors[p][q] \in Seq(Item)
    BY DEF CurInProcs, TypeInv, TypeOK
  <2>3. \A q \in CurInProcs(p) : Carries(plan, round[p], <<q, p>>, extractors[p][q])
    <3>1. Registered(p) = Len(plan[round[p]])
      BY <2>1 DEF Registered, ReadyToCommunicate
    <3> QED BY <3>1 DEF CurInProcs, ItemsInOrder, InOrderAt, Carries
  <2>4. Post(p, "data", extractors[p]) /\ plan' = plan
    BY <1>2 DEF CommunicateFixed
  <2> QED BY <2>1, <2>2, <2>3, <2>4, PostCarries DEF ReadyToCommunicate, Phases
<1>3. ASSUME NEW p \in Procs, CommunicateSizes(p) PROVE MessagesCarryRounds'
  <2>1. Collected(p) /\ ReadyToCommunicate(p)
    BY <1>3 DEF CollectedInOrder, Collected, CommunicateSizes
  <2>2. \A q \in CurInProcs(p) : Empty[q] \in Seq(Item)
    BY EmptySeq DEF CurInProcs, Empty
  <2>3. Post(p, "size", Empty) /\ plan' = plan
    BY <1>3 DEF CommunicateSizes
  <2> QED BY <2>1, <2>2, <2>3, PostCarries DEF ReadyToCommunicate, Phases
<1>4. ASSUME NEW p \in Procs, FinishSizes(p) PROVE MessagesCarryRounds'
  <2> DEFINE capacity == [q \in CurInProcs(p) |-> Received(p, q)]
  <2>1. /\ Collected(p) /\ pc[p] = "sizes" /\ round[p] \in DOMAIN plan /\ RequestsDone(p)
        /\ nSent[p] = Len(plan[round[p]]) /\ nRcvd[p] = Len(plan[round[p]])
    BY <1>4 DEF CollectedInOrder, Collected, CallsMade, FinishSizes
  <2>2. \A q \in CurInProcs(p) : q \in Procs /\ Active(plan, round[p], q, p)
    BY <2>1, CurrentProcs DEF CurInProcs
  <2>3. \A q \in CurInProcs(p) : /\ capacity[q] \in Seq(Item)
                                  /\ Carries(plan, round[p], <<q, p>>, capacity[q])
    BY <1>0, <2>1, <2>2, ReceivedCarries
  <2> HIDE DEF capacity
  <2>4. Post(p, "data", capacity) /\ plan' = plan
    BY <1>4 DEF FinishSizes, capacity
  <2> QED BY <2>1, <2>3, <2>4, PostCarries DEF Phases
<1>5. ASSUME NEW p \in Procs, SendData(p) \/ ReceiveData(p) \/ Wait(p)
      PROVE  UNCHANGED <<plan, sends, recvs>>
  BY <1>5 DEF SendData, ReceiveData, Wait, mpiVars
<1>6. ASSUME NEW p \in Procs, NEW q \in Procs, MpiTransfer(p, q)
      PROVE  UNCHANGED <<plan, sends, recvs>>
  BY <1>6 DEF MpiTransfer
<1>7. UNCHANGED vars => UNCHANGED <<plan, sends, recvs>>
  BY DEF vars, mpiVars
<1> QED
  BY <1>1, <1>2, <1>3, <1>4, <1>5, <1>6, <1>7 DEF Next, ProcessStep, Terminated
------------------------------------------------------------------------------
(* What is delivered *)

\* A process waiting for data has received what its extractors stand for.
LEMMA DeliveredData ==
    ASSUME DeliveryInv, Agreeing(plan), NEW p \in Procs, NEW q \in Procs,
           pc[p] = "data", RequestsDone(p)
    PROVE  /\ round[p] \in DOMAIN plan
           /\ q \in PostedFrom(p) <=> Active(plan, round[p], q, p)
           /\ q \in PostedFrom(p) =>
                  /\ Carries(plan, round[p], <<q, p>>, Received(p, q))
                  /\ Received(p, q) \in Seq(Item)
<1> USE DEF DeliveryInv
<1>1. RoundsNeverMix
  BY HistoriesAgree DEF TypeInv
<1>2. round[p] \in DOMAIN plan
  BY DEF CollectedInOrder, CallsMade
<1>3. Active(plan, round[p], q, p) => q \in PostedFrom(p)
  BY <1>1, <1>2, LastReceive DEF PostedFrom
<1>4. ASSUME q \in PostedFrom(p) PROVE Active(plan, round[p], q, p)
  <2> DEFINE t == recvs[q][p]
             n == Len(t)
  <2>1. t \in Seq(Message) /\ t # <<>> /\ t[n].round = round[p]
    BY <1>4 DEF PostedFrom, TypeInv, TypeOK
  <2>2. n \in DOMAIN t
    <3>1. Len(t) \in Nat \ {0} /\ DOMAIN t = 1 .. Len(t)
      BY <2>1, EmptySeq, LenProperties
    <3> QED BY <3>1
  <2>3. History(t, Posted(p, q, p))
    BY DEF ChannelHistory
  <2>4. <<t[n].round, t[n].kind>> \in Due(p, q, p)
    BY <2>2, <2>3 DEF History, Posted
  <2> QED BY <2>1, <2>4 DEF Due
<1>5. q \in PostedFrom(p) =>
          /\ Carries(plan, round[p], <<q, p>>, Received(p, q))
          /\ Received(p, q) \in Seq(Item)
  BY <1>1, <1>2, <1>4, ReceivedCarries
<1> QED BY <1>2, <1>3, <1>4, <1>5

\* A send and the receive it meets agree in what they carry.
LEMMA TransferFits ==
    ASSUME DeliveryInv, Agreeing(plan), NEW p \in Procs, NEW q \in Procs, MpiTransfer(p, q)
    PROVE  aborted' = FALSE
<1> DEFINE n == matched[p][q] + 1
           a == sends[p][q][n]
           b == recvs[p][q][n]
<1>1. n \in DOMAIN sends[p][q] /\ n \in DOMAIN recvs[p][q]
  BY DEF MpiTransfer
<1>2. a \in Message /\ b \in Message
  <2>1. sends[p][q] \in Seq(Message) /\ recvs[p][q] \in Seq(Message)
    BY DEF DeliveryInv, TypeInv, TypeOK
  <2> QED BY <1>1, <2>1, LenProperties, ElementOfSeq
<1>3. a.round = b.round /\ a.kind = b.kind
  BY <1>1, HistoriesAgree DEF DeliveryInv, TypeInv, RoundsNeverMix
<1>4. ASSUME a.kind = "data" PROVE a.items = b.items
  <2>1. EdgeCarries(p, q)
    BY DEF DeliveryInv, MessagesCarryRounds
  <2>2. /\ Carries(plan, a.round, <<p, q>>, a.items)
        /\ Carries(plan, a.round, <<p, q>>, b.items)
    BY <1>1, <1>3, <1>4, <2>1 DEF EdgeCarries
  <2>3. a.round \in DOMAIN plan
    <3>1. History(sends[p][q], Posted(p, p, q))
      BY DEF DeliveryInv, ChannelHistory
    <3>2. <<a.round, a.kind>> \in Due(p, p, q)
      BY <1>1, <3>1 DEF History, Posted
    <3> QED BY <3>2 DEF Due
  <2>4. Len(plan[a.round]) \in Nat
    BY <2>3, PlanTypes DEF DeliveryInv, TypeInv
  <2>5. a.items \in Seq(Item) /\ b.items \in Seq(Item)
    BY <1>2 DEF Message
  <2> HIDE DEF a, b, n
  <2> QED BY <2>2, <2>4, <2>5, CarriesUnique DEF Carries
<1>5. Fits(a, b)
  BY <1>3, <1>4 DEF Fits
<1> QED BY <1>5 DEF MpiTransfer

LEMMA InitDelivery == Init => DeliveryInv
<1> SUFFICES ASSUME Init PROVE DeliveryInv
  OBVIOUS
<1>1. TypeInv /\ CollectedInOrder /\ ChannelHistory /\ NoTruncation
  BY InitTypeInv, InitHistory DEF Init, NoTruncation
<1>2. ASSUME NEW p \in Procs PROVE InOrderAt(p)
  <2>1. /\ nSent[p] = 0 /\ Registered(p) = 0
        /\ \A q \in Procs : bufOut[p][q] = <<>> /\ extractors[p][q] = <<>>
    BY DEF Init, Registered, Empty
  <2> QED BY <2>1, CarriesNone DEF InOrderAt
<1>3. ASSUME NEW p \in Procs, NEW q \in Procs PROVE EdgeCarries(p, q)
  <2>1. sends[p][q] = <<>> /\ recvs[p][q] = <<>> /\ DOMAIN <<>> = {}
    BY DEF Init, Empty
  <2> QED BY <2>1 DEF EdgeCarries
<1> QED BY <1>1, <1>2, <1>3 DEF DeliveryInv, ItemsInOrder, MessagesCarryRounds

LEMMA NextDelivery ==
    ASSUME DeliveryInv, Agreeing(plan), ~EarlyCalls, [Next]_vars
    PROVE  DeliveryInv'
<1>1. TypeInv' /\ CollectedInOrder' /\ ChannelHistory'
  BY NextTypeInv, NextCollected, NextHistory DEF DeliveryInv
<1>2. ItemsInOrder' /\ MessagesCarryRounds'
  BY NextInOrder, NextCarries DEF DeliveryInv
<1>3. aborted = FALSE
  BY DEF DeliveryInv, NoTruncation, TypeInv, TypeOK
<1>4. aborted' = FALSE
  <2>1. ASSUME NEW p \in Procs, ProcessStep(p) PROVE aborted' = aborted
    BY <2>1 DEF ProcessStep, SendData, ReceiveData, CommunicateFixed, CommunicateSizes,
            FinishSizes, Wait, Post, mpiVars
  <2>2. ASSUME NEW p \in Procs, NEW q \in Procs, MpiTransfer(p, q) PROVE aborted' = FALSE
    BY <2>2, TransferFits
  <2>3. UNCHANGED vars => aborted' = aborted
    BY DEF vars, mpiVars
  <2> QED BY <1>3, <2>1, <2>2, <2>3 DEF Next, Terminated
<1> QED BY <1>1, <1>2, <1>4 DEF DeliveryInv, NoTruncation

\* The inductive invariant of all that follows.
LEMMA DeliveryInvariant ==
    ASSUME ~EarlyCalls, \A pl \in Plans : Agreeing(pl)
    PROVE  Spec => []DeliveryInv
<1>1. DeliveryInv => Agreeing(plan)
  BY DEF DeliveryInv, TypeInv, TypeOK
<1>2. DeliveryInv /\ [Next]_vars => DeliveryInv'
  BY <1>1, NextDelivery
<1> QED BY <1>2, InitDelivery, PTL DEF Spec

\* For every number of processes and every program whose neighbours agree on
\* sizes, a message always fits the receive that MPI pairs it with: buffers whose
\* size the receiver computes, and those it asks for, have room for exactly what
\* comes.
THEOREM MessagesFit ==
    ASSUME ~EarlyCalls, \A pl \in Plans : Agreeing(pl)
    PROVE  Spec => []NoTruncation
<1>1. DeliveryInv => NoTruncation
  BY DEF DeliveryInv
<1> QED BY <1>1, DeliveryInvariant, PTL

\* In every such program the extractors find, source by source, the items they
\* were registered for, in that order.
THEOREM ExtractorsFindTheirData ==
    ASSUME ~EarlyCalls, \A pl \in Plans : Agreeing(pl)
    PROVE  Spec => []ExtractedAsRegistered
<1>1. DeliveryInv => ExtractedAsRegistered
  <2> SUFFICES ASSUME DeliveryInv, NEW p \in Procs, pc[p] = "data", RequestsDone(p),
                      NEW q \in PostedFrom(p)
               PROVE  Received(p, q) = extractors[p][q]
    BY DEF ExtractedAsRegistered
  <2>1. Agreeing(plan) /\ q \in Procs
    BY DEF DeliveryInv, TypeInv, TypeOK, PostedFrom
  <2>2. /\ Carries(plan, round[p], <<q, p>>, Received(p, q))
        /\ Received(p, q) \in Seq(Item) /\ round[p] \in DOMAIN plan
    BY <2>1, DeliveredData
  <2>3. Carries(plan, round[p], <<q, p>>, extractors[p][q])
    BY <2>1 DEF DeliveryInv, ItemsInOrder, InOrderAt, Registered, Carries
  <2>4. extractors[p][q] \in Seq(Item) /\ Len(plan[round[p]]) \in Nat
    BY <2>1, <2>2, PlanTypes DEF DeliveryInv, TypeInv, TypeOK
  <2> QED BY <2>2, <2>3, <2>4, CarriesUnique DEF Carries
<1> QED BY <1>1, DeliveryInvariant, PTL

------------------------------------------------------------------------------
(* The communicator implements NeighbourExchange *)

\* The plan's own account of a round enumerates its calls on the edge.
LEMMA ExpectedCarries ==
    ASSUME TypeOK, NEW r \in DOMAIN plan, NEW p \in Procs, NEW q \in Procs
    PROVE  /\ Carries(plan, r, <<p, q>>, Expected(plan, r, p, q))
           /\ Expected(plan, r, p, q) \in Seq(Item)
<1> DEFINE C == {c \in DOMAIN plan[r] : <<p, q>> \in plan[r][c].edges}
           n == Cardinality(C)
           Nth(i) == CHOOSE c \in C : Rank(C, c) = i
           s == Expected(plan, r, p, q)
<1>1. DOMAIN plan[r] = 1 .. Len(plan[r]) /\ Len(plan[r]) \in Nat
  BY PlanTypes
<1>2. C \in SUBSET Nat /\ IsFiniteSet(C) /\ C \subseteq 1 .. Len(plan[r])
  <2>1. IsFiniteSet(1 .. Len(plan[r]))
    BY <1>1, FS_Interval
  <2>2. C \in SUBSET (1 .. Len(plan[r])) /\ 1 .. Len(plan[r]) \subseteq Nat
    BY <1>1
  <2> QED BY <2>1, <2>2, FS_Subset
<1>3. s = [i \in 1 .. n |-> ItemOf(plan, r, Nth(i))]
  BY DEF Expected, Rank
<1>4. \A c \in C : ItemOf(plan, r, c) \in Item /\ <<p, q>> \in plan[r][c].edges
  BY CallType
<1>5. \A i, c : ItemOf(plan, r, c).call = c
  BY DEF ItemOf
<1> HIDE DEF C, n, s
<1>6. /\ n \in Nat /\ \A c \in C : Rank(C, c) \in 1 .. n
      /\ \A i \in 1 .. n : \E c \in C : Rank(C, c) = i
  BY <1>2, RankCounts DEF n
<1>7. \A i \in 1 .. n : Nth(i) \in C /\ Rank(C, Nth(i)) = i
  BY <1>6
<1> HIDE DEF Nth
<1>8. s \in Seq(Item) /\ DOMAIN s = 1 .. n
  <2>1. s \in [1 .. n -> Item]
    BY <1>3, <1>4, <1>7
  <2> QED BY <1>6, <2>1, IsASeq
<1>9. \A i \in 1 .. n : s[i] = ItemOf(plan, r, Nth(i)) /\ s[i].call = Nth(i)
  BY <1>3, <1>5
<1>10. \A a, b \in C : Rank(C, a) = Rank(C, b) => a = b
  <2> SUFFICES ASSUME NEW a \in C, NEW b \in C, Rank(C, a) = Rank(C, b) PROVE a = b
    OBVIOUS
  <2>1. a \in Nat /\ b \in Nat /\ Rank(C, a) \in Nat
    BY <1>2, <1>6
  <2>2. ~(a < b) /\ ~(b < a)
    BY <1>2, <2>1, RankGrows
  <2> QED BY <2>1, <2>2
<1>11. ASSUME NEW c \in 1 .. Len(plan[r]), <<p, q>> \in plan[r][c].edges
       PROVE  \E i \in 1 .. n : s[i].call = c
  <2>1. c \in C /\ Rank(C, c) \in 1 .. n
    BY <1>1, <1>6, <1>11 DEF C
  <2>2. Nth(Rank(C, c)) = c
    BY <1>7, <1>10, <2>1
  <2> QED BY <1>9, <2>1, <2>2
<1>12. ASSUME NEW i \in 1 .. n, NEW j \in 1 .. n, i < j PROVE s[i].call < s[j].call
  <2>1. /\ Nth(i) \in C /\ Nth(j) \in C /\ Rank(C, Nth(i)) = i /\ Rank(C, Nth(j)) = j
        /\ Nth(i) \in Nat /\ Nth(j) \in Nat
    BY <1>2, <1>7
  <2>2. ~(Nth(j) < Nth(i))
    <3> SUFFICES ASSUME Nth(j) < Nth(i) PROVE FALSE
      OBVIOUS
    <3>1. Rank(C, Nth(j)) < Rank(C, Nth(i))
      BY <1>2, <2>1, RankGrows
    <3> QED BY <1>6, <1>12, <2>1, <3>1
  <2>3. Nth(j) # Nth(i)
    BY <1>6, <1>12, <2>1
  <2> QED BY <1>9, <2>1, <2>2, <2>3
<1>13. \A i \in 1 .. n : /\ s[i].call \in 1 .. Len(plan[r])
                         /\ <<p, q>> \in plan[r][s[i].call].edges
                         /\ s[i] = ItemOf(plan, r, s[i].call)
  BY <1>2, <1>4, <1>7, <1>9
<1>14. Carries(plan, r, <<p, q>>, s)
  BY <1>8, <1>11, <1>12, <1>13 DEF Carries, CarriesFirst
<1> QED BY <1>8, <1>14 DEF s

\* What wait() hands over is what the plan's account says, from every source.
LEMMA WaitDelivers ==
    ASSUME DeliveryInv, Agreeing(plan), NEW p \in Procs, pc[p] = "data", RequestsDone(p),
           NEW q \in Procs
    PROVE  Expected(plan, round[p], q, p) =
               IF q \in PostedFrom(p) THEN Received(p, q) ELSE <<>>
<1> DEFINE r == round[p]
<1>1. r \in DOMAIN plan /\ TypeOK
  BY DeliveredData DEF DeliveryInv, TypeInv
<1>2. /\ Carries(plan, r, <<q, p>>, Expected(plan, r, q, p))
      /\ Expected(plan, r, q, p) \in Seq(Item) /\ Len(plan[r]) \in Nat
  BY <1>1, ExpectedCarries, PlanTypes
<1>3. CASE q \in PostedFrom(p)
  <2>1. Carries(plan, r, <<q, p>>, Received(p, q)) /\ Received(p, q) \in Seq(Item)
    BY <1>3, DeliveredData
  <2> QED BY <1>2, <1>3, <2>1, CarriesUnique DEF Carries
<1>4. CASE q \notin PostedFrom(p)
  <2>1. \A c \in 1 .. Len(plan[r]) : <<q, p>> \notin plan[r][c].edges
    BY <1>1, <1>4, DeliveredData, PlanTypes DEF Active
  <2>2. Carries(plan, r, <<q, p>>, <<>>) /\ <<>> \in Seq(Item)
    <3>1. DOMAIN <<>> = {}
      OBVIOUS
    <3> QED BY <2>1, <3>1, EmptySeq DEF Carries, CarriesFirst
  <2> QED BY <1>2, <1>4, <2>2, CarriesUnique DEF Carries
<1> QED BY <1>3, <1>4

\* The state of the exchange that a state of the communicator stands for.
Started(p) == IF pc[p] = "collect" THEN round[p] - 1 ELSE round[p]
StartedAll == [p \in Procs |-> Started(p)]
FinishedAll == [p \in Procs |-> round[p] - 1]

\* What the steps of the exchange say of this state.
StartStep(p) ==
    /\ StartedAll[p] = FinishedAll[p] /\ StartedAll[p] < Len(plan)
    /\ StartedAll' = [StartedAll EXCEPT ![p] = @ + 1]
    /\ UNCHANGED <<plan, FinishedAll, inbox>>

FinishStep(q) ==
    LET r == StartedAll[q] IN
    /\ FinishedAll[q] < r
    /\ \A p \in Sources(plan, r, q) : StartedAll[p] >= r
    /\ FinishedAll' = [FinishedAll EXCEPT ![q] = r]
    /\ inbox' = [inbox EXCEPT ![q] = [p \in Procs |-> Expected(plan, r, p, q)]]
    /\ UNCHANGED <<plan, StartedAll>>

ExchangeStep ==
    \/ \E p \in Procs : StartStep(p) \/ FinishStep(p)
    \/ UNCHANGED <<plan, StartedAll, FinishedAll, inbox>>

LEMMA StartStepIs == \A p : StartStep(p) <=> Exchange!Start(p)
  BY DEF StartStep, StartedAll, FinishedAll, Started, Exchange!Start

\* The exchange reads the plan as the communicator does.
LEMMA SamePlan ==
    ASSUME NEW r, NEW p, NEW q
    PROVE  /\ Exchange!Sources(plan, r, q) = Sources(plan, r, q)
           /\ Exchange!Expected(plan, r, p, q) = Expected(plan, r, p, q)
<1>1. Exchange!Sources(plan, r, q) = Sources(plan, r, q)
  BY DEF Exchange!Sources, Sources, Exchange!Active, Active
<1>2. \A S : Exchange!Cardinality(S) = Cardinality(S)
  BY DEF Exchange!Cardinality, Cardinality
<1>3. \A c : Exchange!ItemOf(plan, r, c) = ItemOf(plan, r, c)
  BY DEF Exchange!ItemOf, ItemOf
<1>4. Exchange!Expected(plan, r, p, q) = Expected(plan, r, p, q)
  BY <1>2, <1>3 DEF Exchange!Expected, Expected
<1> QED BY <1>1, <1>4

LEMMA FinishStepIs == \A q : FinishStep(q) <=> Exchange!Finish(q)
<1> SUFFICES ASSUME NEW q PROVE FinishStep(q) <=> Exchange!Finish(q)
  OBVIOUS
<1> DEFINE r == StartedAll[q]
           delivered == [p \in Procs |-> Expected(plan, r, p, q)]
           ended == inbox' = [inbox EXCEPT ![q] = delivered]
<1>1. Exchange!Sources(plan, r, q) = Sources(plan, r, q)
  BY SamePlan
<1>2. delivered = [p \in Procs |-> Exchange!Expected(plan, r, p, q)]
  BY SamePlan
<1>3. FinishStep(q) <=>
          /\ FinishedAll[q] < r /\ \A p \in Sources(plan, r, q) : StartedAll[p] >= r
          /\ FinishedAll' = [FinishedAll EXCEPT ![q] = r]
          /\ ended /\ UNCHANGED <<plan, StartedAll>>
  BY DEF FinishStep
<1>4. Exchange!Finish(q) <=>
          /\ FinishedAll[q] < r
          /\ \A p \in Exchange!Sources(plan, r, q) : StartedAll[p] >= r
          /\ FinishedAll' = [FinishedAll EXCEPT ![q] = r]
          /\ inbox' = [inbox EXCEPT ![q] = [p \in Procs |->
                                         Exchange!Expected(plan, r, p, q)]]
          /\ UNCHANGED <<plan, StartedAll>>
  BY DEF StartedAll, FinishedAll, Started, Exchange!Finish
<1> QED BY <1>1, <1>2, <1>3, <1>4

LEMMA ExchangeStepIs == ExchangeStep <=> [Exchange!Next]_(Exchange!vars)
<1>1. UNCHANGED <<plan, StartedAll, FinishedAll, inbox>> <=> UNCHANGED Exchange!vars
  BY DEF StartedAll, FinishedAll, Started, Exchange!vars
<1> QED BY <1>1, StartStepIs, FinishStepIs DEF ExchangeStep, Exchange!Next

\* Collecting, posting the data after the sizes, and MPI are not seen.
LEMMA UnseenStep ==
    ASSUME plan' = plan, inbox' = inbox, round' = round,
           \A p \in Procs : pc'[p] = "collect" <=> pc[p] = "collect"
    PROVE  ExchangeStep
  BY DEF ExchangeStep, StartedAll, FinishedAll, Started

\* communicate_and_resume() starts the round.
LEMMA BeginStep ==
    ASSUME TypeInv, NEW p \in Procs, pc[p] = "collect", round[p] \in DOMAIN plan,
           pc' \in [Procs -> {"collect", "sizes", "data"}], pc'[p] # "collect",
           \A x \in Procs \ {p} : pc'[x] = pc[x],
           plan' = plan, inbox' = inbox, round' = round
    PROVE  StartStep(p)
<1>1. round[p] \in 1 .. Len(plan) /\ Len(plan) \in Nat
  <2>1. plan \in Seq(Seq(Call))
    BY PlansAssumption DEF TypeInv, TypeOK, Plan
  <2> QED BY <2>1, LenProperties
<1>2. StartedAll[p] = FinishedAll[p] /\ StartedAll[p] < Len(plan)
  BY <1>1 DEF StartedAll, FinishedAll, Started
<1>3. StartedAll' = [StartedAll EXCEPT ![p] = @ + 1]
  <2>1. Started(p)' = Started(p) + 1
    BY <1>1 DEF Started
  <2>2. \A x \in Procs \ {p} : Started(x)' = Started(x)
    BY DEF Started
  <2> QED BY <2>1, <2>2 DEF StartedAll
<1> QED BY <1>2, <1>3 DEF StartStep, FinishedAll

\* wait() ends it, when all sources have begun.
LEMMA EndStep ==
    ASSUME DeliveryInv, Agreeing(plan), NEW q \in Procs, Wait(q)
    PROVE  FinishStep(q)
<1> DEFINE r == round[q]
<1>1. pc[q] = "data" /\ RequestsDone(q) /\ r \in Nat /\ r \in DOMAIN plan
  <2>1. pc[q] = "data" /\ RequestsDone(q)
    BY DEF Wait
  <2> QED BY <2>1, DeliveredData DEF DeliveryInv, TypeInv, TypeOK
<1>2. StartedAll[q] = r /\ FinishedAll[q] = r - 1 /\ FinishedAll[q] < StartedAll[q]
  BY <1>1 DEF StartedAll, FinishedAll, Started
<1>3. ASSUME NEW p \in Sources(plan, r, q) PROVE StartedAll[p] >= r
  <2> DEFINE n == Len(recvs[p][q])
  <2>1. p \in Procs /\ Active(plan, r, p, q)
    BY DEF Sources
  <2>2. RoundsNeverMix
    BY HistoriesAgree DEF DeliveryInv, TypeInv
  <2>3. n \in DOMAIN sends[p][q] /\ sends[p][q][n].round = r /\ sends[p][q][n].kind = "data"
    BY <1>1, <2>1, <2>2, LastReceive DEF DeliveryInv, Phase
  <2>4. <<r, "data">> \in Posted(p, p, q)
    BY <2>1, <2>3 DEF DeliveryInv, ChannelHistory, History
  <2>5. HasPosted(p, r, "data") /\ round[p] \in Nat
    BY <2>1, <2>4 DEF Posted, DeliveryInv, TypeInv, TypeOK
  <2> QED BY <1>1, <2>1, <2>5 DEF HasPosted, StartedAll, Started
<1>4. /\ round' = [round EXCEPT ![q] = r + 1] /\ pc' = [pc EXCEPT ![q] = "collect"]
      /\ round \in [Procs -> Nat \ {0}] /\ pc \in [Procs -> {"collect", "sizes", "data"}]
  BY DEF Wait, DeliveryInv, TypeInv, TypeOK
<1>5. FinishedAll' = [FinishedAll EXCEPT ![q] = r]
  <2>1. round'[q] = r + 1 /\ \A x \in Procs \ {q} : round'[x] = round[x]
    BY <1>4
  <2>2. round'[q] - 1 = r
    BY <1>1, <2>1
  <2>3. [x \in Procs |-> round'[x] - 1] =
            [[x \in Procs |-> round[x] - 1] EXCEPT ![q] = r]
    BY <2>1, <2>2
  <2> QED BY <2>3 DEF FinishedAll
<1>6. StartedAll' = StartedAll
  <2>1. Started(q)' = Started(q)
    BY <1>1, <1>4 DEF Started
  <2>2. \A x \in Procs \ {q} : Started(x)' = Started(x)
    BY <1>4 DEF Started
  <2> QED BY <2>1, <2>2 DEF StartedAll
<1>7. inbox' = [inbox EXCEPT ![q] = [p \in Procs |-> Expected(plan, r, p, q)]]
  <2>1. inbox' = [inbox EXCEPT ![q] = [p \in Procs |->
            IF p \in PostedFrom(q) THEN Received(q, p) ELSE <<>>]]
    BY DEF Wait, DeliveryInv, TypeInv, TypeOK
  <2>2. \A p \in Procs : Expected(plan, r, p, q) =
            IF p \in PostedFrom(q) THEN Received(q, p) ELSE <<>>
    BY <1>1, WaitDelivers
  <2> QED BY <2>1, <2>2
<1>8. plan' = plan
  BY DEF Wait
<1> QED BY <1>2, <1>3, <1>5, <1>6, <1>7, <1>8 DEF FinishStep

LEMMA StepImplements ==
    ASSUME DeliveryInv, Agreeing(plan), ~EarlyCalls, [Next]_vars
    PROVE  ExchangeStep
<1>0. TypeInv /\ TypeOK
  BY DEF DeliveryInv, TypeInv
<1>1. ASSUME NEW p \in Procs, SendData(p) \/ ReceiveData(p) PROVE ExchangeStep
  BY <1>1, UnseenStep DEF SendData, ReceiveData, mpiVars
<1>2. ASSUME NEW p \in Procs, CommunicateFixed(p) \/ CommunicateSizes(p) PROVE StartStep(p)
  <2>1. /\ pc[p] = "collect" /\ round[p] \in DOMAIN plan
        /\ plan' = plan /\ inbox' = inbox /\ round' = round
        /\ \/ pc' = [pc EXCEPT ![p] = "data"]
           \/ pc' = [pc EXCEPT ![p] = "sizes"]
    BY <1>2 DEF CommunicateFixed, CommunicateSizes, ReadyToCommunicate
  <2>2. /\ pc' \in [Procs -> {"collect", "sizes", "data"}] /\ pc'[p] # "collect"
        /\ \A x \in Procs \ {p} : pc'[x] = pc[x]
    BY <1>0, <2>1 DEF TypeOK
  <2> QED BY <1>0, <2>1, <2>2, BeginStep
<1>3. ASSUME NEW p \in Procs, FinishSizes(p) PROVE ExchangeStep
  <2>1. /\ plan' = plan /\ inbox' = inbox /\ round' = round
        /\ pc[p] = "sizes" /\ pc' = [pc EXCEPT ![p] = "data"]
    BY <1>3 DEF FinishSizes
  <2>2. \A x \in Procs : pc'[x] = "collect" <=> pc[x] = "collect"
    BY <1>0, <2>1 DEF TypeOK
  <2> QED BY <2>1, <2>2, UnseenStep
<1>4. ASSUME NEW p \in Procs, Wait(p) PROVE FinishStep(p)
  BY <1>4, EndStep
<1>5. ASSUME NEW p \in Procs, NEW q \in Procs, MpiTransfer(p, q) PROVE ExchangeStep
  BY <1>5, UnseenStep DEF MpiTransfer, procVars
<1>6. UNCHANGED vars => ExchangeStep
  BY UnseenStep DEF vars, procVars
<1> QED
  BY <1>1, <1>2, <1>3, <1>4, <1>5, <1>6 DEF ExchangeStep, Next, ProcessStep, Terminated

LEMMA InitImplements == Init => Exchange!Init
<1> SUFFICES ASSUME Init PROVE Exchange!Init
  OBVIOUS
<1>1. \A p \in Procs : round[p] = 1 /\ pc[p] = "collect"
  BY DEF Init
<1> QED BY <1>1 DEF Init, Empty, Exchange!Init

\* communicate() is what NeighbourExchange says, for every number of processes
\* and every program whose neighbours agree on sizes: nobody finishes a round
\* before all its sources have started it, and what it extracts is exactly what
\* they collected for it in that round, in the order of the calls.
THEOREM CommunicatorIsAnExchange ==
    ASSUME ~EarlyCalls, \A pl \in Plans : Agreeing(pl)
    PROVE  Spec => Exchange!SafeSpec
<1>1. DeliveryInv => Agreeing(plan)
  BY DEF DeliveryInv, TypeInv, TypeOK
<1>2. DeliveryInv /\ [Next]_vars => [Exchange!Next]_(Exchange!vars)
  BY <1>1, StepImplements, ExchangeStepIs
<1> QED BY <1>2, InitImplements, DeliveryInvariant, PTL DEF Spec, Exchange!SafeSpec
==============================================================================
