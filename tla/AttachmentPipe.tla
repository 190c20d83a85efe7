---------------------------- MODULE AttachmentPipe ----------------------------
(***************************************************************************)
(* ug::AttachmentPipe keeps one array per attachment for the elements of a *)
(* grid.  An element knows its index into all of them.  Indices of erased  *)
(* elements wait on a stack; an array entry is reset when its index is     *)
(* given out again, or is fresh from the growth of the arrays.  The arrays *)
(* are longer than the indices in use.                                     *)
(*                                                                         *)
(* The grid owns the elements: it registers an element when it creates it  *)
(* and unregisters it when it erases it.                                   *)
(***************************************************************************)
EXTENDS Integers, Sequences, FiniteSets

CONSTANTS Elems, Attachments, Values, Default,
          Sizes     \* bound: the sizes passed to reserve()

ASSUME PipeAssumption ==
    /\ Default \in [Attachments -> Values]
    /\ Sizes \subseteq Nat

VARIABLES
    live,           \* the registered elements
    index,          \* the data index stored with an element
    free,           \* m_stackFreeEntries, top at the end
    numElements,    \* m_numElements
    numDataEntries, \* m_numDataEntries
    containerSize,  \* m_containerSize
    data            \* attached containers: [attached -> [0 .. size-1 -> Values]]

pipeVars == <<live, index, free, numElements, numDataEntries, containerSize, data>>

PipeInit ==
    /\ live = {}
    /\ index = [e \in Elems |-> 0]
    /\ free = <<>>
    /\ numElements = 0 /\ numDataEntries = 0 /\ containerSize = 0
    /\ data = [a \in {} |-> <<>>]

Indices(size) == 0 .. size - 1

\* Mutant: new entries are left as they are in memory instead of being set to
\* the default.
ResizedUninitialised(f, default, size) ==
    [i \in Indices(size) |-> IF i \in DOMAIN f THEN f[i]
                             ELSE CHOOSE v \in Values : v # default]

\* AttachmentDataContainer::resize.
Resized(f, default, size) ==
    [i \in Indices(size) |-> IF i \in DOMAIN f THEN f[i] ELSE default]

ResizedContainers(size) ==
    [a \in DOMAIN data |-> Resized(data[a], Default[a], size)]

\* grow_attachment_containers: at least doubled when too small.
GrownSize(minSize) ==
    IF containerSize >= minSize THEN containerSize
    ELSE IF 2 * containerSize < minSize THEN minSize ELSE 2 * containerSize

\* Mutant: a reused entry keeps the values of the erased element.
RegisterReusedDirty(e) ==
    /\ e \notin live /\ free # <<>>
    /\ index' = [index EXCEPT ![e] = free[Len(free)]]
    /\ free' = SubSeq(free, 1, Len(free) - 1)
    /\ numElements' = numElements + 1
    /\ live' = live \cup {e}
    /\ UNCHANGED <<numDataEntries, containerSize, data>>

RegisterReused(e) ==
    /\ e \notin live /\ free # <<>>
    /\ LET newInd == free[Len(free)]
       IN  /\ index' = [index EXCEPT ![e] = newInd]
           /\ data' = [a \in DOMAIN data |-> [data[a] EXCEPT ![newInd] = Default[a]]]
    /\ free' = SubSeq(free, 1, Len(free) - 1)
    /\ numElements' = numElements + 1
    /\ live' = live \cup {e}
    /\ UNCHANGED <<numDataEntries, containerSize>>

RegisterNew(e) ==
    /\ e \notin live /\ free = <<>>
    /\ index' = [index EXCEPT ![e] = numDataEntries]
    /\ numDataEntries' = numDataEntries + 1
    /\ LET size == GrownSize(numDataEntries + 1)
       IN  /\ containerSize' = size
           /\ data' = IF size = containerSize THEN data ELSE ResizedContainers(size)
    /\ numElements' = numElements + 1
    /\ live' = live \cup {e}
    /\ UNCHANGED free

RegisterElement(e) == RegisterReused(e) \/ RegisterNew(e)

\* Mutant: an index is freed twice when it is the last one.
UnregisterTwice(e) ==
    /\ e \in live
    /\ free' = IF index[e] = numDataEntries - 1
               THEN free \o <<index[e], index[e]>> ELSE Append(free, index[e])
    /\ numElements' = numElements - 1
    /\ live' = live \ {e}
    /\ UNCHANGED <<index, numDataEntries, containerSize, data>>

UnregisterElement(e) ==
    /\ e \in live
    /\ free' = Append(free, index[e])
    /\ numElements' = numElements - 1
    /\ live' = live \ {e}
    /\ UNCHANGED <<index, numDataEntries, containerSize, data>>

\* Attaching something twice has no effect.
Attach(a) ==
    /\ a \notin DOMAIN data
    /\ data' = [b \in DOMAIN data \cup {a} |->
                   IF b = a THEN [i \in Indices(containerSize) |-> Default[a]] ELSE data[b]]
    /\ UNCHANGED <<live, index, free, numElements, numDataEntries, containerSize>>

Detach(a) ==
    /\ a \in DOMAIN data
    /\ data' = [b \in DOMAIN data \ {a} |-> data[b]]
    /\ UNCHANGED <<live, index, free, numElements, numDataEntries, containerSize>>

\* AttachmentAccessor::operator[], as an lvalue.
Write(a, e, v) ==
    /\ a \in DOMAIN data /\ e \in live
    /\ data' = [data EXCEPT ![a][index[e]] = v]
    /\ UNCHANGED <<live, index, free, numElements, numDataEntries, containerSize>>

Reserve(size) ==
    /\ size > containerSize
    /\ containerSize' = size
    /\ data' = ResizedContainers(size)
    /\ UNCHANGED <<live, index, free, numElements, numDataEntries>>

\* What clear_elements() does besides the containers; the owner drops its
\* elements.
ForgetElements ==
    /\ live' = {}
    /\ free' = <<>>
    /\ numElements' = 0 /\ numDataEntries' = 0 /\ containerSize' = 0
    /\ UNCHANGED index

ClearElements ==
    /\ ForgetElements
    /\ data' = ResizedContainers(0)

ClearAttachments ==
    /\ data' = [a \in {} |-> <<>>]
    /\ UNCHANGED <<live, index, free, numElements, numDataEntries, containerSize>>

Clear ==
    /\ ForgetElements
    /\ data' = [a \in {} |-> <<>>]

PipeNext ==
    \/ \E e \in Elems : RegisterElement(e) \/ UnregisterElement(e)
    \/ \E a \in Attachments : Attach(a) \/ Detach(a)
    \/ \E a \in Attachments, e \in Elems, v \in Values : Write(a, e, v)
    \/ \E size \in Sizes : Reserve(size)
    \/ ClearElements
    \/ ClearAttachments
    \/ Clear

PipeSpec == PipeInit /\ [][PipeNext]_pipeVars

------------------------------------------------------------------------------
(* Properties *)

PipeTypeOK ==
    /\ live \subseteq Elems
    /\ index \in [Elems -> Nat]
    /\ free \in Seq(Nat)
    /\ numElements \in Nat /\ numDataEntries \in Nat /\ containerSize \in Nat
    /\ DOMAIN data \subseteq Attachments
    /\ \A a \in DOMAIN data : data[a] \in [Indices(containerSize) -> Values]

\* No two registered elements share an entry, whatever was erased, reused,
\* reserved and cleared before, and every entry is in every array.
IndicesAreDistinct ==
    /\ \A e, f \in live : index[e] = index[f] => e = f
    /\ \A e \in live, a \in DOMAIN data : index[e] \in DOMAIN data[a]

\* The indices given out and the indices on the stack make up all entries, each
\* once.
IndicesArePartitioned ==
    /\ \A e \in live : index[e] < numDataEntries
    /\ \A k \in DOMAIN free : free[k] < numDataEntries
    /\ \A e \in live, k \in DOMAIN free : index[e] # free[k]
    /\ \A j, k \in DOMAIN free : free[j] = free[k] => j = k
    /\ numElements = Cardinality(live)
    /\ numElements + Len(free) = numDataEntries
    /\ numDataEntries <= containerSize

\* Entries that were never given out since the arrays were last cleared hold the
\* default: register_element() does not reset them.
UnusedEntriesAreDefault ==
    \A a \in DOMAIN data : \A i \in numDataEntries .. containerSize - 1 :
        data[a][i] = Default[a]

PipeInv == PipeTypeOK /\ IndicesArePartitioned /\ IndicesAreDistinct /\ UnusedEntriesAreDefault

\* The pipe is a table with a cell for each element and attachment: reserving,
\* growing and reusing entries cannot be seen through accessors.
Table == INSTANCE ElementTable WITH
    table <- [a \in DOMAIN data |-> [e \in live |-> data[a][index[e]]]]

ImplementsElementTable == Table!TableSpec
==============================================================================
