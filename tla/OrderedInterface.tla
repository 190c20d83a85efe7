--------------------------- MODULE OrderedInterface ---------------------------
(***************************************************************************)
(* The life of one pcl::OrderedInterface.  Other parts of the program rely *)
(* on local ids for one thing: that they are in the order of the entries.  *)
(* DistributedGridManager inserts children in the order of the ids of     *)
(* their parents, and expects both sides of an interface to do the same.   *)
(***************************************************************************)
EXTENDS Interfaces

CONSTANTS
    Elems,
    Keys,           \* what elements may be sorted by: functions to naturals
    InsertRound     \* insert() may be called when the counter went round

ASSUME OrderedInterfaceAssumption ==
    /\ Keys \subseteq [Elems -> Nat]
    /\ InsertRound \in BOOLEAN

VARIABLE interface

Length == Len(interface.entries)

\* There are more ids than entries, always.
RoomForIds == Length + 2 < IdLimit

OIInit == interface = EmptyInterface

PushBackElem(e) ==
    /\ RoomForIds
    /\ interface' = PushBack(interface, e)

InsertElem(e, k) ==
    /\ RoomForIds
    /\ InsertRound \/ interface.idCounter # 0 \/ k = Length + 1
    /\ interface' = Insert(interface, e, k)

EraseElem(k) == interface' = Erase(interface, k)

\* A stable sort of a list.
Sorts(pi, key) ==
    LET keyOf(k) == key[interface.entries[pi[k]].elem]
    IN  /\ \A j, k \in 1 .. Length : j # k => pi[j] # pi[k]
        /\ \A j, k \in 1 .. Length : j < k =>
             keyOf(j) < keyOf(k) \/ (keyOf(j) = keyOf(k) /\ pi[j] < pi[k])

Sort(key) ==
    \E pi \in [1 .. Length -> 1 .. Length] :
        /\ Sorts(pi, key)
        /\ interface' = Permuted(interface, pi)

OINext ==
    \/ \E e \in Elems : PushBackElem(e)
    \/ \E e \in Elems, k \in 1 .. Length + 1 : InsertElem(e, k)
    \/ \E k \in 1 .. Length : EraseElem(k)
    \/ \E key \in Keys : Sort(key)

OISpec == OIInit /\ [][OINext]_interface

------------------------------------------------------------------------------
(* Properties *)

\* An interface holds elements with ids of its counter's type, and there is always an
\* id left for one more: insert() and push_back() keep m_elements and m_idCounter so.
OITypeOK ==
    /\ interface \in [entries   : Seq([elem : Elems, localID : 0 .. IdLimit - 1]),
                idCounter : 0 .. IdLimit - 1]
    /\ Length + 1 < IdLimit

\* After any insertions and erasures, in front, behind and between, and when the
\* counter went round: ids are given out once and follow the order of the list.
IdsFollowOrder == IdsAscend(interface)
==============================================================================
