------------------------------ MODULE Interfaces ------------------------------
(***************************************************************************)
(* The value of a pcl::OrderedInterface: a list of elements with local     *)
(* ids, and the counter the next id is taken from.  Ids and counter are    *)
(* of type size_t; 0 is no id, a counter of 0 means that it went round.    *)
(***************************************************************************)
EXTENDS Integers, Sequences

CONSTANT IdLimit        \* the number of values of size_t

ASSUME IdLimitAssumption == IdLimit \in Nat /\ IdLimit > 1

EmptyInterface == [entries |-> <<>>, idCounter |-> 1]

\* The elements of a list with the ids from first on.
Numbered(entries, first) ==
    [k \in 1 .. Len(entries) |-> [entries[k] EXCEPT !.localID = (first + k - 1) % IdLimit]]

\* get_free_id(): the next id, and the interface afterwards.  All entries get new
\* ids when there is none left.
FreshId(itf) ==
    IF itf.idCounter = 0
    THEN [id  |-> (Len(itf.entries) + 1) % IdLimit,
          itf |-> [entries   |-> Numbered(itf.entries, 1),
                   idCounter |-> (Len(itf.entries) + 2) % IdLimit]]
    ELSE [id  |-> itf.idCounter,
          itf |-> [itf EXCEPT !.idCounter = (@ + 1) % IdLimit]]

\* push_back()
PushBack(itf, elem) ==
    LET fresh == FreshId(itf)
    IN  [fresh.itf EXCEPT !.entries = Append(@, [elem |-> elem, localID |-> fresh.id])]

\* The entries with one more before the k-th.
Placed(entries, entry, k) ==
    SubSeq(entries, 1, k - 1) \o <<entry>> \o SubSeq(entries, k, Len(entries))

\* Mutant: the entries behind the new one keep their ids.
InsertUnnumbered(itf, elem, k) ==
    LET fresh == FreshId(itf)
    IN  [fresh.itf EXCEPT !.entries = Placed(@, [elem |-> elem, localID |-> fresh.id], k)]

\* insert() before the k-th entry, or at the end.  The entry and those behind it
\* get the ids from that of the k-th entry on, as it was before the call.
Insert(itf, elem, k) ==
    LET fresh  == FreshId(itf)
        start  == IF k <= Len(itf.entries) THEN itf.entries[k].localID ELSE 0
        placed == Placed(fresh.itf.entries, [elem |-> elem, localID |-> fresh.id], k)
        id(j)  == IF start = 0 \/ j < k THEN placed[j].localID
                                        ELSE (start + j - k) % IdLimit
    IN  [fresh.itf EXCEPT !.entries =
            [j \in 1 .. Len(placed) |-> [elem |-> placed[j].elem, localID |-> id(j)]]]

\* erase() of the k-th entry.
Erase(itf, k) ==
    [itf EXCEPT !.entries = SubSeq(@, 1, k - 1) \o SubSeq(@, k + 1, Len(@))]

\* sort(): the entries in another order, numbered from 1 on.
Permuted(itf, pi) ==
    [entries   |-> Numbered([k \in 1 .. Len(itf.entries) |-> itf.entries[pi[k]]], 1),
     idCounter |-> (Len(itf.entries) + 1) % IdLimit]

Elements(itf) == [k \in 1 .. Len(itf.entries) |-> itf.entries[k].elem]

\* Local ids follow the order of the entries, and the next id is larger than all of
\* them or the counter went round.
IdsAscend(itf) ==
    /\ \A j, k \in 1 .. Len(itf.entries) :
           j < k => itf.entries[j].localID < itf.entries[k].localID
    /\ \A k \in 1 .. Len(itf.entries) :
           /\ 0 < itf.entries[k].localID
           /\ itf.idCounter # 0 => itf.entries[k].localID < itf.idCounter
==============================================================================
