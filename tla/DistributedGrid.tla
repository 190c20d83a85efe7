---------------------------- MODULE DistributedGrid ----------------------------
(***************************************************************************)
(* DistributedGridManager: every process observes its part of the grid and *)
(* puts new elements into the interfaces of their parents.  Processes do   *)
(* not communicate: both sides of an interface have to insert the same     *)
(* elements in the same order because both sort by the local ids of the    *)
(* parents.  Which elements are refined, replaced or erased is agreed on   *)
(* before (the marks are synchronised); the order in which a process does  *)
(* so is its own.                                                          *)
(*                                                                         *)
(* What is an unordered matter is a set: the entries of an element, and    *)
(* the scheduled items, whose order their fields give.                     *)
(*                                                                         *)
(* An object is a pair of an element and a version: replacing an element   *)
(* (a constrained edge by a normal one, say) makes a new object.  An       *)
(* iterator into an interface is the local id of the node it points to.    *)
(***************************************************************************)
EXTENDS Interfaces, FiniteSets

CONSTANTS
    Procs,              \* ranks, naturals
    Elems,
    Type,               \* the base type of each element
    Level,
    Children,           \* what refining an element creates, in this order
    FirstElems,         \* the elements each process starts with
    FirstLists,         \* the interfaces it starts with: [kind, master, slave, elems]
    Replaceable,        \* elements that may be replaced, bound
    MaxSessions         \* rounds of insertion or deletion, bound

Types  == <<"vertex", "edge", "face", "volume">>
Kinds  == <<"HM", "HS", "VM", "VS">>
Flat   == {"HM", "HS"}
Levels == {Level[e] : e \in Elems}

\* The members of a sequence.
Members(s) == {s[k] : k \in DOMAIN s}

ASSUME DistributedGridAssumption ==
    /\ Procs \subseteq Nat /\ IsFiniteSet(Procs) /\ IsFiniteSet(Elems)
    /\ Type \in [Elems -> Members(Types)]
    /\ Level \in [Elems -> Nat]
    /\ Children \in [Elems -> Seq(Elems)]
    /\ \A e \in Elems : \A c \in Members(Children[e]) : Level[c] = Level[e] + 1
    /\ \A e, f \in Elems : \A j \in DOMAIN Children[e], k \in DOMAIN Children[f] :
           Children[e][j] = Children[f][k] => e = f /\ j = k
    /\ FirstElems \in [Procs -> SUBSET Elems]
    /\ Replaceable \subseteq Elems
    /\ MaxSessions \in Nat

\* The ids suffice: MaxSessions sessions do not use up the values of size_t.
ASSUME IdsAssumption == 1 + Cardinality(Elems) * (MaxSessions + 1) < IdLimit

\* The elements two processes share horizontally at first.
FirstShared(master, slave) ==
    UNION {Members(l.elems) : l \in {l \in FirstLists :
               l.kind = "H" /\ l.master = master /\ l.slave = slave}}

\* A list of shared elements is of one type and level.  No element is on both sides
\* of horizontal interfaces.  Parents are somewhere.
ASSUME FirstAssumption ==
    /\ \A l \in FirstLists :
         /\ l.kind \in {"H", "V"} /\ l.master # l.slave
         /\ l.elems \in Seq(Elems) \ {<<>>}
         /\ \A j, k \in DOMAIN l.elems : l.elems[j] = l.elems[k] => j = k
         /\ \A e \in Members(l.elems) : /\ Type[e] = Type[l.elems[1]]
                                        /\ Level[e] = Level[l.elems[1]]
         /\ \A p \in {l.master, l.slave} : p \in Procs /\ Members(l.elems) \subseteq FirstElems[p]
    /\ \A l, m \in FirstLists :
         (/\ l.kind = m.kind /\ l.master = m.master /\ l.slave = m.slave
          /\ Type[l.elems[1]] = Type[m.elems[1]] /\ Level[l.elems[1]] = Level[m.elems[1]])
         => l = m
    /\ \A p \in Procs, e \in Elems :
         Members(Children[e]) \cap FirstElems[p] # {} => \E q \in Procs : e \in FirstElems[q]
    /\ \A p, q, r \in Procs : FirstShared(p, q) \cap FirstShared(r, p) = {}

\* The members of S one after another, where "before" says who comes before whom.
Sorted(S, before) ==
    [k \in 1 .. Cardinality(S) |->
        CHOOSE x \in S : Cardinality({y \in S : <<y, x>> \in before}) = k - 1]

\* The interfaces of a grid layout map: INT_H_MASTER, INT_H_SLAVE, INT_V_MASTER and
\* INT_V_SLAVE, for each type, level and target process.  One that was not asked for
\* yet is empty.
KeysFor(types) == [type : types, level : Levels, kind : Members(Kinds), target : Procs]
Keys    == KeysFor({Type[e] : e \in Elems})
Objects == Elems \X (0 .. 1)
NoInfo  == [status |-> {}, entries |-> {}]

VARIABLES
    grid,               \* the objects each process has
    layout,             \* m_gridLayoutMap: the interface of each key
    info,               \* the ElementInfo of each object
    scheduled,          \* m_vrtMap, m_edgeMap, m_faceMap and m_volMap
    mode,               \* "insert", "delete" or "none"
    todo,               \* what a process has still to do in this session
    session,            \* "insert" or "delete"
    open,               \* the processes that have not ended the session
    sessions            \* how many there were

dgVars == <<grid, layout, info, scheduled, mode, todo, session, open, sessions>>
plan   == <<session, open, sessions>>

Has(p, e)      == \E o \in grid[p] : o[1] = e
ObjectOf(p, e) == CHOOSE o \in grid[p] : o[1] = e

\* The nodes of an interface that hold an object.
NodesIn(itf, o) == {k \in DOMAIN itf.entries : itf.entries[k].elem = o}

Node(key, entry)  == [key |-> key, id |-> entry.localID]
NodesOf(itfs, o) ==
    UNION {{Node(key, itfs[key].entries[k]) : k \in NodesIn(itfs[key], o)} :
              key \in KeysFor({Type[o[1]]})}

\* The element information grid_layouts_changed() builds from the interfaces: the
\* horizontal ones set the status, the vertical ones add to it.
InfosFrom(itfs) ==
    [o \in Objects |->
        LET nodes == NodesOf(itfs, o)
            kinds == {n.key.kind : n \in nodes}
            flat  == IF "HS" \in kinds THEN {"HS", "IN"}
                     ELSE IF "HM" \in kinds THEN {"HM", "IN"} ELSE {}
        IN  [status  |-> flat \cup (kinds \cap {"VM", "VS"}),
             entries |-> nodes]]

\* is_ghost(): a vertical master in no horizontal interface.
IsGhost(p, e) == info[p][ObjectOf(p, e)].status \cap {"VM", "HM", "HS"} = {"VM"}

\* An interface as one object after another is pushed back.
Pushed(itf, objs) ==
    LET after[n \in 0 .. Len(objs)] == IF n = 0 THEN itf ELSE PushBack(after[n - 1], objs[n])
    IN  after

\* The interfaces a process starts with, filled in the same order on both sides.
FirstKey(p, l) ==
    [type |-> Type[l.elems[1]], level |-> Level[l.elems[1]],
     kind |-> IF p = l.master THEN (IF l.kind = "H" THEN "HM" ELSE "VM")
                              ELSE (IF l.kind = "H" THEN "HS" ELSE "VS"),
     target |-> IF p = l.master THEN l.slave ELSE l.master]

FirstLayout(p) ==
    LET ends == {l \in FirstLists : p \in {l.master, l.slave}}
        filled(l) == Pushed(EmptyInterface, [k \in 1 .. Len(l.elems) |-> <<l.elems[k], 0>>])
    IN  [key \in Keys |->
            IF \E l \in ends : FirstKey(p, l) = key
            THEN LET l == CHOOSE l \in ends : FirstKey(p, l) = key IN filled(l)[Len(l.elems)]
            ELSE EmptyInterface]

DGInit ==
    /\ grid = [p \in Procs |-> FirstElems[p] \X {0}]
    /\ layout = [p \in Procs |-> FirstLayout(p)]
    /\ info = [p \in Procs |-> InfosFrom(layout[p])]
    /\ scheduled = [p \in Procs |-> {}]
    /\ mode = [p \in Procs |-> "none"]
    /\ todo = [p \in Procs |-> {}]
    /\ session = "insert" /\ open = {} /\ sessions = 0

------------------------------------------------------------------------------
(* What the processes agree on *)

Existing == {e \in Elems : \E p \in Procs : Has(p, e)}
Leaves   == {e \in Existing : Members(Children[e]) \cap Existing = {}}

Tasks(op, es, p) == {<<op, e>> : e \in {e \in es : Has(p, e)}}

\* The elements marked for refinement, ghosts excepted, and those that change their
\* type meanwhile.
PlanInsertion ==
    \E marked \in SUBSET {e \in Leaves : Children[e] # <<>>}, replaced \in SUBSET Replaceable :
        /\ marked # {}
        /\ todo' = [p \in Procs |->
               {t \in Tasks("refine", marked, p) : ~IsGhost(p, t[2])}
                   \cup Tasks("replace", replaced, p)]
        /\ session' = "insert"

PlanDeletion ==
    \E erased \in SUBSET {e \in Leaves : Level[e] > 0}, replaced \in SUBSET Replaceable :
        /\ erased # {}
        /\ todo' = [p \in Procs |->
               Tasks("erase", erased, p) \cup Tasks("replace", replaced \ erased, p)]
        /\ session' = "delete"

NewSession ==
    /\ open = {} /\ sessions < MaxSessions
    /\ PlanInsertion \/ PlanDeletion
    /\ open' = Procs
    /\ sessions' = sessions + 1
    /\ UNCHANGED <<grid, layout, info, scheduled, mode>>

------------------------------------------------------------------------------
(* What one process does *)

\* begin_ordered_element_insertion() and begin_element_deletion()
Begin(p) ==
    /\ p \in open /\ mode[p] = "none"
    /\ mode' = [mode EXCEPT ![p] = session]
    /\ UNCHANGED <<grid, layout, info, scheduled, todo, plan>>

Done(p, op, e) == /\ <<op, e>> \in todo[p]
                  /\ todo' = [todo EXCEPT ![p] = @ \ {<<op, e>>}]

\* The entries of a parent its children are scheduled for: the horizontal ones.
FlatEntries(i) == {n \in i.entries : n.key.kind \in Flat}

\* The kind of interface a child will be in.
SideOf(status) == IF "HM" \in status THEN "HM" ELSE "HS"

\* schedule_element_for_insertion() of the children of e: an item for each of those
\* entries, in the map of the parent's type, by the local id of the parent in that
\* interface and behind the items that are there.
Items(p, e, i) ==
    {[map |-> Type[e], id |-> n.id, nr |-> Cardinality(scheduled[p]) + k,
      obj |-> <<Children[e][k], 0>>, target |-> n.key.target] :
         n \in FlatEntries(i), k \in DOMAIN Children[e]}

\* handle_created_element() of the children of an element.
Refine(p, e) ==
    LET i       == info[p][ObjectOf(p, e)]
        objs    == Members(Children[e]) \X {0}
        follows == i.status \cap {"IN", "SCHED"} # {} /\ i.entries # {}
        fresh   == IF follows THEN [NoInfo EXCEPT !.status = {SideOf(i.status), "SCHED"}]
                              ELSE NoInfo
    IN  /\ mode[p] = "insert"
        /\ Done(p, "refine", e)
        /\ grid' = [grid EXCEPT ![p] = @ \cup objs]
        /\ info' = [info EXCEPT ![p] = [o \in Objects |-> IF o \in objs THEN fresh ELSE @[o]]]
        /\ scheduled' = [scheduled EXCEPT ![p] =
                            @ \cup (IF follows THEN Items(p, e, i) ELSE {})]
        /\ UNCHANGED <<layout, mode, plan>>

\* The interfaces once those nodes point to another object.  Mutant: they do not.
NotRepointed(itfs, nodes, obj) == itfs
Repointed(itfs, nodes, obj) ==
    LET pointing(key, entry) == IF Node(key, entry) \in nodes
                                THEN [entry EXCEPT !.elem = obj] ELSE entry
    IN  [key \in Keys |->
            [itfs[key] EXCEPT !.entries = [k \in DOMAIN @ |-> pointing(key, @[k])]]]

\* handle_created_element() of an element that replaces its parent: the new object
\* takes over the information, and the nodes it names point to the new object.
Replace(p, e) ==
    LET old == ObjectOf(p, e)
        new == <<e, 1 - old[2]>>
    IN  /\ Done(p, "replace", e)
        /\ grid' = [grid EXCEPT ![p] = (@ \ {old}) \cup {new}]
        /\ info' = [info EXCEPT ![p][new] = info[p][old], ![p][old] = NoInfo]
        /\ layout' = [layout EXCEPT ![p] = Repointed(@, info[p][old].entries, new)]
        /\ UNCHANGED <<scheduled, mode, plan>>

\* Mutant: items go to the interfaces as they came.
BeforeAsScheduled(i, j) == i.nr < j.nr

\* The maps are gone through one after the other, each by ids, and items with the
\* same id as they came.
Nr(type) == CHOOSE k \in DOMAIN Types : Types[k] = type
Before(i, j) ==
    \/ Nr(i.map) < Nr(j.map)
    \/ i.map = j.map /\ (i.id < j.id \/ (i.id = j.id /\ i.nr < j.nr))

\* add_element_to_interface(): where an item goes.
KeyOf(p, item) ==
    [type   |-> Type[item.obj[1]], level |-> Level[item.obj[1]],
     kind   |-> SideOf(info[p][item.obj].status), target |-> item.target]

\* What goes to an interface, in order, and the interface after each of them.
Arriving(p, key) ==
    LET S == {i \in scheduled[p] : KeyOf(p, i) = key}
    IN  Sorted(S, {ij \in S \X S : Before(ij[1], ij[2])})
Filled(p, key) ==
    LET items == Arriving(p, key)
    IN  Pushed(layout[p][key], [k \in 1 .. Len(items) |-> items[k].obj])

\* The nodes that hold an object from then on.
NewNodes(p, o) ==
    UNION {LET items == Arriving(p, key)
               filled == Filled(p, key)
           IN  {[key |-> key, id |-> FreshId(filled[k - 1]).id] :
                    k \in {k \in DOMAIN items : items[k].obj = o}} :
              key \in {KeyOf(p, i) : i \in {i \in scheduled[p] : i.obj = o}}}

\* end_ordered_element_insertion(): first the children of vertices, then those of
\* edges, faces and volumes.
EndInsertion(p) ==
    LET objs == {i.obj : i \in scheduled[p]}
        last(filled) == filled[Cardinality(DOMAIN filled) - 1]
        entered(o, i) == [status  |-> (i.status \ {"SCHED"}) \cup {"IN", SideOf(i.status)},
                          entries |-> i.entries \cup NewNodes(p, o)]
    IN  /\ mode[p] = "insert" /\ todo[p] = {}
        /\ layout' = [layout EXCEPT ![p] =
                         [key \in Keys |-> last(Filled(p, key))]]
        /\ info' = [info EXCEPT ![p] =
                       [o \in Objects |-> IF o \in objs THEN entered(o, @[o]) ELSE @[o]]]
        /\ scheduled' = [scheduled EXCEPT ![p] = {}]
        /\ mode' = [mode EXCEPT ![p] = "none"]
        /\ open' = open \ {p}
        /\ UNCHANGED <<grid, todo, session, sessions>>

\* The interfaces without those nodes.
Without(itfs, nodes) ==
    [key \in Keys |->
        LET list == itfs[key].entries
            kept == {k \in DOMAIN list : Node(key, list[k]) \notin nodes}
            at   == Sorted(kept, {ij \in kept \X kept : ij[1] < ij[2]})
        IN  [itfs[key] EXCEPT !.entries = [k \in 1 .. Len(at) |-> list[at[k]]]]]

\* element_to_be_erased(): the nodes the element's information names are erased.
EraseElement(p, e) ==
    LET obj == ObjectOf(p, e)
    IN  /\ mode[p] = "delete"
        /\ Done(p, "erase", e)
        /\ layout' = [layout EXCEPT ![p] = Without(@, info[p][obj].entries)]
        /\ grid' = [grid EXCEPT ![p] = @ \ {obj}]
        /\ info' = [info EXCEPT ![p][obj] = NoInfo]
        /\ UNCHANGED <<scheduled, mode, plan>>

\* end_element_deletion(), as far as no vertical interface element became constrained.
EndDeletion(p) ==
    /\ mode[p] = "delete" /\ todo[p] = {}
    /\ mode' = [mode EXCEPT ![p] = "none"]
    /\ open' = open \ {p}
    /\ UNCHANGED <<grid, layout, info, scheduled, todo, session, sessions>>

\* grid_layouts_changed()
LayoutsChanged(p) ==
    /\ p \notin open
    /\ info' = [info EXCEPT ![p] = InfosFrom(layout[p])]
    /\ UNCHANGED <<grid, layout, scheduled, mode, todo, plan>>

DGNext ==
    \/ NewSession
    \/ \E p \in Procs : Begin(p) \/ EndInsertion(p) \/ EndDeletion(p) \/ LayoutsChanged(p)
    \/ \E p \in Procs, e \in Elems : Refine(p, e) \/ Replace(p, e) \/ EraseElement(p, e)

DGSpec == DGInit /\ [][DGNext]_dgVars

------------------------------------------------------------------------------
(* Properties *)

Other == [HM |-> "HS", HS |-> "HM", VM |-> "VS", VS |-> "VM"]

Opposite(p, key) == [key EXCEPT !.kind = Other[key.kind], !.target = p]

ElementList(p, key) == [k \in DOMAIN layout[p][key].entries |-> layout[p][key].entries[k].elem[1]]

\* What every data exchange relies on: when two processes have ended a session, the
\* interfaces between them hold the same elements in the same order, though each
\* refined, replaced and erased in an order of its own and nobody communicated.
InterfacesMatch ==
    \A p, q \in Procs \ open : \A key \in {key \in Keys : key.target = q} :
        ElementList(p, key) = ElementList(q, Opposite(p, key))

\* The information of an element and the interfaces tell the same, at any time:
\* every node points to an object of the grid, every object knows all its nodes, its
\* status names the kinds of interfaces it is in or is scheduled for.
InfosAgree ==
    \A p \in Procs : \A o \in Objects :
        LET i     == info[p][o]
            nodes == NodesOf(layout[p], o)
            kinds == {n.key.kind : n \in nodes}
        IN  /\ o \notin grid[p] => i = NoInfo /\ \A s \in scheduled[p] : s.obj # o
            /\ i.entries = nodes
            /\ "IN" \in i.status <=> kinds \cap {"HM", "HS"} # {}
            /\ i.status \cap {"VM", "VS"} = kinds \cap {"VM", "VS"}
            /\ IF "SCHED" \in i.status
               THEN mode[p] = "insert" /\ \E s \in scheduled[p] : s.obj = o
               ELSE i.status \cap {"HM", "HS"} = kinds \cap {"HM", "HS"}

\* An element with no children at first, or with children that are shared as it is.
\* Distribution over a hierarchy of processes also leaves a parent in vertical
\* interfaces only when its children are shared horizontally.
FollowedAtFirst(e) ==
    \A p, q \in Procs : \A c \in Members(Children[e]) :
        {e, c} \subseteq FirstElems[p] =>
            /\ e \in FirstShared(p, q) <=> c \in FirstShared(p, q)
            /\ e \in FirstShared(q, p) <=> c \in FirstShared(q, p)

\* Elements are shared as their parents are: a child is in the horizontal interfaces
\* its parent is in, with the same processes and on the same side, unless it was
\* elsewhere already at the start.
ChildrenFollow ==
    \A p \in Procs \ open : \A e \in Elems : \A c \in Members(Children[e]) :
        LET sides(x) == {<<n.key.kind, n.key.target>> :
                            n \in FlatEntries(info[p][ObjectOf(p, x)])}
            IN  FollowedAtFirst(e) /\ Has(p, e) /\ Has(p, c) => sides(c) = sides(e)

\* What a process knows about its elements is what their interfaces say, and
\* follows from what it knows about their parents.
InfosAreRight == InfosAgree /\ ChildrenFollow
==============================================================================
