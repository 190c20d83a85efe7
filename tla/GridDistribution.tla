--------------------------- MODULE GridDistribution ---------------------------
(***************************************************************************)
(* DistributeGrid() as one element sees it.  Every process that has a copy *)
(* selects targets and states for it; the selections are merged through    *)
(* the interfaces there are; copies are sent with the merged info, and     *)
(* every process builds its side of the new interfaces from it.            *)
(*                                                                         *)
(* A communicate() of all processes is one step: every message is          *)
(* collected before its sender extracts one.                               *)
(***************************************************************************)
EXTENDS DistributionLayouts

CONSTANTS
    FirstInfos,         \* infos that the first interfaces are built from
    Selections,         \* what a process may select for its copy
    MaxRounds           \* how often the grid is distributed, bound

ASSUME GridDistributionAssumption ==
    /\ FirstInfos \subseteq Infos
    /\ Selections \subseteq Infos
    /\ MaxRounds \in Nat

VARIABLES
    copies,             \* the processes with a copy
    itf,                \* the interfaces each copy is in: pairs of kind and target
    selected,           \* the targets and states each process selected
    info,               \* the distribution info each process has
    phase,
    rounds              \* how often the grid was distributed

gdVars == <<copies, itf, selected, info, phase, rounds>>

NoInfo == [p \in {} |-> {}]

GDInit ==
    /\ \E first \in {i \in FirstInfos : Sensible(i)} :
           info = [p \in Procs |-> IF p \in DOMAIN first THEN PostProcessed(first) ELSE NoInfo]
    /\ copies = {p \in Procs : info[p] # NoInfo}
    /\ itf = [p \in Procs |-> {}]
    /\ selected = [p \in Procs |-> NoInfo]
    /\ phase = [p \in Procs |-> "layout"]
    /\ rounds = 0

AllIn(ph) == \A p \in Procs : phase[p] = ph

\* The info that has all that the infos of some processes have.
Joint(infos, S) ==
    [p \in UNION {DOMAIN infos[q] : q \in S} |->
        UNION {infos[q][p] : q \in {q \in S : p \in DOMAIN infos[q]}}]

\* FillDistInfos(): the processes select targets.
Select ==
    /\ AllIn("idle") /\ rounds < MaxRounds
    /\ \E sel \in [copies -> Selections] :
           selected' = [p \in Procs |-> IF p \in copies THEN sel[p] ELSE NoInfo]
    /\ Joint(selected', copies) # NoInfo /\ Sensible(Joint(selected', copies))
    /\ info' = selected'
    /\ phase' = [p \in Procs |-> "h_up"]
    /\ rounds' = rounds + 1
    /\ UNCHANGED <<copies, itf>>

Sources(p, kind) == {q \in copies : <<kind, q>> \in itf[p]}

\* ComPol_SynchronizeDistInfos with merging: what arrives is added.  kind is that of
\* the interfaces a process receives through.
Merge(kind, from, to) ==
    /\ AllIn(from)
    /\ info' = [p \in Procs |-> Joint(info, {p} \cup Sources(p, kind))]
    /\ phase' = [p \in Procs |-> to]
    /\ UNCHANGED <<copies, itf, selected, rounds>>

\* Without merging: what is extracted last stays.
Overwrite(kind, from, to) ==
    /\ AllIn(from)
    /\ \E last \in [Procs -> Procs] :
        /\ \A p \in Procs : IF Sources(p, kind) = {} THEN last[p] = p
                                                     ELSE last[p] \in Sources(p, kind)
        /\ info' = [p \in Procs |-> info[last[p]]]
    /\ phase' = [p \in Procs |-> to]
    /\ UNCHANGED <<copies, itf, selected, rounds>>

\* SynchronizeDistInfos()
Synchronize ==
    \/ Merge("HM", "h_up", "h_down")
    \/ Overwrite("HS", "h_down", "v_down")
    \/ Merge("VS", "v_down", "v_up")
    \/ Merge("VM", "v_up", "v_back")
    \/ Overwrite("VS", "v_back", "post")

\* PostProcessDistInfos(), on every process for itself.
PostProcess ==
    /\ AllIn("post")
    /\ info' = [p \in Procs |-> PostProcessed(info[p])]
    /\ phase' = [p \in Procs |-> "send"]
    /\ UNCHANGED <<copies, itf, selected, rounds>>

\* Every process sends its copy and its info to the targets it selected itself, keeps
\* its copy if it is one of them, and clears all interfaces.
Send ==
    /\ AllIn("send")
    /\ copies' = UNION {DOMAIN selected[p] : p \in copies}
    /\ \E last \in [copies' -> copies] :
        /\ \A p \in copies' : p \in DOMAIN selected[last[p]]
        /\ info' = [p \in Procs |-> IF p \in copies' THEN info[last[p]] ELSE NoInfo]
    /\ itf' = [p \in Procs |-> {}]
    /\ selected' = [p \in Procs |-> NoInfo]
    /\ phase' = [p \in Procs |-> "layout"]
    /\ UNCHANGED rounds

\* CreateLayoutsFromDistInfos(): a process goes through the targets in the order of its
\* list, which need not be that of another process.
CreateLayouts(p) ==
    LET others == DOMAIN info[p] \ {p}
        kinds  == {"HM", "HS", "VM", "VS"}
    IN  /\ phase[p] = "layout"
        /\ \E order \in {f \in [others -> 1 .. Cardinality(others)] :
                            \A q, r \in others : f[q] = f[r] => q = r} :
               itf' = [itf EXCEPT ![p] =
                   {e \in kinds \X others :
                       Puts(info[p], p, e[1], e[2], {r \in others : order[r] <= order[e[2]]})}]
        /\ info' = [info EXCEPT ![p] = NoInfo]
        /\ phase' = [phase EXCEPT ![p] = "idle"]
        /\ UNCHANGED <<copies, selected, rounds>>

GDNext ==
    \/ Select
    \/ Synchronize
    \/ PostProcess
    \/ Send
    \/ \E p \in Procs : CreateLayouts(p)

GDSpec == GDInit /\ [][GDNext]_gdVars

------------------------------------------------------------------------------
(* Properties *)

\* After SynchronizeDistInfos() every process with a copy has the same info: the union
\* of what all selected, though the copies are connected through stars only and
\* several vertical masters not at all.
InfosSynchronized ==
    AllIn("post") => \A p \in copies : info[p] = Joint(selected, copies)

\* The two sides of each interface agree.  Processes build them from equal infos, each
\* its own side, going through lists of different order.
SidesMatch ==
    AllIn("idle") =>
        \A p, q \in Procs :
            /\ <<"HM", q>> \in itf[p] <=> <<"HS", p>> \in itf[q]
            /\ <<"VM", q>> \in itf[p] <=> <<"VS", p>> \in itf[q]

Group(p) == {p} \cup {q \in Procs : <<"HM", q>> \in itf[p] \/ <<"HS", q>> \in itf[p]}

\* Horizontal interfaces form one star, and all slaves of vertical interfaces are in it:
\* what create_missing_constrained_h_interfaces() starts from, and what additive and
\* consistent vectors need: a value has one master.
OneStar ==
    AllIn("idle") =>
        /\ Cardinality({p \in Procs : \E q \in Procs : <<"HM", q>> \in itf[p]}) <= 1
        /\ \A p \in Procs : Cardinality({q \in Procs : <<"HS", q>> \in itf[p]}) <= 1
        /\ \A p, q \in Procs : ~(<<"HM", q>> \in itf[p] /\ \E r \in Procs : <<"HS", r>> \in itf[p])
        /\ LET slaves == {p \in Procs : \E q \in Procs : <<"VS", q>> \in itf[p]}
           IN  \A p, q \in slaves : p = q \/
                   \E m \in Procs : {p, q} \subseteq Group(m) /\ \E r \in Procs : <<"HM", r>> \in itf[m]

\* All copies are connected through interfaces, directly or not: later selections would
\* not be merged otherwise, and the copies would live on without each other.
NoCopyIsLost ==
    AllIn("idle") =>
        \A part \in SUBSET copies : part # {} /\ part # copies =>
            \E p \in part, q \in copies \ part, kind \in {"HM", "HS", "VM", "VS"} :
                <<kind, q>> \in itf[p]
==============================================================================
