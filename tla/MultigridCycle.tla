---------------------------- MODULE MultigridCycle ----------------------------
(***************************************************************************)
(* One cycle of the geometric multigrid, AssembledMultiGridCycle::apply(). *)
(* Every process runs the same recursion lmgc() over the levels; processes *)
(* meet where vertical interfaces join them: there the defect of a v-slave *)
(* travels to its v-master before it is restricted, and the prolongated    *)
(* correction travels back.                                                *)
(*                                                                         *)
(* Numbers are left out.  Every correction a smoother, the base solver or  *)
(* a prolongation computes on a level is named by its number on the level  *)
(* and process; a correction vector is the bag of the corrections added up *)
(* in it, and of a defect we keep the bag of the corrections subtracted.   *)
(* A level defect has two parts: rows of covered dofs are overwritten by   *)
(* every restriction, rows of surface dofs last for the whole cycle.       *)
(*                                                                         *)
(* Messages between two processes arrive in order, one per round of the    *)
(* communicator (InterfaceCommunicator), and sends are buffered.           *)
(***************************************************************************)
EXTENDS Integers, Sequences, FiniteSets, Bags

CONSTANTS
    Procs,
    BaseLevel, TopLevel,    \* m_baseLev, m_topLev
    FullRefLevel,           \* m_LocalFullRefLevel: lowest level of a process
                            \* with surface dofs
    VMaster,                \* per level: the process with the v-masters of a
                            \* process, itself if it has no v-slaves
    CycleType,              \* V == 1, W == 2, F == -1, or more calls
    NumPreSmooth, NumPostSmooth,
    Overlap,                \* m_bCommCompOverlap
    Neighbours,             \* the horizontal interfaces of the base level
    GatheredIfAmbiguous,    \* m_bGatheredBaseIfAmbiguous
    ParallelBase,           \* m_spBaseSolver->supports_parallel()
    Observed                \* statistics or debug output are written

Levels == BaseLevel .. TopLevel

ASSUME CycleAssumption ==
    /\ BaseLevel \in Nat /\ TopLevel \in Nat /\ BaseLevel <= TopLevel
    /\ FullRefLevel \in [Procs -> Levels]
    /\ VMaster \in [Levels -> [Procs -> Procs]]
    /\ \A l \in Levels, p \in Procs : VMaster[l][VMaster[l][p]] = VMaster[l][p]
    /\ CycleType \in {-1} \cup (Nat \ {0})
    /\ NumPreSmooth \in Nat /\ NumPostSmooth \in Nat
    /\ Neighbours \in [Procs -> SUBSET Procs]
    /\ \A p, q \in Procs : q \in Neighbours[p] => p # q /\ p \in Neighbours[q]
    /\ Overlap \in BOOLEAN /\ GatheredIfAmbiguous \in BOOLEAN /\ ParallelBase \in BOOLEAN
    /\ Observed \in BOOLEAN

VARIABLES
    pc,         \* where a process is in the innermost lmgc()
    stack,      \* its calls of lmgc(), the innermost first
    nu,         \* the smoothing steps done
    made,       \* per level the number of corrections computed
    reset,      \* auxiliary: that number when sc was last set to zero
    st,         \* the correction in ld.st, 0 for none
    sc,         \* the corrections in ld.sc
    covered,    \* those subtracted from the covered rows of ld.sd
    surface,    \* those subtracted from its surface rows
    t,          \* the defects added up in ld.t, the vector with ghosts
    channel,    \* messages on their way
    pC,         \* per level the corrections added to the surface
    solves      \* auxiliary: calls of the base solver

vars == <<pc, stack, nu, made, reset, st, sc, covered, surface, t, channel, pC, solves>>

Slaves(p, l)   == {q \in Procs \ {p} : VMaster[l][q] = p}
IsSlave(p, l)  == VMaster[l][p] # p
Vertical(p, l) == IsSlave(p, l) \/ Slaves(p, l) # {}
Group(p, l)    == {p} \cup Slaves(p, l)

\* A distributed base problem that cannot be gathered needs a parallel solver:
\* otherwise init_level_memory() throws.
ASSUME BaseAssumption ==
    \A p \in Procs : Neighbours[p] # {} => Vertical(p, BaseLevel) \/ ParallelBase

\* The corrections from..to, each once.
Once(from, to) == SetToBag(from .. to)

\* One more correction.
Plus(bag, n) == bag (+) SetToBag({n})

------------------------------------------------------------------------------
(* The recursion *)

V == 1
F == -1

\* Mutant: the base problem is solved once per call.
CallsOnEveryLevel(l, type) ==
    IF l = BaseLevel THEN <<>>
    ELSE IF type = F THEN <<F, V>>
    ELSE [i \in 1 .. type |-> type]

\* The calls of lmgc(l, type) for the next coarser level: on the base level only
\* one, an F-cycle continues with an F- and a V-cycle.
Calls(l, type) ==
    IF l = BaseLevel THEN <<>>
    ELSE IF l - 1 = BaseLevel THEN <<type>>
    ELSE IF type = F THEN <<F, V>>
    ELSE [i \in 1 .. type |-> type]

Frame(l, type) == [lev |-> l, calls |-> Calls(l, type)]

EntryOf(l) == IF l = BaseLevel THEN "base" ELSE "presmooth"

Lev(p) == Head(stack[p]).lev

Init ==
    LET none == [p \in Procs |-> [l \in Levels |-> EmptyBag]]
        zero == [p \in Procs |-> [l \in Levels |-> 0]]
    IN  /\ pc = [p \in Procs |-> EntryOf(TopLevel)]
        /\ stack = [p \in Procs |-> <<Frame(TopLevel, CycleType)>>]
        /\ nu = [p \in Procs |-> 0]
        /\ made = zero /\ reset = zero /\ st = zero
        /\ sc = none /\ covered = none /\ surface = none /\ pC = none
        /\ t = [p \in Procs |-> [l \in Levels |-> {}]]
        /\ channel = [p \in Procs |-> [q \in Procs |-> <<>>]]
        /\ solves = [p \in Procs |-> 0]

Goto(p, label) == pc' = [pc EXCEPT ![p] = label]

\* lmgc() returns to its caller, the outermost one to apply().
Leave(p) ==
    /\ stack' = [stack EXCEPT ![p] = Tail(@)]
    /\ Goto(p, IF Len(stack[p]) = 1 THEN "finish" ELSE "coarse")

\* A new correction on level l is in st; it is the made[p][l]-th.
Compute(p, l) ==
    /\ made' = [made EXCEPT ![p][l] = @ + 1]
    /\ st' = [st EXCEPT ![p][l] = made[p][l] + 1]

Send(p, l, kind, body, receivers) ==
    channel' = [channel EXCEPT ![p] = [q \in Procs |->
        IF q \in receivers THEN Append(@[q], [lev |-> l, kind |-> kind, body |-> body])
                           ELSE @[q]]]

------------------------------------------------------------------------------
(* presmooth_and_restriction *)

\* Mutant: the last correction is added here as well.
PreSmoothAddsAll(p) ==
    LET l == Lev(p) IN
    /\ pc[p] = "presmooth" /\ nu[p] < NumPreSmooth
    /\ Compute(p, l)
    /\ covered' = [covered EXCEPT ![p][l] = Plus(@, made[p][l] + 1)]
    /\ surface' = [surface EXCEPT ![p][l] = Plus(@, made[p][l] + 1)]
    /\ sc' = [sc EXCEPT ![p][l] = Plus(@, made[p][l] + 1)]
    /\ nu' = [nu EXCEPT ![p] = @ + 1]
    /\ UNCHANGED <<pc, stack, reset, t, channel, pC, solves>>

\* One smoothing step: t = B*d, d -= A*t, and c += t unless it is the last one,
\* which is added while the defect is on its way.
PreSmooth(p) ==
    LET l == Lev(p) IN
    /\ pc[p] = "presmooth" /\ nu[p] < NumPreSmooth
    /\ Compute(p, l)
    /\ covered' = [covered EXCEPT ![p][l] = Plus(@, made[p][l] + 1)]
    /\ surface' = [surface EXCEPT ![p][l] = Plus(@, made[p][l] + 1)]
    /\ sc' = [sc EXCEPT ![p][l] =
                  IF nu[p] < NumPreSmooth - 1 THEN Plus(@, made[p][l] + 1) ELSE @]
    /\ nu' = [nu EXCEPT ![p] = @ + 1]
    /\ UNCHANGED <<pc, stack, reset, t, channel, pC, solves>>

Part(p, l) == [proc |-> p, minus |-> covered[p][l]]

\* ld.t takes the defect, without ghosts; a v-slave hands its part over and is
\* left with zero (ComPol_VecAddSetZero).
HandOver(p, l) ==
    /\ t' = [t EXCEPT ![p][l] = IF IsSlave(p, l) THEN {} ELSE {Part(p, l)}]
    /\ Send(p, l, "defect", covered[p][l], {VMaster[l][p]} \ {p})

StartRestriction(p) ==
    /\ pc[p] = "presmooth" /\ nu[p] = NumPreSmooth
    /\ HandOver(p, Lev(p))
    /\ Goto(p, IF Overlap THEN "reset" ELSE "wait")
    /\ UNCHANGED <<stack, nu, made, reset, st, sc, covered, surface, pC, solves>>

\* The coarse correction is zeroed, the last fine one added.
ResetCoarse(p) ==
    LET l == Lev(p) IN
    /\ pc[p] = "reset"
    /\ sc' = [sc EXCEPT ![p][l - 1] = EmptyBag,
                         ![p][l]     = IF NumPreSmooth > 0 THEN Plus(@, st[p][l]) ELSE @]
    /\ reset' = [reset EXCEPT ![p][l - 1] = made[p][l - 1]]
    /\ Goto(p, IF Overlap THEN "wait" ELSE "restrict")
    /\ UNCHANGED <<stack, nu, made, st, covered, surface, t, channel, pC, solves>>

\* The defects the v-slaves of p have sent for a level, and the messages left.
Arrived(p, l) == \A q \in Slaves(p, l) : channel[q][p] # <<>>

Received(p, l, S) == {[proc |-> q, minus |-> Head(channel[q][p]).body] : q \in S}

TakenFrom(p, S) ==
    [q \in Procs |-> [channel[q] EXCEPT ![p] = IF q \in S THEN Tail(@) ELSE @]]

\* m_Com.wait(): the v-masters add what arrives.
Wait(p) ==
    LET l == Lev(p) IN
    /\ pc[p] = "wait"
    /\ Arrived(p, l)
    /\ t' = [t EXCEPT ![p][l] = @ \cup Received(p, l, Slaves(p, l))]
    /\ channel' = TakenFrom(p, Slaves(p, l))
    /\ Goto(p, IF Overlap THEN "restrict" ELSE "reset")
    /\ UNCHANGED <<stack, nu, made, reset, st, sc, covered, surface, pC, solves>>

\* do_restrict overwrites the covered rows of the coarse defect.
Restrict(p) ==
    LET l == Lev(p) IN
    /\ pc[p] = "restrict"
    /\ covered' = [covered EXCEPT ![p][l - 1] = EmptyBag]
    /\ Goto(p, "coarse")
    /\ UNCHANGED <<stack, nu, made, reset, st, sc, surface, t, channel, pC, solves>>

\* The next call of lmgc() on the coarser level.
Descend(p) ==
    LET l     == Lev(p)
        calls == Head(stack[p]).calls
    IN  /\ pc[p] = "coarse" /\ calls # <<>>
        /\ stack' = [stack EXCEPT ![p] =
               <<Frame(l - 1, Head(calls)), [lev |-> l, calls |-> Tail(calls)]>> \o Tail(@)]
        /\ nu' = [nu EXCEPT ![p] = 0]
        /\ Goto(p, EntryOf(l - 1))
        /\ UNCHANGED <<made, reset, st, sc, covered, surface, t, channel, pC, solves>>

------------------------------------------------------------------------------
(* base_solve *)

\* Mutant: v-masters do not count as vertical interfaces.
SlavesGather(p) ==
    /\ IsSlave(p, BaseLevel)
    /\ GatheredIfAmbiguous \/ (Neighbours[p] # {} /\ ~ParallelBase)

\* m_bGatheredBaseUsed, which every process decides alone: without vertical
\* interfaces nothing can be gathered; with them a process gathers if told to, or
\* if it has horizontal interfaces and the solver is not parallel.
Gathers(p) ==
    /\ Vertical(p, BaseLevel)
    /\ GatheredIfAmbiguous \/ (Neighbours[p] # {} /\ ~ParallelBase)

\* The solver overwrites sc; surface rows need a defect that is up to date.
Solved(p, x) ==
    LET track(d) == IF BaseLevel >= FullRefLevel[p]
                    THEN [d EXCEPT ![p][BaseLevel] = @ (+) x] ELSE d
    IN  /\ sc' = [sc EXCEPT ![p][BaseLevel] = x]
        /\ covered' = track(covered)
        /\ surface' = track(surface)
        /\ made' = [made EXCEPT ![p][BaseLevel] = @ + 1]
        /\ solves' = [solves EXCEPT ![p] = @ + 1]
        /\ Leave(p)

\* q takes part in the n-th solution of the distributed base problem, or has.
TakesPart(q, n) ==
    ~Gathers(q) /\ (solves[q] >= n \/ (solves[q] = n - 1 /\ pc[q] = "base"))

\* The solver exchanges values with the horizontal neighbours all the time: it
\* ends when all of them take part.
SolveDistributed(p) ==
    /\ pc[p] = "base" /\ ~Gathers(p)
    /\ \A q \in Neighbours[p] : TakesPart(q, solves[p] + 1)
    /\ Solved(p, SetToBag({made[p][BaseLevel] + 1}))
    /\ UNCHANGED <<nu, reset, st, t, channel, pC>>

\* The v-slaves hand their defects over, the v-master waits for all of them.
GatherBase(p) ==
    /\ pc[p] = "base" /\ Gathers(p)
    /\ IF IsSlave(p, BaseLevel)
       THEN HandOver(p, BaseLevel) /\ Goto(p, "correction")
       ELSE /\ Arrived(p, BaseLevel)
            /\ t' = [t EXCEPT ![p][BaseLevel] = {Part(p, BaseLevel)} \cup
                                    Received(p, BaseLevel, Slaves(p, BaseLevel))]
            /\ channel' = TakenFrom(p, Slaves(p, BaseLevel))
            /\ Goto(p, "solve")
    /\ UNCHANGED <<stack, nu, made, reset, st, sc, covered, surface, pC, solves>>

\* The v-master solves and spreads the correction ...
SolveGathered(p) ==
    LET x == SetToBag({made[p][BaseLevel] + 1}) IN
    /\ pc[p] = "solve"
    /\ Solved(p, x)
    /\ Send(p, BaseLevel, "correction", x, Slaves(p, BaseLevel))
    /\ UNCHANGED <<nu, reset, st, t, pC>>

\* ... for which the v-slaves wait.
ReceiveSolution(p) ==
    LET m == VMaster[BaseLevel][p] IN
    /\ pc[p] = "correction" /\ channel[m][p] # <<>>
    /\ Solved(p, Head(channel[m][p]).body)
    /\ channel' = TakenFrom(p, {m})
    /\ UNCHANGED <<nu, reset, st, t, pC>>

------------------------------------------------------------------------------
(* prolongation_and_postsmooth *)

\* The level below l has surface dofs.
CoarserHasSurface(p, l) == l > FullRefLevel[p]

\* After the last coarse call: the coarse correction goes to the surface where
\* there is one, and is prolongated; v-slaves take what the v-master prolongated.
Prolongate(p) ==
    LET l == Lev(p)
        m == VMaster[l][p]
    IN  /\ pc[p] = "coarse" /\ Head(stack[p]).calls = <<>>
        /\ IsSlave(p, l) => channel[m][p] # <<>>
        /\ pC' = [pC EXCEPT ![p][l - 1] =
                      IF CoarserHasSurface(p, l) THEN @ (+) sc[p][l - 1] ELSE @]
        /\ IF IsSlave(p, l)
           THEN channel' = TakenFrom(p, {m})
           ELSE Send(p, l, "correction", sc[p][l - 1], Slaves(p, l))
        /\ Compute(p, l)
        /\ sc' = [sc EXCEPT ![p][l] = Plus(@, made[p][l] + 1)]
        /\ nu' = [nu EXCEPT ![p] = 0]
        /\ Goto(p, "postsmooth")
        /\ UNCHANGED <<stack, reset, covered, surface, t, solves>>

Subtract(p, l) ==
    /\ covered' = [covered EXCEPT ![p][l] = Plus(@, st[p][l])]
    /\ surface' = [surface EXCEPT ![p][l] = Plus(@, st[p][l])]

\* One smoothing step: the defect first takes the correction of the last one.
PostSmooth(p) ==
    LET l == Lev(p) IN
    /\ pc[p] = "postsmooth" /\ nu[p] < NumPostSmooth
    /\ Subtract(p, l)
    /\ Compute(p, l)
    /\ sc' = [sc EXCEPT ![p][l] = Plus(@, made[p][l] + 1)]
    /\ nu' = [nu EXCEPT ![p] = @ + 1]
    /\ UNCHANGED <<pc, stack, reset, t, channel, pC, solves>>

\* Mutant: the last correction is left out of the defect of surface levels, too.
ReturnAtOnce(p) ==
    /\ pc[p] = "postsmooth" /\ nu[p] = NumPostSmooth
    /\ Leave(p)
    /\ UNCHANGED <<nu, made, reset, st, sc, covered, surface, t, channel, pC, solves>>

\* The defect takes the last correction only on levels with surface dofs, or for
\* the statistics.
Return(p) ==
    LET l == Lev(p) IN
    /\ pc[p] = "postsmooth" /\ nu[p] = NumPostSmooth
    /\ IF l >= FullRefLevel[p] \/ Observed
       THEN Subtract(p, l)
       ELSE UNCHANGED <<covered, surface>>
    /\ Leave(p)
    /\ UNCHANGED <<nu, made, reset, st, sc, t, channel, pC, solves>>

\* apply() adds the correction of the top level to the surface.
Finish(p) ==
    /\ pc[p] = "finish"
    /\ pC' = [pC EXCEPT ![p][TopLevel] = @ (+) sc[p][TopLevel]]
    /\ Goto(p, "done")
    /\ UNCHANGED <<stack, nu, made, reset, st, sc, covered, surface, t, channel, solves>>

Step(p) ==
    \/ PreSmooth(p) \/ StartRestriction(p) \/ ResetCoarse(p) \/ Wait(p) \/ Restrict(p)
    \/ Descend(p)
    \/ SolveDistributed(p) \/ GatherBase(p) \/ SolveGathered(p) \/ ReceiveSolution(p)
    \/ Prolongate(p) \/ PostSmooth(p) \/ Return(p) \/ Finish(p)

AllDone == \A p \in Procs : pc[p] = "done"

Next ==
    \/ \E p \in Procs : Step(p)
    \/ AllDone /\ UNCHANGED vars

Spec == Init /\ [][Next]_vars

\* A process whose messages have arrived runs on.
FairSpec == Spec /\ \A p \in Procs : WF_vars(Step(p))
------------------------------------------------------------------------------
(* Properties *)

\* x is what the defect of level l has to have taken, with the surface rows y:
\* all that was computed since the level was restricted to, and since the start.
Current(p, l, x, y) ==
    /\ x = Once(reset[p][l] + 1, made[p][l])
    /\ l >= FullRefLevel[p] => y = Once(1, made[p][l])

\* Whenever a smoother, the base solver or a restriction reads the defect of a
\* level, it is the defect of the correction computed there so far.
DefectIsCurrent ==
    \A p \in Procs : pc[p] \in {"presmooth", "base", "postsmooth"} =>
        LET l == Lev(p) IN
        IF pc[p] = "postsmooth"
        THEN nu[p] < NumPostSmooth =>
                 Current(p, l, Plus(covered[p][l], st[p][l]), Plus(surface[p][l], st[p][l]))
        ELSE Current(p, l, covered[p][l], surface[p][l])

\* Whenever the correction of a level is prolongated, or returned, it has all
\* corrections computed since it was zeroed, each once.
CorrectionIsComplete ==
    \A p \in Procs :
        /\ pc[p] = "coarse" /\ Head(stack[p]).calls = <<>> =>
               LET l == Lev(p) - 1 IN sc[p][l] = Once(reset[p][l] + 1, made[p][l])
        /\ pc[p] = "finish" => sc[p][TopLevel] = Once(1, made[p][TopLevel])

\* What is restricted, or solved for, is the sum of the defects of all processes
\* that share the level, each once and all of the same smoothing steps; a v-slave
\* restricts nothing.
DefectIsWhole ==
    \A p \in Procs : pc[p] \in {"restrict", "solve"} =>
        LET l == Lev(p)
            S == IF IsSlave(p, l) THEN {} ELSE Group(p, l)
        IN  t[p][l] = {[proc |-> q, minus |-> covered[p][l]] : q \in S}

\* A process that waits finds the message of its level and phase, and v-slaves
\* the correction that they would have computed.
MessagesMatch ==
    \A p \in Procs : pc[p] \in {"wait", "base", "correction", "coarse"} =>
        LET l == Lev(p)
            Expects(q, kind) ==
                channel[q][p] # <<>> => /\ Head(channel[q][p]).lev = l
                                        /\ Head(channel[q][p]).kind = kind
            Prolongates == pc[p] = "coarse" /\ Head(stack[p]).calls = <<>> /\ IsSlave(p, l)
            m == VMaster[l][p]
        IN  /\ (pc[p] = "wait" \/ (pc[p] = "base" /\ Gathers(p))) =>
                   \A q \in Slaves(p, l) : Expects(q, "defect")
            /\ pc[p] = "correction" => Expects(m, "correction")
            /\ Prolongates =>
                   /\ Expects(m, "correction")
                   /\ channel[m][p] # <<>> => Head(channel[m][p]).body = sc[p][l - 1]

\* In the end every surface dof has got every correction of its level once.
SurfaceGetsAll ==
    \A p \in Procs : pc[p] = "done" => \A l \in Levels :
        pC[p][l] = IF l >= FullRefLevel[p] THEN Once(1, made[p][l]) ELSE EmptyBag

\* CycleType to the power of n.
CyclePower[n \in Nat] == IF n = 0 THEN 1 ELSE CycleType * CyclePower[n - 1]

\* The base problem is solved once in a V-cycle, once per level in an F-cycle,
\* and the number of calls doubles with each level but the last in a W-cycle.
BaseSolvesCounted ==
    LET depth == TopLevel - BaseLevel
    IN  \A p \in Procs : pc[p] = "done" =>
            solves[p] = IF depth = 0 THEN 1
                        ELSE IF CycleType = F THEN depth ELSE CyclePower[depth - 1]

\* What is smoothed, solved for and restricted is the defect of all that was
\* computed, on all processes that share the level.
DefectsAreRight == DefectIsCurrent /\ DefectIsWhole

\* What is prolongated, and sent to v-slaves for it, is the whole correction.
CorrectionsAreRight == CorrectionIsComplete /\ MessagesMatch

\* The cycle does what its type asks for, and all of it reaches the surface.
CycleIsComplete == SurfaceGetsAll /\ BaseSolvesCounted

\* The processes never wait for each other: apply() returns on all of them.
CycleEnds == <>AllDone
==============================================================================
