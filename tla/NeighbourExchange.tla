--------------------------- MODULE NeighbourExchange ---------------------------
(***************************************************************************)
(* What the InterfaceCommunicator promises its callers, with no buffers    *)
(* and no messages: communicate() is a barrier between neighbours that     *)
(* delivers, on every process, exactly what the plan says the neighbours   *)
(* collected for it in the same round.                                     *)
(***************************************************************************)
EXTENDS CommunicationPlan

CONSTANT Plans

VARIABLES
    plan,       \* the plan all processes follow
    started,    \* the rounds a process has entered communicate() for
    finished,   \* the rounds whose data a process has extracted
    inbox       \* what the last extraction handed over, per source

vars == <<plan, started, finished, inbox>>

Init ==
    /\ plan \in Plans
    /\ started  = [p \in Procs |-> 0]
    /\ finished = [p \in Procs |-> 0]
    /\ inbox    = [q \in Procs |-> [p \in Procs |-> <<>>]]

Start(p) ==
    /\ started[p] = finished[p]
    /\ started[p] < Len(plan)
    /\ started' = [started EXCEPT ![p] = @ + 1]
    /\ UNCHANGED <<plan, finished, inbox>>

Finish(q) ==
    LET r == started[q] IN
    /\ finished[q] < r
    /\ \A p \in Sources(plan, r, q) : started[p] >= r
    /\ finished' = [finished EXCEPT ![q] = r]
    /\ inbox' = [inbox EXCEPT ![q] = [p \in Procs |-> Expected(plan, r, p, q)]]
    /\ UNCHANGED <<plan, started>>

Next == \E p \in Procs : Start(p) \/ Finish(p)

SafeSpec == Init /\ [][Next]_vars

Spec == SafeSpec /\ \A p \in Procs : WF_vars(Start(p) \/ Finish(p))
==============================================================================
