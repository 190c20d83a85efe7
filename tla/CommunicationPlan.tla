-------------------------- MODULE CommunicationPlan --------------------------
(***************************************************************************)
(* The program that drives an InterfaceCommunicator.  A ug4 program is     *)
(* SPMD: every process runs the same sequence of communications, and what  *)
(* it sends and receives in each follows from its layouts.  A plan is that *)
(* sequence: one element per call of communicate(), which is itself the    *)
(* sequence of send_data/receive_data (or send_raw/receive_raw) calls made *)
(* before it.  A multi-level layout contributes one call per level, in the *)
(* order of the level loops of the code.                                   *)
(***************************************************************************)
EXTENDS Naturals, Sequences, FiniteSets

CONSTANT Procs      \* the MPI processes

\* One call.  "edges" holds <<p, q>> when p's layout has a non-empty
\* interface to q (or p calls send_raw with target q).  "kind" tells a
\* communication policy from raw data.  "known" is what the receiver can
\* compute: get_required_buffer_size(..) >= 0, or bSizeKnownAtTarget.
Call == [edges : SUBSET (Procs \X Procs), kind : {"layout", "raw"}, known : BOOLEAN]

Plan == Seq(Seq(Call))

\* What one call writes into, and extracts from, the buffer of one edge.  The
\* header is the int with which send_raw prefixes data of unknown size.
Item == [round : Nat \ {0}, call : Nat \ {0}, header : BOOLEAN]

ItemOf(pl, r, c) ==
    [round |-> r, call |-> c, header |-> pl[r][c].kind = "raw" /\ ~pl[r][c].known]

\* Round r moves something from p to q.
Active(pl, r, p, q) == \E c \in DOMAIN pl[r] : <<p, q>> \in pl[r][c].edges

Sources(pl, r, q) == {p \in Procs : Active(pl, r, p, q)}

\* The calls of round r in which p itself sends, and in which p receives.
Sends(pl, r, p, c)    == \E q \in Procs : <<p, q>> \in pl[r][c].edges
Receives(pl, r, p, c) == \E q \in Procs : <<q, p>> \in pl[r][c].edges

\* Everything p handles in round r has a size its receiver can compute.
AllSizesKnown(pl, r, p) ==
    \A c \in DOMAIN pl[r] :
        Sends(pl, r, p, c) \/ Receives(pl, r, p, c) => pl[r][c].known

\* The two ends of every edge come to the same conclusion about sizes.  Holds
\* when no round mixes data of known and of unknown size.
Agreeing(pl) ==
    \A r \in DOMAIN pl : \A p, q \in Procs :
        Active(pl, r, p, q) => AllSizesKnown(pl, r, p) = AllSizesKnown(pl, r, q)

\* The items that round r is to carry from p to q, in the order of the calls.
Expected(pl, r, p, q) ==
    LET calls  == {c \in DOMAIN pl[r] : <<p, q>> \in pl[r][c].edges}
        Nth(i) == CHOOSE c \in calls : Cardinality({d \in calls : d <= c}) = i
    IN  [i \in 1 .. Cardinality(calls) |-> ItemOf(pl, r, Nth(i))]
==============================================================================
