-------------------------- MODULE DistributionLayouts --------------------------
(***************************************************************************)
(* The interfaces that a process builds for one element from its           *)
(* distribution info: on which processes copies of the element are, and    *)
(* in which states.  Every process with a copy computes its own side.      *)
(***************************************************************************)
EXTENDS Integers, FiniteSets

CONSTANT Procs          \* ranks

ASSUME ProcsAssumption == Procs \subseteq Nat /\ IsFiniteSet(Procs) /\ Procs # {}

\* InterfaceStates.  PARENT is a flag of dummies.
Flags == {"NORMAL", "VMASTER", "VSLAVE", "DUMMY", "PARENT"}

\* The states a copy may have: some state, and the flag with dummies only.
CopyStates == {s \in SUBSET Flags : s \ {"PARENT"} # {} /\ ("PARENT" \in s => "DUMMY" \in s)}

\* A distribution info maps the processes with a copy to the copies' states.
Infos == UNION {[copies -> CopyStates] : copies \in SUBSET Procs}

In(info, flags) == {p \in DOMAIN info : info[p] \cap flags # {}}

\* What can be asked of the selections: there is a copy that can be horizontal master
\* if one is needed, and a vertical master has a slave.
Sensible(info) ==
    /\ In(info, {"DUMMY"}) # {} => In(info, {"NORMAL", "VSLAVE"}) # {}
    /\ In(info, {"VMASTER"}) # {} => In(info, {"VSLAVE"}) # {}
    /\ In(info, {"DUMMY"}) # {} /\ In(info, {"VMASTER"}) = {} => In(info, {"NORMAL"}) # {}

\* Mutant: such copies stay as they are.
NotProcessed(info) == info

\* PostProcessDistInfos(): when there is a vertical master, copies that are neither
\* master nor slave become slaves.
PostProcessed(info) ==
    IF In(info, {"VMASTER"}) = {} THEN info
    ELSE [p \in DOMAIN info |-> IF info[p] \cap {"VMASTER", "VSLAVE"} = {}
                                THEN info[p] \cup {"VSLAVE"} ELSE info[p]]

Least(S, p) == p \in S /\ \A q \in S : p <= q

\* Mutant: slaves cannot be horizontal masters.
IsLeastOfNormal(info, p) == Least(In(info, {"NORMAL"}), p)

\* minRegularHMasterProc and minNormalProc
IsHMaster(info, p)     == Least(In(info, {"NORMAL", "VSLAVE"}), p)
IsLeastNormal(info, p) == Least(In(info, {"NORMAL"}), p)

BothVertical(info, p) == {"VMASTER", "VSLAVE"} \subseteq info[p]

\* createNormalHInterface on process p, when it has come across the targets in seen.
NormalH(info, p, seen) ==
    \/ In(info, {"NORMAL", "DUMMY"}) # {}
    \/ \E r \in seen \cup {p} : BothVertical(info, r)

\* Mutant: slaves are not treated apart.
JoinedAlike(info, master, other, normalH) == normalH /\ info[other] # {"VMASTER"}

\* Mutant: nothing but slaves is joined.
JoinedSlaves(info, master, other, normalH) == "VSLAVE" \in info[master] \cap info[other]

\* A horizontal interface between two copies, one of which is the master: between
\* slaves of vertical interfaces, or unless the other is a pure vertical master.
Joined(info, master, other, normalH) ==
    \/ "VSLAVE" \in info[master] /\ "VSLAVE" \in info[other]
    \/ normalH /\ info[other] # {"VMASTER"}

PureDummy(info, p) == /\ "DUMMY" \in info[p]
                      /\ info[p] \cap {"NORMAL", "VSLAVE", "PARENT"} = {}

\* A dummy without parent gets a vertical master if there is none.
Adopted(info, dummy, master) ==
    /\ In(info, {"VMASTER"}) = {}
    /\ PureDummy(info, dummy) /\ IsLeastNormal(info, master)

\* CreateLayoutsFromDistInfos(): whether process p puts its copy into an interface of
\* that kind to process q, having seen the targets in seen, q among them.
Puts(info, p, kind, q, seen) ==
    CASE kind = "HM" -> IsHMaster(info, p) /\ Joined(info, p, q, NormalH(info, p, seen))
      [] kind = "HS" -> IsHMaster(info, q) /\ Joined(info, q, p, NormalH(info, p, seen))
      [] kind = "VM" -> \/ "VMASTER" \in info[p] /\ "VSLAVE" \in info[q]
                        \/ Adopted(info, q, p)
      [] kind = "VS" -> \/ "VSLAVE" \in info[p] /\ "VMASTER" \in info[q]
                        \/ Adopted(info, p, q)
==============================================================================
