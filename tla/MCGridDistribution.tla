-------------------------- MODULE MCGridDistribution --------------------------
(* Small instances for GridDistribution. *)
EXTENDS GridDistribution

MCProcs == 0 .. 2

\* Infos with the states of elements of full dimension, sides of several of them, and
\* children of constraining elements.
MCStates == {{"NORMAL"}, {"VMASTER"}, {"VSLAVE"}, {"VMASTER", "VSLAVE"}, {"DUMMY"},
             {"DUMMY", "PARENT"}, {"NORMAL", "VSLAVE"}, {"DUMMY", "VMASTER"}}
SomeInfos == UNION {[S -> MCStates] : S \in SUBSET MCProcs}

\* Each process selects one target at most.
OneTarget == {[p \in {} |-> {}]} \cup
             UNION {[{t} -> {{"NORMAL"}, {"VMASTER"}, {"VSLAVE"}}] : t \in MCProcs}
==============================================================================
