------------------------------ MODULE MCMultigrid ------------------------------
(* Small hierarchies of levels for MultigridCycle. *)
EXTENDS MultigridCycle, TLC

CONSTANTS a, b, c, d   \* processes

WCycle == 2

\* The base level is gathered by a from b, and solved by c and d together; each
\* of the other levels has been distributed by another process.
GatheredHierarchy ==
    0 :> (a :> a @@ b :> a @@ c :> c @@ d :> d) @@
    1 :> (a :> a @@ b :> a @@ c :> a @@ d :> a) @@
    2 :> (a :> a @@ b :> b @@ c :> b @@ d :> b) @@
    3 :> (a :> c @@ b :> c @@ c :> c @@ d :> d)

BaseInterfaces == a :> {b} @@ b :> {a} @@ c :> {d} @@ d :> {c}

\* All processes have surface dofs down to the base level.
SurfaceEverywhere == [p \in Procs |-> BaseLevel]
==============================================================================
