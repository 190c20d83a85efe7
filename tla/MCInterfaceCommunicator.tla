----------------------- MODULE MCInterfaceCommunicator -----------------------
(* Small instances of InterfaceCommunicator: the plans the runs explore. *)
EXTENDS InterfaceCommunicator

CONSTANTS p1, p2, p3     \* processes

\* A call without data of a policy with computable sizes, and its variants.
Fixed(E)    == [edges |-> E, kind |-> "layout", known |-> TRUE]
Variable(E) == [edges |-> E, kind |-> "layout", known |-> FALSE]
RawFixed(E) == [edges |-> E, kind |-> "raw", known |-> TRUE]
Raw(E)      == [edges |-> E, kind |-> "raw", known |-> FALSE]

\* Two rounds of one call each between two processes, the second of them also
\* to itself, with a fixed or a variable size, and with one end or none silent.
Pairs == {{}, {<<p1, p2>>}, {<<p1, p2>>, <<p2, p1>>}, {<<p2, p1>>, <<p2, p2>>}}

PairPlans ==
    {<<<<f>>, <<g>>>> :
        f \in {Fixed(E) : E \in Pairs} \cup {Raw(E) : E \in Pairs},
        g \in {RawFixed(E) : E \in Pairs} \cup {Variable(E) : E \in Pairs}}

\* Slaves to masters and back on three processes, as the change of a vector
\* from additive to consistent does, then a round of another kind.
ToMaster == {<<p1, p2>>, <<p3, p2>>, <<p3, p1>>}
ToSlave  == {<<p2, p1>>, <<p2, p3>>, <<p1, p3>>}

HaloPlans ==
    {<<<<Fixed(ToMaster)>>, <<Fixed(ToSlave)>>, <<Raw({<<p1, p3>>})>>>>,
     <<<<Variable(ToMaster)>>, <<Fixed(ToSlave)>>>>}

\* Several calls in one round: the levels of a multi-level layout, and raw data
\* that rides along with them.
BlockPlans ==
    {<<<<Variable({<<p1, p2>>}), Variable({<<p1, p2>>, <<p2, p3>>}), Raw({<<p1, p2>>, <<p3, p1>>})>>>>,
     <<<<Fixed({<<p1, p2>>}), RawFixed({<<p1, p2>>, <<p2, p1>>}), Fixed({<<p1, p2>>, <<p3, p1>>})>>>>}

ExchangePlans == PairPlans \cup HaloPlans \cup BlockPlans
==============================================================================
