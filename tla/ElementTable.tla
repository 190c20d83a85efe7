----------------------------- MODULE ElementTable -----------------------------
(***************************************************************************)
(* What attachments promise: a table with a row for every attachment and a *)
(* column for every registered element.  A new cell holds the default      *)
(* value of its attachment, and keeps what was written to it until the     *)
(* element or the attachment goes.                                         *)
(***************************************************************************)
CONSTANTS
    Elems,          \* the elements there may be
    Attachments,    \* the attachments there may be
    Values,
    Default         \* the default value of an attachment

VARIABLES
    live,           \* the registered elements
    table           \* [attached -> [live -> Values]]

tableVars == <<live, table>>

TableInit ==
    /\ live = {}
    /\ table = [a \in {} |-> {}]

Register(e) ==
    /\ e \in Elems \ live
    /\ live' = live \cup {e}
    /\ table' = [a \in DOMAIN table |->
                    [f \in live \cup {e} |-> IF f = e THEN Default[a] ELSE table[a][f]]]

Unregister(e) ==
    /\ e \in live
    /\ live' = live \ {e}
    /\ table' = [a \in DOMAIN table |-> [f \in live \ {e} |-> table[a][f]]]

Attach(a) ==
    /\ a \in Attachments \ DOMAIN table
    /\ table' = [b \in DOMAIN table \cup {a} |->
                    IF b = a THEN [f \in live |-> Default[a]] ELSE table[b]]
    /\ UNCHANGED live

Detach(a) ==
    /\ a \in DOMAIN table
    /\ table' = [b \in DOMAIN table \ {a} |-> table[b]]
    /\ UNCHANGED live

Write(a, e, v) ==
    /\ a \in DOMAIN table /\ e \in live /\ v \in Values
    /\ table' = [b \in DOMAIN table |->
                    [f \in live |-> IF b = a /\ f = e THEN v ELSE table[b][f]]]
    /\ UNCHANGED live

ClearElements ==
    /\ live' = {}
    /\ table' = [a \in DOMAIN table |-> [f \in {} |-> Default[a]]]

ClearAttachments ==
    /\ table' = [a \in {} |-> {}]
    /\ UNCHANGED live

ClearTable ==
    /\ live' = {}
    /\ table' = [a \in {} |-> {}]

TableNext ==
    \/ \E e \in Elems : Register(e) \/ Unregister(e)
    \/ \E a \in Attachments : Attach(a) \/ Detach(a)
    \/ \E a \in Attachments, e \in Elems, v \in Values : Write(a, e, v)
    \/ ClearElements
    \/ ClearAttachments
    \/ ClearTable

TableSpec == TableInit /\ [][TableNext]_tableVars
==============================================================================
