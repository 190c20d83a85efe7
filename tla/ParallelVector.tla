---------------------------- MODULE ParallelVector ----------------------------
(***************************************************************************)
(* ug::ParallelVector.  Every process stores the entries of the dofs it    *)
(* holds; a dof has one master and any number of slaves.  What the stored  *)
(* numbers mean is not part of them: a bit mask says whether the vector is *)
(* consistent, additive or unique, possibly several at once, and every     *)
(* operation has to keep it truthful.  Storage types are changed silently, *)
(* even by norm() of a const vector.                                       *)
(*                                                                         *)
(* All processes call the same operation; its communication completes      *)
(* before it returns (InterfaceCommunicator), so an operation is one step. *)
(* "exact" is an auxiliary variable: the vectors a sequential program with *)
(* one entry per dof would have.                                           *)
(***************************************************************************)
EXTENDS Integers, FiniteSets, FiniteSetsExt

CONSTANTS
    Vectors,        \* the vectors of the program
    Dofs, Procs,
    Master,         \* the process that holds the master of a dof
    Slaves,         \* the processes that hold a slave of it
    AdditivePairs,  \* the program multiplies merely additive vectors
    Inputs,         \* the entries a program assembles
    Samples,        \* what new memory and random numbers may look like
    MaxValue        \* bound: larger entries are not explored

ASSUME LayoutAssumption ==
    /\ Master \in [Dofs -> Procs]
    /\ Slaves \in [Dofs -> SUBSET Procs]
    /\ \A d \in Dofs : Master[d] \notin Slaves[d]
    /\ IsFiniteSet(Dofs) /\ IsFiniteSet(Procs)
    /\ AdditivePairs \in BOOLEAN
    /\ Inputs \subseteq Int /\ MaxValue \in Nat

VARIABLES
    vec,    \* per vector the entries [dof][process] and the mask m_type
    exact   \* the entries of the sequential vector

vars == <<vec, exact>>

Types == {"C", "A", "U"}    \* PST_CONSISTENT, PST_ADDITIVE, PST_UNIQUE

Holders(d) == {Master[d]} \cup Slaves[d]

\* The entries one can have on the processes, zero where a dof is not held.
Entries(N) ==
    {e \in [Dofs -> [Procs -> N \cup {0}]] :
        \A d \in Dofs : \A p \in Procs \ Holders(d) : e[d][p] = 0}

ASSUME SamplesAssumption == Samples \subseteq Entries(Inputs)

SumOver(f, S) == LET At(p) == f[p] IN MapThenSumSet(At, S)

------------------------------------------------------------------------------
(* Communication along the layouts *)

\* SetLayoutValues(.., 0) on the slaves.
ZeroSlaves(e) ==
    [d \in Dofs |-> [p \in Procs |-> IF p \in Slaves[d] THEN 0 ELSE e[d][p]]]

\* UniqueToConsistent: the masters overwrite their slaves.
CopyToSlaves(e) ==
    [d \in Dofs |-> [p \in Procs |-> IF p \in Slaves[d] THEN e[d][Master[d]] ELSE e[d][p]]]

\* ComPol_VecAdd from the slaves to the masters.
AddToMasters(e) ==
    [d \in Dofs |-> [e[d] EXCEPT ![Master[d]] =
        @ + SumOver(e[d], Slaves[d])]]

AdditiveToConsistent(e) == CopyToSlaves(AddToMasters(e))

\* Mutant: slaves are added to the masters, but keep their values.
AdditiveToUniqueKeepsSlaves(e) == AddToMasters(e)

AdditiveToUnique(e) == ZeroSlaves(AddToMasters(e))

------------------------------------------------------------------------------
(* change_storage_type *)

Has(x, type) == type \in x.mask

ToConsistent(x) ==
    [val  |-> IF Has(x, "U") THEN CopyToSlaves(x.val) ELSE AdditiveToConsistent(x.val),
     mask |-> {"C"}]

\* A unique vector is additive as it is; a consistent one keeps only its masters.
ToAdditive(x) ==
    IF Has(x, "U")
    THEN [x EXCEPT !.mask = @ \cup {"A"}]
    ELSE [val |-> ZeroSlaves(x.val), mask |-> {"A", "U"}]

ToUnique(x) ==
    IF Has(x, "A")
    THEN [val |-> AdditiveToUnique(x.val), mask |-> x.mask \cup {"U"}]
    ELSE [val |-> ZeroSlaves(x.val), mask |-> {"A", "U"}]

\* Only called for vectors with a mask: without one, the code throws.
ChangedTo(x, type) ==
    CASE type \in x.mask -> x
      [] type \notin x.mask /\ type = "C" -> ToConsistent(x)
      [] type \notin x.mask /\ type = "A" -> ToAdditive(x)
      [] type \notin x.mask /\ type = "U" -> ToUnique(x)

Defined(v) == vec[v].mask # {}

------------------------------------------------------------------------------
(* Results *)

\* The sums of all processes over their dofs, and an allreduce over the processes.
Reduced(e) == SumOver([p \in Procs |-> SumOver([d \in Dofs |-> e[d][p]], Dofs)], Procs)

\* Mutant: a consistent vector is taken as it is, slaves included.
NormArgumentConsistent(x) == IF Has(x, "A") THEN ChangedTo(x, "U") ELSE x

\* What norm() and maxnorm() leave behind, and the square of the one and the
\* value of the other: local norms, then an allreduce over all processes.
NormArgument(x) == ChangedTo(x, "U")

NormSquared(x) ==
    LET e == NormArgument(x).val
    IN  Reduced([d \in Dofs |-> [p \in Procs |-> e[d][p] * e[d][p]]])

MaxNormArgument(x) == IF Has(x, "A") THEN ChangedTo(x, "U") ELSE x

Absolute(n) == IF n < 0 THEN -n ELSE n

MaxNorm(x) ==
    Max({Absolute(MaxNormArgument(x).val[d][p]) : d \in Dofs, p \in Procs})

\* Mutant: additive vectors are not made unique for a unique partner.
DotArgumentAsIs(x, y) ==
    IF \/ Has(x, "A") /\ Has(y, "C")
       \/ Has(x, "C") /\ Has(y, "A")
       \/ Has(x, "U") /\ Has(y, "U")
    THEN x
    ELSE IF Has(x, "U") /\ Has(y, "A") THEN ChangedTo(x, "C")
    ELSE IF Has(x, "A") /\ Has(y, "U") THEN x
    ELSE ChangedTo(x, "U")

\* dotprod changes its left operand unless the two types go together as they
\* are; the right operand is left alone.
DotArgument(x, y) ==
    IF \/ Has(x, "A") /\ Has(y, "C")
       \/ Has(x, "C") /\ Has(y, "A")
       \/ Has(x, "U") /\ Has(y, "U")
    THEN x
    ELSE IF Has(x, "U") /\ Has(y, "A") THEN ChangedTo(x, "C")
    ELSE ChangedTo(x, "U")

\* The local products of the entries, summed over all processes.  Both operands
\* may be the same vector.
DotProd(v, w) ==
    LET x == DotArgument(vec[v], vec[w])
        y == IF v = w THEN x ELSE vec[w]
    IN  Reduced([d \in Dofs |-> [p \in Procs |-> x.val[d][p] * y.val[d][p]]])

------------------------------------------------------------------------------
(* Operations *)

Represented(x) ==
    [d \in Dofs |-> IF Has(x, "C") THEN x.val[d][Master[d]]
                                   ELSE SumOver(x.val[d], Holders(d))]

Small(x) == \A d \in Dofs, p \in Procs : Absolute(x.val[d][p]) <= MaxValue

Become(v, x, e) ==
    /\ Small(x)
    /\ vec' = [vec EXCEPT ![v] = x]
    /\ exact' = [exact EXCEPT ![v] = e]

Zero == [d \in Dofs |-> 0]

Init ==
    /\ vec = [v \in Vectors |-> [val |-> [d \in Dofs |-> [p \in Procs |-> 0]], mask |-> {}]]
    /\ exact = [v \in Vectors |-> Zero]

\* clone_without_values and the constructors: no storage type.
Create(v) ==
    \E e \in Samples : Become(v, [val |-> e, mask |-> {}], Zero)

\* assemble_defect: the vector is resized and cleared, every process adds the
\* contributions of its own elements, and the result is declared additive.
Assemble(v) ==
    \E e \in Entries(Inputs) :
        LET x == [val |-> e, mask |-> {"A"}]
        IN  Become(v, x, Represented(x))

SetRandom(v, type) ==
    \E e \in Samples :
        LET x == ChangedTo([val |-> e, mask |-> {"A"}], type)
        IN  Become(v, x, Represented(x))

\* set(w, type): zero has all types, and so needs no communication.
SetEntries(w, type) ==
    LET all == [d \in Dofs |-> [p \in Procs |-> IF p \in Holders(d) THEN w ELSE 0]]
    IN  IF w = 0 THEN [val |-> all, mask |-> Types]
        ELSE IF type = "C" THEN [val |-> all, mask |-> {"C"}]
        ELSE ChangedTo([val |-> all, mask |-> {"C"}], "U")

SetValue(v, w, type) == Become(v, SetEntries(w, type), [d \in Dofs |-> w])

ChangeStorageType(v, type) ==
    /\ Defined(v)
    /\ Become(v, ChangedTo(vec[v], type), exact[v])

\* operator=, clone(), VecAssign: entries and mask.
Assign(v, w) == Become(v, vec[w], exact[w])

SumMask(x, y) == x.mask \cap y.mask

\* VecScaleAdd, and with v = dest and a = 1 operator+= and operator-=; without
\* a common type all three throw before they change anything.
ScaleAdd(dest, a, v, b, w) ==
    LET mask == SumMask(vec[v], vec[w])
        Sum(x, y) == a * x + b * y
    IN  /\ mask # {}
        /\ Become(dest,
             [val  |-> [d \in Dofs |-> [p \in Procs |->
                           Sum(vec[v].val[d][p], vec[w].val[d][p])]],
              mask |-> mask],
             [d \in Dofs |-> Sum(exact[v][d], exact[w][d])])

\* VecHadamardProd: the product of the entries, with the common types.
HadamardProd(dest, v, w) ==
    LET mask == SumMask(vec[v], vec[w])
    IN  /\ mask # {}
        /\ mask # {"A"} \/ AdditivePairs
        /\ Become(dest,
             [val  |-> [d \in Dofs |-> [p \in Procs |->
                           vec[v].val[d][p] * vec[w].val[d][p]]],
              mask |-> mask],
             [d \in Dofs |-> exact[v][d] * exact[w][d]])

\* VecExp: entry by entry where a dof is held, into a vector whose mask stays as
\* it was.  Base 2 keeps the entries integers; negative ones are not explored.
VecExp(dest, v) ==
    /\ \A d \in Dofs : exact[v][d] >= 0 /\ \A p \in Procs : vec[v].val[d][p] >= 0
    /\ Become(dest,
         [vec[dest] EXCEPT !.val = [d \in Dofs |-> [p \in Procs |->
              IF p \in Holders(d) THEN 2 ^ vec[v].val[d][p] ELSE 0]]],
         [d \in Dofs |-> 2 ^ exact[v][d]])

\* The one use that needs no more than it does: between consistent vectors.
ExpOfConsistent(dest, v) ==
    /\ vec[dest].mask = {"C"} /\ vec[v].mask = {"C"}
    /\ VecExp(dest, v)

\* norm(), maxnorm() and dotprod() leave their argument in another type.
TakeNorm(v)    == Defined(v) /\ Become(v, NormArgument(vec[v]), exact[v])
TakeMaxNorm(v) == Defined(v) /\ Become(v, MaxNormArgument(vec[v]), exact[v])

MayMultiply(v, w) ==
    /\ Defined(v) /\ Defined(w)
    /\ AdditivePairs \/ v = w \/ vec[v].mask # {"A"} \/ vec[w].mask # {"A"}

TakeDotProd(v, w) ==
    /\ MayMultiply(v, w)
    /\ Become(v, DotArgument(vec[v], vec[w]), exact[v])

\* Whatever the type, even none: the masters prevail unless the slaves are
\* known to be summands.
EnforceConsistentType(v) ==
    LET x == IF Has(vec[v], "A") THEN ChangedTo(vec[v], "U") ELSE vec[v]
        y == IF Has(x, "U") THEN x ELSE [val |-> ZeroSlaves(x.val), mask |-> {"U"}]
        z == ChangedTo(y, "C")
    IN  Become(v, z, IF Defined(v) THEN exact[v] ELSE Represented(z))

Next ==
    \E v \in Vectors :
        \/ Create(v)
        \/ Assemble(v)
        \/ EnforceConsistentType(v)
        \/ TakeNorm(v)
        \/ TakeMaxNorm(v)
        \/ \E type \in Types :
               \/ SetRandom(v, type)
               \/ \E w \in {0, 1} : SetValue(v, w, type)
               \/ ChangeStorageType(v, type)
        \/ \E w \in Vectors :
               \/ Assign(v, w)
               \/ TakeDotProd(v, w)
               \/ ExpOfConsistent(v, w)
               \/ \E u \in Vectors : HadamardProd(v, u, w)
               \/ \E u \in Vectors, b \in {-1, 1} : ScaleAdd(v, 1, u, b, w)

Spec == Init /\ [][Next]_vars
------------------------------------------------------------------------------
(* Properties *)

\* Every type a vector claims to have is true of the numbers it stores: the
\* real value is on every holder, is the sum over the holders, or is such a sum
\* with nothing on the slaves.
MaskIsTruthful ==
    \A v \in Vectors, d \in Dofs :
        LET f == vec[v].val[d]
        IN  /\ Has(vec[v], "C") => \A p \in Holders(d) : f[p] = exact[v][d]
            /\ Has(vec[v], "A") \/ Has(vec[v], "U") => SumOver(f, Holders(d)) = exact[v][d]
            /\ Has(vec[v], "U") => \A p \in Slaves[d] : f[p] = 0

\* dotprod() returns the product of the real vectors, whatever types its
\* operands have.
DotProdIsExact ==
    \A v, w \in Vectors : MayMultiply(v, w) =>
        DotProd(v, w) = SumOver([d \in Dofs |-> exact[v][d] * exact[w][d]], Dofs)

\* norm() and maxnorm() return the norms of the real vector.
NormsAreExact ==
    \A v \in Vectors : Defined(v) =>
        /\ NormSquared(vec[v]) = SumOver([d \in Dofs |-> exact[v][d] * exact[v][d]], Dofs)
        /\ MaxNorm(vec[v]) = Max({Absolute(exact[v][d]) : d \in Dofs})
==============================================================================
