# Verification of ug4's parallel core

ug4 is a simulation framework for partial differential equations on distributed
unstructured grids.  Its programs are SPMD: every MPI process runs the same
script, owns a part of the grid, and meets its neighbours in *interfaces*, lists
of the grid objects or algebra indices two processes share.  A wrong number in a
parallel run rarely crashes: it shows, much later, as a solver that converges to
something else.  This directory holds TLA+ models of the parts of the code on
which every parallel result depends, the TLC runs that check them on small
instances, and theorems about eight of them that TLAPS checks for all instances.

Paths below are relative to `src/ugbase/`.

1. [Inventory of the system](#1-inventory-of-the-system)
2. [The modules](#2-the-modules)
3. [The models, one by one](#3-the-models-one-by-one)
4. [Runs and bounds](#4-runs-and-bounds)
5. [Fairness](#5-fairness)
6. [Disagreements between code and documentation](#6-disagreements-between-code-and-documentation)
7. [Theorems](#7-theorems)
8. [What is only model-checked](#8-what-is-only-model-checked)
9. [What is not modelled](#9-what-is-not-modelled)
10. [Plan](#10-plan)
11. [Running everything](#11-running-everything)


## 1. Inventory of the system

### Communication: `pcl/`

**Interface communicator** (`pcl_interface_communicator*.h*`).  State: one send
buffer per target (`m_bufMapOut`), the targets that have data (`m_curOutProcs`),
the extractors registered for this round (`m_extractorInfos`) with one receive
buffer per source (`m_bufMapIn`), the flag `m_bSendBuffersFixed`, and the lists of
open MPI requests.  Operations: `send_raw`, `send_data`, `receive_raw`,
`receive_data`, `exchange_data`, `communicate`, `communicate_and_resume`, `wait`.
Callbacks: a *communication policy* collects values from an interface into a
buffer and extracts them on the other side.  Hard: the sizes of buffers and the
buffers themselves travel under one tag, so only the order of matching tells
them apart; each process decides alone whether sizes have to be exchanged;
buffers and flags survive from round to round; a process may be a round ahead of
its neighbour.  Correct when every extractor finds exactly what the neighbour
collected for it in the same round, and all processes get through all rounds.

**Interfaces and layouts** (`pcl_communication_structs.h`, `pcl_layout_util.h`).
State: per neighbour a list of elements; ordered interfaces give every element a
local id from a counter.  Operations: insertion, removal, sorting, multi-level
variants.  Hard: the k-th element here must be the k-th element there although
insertion and removal happen on each side alone; the id counter wraps.  Correct
when ids ascend along an interface.

**Communication checks** (`pcl_util.*`, `pcl_layout_tests.h`, `pcl_debug.h`):
symmetric send and receive lists, equal buffer sizes, discovery of who sends to
whom.  **Process communicators** (`pcl_process_communicator.cpp`) wrap MPI groups
and collectives; **multi-group communicators** (`pcl_multi_group_communicator*`)
perform an allreduce in many overlapping groups at once.

### Linear algebra: `lib_algebra/parallelization/`

**Parallel vectors** (`parallel_vector*.h`, `parallel_storage_type.h`,
`parallelization_util.h`, `communication_policies.h`).  State: the entries of this
process and the mask of storage types (consistent, additive, unique).  Operations:
assignment, arithmetic, products, norms, changes of the type.  Interaction: types are
changed through interface communicators over the slave and master layouts of
`algebra_layouts.h`.  Hard: the type is not visible in the numbers; several types
hold at once; a norm of a `const` vector changes it.  Correct when the mask is
true and results are those of a sequential program.

**Colouring** (`parallel_coloring.*`): processes colour the graph of their
neighbourhoods; used to order block-wise smoothers.  State: local, one call long.
Hard: the processes choose one after the other, ordered only by their messages.
Correct when neighbours differ, few colours are used, and the call returns.

**Index layouts, global ids and matrix overlap** (`parallelization_util.cpp`,
`parallel_nodes.cpp`, `matrix_overlap_impl.h`, `global_layout.cpp`,
`parallel_matrix_impl.h`).  State: `AlgebraID`s, layouts of rows, rows fetched from
neighbours.  Correct when an id is the same on master and slaves and the
extended layouts match pairwise.

### Grid: `lib_grid/`

**Attachments** (`attachments/attachment_pipe.*`): arrays of values that grow with
the grid objects.  State: an index per element, a stack of free entries, the
number of elements and of entries, the attached arrays.  Correct when live elements
have distinct indices inside all arrays, and a new element finds default values.

**Grid and multigrid** (`grid/`, `multi_grid*`): elements, the lists in which they
store their neighbours, the parent-child hierarchy; observers are notified of every
creation and deletion.  Hard: every option says which lists exist, operations need
some of them and switch them on, and every operation has to keep those there are
true.  **Selectors and subset handlers** (`tools/`) are observers.

**Distributed grid manager** (`parallelization/distributed_grid.*`): puts new
elements into the interfaces of their parents, without communication.  Hard: both
sides have to insert the same elements in the same order.

**Distribution and load balancing** (`distribution.cpp`, `load_balancer.cpp`,
partitioners): every element has the interface states horizontal master or slave and
vertical master or slave; a new partition is selected by each process for its own
copies, synchronised, serialised and sent, and the interfaces are rebuilt.  Hard:
new states follow from what all processes with a copy selected, and each process
computes its side of every interface alone.

**Adaptive refinement** (`refinement/`, `parallelization/parallel_refinement/`):
marks are spread to neighbours until no rule is violated, across processes by
repeated exchange.  Hard: the loop has to end at the same time on all processes, with
the same marks on all copies; an exchange is skipped when nobody has marked a shared
element.

### Discretisation and solvers: `lib_disc/`

**Degrees of freedom** (`dof_manager/`): indices for all functions on all
elements of a grid level or of the surface, and the index layouts derived from grid
interfaces.  Interaction: refinement and distribution invalidate them through the
message hub and a revision counter.

**Geometric multigrid** (`operator/linear_operator/multi_grid_solver/`): smoothing,
restriction and prolongation per level, gathering to fewer processes on coarse
levels; optionally smooths while values travel through vertical interfaces.
Hard: which vectors may be touched between `communicate_and_resume()` and `wait()`,
and which corrections a defect accounts for.

**Solvers, Newton iteration, time stepping, assembling** (`lib_algebra/operator/`,
`operator/non_linear_operator/`, `time_disc/`, `spatial_disc/`) are control flow
around numerical kernels.  What they need from parallelism is in the storage types of
their vectors.

### Infrastructure

**Message hub** (`common/util/message_hub.*`): typed messages to registered
callbacks, which may register, unregister and post during delivery.  Hard: an entry
of the hub and the id its owner holds point at each other, and either may go first.
**Registry, bridge and script bindings** (`registry/`, `bridge/`, `bindings/`) fill
reflection tables at start-up.  **Shell, file formats, profiling** do input and output.

### How the parts interact

```
 script -- solvers -- multigrid -- smoothers (colouring orders them)
              |            |            |
              +-- parallel vectors -----+        refinement   distribution
                        |  storage type changes       |            |
                        v                             v            v
              index layouts <-- DoF distribution <-- grid layouts (interfaces)
                        |             ^               |        ^
                        |             | message hub   |        | distributed grid manager
                        |             +-- grid -------+--------+
                        +--> interface communicator <-+
                                      |
                                 MPI, one tag
```

Calls go down the picture.  The grid calls back up: its observers (the distributed grid
manager, selectors, attachments) hear of every element that is created, replaced or
erased, and the message hub tells the DoF distributions of refinement and distribution.
Between processes everything passes through `InterfaceCommunicator`.


## 2. The modules

| Module | Kind | Models |
| --- | --- | --- |
| `CommunicationPlan` | operators | the sequence of collecting calls an SPMD program makes; what a buffer holds |
| `NeighbourExchange` | abstract specification | what `communicate()` promises: a barrier between neighbours that delivers |
| `InterfaceCommunicator` | specification | the interface communicator on all processes, over MPI matching |
| `GreedyColouring` | abstract specification | the colouring, independent of the order of messages |
| `ParallelColoring` | specification | `ParallelColoring::color()` on all processes |
| `ParallelVector` | specification | storage types and the operations of `ParallelVector` |
| `ElementTable` | abstract specification | attachments as a table by element and attachment |
| `AttachmentPipe` | specification | `AttachmentPipe` with its indices, free entries and arrays |
| `Interfaces` | operators | the value of an `OrderedInterface`, and its operations |
| `OrderedInterface` | specification | the life of one `OrderedInterface` |
| `DistributedGrid` | specification | `DistributedGridManager` on all processes |
| `DistributionLayouts` | operators | the interfaces made from one distribution info |
| `GridDistribution` | specification | `DistributeGrid()` as one element with its copies sees it |
| `PlainMesh` | abstract specification | a mesh without lists of neighbours |
| `GridConnectivity` | specification | the connectivity management of `Grid`, in two dimensions |
| `RefinementMarks` | specification | the closure of refinement marks on all processes |
| `MultigridCycle` | specification | one cycle of the geometric multigrid on all processes |
| `MessageHub` | specification | `MessageHub` with its callbacks and ids |
| `*Proofs` | proofs | theorems about the module of that name |
| `HandleProofs` | proofs | theorems about `AttachmentPipe` and `MessageHub` |
| `LayoutProofs` | proofs | theorems about `OrderedInterface` and `GridDistribution` |
| `MC*` | instances | the plans, graphs, grids and programs the runs explore |

`PROJECT.json` names, for every definition that models code, the lines it models.  An
operator whose comment begins with `Mutant:` is not part of the model: it is a variant
of the definition that follows it, wrong in the way a plausible bug would be, and every
property of a run is shown to fail when such a variant takes the place of its
definition.

The modules form layers.  `ParallelVector` and `GridDistribution` take a
`communicate()` of all processes as one step, and `RefinementMarks` does so for its
exchanges; that this is allowed is what `ImplementsNeighbourExchange` says of the
communicator: every process leaves `communicate()` with exactly the data of that round.
`MultigridCycle`, where processes do other work meanwhile, has one message per
round and neighbour in flight, in order, which is what `RoundsNeverMix` gives.
`DistributedGrid` is built from the operators of `Interfaces`, and relies on
`IdsFollowOrder`.


## 3. The models, one by one

### Interface communicator

A program drives the communicator by calling `send_data` and `receive_data` (or their
raw variants) for some layouts, then `communicate()`, and so on.  All processes
make the same calls; what differs is which interfaces they have.
`CommunicationPlan` makes this sequence a constant: a plan is a sequence of rounds, a
round a sequence of calls, and a call records its `edges` (the pairs `<<p, q>>` where p
has a non-empty interface to q, or calls `send_raw` with target q; layouts match), its
`kind` (a policy or raw data; `send_raw` writes a size in front of data of unknown
size) and `known`: what `get_required_buffer_size() >= 0` or `bSizeKnownAtTarget` say.
A multi-level layout is one call per level, as the code loops over it.  A buffer
is the sequence of *items* written into it, an item naming the call it came from;
bytes are not counted, but a receive buffer that was not made for exactly the arriving
items counts as one of the wrong size.

| Variable | Code |
| --- | --- |
| `bufOut` | `m_bufMapOut`; a target is in `m_curOutProcs` when its buffer is not empty |
| `sendFixed` | `m_bSendBuffersFixed` |
| `extractors` | `m_extractorInfos`, split by source |
| `sends`, `recvs`, `matched` | MPI: what was posted per edge, and how much of it was paired |
| `pc` | collecting, inside `communicate_and_resume()` waiting for sizes, or before the end of `wait()` |
| `nSent`, `nRcvd`, `round` | how far the program is in the plan |
| `inbox` | what the last `wait()` handed to the policies |
| `aborted` | a message met a receive posted for something else |

`SendData` and `ReceiveData` are the collecting calls, interleaved in any way that
keeps each kind in the order of the plan.  `CommunicateFixed` is
`communicate_and_resume()` when all sizes are known, `CommunicateSizes` and
`FinishSizes` its two halves otherwise, with the `Waitall` between them.  `Wait`
completes requests, extracts and clears.  `MpiTransfer` pairs the next send
with the next receive of an edge: MPI does not let messages of one pair, communicator
and tag overtake each other.  A standard send may complete before it is
received; MPI allows both, and the fairness (section 5) lets nobody depend on it.
After a mismatch the model stops: MPI truncates or aborts, and nothing sensible can be
said about the rest.

Properties: `RoundsNeverMix` (the n-th message of an edge meets a receive of its own round
and phase, which is what makes one tag enough), `NoTruncation` (it fits),
`ExtractedAsRegistered` (extractors find the items they were registered for),
`ImplementsNeighbourExchange` (the refinement, fairness included) and
`AllRoundsFinish`.

### Colouring

`ParallelColoring::color()` has five steps.  Neighbours exchange their degrees; a
neighbour of larger degree is *heavier*, ranks break ties.  A process waits for
the colours of its heavier neighbours, takes the smallest colour none of them
has, sends it to all neighbours, and receives the colours of the lighter ones.
It fills two lists of the caller, the neighbours of lower and of higher colour.
`GreedyColouring` is what the result should be: the greedy colouring in the order of
decreasing weight.  In `ParallelColoring`, `step` names the call of `communicate()` a
process blocks in; `sent[p][q]` and `asked[q][p]` count messages and receives of an edge;
the first message is a degree and the second a colour, under one tag.  A process
learns the degree of q from the message, never from the graph.  `FreeColour`
is the scan over the sorted colours.  Which graph it is stays open.

Properties: `ProperColouring` (at any time), `FewColours`, `ListsSplitNeighbours`,
`ImplementsGreedyColouring`, `ColouringTerminates`.

### Parallel vectors

A vector is a record of its entries `val[d][p]` (dof, process) and a set of types
`mask`, the bits of `ParallelStorageType`.  The constants give each dof a master and
its slaves.  `ToConsistent`, `ToAdditive` and `ToUnique` follow
`change_storage_type()` branch by branch with the communication patterns of
`parallelization_util.h` (`AddToMasters`, `CopyToSlaves`, `ZeroSlaves`).  The actions are
the operations a program calls: `Create`, `Assemble` (`assemble_defect`: every process adds the
contributions of its own elements, and the vector is declared additive), `SetRandom`, `SetEntries`,
`ChangeStorageType`, `ScaleAdd`, `HadamardProd`, `VecExp`, `TakeNorm`, `TakeDotProd`,
`EnforceConsistentType`.  Operands may coincide.

`exact` is auxiliary: the vectors of a sequential program that does the same.
`MaskIsTruthful` relates the two, type by type, in the words of
`parallel_storage_type.h`: consistent means the value is everywhere, additive that the
sum is the value, unique that it is additive with zeros on the slaves.
`DotProdIsExact` and `NormsAreExact` compare results, which the code sums up per process and
then over the processes (`Reduced`).  Real numbers are replaced by small
integers, and values are capped by `MaxValue`: everything concerned is a sum or a
copy, and an error in who adds what shows with 0, 1 and 2.  `AdditivePairs` allows
products of two vectors that are additive and nothing else, which the code gets wrong
(section 6).

### Attachments

`live` are the registered elements, `index` the data index stored with each,
`free` the stack `m_stackFreeEntries`, `numElements`, `numDataEntries` and
`containerSize` the counters of those names, `data` the attached containers.
Registering an element takes an entry from the stack and resets it, or takes a fresh one and
lets the containers grow to twice their size; `Reserve` grows them ahead of
time; attaching makes a container with default values; unregistering puts
the entry on the stack without touching it.  `ClearElements`, `ClearAttachments` and
`Clear` drop everything.  In `ElementTable` an element has a cell per attachment that
starts with the default; `ImplementsElementTable` maps the cell of an element to the
container entry at its index.

### Ordered interfaces

`interface` is a list of elements with local ids and the counter, both of type `size_t`
(modulo `IdLimit`); a counter of 0 means that it went round, and `get_free_id()` then
renumbers.  `push_back()`, `insert()`, `erase()` and `sort()` are the actions.
`RoomForIds` says that there are more ids than entries.  `insert()` reads an id
before `get_free_id()` may renumber, so `InsertRound` tells whether it may be called at
the moment of the wrap; the run and the theorem exclude it (section 6).
`IdsFollowOrder` is what others rely on.

### Distributed grid manager

Elements change in *sessions*.  Between `begin_ordered_element_insertion()` and its end,
children are created on parents in the order in which each process happens to visit
them, are scheduled under the local ids of their parents, and are put into interfaces at
the end; between `begin_element_deletion()` and its end elements are erased and leave
their interfaces.  An object is an element with a version, since an element may be
replaced by another of its kind (a constrained edge by a normal one), which then takes
over its interface entries.  Infos (`status` and interface entries
per element) are kept with iterators that name a node by its local id.  Processes do
not communicate at all.

| Variable | Code |
| --- | --- |
| `grid` | the objects of the multigrid of a process |
| `layout` | `m_gridLayoutMap`: an interface for each type, level, kind and target |
| `info` | the `ElementInfo` of each object: status bits and entries |
| `scheduled` | `m_vrtMap`, `m_edgeMap`, `m_faceMap`, `m_volMap` |
| `mode` | `m_bOrderedInsertionMode`, `m_bElementDeletionMode` |
| `todo`, `session`, `open`, `sessions` | what the refiners agreed on: what to refine, replace or erase, who has not ended yet |

What has no order in the code, or only one that nothing depends on, is a set: the entries of an
element, and the scheduled items, each of which says itself where it comes (the map, the
local id of the parent, and when it was inserted into the multimap).  `EndInsertion` gives the
items of an interface in the order of the maps (`Arriving`), as the four loops
over all interfaces do.  `InterfacesMatch`: between two processes that have ended the session both
sides of every interface list the same elements in the same order.  `InfosAreRight`: infos name
exactly the nodes an object is in, and children are in the interfaces of their parents
(`InfosAgree`, `ChildrenFollow`).

Two assumptions are about more than the shape of the constants.  `FirstAssumption`, the interfaces at
first: lists are of one type and level and without doubles, and no element is on both sides of horizontal
interfaces; distribution leaves such interfaces behind (`OneStar`, `SidesMatch`).  `IdsAssumption`:
the counters of local ids do not go round in so many sessions; they have 64 bits.

Nothing is assumed of how children are shared at first.  Distribution over a hierarchy of
processes leaves a parent in vertical interfaces only while its child is in horizontal ones
(`distribution.cpp` 1012-1078), and then nothing in the distributed grid manager brings the two together.
So `ChildrenFollow`, the part of `InfosAreRight` about parents and children, is about the parents that are
`FollowedAtFirst`: those whose children are made in a session, or were shared as they are.

### Grid distribution

The model follows one element.  `copies` are the processes that have it, `itf` the
interfaces each copy is in, `selected` what each process selects (targets and
states), `info` the distribution info.  Phases: `Select`; the five exchanges of
`SynchronizeDistInfos()`, three of which merge what arrives and two of which overwrite
(what is extracted last stays, hence the choice); `PostProcess`; `Send`, after
which every process with a copy has an info from one of the senders; and
`CreateLayouts` on each process alone, which goes through the targets in an order that
need not be the one of another process.  `DistributionLayouts!Puts` is the decision of
`CreateLayoutsFromDistInfos()` whether an element goes into an interface.
`InfosSynchronized`, `SidesMatch`, `OneStar` (one horizontal master and every
slave has it) and `NoCopyIsLost` (copies are connected, so none of them misses the next
selection) are stated at the ends of the phases.  Selections are inputs, restricted by
`Sensible` to what the selection code produces.

### Grid connectivity

`grid.opts` are the options; `grid.ve`, `vf`, `ef` and `fe` the lists of neighbours that
the options switch on.  `RegisterEdge`, `UnregisterFace`, `ReplaceVertex` and so on are
the functions of `grid_connection_managment.cpp`, each with the options it switches
on first because it needs their lists.  Addresses mean nothing between two
operations and are given anew; the order in which a container is erased is
nondeterministic.  `ListsAreExact` says each list has exactly the neighbours,
`NoElementTwice` that nothing is erased or present twice; `ImplementsPlainMesh` that the
mesh does not depend on which lists are stored.  All three are claimed only for programs that
are `Sound`, which `ProgramsAssumption` demands; section 6 names the programs for
which they fail.

### Refinement marks

Every process has `marks` of the elements it holds, the elements `current` that are handed
to the adjusters of this turn and those `newly` marked in it.  `Begin` removes coarsen marks;
`Adjust` is one pass of `StdHNodeAdjuster` and `MGHNodeAdjuster` over the local part of the
grid, operator by operator as the loops of the code; `Ask` is the reduction with
which `ParallelHNodeAdjuster` decides on an exchange; `ToMaster` and `ToSlave` are the two
exchanges, `Turn` is `continue_collect_objects_for_refine()`.  The exchanges are
steps of all processes: a process waits for its neighbours only, but what it
hears was sent before and does not change meanwhile.  The grid and its distribution are
constants.  `CopiesAgree`, `GridStaysRegular` (nothing hangs on something that
hangs, levels differ by one, across processes) and `JustTheClosureIsMarked` (not more than
a sequential program would mark) are about the end of the turns; `MarksOnlyGrow` is an
action property, `TurnsEnd` liveness.

### Multigrid cycle

Every process runs the recursion `lmgc()` with an explicit stack of levels and remaining
calls.  Numbers are left out: every correction a smoother, the base solver or a
prolongation computes is named by its number on level and process, a correction
vector is the bag of what was added up in it, a defect the bag of what was
subtracted.  Messages carry such bags from v-slaves to v-masters before a restriction and
back after a prolongation.  With `Overlap`, `StartRestriction` sends, `ResetCoarse` adds
the last correction of this level and zeroes that of the coarser one, and only then
`Wait` adds what has arrived; without it the wait comes first.  Each process decides alone,
from its own interfaces of the base level, whether it takes part in gathering that level on
a v-master (`Gathers`, from `GatheredIfAmbiguous`, `ParallelBase` and `Neighbours`, its horizontal
interfaces).  A process that does not gather solves together with its
horizontal neighbours: `SolveDistributed` needs all of them to take part (`TakesPart`).
`DefectsAreRight`: a defect is complete and current whenever it is
used; `CorrectionsAreRight`: corrections arrive once and messages are those expected;
`CycleIsComplete`: the surface gets all corrections and the base solver is called as
often as the cycle type says.

### Message hub

Entries of the hub and ids point at each other (`entryId`, `idHub`); `autoFree` says
whether deleting the id unregisters; `posts` is the stack of posts under way, each at
the entry that is called.  Callbacks may register, unregister others or themselves, delete
ids, post and destroy the hub; `DestroyHub` tells the ids.  No code keeps the entry whose
callback is running from being erased.  The loop of `post_message` then increments an iterator
into freed memory: `ReturnAstray` lets it go on at any entry, end, or crash, and the post is
`astray` from then on.  Nothing is claimed of a post that went astray; the links between entries,
ids and hub, and the other posts, are claimed to stay right.  Reference counts are not modelled: an
id is deleted when its last pointer goes.


## 4. Runs and bounds

| Run | Instance | Checks | Shows |
| --- | --- | --- | --- |
| `interface_communicator` | 2 and 3 processes; pair plans (every mixture of known and unknown sizes over two rounds, one end silent, a process talking to itself), a halo exchange there and back, rounds of three calls | `RoundsNeverMix`, `NoTruncation`, `ExtractedAsRegistered`, `ImplementsNeighbourExchange`, `AllRoundsFinish` | one tag suffices, data arrives in its round and in order, nobody waits for ever |
| `coloring` | all 64 graphs on 4 ranks; a ring, a star and a ring with a chord on 5 | `ProperColouring`, `FewColours`, `ListsSplitNeighbours`, `ImplementsGreedyColouring`, `ColouringTerminates` | the result does not depend on the order of messages, and the steps of neighbours fit together |
| `vector_types` | 2 vectors, 3 processes, one dof with two slaves and one that is not shared | `MaskIsTruthful`, `DotProdIsExact`, `NormsAreExact` | every sequence of operations on layouts without overlap |
| `attachment_pipe` | 3 elements, 2 attachments, reserve sizes 1 and 3 | `IndicesAreDistinct`, `UnusedEntriesAreDefault`, `ImplementsElementTable` | reuse, growth and reservation in every order |
| `ordered_ids` | 2 elements, 7 ids | `IdsFollowOrder` | insertion, removal and sorting over several wraps of the counter |
| `distributed_grid` | 3 processes, three vertices and an edge, a child distributed away from its parent, two sessions | `InterfacesMatch`, `InfosAreRight` | processes that visit parents in different orders build matching interfaces |
| `grid_distribution` | 3 processes, first infos over eight states, each process selects at most one target in one of three states | `InfosSynchronized`, `SidesMatch`, `OneStar`, `NoCopyIsLost` | one distribution from any sensible start |
| `grid_connectivity` | 4 vertices, 2 triangles, three programs that are `Sound` | `ListsAreExact`, `NoElementTwice`, `ImplementsPlainMesh` | creating, erasing, replacing, flipping while lists are switched |
| `refinement_marks` | three triangles, one of them refined, on three processes, over 200 ways to mark | `CopiesAgree`, `JustTheClosureIsMarked`, `GridStaysRegular`, `MarksOnlyGrow`, `TurnsEnd` | the closure is the same on all copies and no larger than needed |
| `multigrid_cycle` | a W-cycle over 4 levels, 4 processes, the base level gathered by two and solved in parallel by two, two more distributed levels, surface dofs on every level, communication overlapped | `DefectsAreRight`, `CorrectionsAreRight`, `CycleIsComplete`, `CycleEnds` | no vector is used too early, however processes race, and nobody waits for a process that does not come |
| `message_hub` | 3 registrations, 2 types, posts nested twice | `NoDanglingPointers`, `NoCallAfterAutoFree`, `PostsCallInOrder` | registrations change while callbacks run |
| `vector_additive_dot` | 2 vectors, 2 processes | `DotProdIsExact` is violated | section 6 |

Why the bounds are enough:

- *Communicator.*  What one round can leave behind for another is a message, a buffer, an
  extractor or the flag, and each shows in the next round of that edge; so two rounds of
  every mixture, and three where a process that only sends gets ahead.  Matching is a
  matter of two processes, waiting cycles need three.  The order inside a buffer shows with
  two calls; the third adds another edge.
- *Colouring.*  On four ranks all graphs are there; an odd ring, the largest distance in
  the order of weights and gaps among heavier colours occur with five.
- *Vectors.*  Two, so that destinations and operands may coincide or not; inputs 0 and 1 and
  `MaxValue` 2 leave room for one sum or one accumulation at a master.  `Samples` is a
  set of entries that are consistent in no sense.  The vectors are interchangeable and
  the run has invariants only, so the symmetry is sound.
- *Attachments.*  Three elements outgrow a container twice and leave the stack with two
  entries whose order matters; a second attachment is attached at another size.
- *Ids.*  Seven ids and four entries at most (`RoomForIds`): wraps occur for every length of
  the list.
- *Distributed grid.*  Up to three children go to one horizontal interface in a session: those of two
  vertices, whose order the local ids decide, and that of an edge, which comes from another map.  Each process
  meets the parents in an order of its own, so that an interface filled as the children came
  does not match (the mutant `BeforeAsScheduled`).  The grid has each kind of shared element: a vertex in
  a horizontal and a vertical interface, a ghost, an edge that may be replaced, a parent in vertical
  interfaces only with a child in a horizontal one.  Two sessions let
  erased children be made again and replaced ones be erased.  `IdLimit` is large: the wrap is
  the subject of `ordered_ids`.
- *Distribution.*  One round already starts from the interfaces of any sensible info
  over the eight states, which are those a previous round can leave.
- *Connectivity.*  Two triangles with a common side are the smallest mesh in which an
  edge has two faces and survives one of them.
- *Marks.*  The edge between refined and unrefined triangles constrains a vertex and two
  edges; the third triangle touches them in a vertex only.  The process with the lowest
  rank, the master of what is shared, has the triangle that hears of marks last.
- *Cycle.*  Four levels are what a W-cycle needs to return to a level it has left twice.  On the
  base level two processes gather and two solve in parallel, the mixture
  `GatheredIfAmbiguous` allows; section 6 says which ones are excluded.
- *Hub.*  With three registrations an entry in front of, at and behind the current one exists.

Deadlock is checked except where the system may stop: `distributed_grid` after
`MaxSessions`, `grid_distribution` after `MaxRounds`, `message_hub` when all ids are deleted.
Programs that end (`Terminated`, `Finished`, the last disjuncts of `ColNext` and of the
cycle) stutter explicitly.


## 5. Fairness

- *Communicator.*  MPI's progress rule completes a matched pair: `WF(MpiTransfer(p, q))`.  A
  process goes on once all it sent has been matched: `WF(SendsMatched(p) /\ ProcessStep(p))`.
  That MPI buffers a send is possible and never relied on, so a cycle of processes each
  waiting for a send to complete would be a deadlock in the model as well.
- *Colouring.*  The same: `WF(SendsAwaited(p) /\ ColStep(p))`.  A process in step 4 waits for
  neighbours that will ask for its colour only after their own step 4; what keeps this
  from being a cycle is the order of the weights.
- *Multigrid.*  `WF(Step(p))` for every process; sends are buffered, the communicator being
  checked on its own.
- *Marks.*  `WF(Next)`: something happens as long as anything can.

Strong fairness is needed nowhere: no enabled action of a process is disabled by another
process.


## 6. Disagreements between code and documentation

Shown by a run:

- **Dot product of two additive vectors** (`vector_additive_dot`).  The last branch of
  `dotprod` was written for two consistent vectors, and makes only the left operand
  unique; the product misses contributions of the slaves.  `AdditivePairs = FALSE` keeps such
  products out of `vector_types`.

Met while modelling; the models start from programs that avoid them, and each appears as a
constant or a guard named here:

- *Known and unknown sizes in one round.*  A process exchanges sizes when anything *it*
  handles has unknown size; with neighbours of differing opinion, data meets a receive for a
  size.  Excluded by `Agreeing` (`CommunicationPlan`).  The documentation of
  `send_raw` recommends the mixture.
- *Collecting before `wait()`.*  `wait()` clears all send buffers, so what was collected since
  `communicate_and_resume()` is gone.  Excluded by `EarlyCalls = FALSE`.
- *`insert()` at the wrap.*  It reads the id of the next entry before `get_free_id()`
  renumbers.  Excluded by `InsertRound = FALSE`; the counter has 64 bits.
- *Product of two additive vectors, `VecExp`.*  The first is declared additive; the second does
  not look at the mask.  Excluded by `AdditivePairs` and `ExpOfConsistent`.
- *Revisited levels without surface dofs.*  After post-smoothing, the defect is updated only from
  `m_LocalFullRefLevel` on: "In full-ref case, the defect is not needed anymore, since it will be
  restricted anyway" (`mg_solver_impl.hpp:1950`).  In a W- or F-cycle a level below is entered
  again by the second call of `lmgc()` before anything is restricted to it, and smooths with a
  defect that misses the last correction of its first visit; line 1756 counts on a defect that
  "remains valid and can be used when the cycle comes back to this level".  The run has surface dofs on every
  level; with surface dofs on the top level only, TLC finds the stale defect.  The theorem
  has the hypothesis `UpToDate`.
- *Mixed decisions to gather.*  With `GatheredIfAmbiguous` off and a serial base solver only a
  process with horizontal interfaces turns to gathering (`mg_solver_impl.hpp:1606-1617`), so a
  v-master that has nothing but ghosts of the base level does not, and its v-slaves do: they wait
  for a correction it never sends, or take one of another level for it.  With
  `GatheredIfAmbiguous` on, a process without vertical interfaces enters the parallel
  solver even if a horizontal neighbour gathers instead.  Run with such constants, the model
  violates `CorrectionsAreRight` and `CycleEnds` in the first case.  The constants of
  the run have neither; the theorems have the hypothesis `GatherAlike`, that processes
  with a common v-master decide alike, which excludes the first (the second only makes
  processes wait).
- *Lists of a grid that stop being true* (`grid_connection_managment.cpp`).  Three uses of the options are
  excluded by `Sound`; with a program of each kind, and the two triangles of the run, TLC
  finds `ListsAreExact` or `NoElementTwice` violated:
  - `face_autogenerate_edges(true)` with `EDGEOPT_STORE_ASSOCIATED_FACES` on (1400-1409): an edge two
    faces miss is created for the first, and the second finds it but does not enter its
    list.  Erasing that edge later leaves the second face without it, so
    `ImplementsPlainMesh` would fail too.
  - `replace_vertex` in a grid whose faces do not generate their edges, when edges store faces or
    faces edges (2280): a moved face enters no list of the edges it comes to lie on, and
    one that is merged is taken from no list of an edge that has moved before it.
  - Erasing a vertex when edges store faces that generate their edges, while neither vertices store
    faces nor faces edges.  "if edges store associated faces and if faces auto-generate edges, then
    nothing has to be performed here" (242), but the faces that go with the first edge look
    for their other edges in the list that was just swapped out (320), and stay in theirs.
- *Callbacks that erase their own entry.*  A callback that unregisters itself, drops its own
  auto-free id, or destroys the hub, leaves the iterator of `post_message`
  (`message_hub_impl.hpp:73`) at an erased entry.  Modelled as it is, by `ReturnAstray`;
  `PostsCallInOrder` claims nothing of such a post.
- *Unique vectors with overlap* lose the values of the slave overlap when they become
  consistent again.  Overlap is not modelled.


## 7. Theorems

Eight modules of proofs, about ten components; TLAPS checks every step, and nothing is
assumed but the named assumptions on constants and the hypotheses given here.

**Interface communicator.**  Hypotheses: programs collect between rounds (`~EarlyCalls`)
and, from `RoundsStaySeparate` on, neighbours agree about sizes in every round (`Agreeing`).
`RoundsNeverMix` compares two sequences written by different processes at different
times, and is far from inductive.  The invariant is `TypeInv /\ CollectedInOrder /\
ChannelHistory`:

1. `CollectedInOrder` ties buffers, extractors and the flag of a process to how many
   calls of the round it has made; so its targets, its sources and its decision
   about sizes are functions of the plan when it communicates (`CallsAreCollected`).
2. `ChannelHistory`: what an end of an edge has posted is exactly the set of its
   rounds and phases so far, in increasing order (`HistoryIsKept`).
3. Because the ends agree, what both *will* post is the same set, of which each has posted an
   initial part; two increasing sequences over initial parts of one set agree
   wherever both are defined (`HistoriesAgree`).  This gives `RoundsStaySeparate`.
4. `DeliveryInv` adds the items: the history of messages with what is in them, so that
   sizes, and then contents, are those the receiver computes from its own calls.  This
   gives `MessagesFit`, `ExtractorsFindTheirData` and `CommunicatorIsAnExchange`, the
   safety part of the refinement of `NeighbourExchange`.

**Colouring**, for every finite set of ranks and every process graph.  The invariant joins
`ColTypeOK`, `MessagesFollowSteps` (what was sent and asked for follows from the step) and
`ChoicesAreGreedy` (a process chose its colour after, and from, all heavier
neighbours).  Neighbours differ because one of the two is heavier and the free colour
is not among those it was chosen from (`ColouringIsProper`).  `ColoursAreFew` is a
pigeonhole argument (`MissingNat`).  `NeighboursAreSplit` needs a second
invariant about the lists at every step.  `ColoringIsGreedy` is the safety part of
the refinement.

**Parallel vectors**, for every layout (any numbers of dofs, processes and slaves), any entries,
and programs that multiply no two merely additive vectors (`~AdditivePairs`, a hypothesis of all
four theorems; section 6 says what happens without it).  `MaskIsTruthful` is nearly inductive.
What is missing is which masks there are: a unique vector has to be known as additive, or
`ToUnique` would add slaves that `ToAdditive` had emptied, and entries have to be zero
where a dof is not held, or a sum over all processes is not one over the holders.
`VectorInv` says both, and `VectorsAreDescribed` that all operations keep it: `ChangeKeeps` for
the changes of type, `CombinedVector` and `ProductVector` for sums and products.
`MasksAreTruthful` follows at once.

Results are sums of a size that is not fixed, and the prover has no induction over data.  It does
have well-founded orders: a statement about the subsets of a finite set that fails for some fails
for one all of whose smaller subsets satisfy it (`MinimalSubset`).  From it, and from the definition of
the fold, follow that a sum splits off any summand (`SumSplit`), is linear (`SumLinear`),
ignores zeros (`SumOfPart`) and may change places with another (`SumsSwap`).  The last turns
"local sums, then an allreduce" into a sum over dofs, whose summands are `ProductRow`: the
product of two rows is that of the real values if one is consistent and the other sums up to its value,
or if both are unique.  `DotArgumentFits` shows that the branches of `dotprod` always
arrive there; with `NormSquaredIs` and `MaxNormIs` this gives `DotProductsAreExact` and
`NormsAreAlwaysExact`.

**Attachments**, for any elements, attachments, values and sizes.  `PipeInv` says that the
indices of live elements and those on the stack are together `0 .. numDataEntries - 1`, each
once (counting: `numElements + Len(free) = numDataEntries`), inside all containers, and that
entries above hold defaults.  From it `PipeIndicesDistinct`, `PipeUnusedAreDefault` and
`PipeIsElementTable`, a complete refinement (the table has no fairness).

**Ordered interface**, for any number of ids and any elements, as long as `insert()` is not
called with a counter that went round.  Ids that merely ascend are not inductive: an
insertion in the middle renumbers what follows.  `IInv` says that ids grow at least as
fast as positions and stay far enough below the counter (`OIInvariant`).

**Grid distribution**, for any number of processes, any infos and any selections, and
without a bound on rounds other than `MaxRounds`.  `GDInv` says *of whom* each process has
heard after each of the five exchanges (`Known`), and in between which info the interfaces
were built from (`Building`).  From it `InfosAreSynchronized`, `SidesAlwaysMatch`,
`StarIsOne` and `CopiesStayConnected`; `SidesAgree` is the fact about
`CreateLayoutsFromDistInfos()` underneath: both ends of an interface decide alike from
one info, whatever targets each has seen before.

**Distributed grid manager**, for any processes, any hierarchy of elements of the four types in which
a child is one level above its only parent, any first interfaces and any number of sessions that the
ids suffice for.  Nothing is sent, so that two processes match can only be said by way of
something both know.  `DGInv` takes what was so when the session began: the lists of the
interfaces (the same at both ends), the elements that somebody had, and those chosen to be refined or
erased.  They are not variables but witnesses: the invariant says that there are such lists and
such a choice.  In their terms it says of each process alone:

- `HoldsExpected`, `HoldsInOrder`: the members of every interface, before, during and after the
  session, and which of two members comes first (`Precedes`).  Children come after what was there; those
  of vertices before those of edges; those of parents of one type in the order the parents had in
  the same interface, whose ids ascend.  That is where `IdsFollowOrder` is used;
- `AreItems`, `AreNumbered`, `NoneMissing`: an item for each child of each parent refined so far and
  each horizontal entry of the parent, and none else;
- `IsLayout`, `IsInfo`: ids ascend, nobody is twice in a list or on both sides, and the information of
  an element that is not scheduled is what `grid_layouts_changed()` would find out;
- `AreTasks`, `IsHeld`, `Follow`, `InPhase`: what is still to do, what is there, that children are
  shared as their parents unless they are scheduled or were shared otherwise at the start.

When two processes have ended the session neither members nor order depend on anything but what
both know, and lists with the same members in the same order are equal (`InterfacesAlwaysMatch`).
`InfosAreAlwaysRight` follows from the last three parts, for all processes at any time.  `Sorted` is given
by counting who comes before; that it lists every member once and in order needs that a finite set with
a linear order has a member with any number of others before it, by well-founded orders again.

**Message hub**, for any number of registrations, types and posts within posts.  What the
code promises is not inductive: an id with a hub must also be known to its entry, or
`DestroyHub` would not tell it (`Linking`); and a new entry is behind all posts only because
serials are distinct and bounded (`Bounded`, `Distinct`).  `HubPostsInOrder` is about posts that
have not gone astray; the other theorems hold whatever callbacks do.

**Refinement marks**, for every grid, distribution and set of user marks that satisfy the
named assumptions.  These say: the grid is one (finite, edges constrain, only refined vertices
are parents, `GridAssumption`), every process holds elements with their corners and sides, and the
children of what it holds (`DistributionAssumption`; without vertical interfaces the code
distributes them so), and `mark()` was not called for elements with children unless they
constrain others (`UserMarksAssumption`; `mark()` refuses such).  `MarksInv` has three parts:

- `MarksTypeOK`: marks that can occur on an element, and the phases processes are in;
- `LocalInv`: on every process an element has all it needs marked (`Served`: edges
  of a face, the constraining edge, faces beside, corners, parents and what is around them)
  *unless it waits* for the next turn of the adjusters;
- `CopiesInv`: copies of a shared element agree *unless one of them was just marked*, which the
  exchange of that turn will notice; and after the first of the two exchanges the master
  has the largest mark.

The last is why it does no harm that a turn skips the exchange when nobody marked a shared
element.  In the end nobody waits and nothing was just marked: `CopiesAlwaysAgree`, and
across processes `RefinedGridIsRegular` (with hanging nodes of order one required,
`NodeDependencyOrder1`, as the refiner is constructed).  `MarksGrow` is the action property.

`MarksInv` says what is marked at least.  That it is *just the closure*, wherever the user gives
no `RM_CLOSURE` and `NodeDependencyOrder1` holds, takes two more parts of `ClosureInv`
(`MarksHaveReasons`): `AskedInv`, marks of the user stay; and `ReasonInv`, every full mark is in
the closure `Wanted` of what the user marked, every dummy mark belongs to the parent of an
element of `Wanted`, and nothing is on a list of an adjuster without being marked.  Then

- `Wanted` is closed: `ClosureOf` iterates a recursive function as often as there are elements,
  and a set that grows with each of so many steps had outgrown the grid (`ChainStops`,
  `ClosureCloses`).  So each adjuster and each exchange keeps `ReasonInv`: what is marked next is
  needed by something in `Wanted` (`AdjustersJustified`, `ExtractJustified`);
- `Wanted` is the least closed set around what the user marked (`ClosureIsLeast`), and when the
  turns end the marked elements are one: whatever `Needs` asks of two elements, some process holds
  both and has served the first (`NeedsAreMet`).

This is `JustTheClosureIsAlwaysMarked`.  The prover unfolds no recursive function; that there is
one with these equations follows from its initial parts (`PartChainExists`, `ChainExists`),
and what holds of all its values from the least one of which it does not (`LeastNat`).

**Multigrid cycle**, for every number of processes and levels, any vertical interfaces,
smoothing steps and kind of cycle, with and without overlapped communication.  That a
v-master adds to its defect the one the slave computed *in the same visit* relates two recursions
that run at their own pace, with channels between them whose messages have only a level
and a kind.  `Inv` explains them by one history:

- All processes run the same recursion.  A *place* of it (`Start`, `Continued`) has what does not
  depend on the process: the levels still to return to with their remaining calls, and how many
  corrections each level has got, in all and before it was last zeroed.  Every process is at a
  place of one common `History`, the one the foremost has gone through (`Tracked`).
- `DataInv`: what the vectors of a process are, given where it is.  A correction is the bag of
  all corrections made since it was zeroed, except while the last one is not yet added
  (`CorrectionInv`), a defect likewise (`DefectInv`), a gathered one is that of all processes
  of the group (`GatherInv`), and the surface has what was returned (`SurfaceInv`).
- `Carries`: the place also says who gives whom which message.  The messages in a
  channel are those of the places that the sender has passed and the receiver has not, in order;
  so the head of the channel is the one a receiver waits for, with what the sender had at *that*
  place, wherever the sender is now.

`InitInv` and `NextInv` show that `Inv` is inductive: a step of the foremost process extends the
history, any other step finds its next place there (`CarriesOver`).  Three properties follow from
it for every hierarchy.  All have the hypothesis `GatherAlike`: on the base level, processes with a common v-master
decide alike to gather.  `WhoGathersAlike` proves it if `GatheredIfAmbiguous` is on or the base
solver is parallel; for the rest see section 6.

- `CorrectionsAreAlwaysRight` and `DefectsAreAlwaysRight`; the second also needs `UpToDate`: the cycle is
  a V-cycle, or the defect is kept for statistics, or no process has a level without
  surface dofs between the base level and its surface.  Section 6 says what happens otherwise.
- `CycleIsAlwaysComplete`.  That the surface gets everything is `SurfaceInv` (`SurfaceAlwaysGetsAll`).
  The base solver is called as often as the type says by `CountInv`, an invariant beside `Inv`:
  `Solves(l, type)` are the solves in a call of `lmgc()` on level l, `Left` those a frame's remaining
  calls still make, and the sums of `Left` up the stack (`Counts`) lead from the solves made so far
  to all of the cycle.  `Solves` is a closed form, a power of the kind of cycle (`CyclePower`, a
  recursive function, unfolded like the chains above), and `SolvesIs` that the calls of
  a frame add up to it.

The instance of the run satisfies `UpToDate` and `GatherAlike`.

The invariants `CollectedInOrder`, `ChannelHistory`, `PipeInv`, `IInv`, `GDInv`, `HubInv`,
`MarksInv`, `ClosureInv` and `VectorInv` were also checked by TLC, on the instances of section 4, and so
were the parts of `DGInv`, with a history variable for its witnesses.


## 8. What is only model-checked

- `AllRoundsFinish`, `ColouringTerminates`, `CycleEnds`, `TurnsEnd` and the fairness of the
  refinements: liveness under fairness is outside what TLAPS proves.
- `ListsAreExact`, `NoElementTwice`, `ImplementsPlainMesh`: they hold for `Sound`
  programs only (section 6), by cases that only TLC goes through.


## 9. What is not modelled

- *Debug communication* of the interface communicator, and two communicators at once: one per
  process, with one round after the other.
- *`receive_data` for a single interface*: its definition lacks a comma
  (`pcl/pcl_interface_communicator_impl.hpp:191`), so it compiles only as long as nobody
  instantiates it.
- *Process communicators, multi-group communicators, communication checks*: wrappers of
  collectives and diagnostics.
- *Vectors with overlap*, `VecLog`, `check_storage_type`, floating point, types set by hand; *matrix
  overlap, global ids, index layouts*: clients of the communicator.
- *Maps of colours* (`p_colors`), and lists the caller did not empty.
- *Attachments:* `defragment()`, which nothing calls, and copying between grids.
- *Grid:* volumes, observers, copies of grids, the multigrid hierarchy; *selectors and subset
  handlers*.
- *Distribution:* partitioners, selection and serialisation; *distributed grid:* the exchange
  that makes missing horizontal interfaces after a coarsening, and elements registered
  from outside vertical interfaces.
- *Refinement:* creation of elements, volumes, local marks, coarsening, strategies,
  vertical layouts and periodic boundaries.
- *Multigrid:* numerics, rim couplings of adaptive grids, the rest of the initialisation.
- *Message hub:* reference counts.
- *DoF distribution, solvers, time stepping, discretisation, registry, script bindings, shell,
  file formats.*  Numerics is out of reach of small models; tables and formats have no
  protocol state.

`PROJECT.json` has the reason for each component.


## 10. Plan

In this order:

1. Proofs about `GridConnectivity`: the lists part of `ListsAreExact` as an invariant of every
   operation, then `NoElementTwice`.
2. Index layouts of DoF distributions, and global algebra ids, as clients of interfaces.


## 11. Running everything

```
tlc -workers 2 -config InterfaceCommunicator.cfg MCInterfaceCommunicator
tlc -workers 2 -config ParallelColoring.cfg MCParallelColoring
tlc -workers 2 -config ParallelVector.cfg MCParallelVector
tlc -workers 2 -config VectorAdditiveDot.cfg MCParallelVector
tlc -workers 2 -config AttachmentPipe.cfg MCAttachmentPipe
tlc -workers 2 -config OrderedInterface.cfg MCOrderedInterface
tlc -workers 2 -config DistributedGrid.cfg MCDistributedGrid
tlc -workers 2 -config GridDistribution.cfg MCGridDistribution
tlc -workers 2 -config GridConnectivity.cfg MCGridConnectivity
tlc -workers 2 -config RefinementMarks.cfg MCRefinementMarks
tlc -workers 2 -config MultigridCycle.cfg MCMultigrid
tlc -workers 2 -config MessageHub.cfg MCMessageHub

tlapm InterfaceCommunicatorProofs.tla
tlapm ParallelColoringProofs.tla
tlapm HandleProofs.tla
tlapm LayoutProofs.tla
tlapm DistributedGridProofs.tla
tlapm RefinementMarksProofs.tla
tlapm ParallelVectorProofs.tla
tlapm MultigridCycleProofs.tla
```

`PROJECT.json` lists, for every run, its properties, and for every property a variant of the code
that breaks it.
