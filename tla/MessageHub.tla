----------------------------- MODULE MessageHub -----------------------------
(***************************************************************************)
(* MessageHub: callbacks are registered for a type of messages and called  *)
(* one after the other when such a message is posted.  A callback may      *)
(* itself register, unregister and post, and even destroy the hub: the     *)
(* loop of post_message holds a list iterator meanwhile.                   *)
(*                                                                         *)
(* An entry of the hub and the CallbackId handed to the caller point at    *)
(* each other, and each of them may go first: the id with the object that  *)
(* holds it, the entry with the hub.  Entries are only appended, so that   *)
(* the list of a type is its linked entries in the order of their serial.  *)
(***************************************************************************)
EXTENDS Naturals, Sequences, FiniteSets

CONSTANTS
  Registrations, \* each one an entry and its CallbackId
  Types,         \* types of messages
  MaxPosts       \* bound on posts within posts

ASSUME RegistrationsAssumption == IsFiniteSet(Registrations)

VARIABLES
  hubAlive,  \* the hub has not been destroyed
  linked,    \* registrations whose entry is in the hub
  serial,    \* registration -> its place in the order of all registrations
  typeOf,    \* registration -> m_msgTypeId
  id,        \* registration -> its CallbackId: unused, held or deleted
  autoFree,  \* registration -> m_autoFree
  idHub,     \* registrations whose id has m_hub # NULL
  entryId,   \* registrations whose entry has m_callbackId # NULL
  posts,     \* posts under way, the innermost last: the entry that is called,
             \* the entries called so far (history), and whether the iterator
             \* has been moved on from an entry that was erased (history)
  crashed    \* an iterator went where nothing is

vars == <<hubAlive, linked, serial, typeOf, id, autoFree, idHub, entryId, posts, crashed>>
idVars == <<serial, typeOf, autoFree>>

-----------------------------------------------------------------------------
(* The lists.                                                              *)

EntriesOf(t) == {r \in linked : typeOf[r] = t}
Behind(r) == {s \in EntriesOf(typeOf[r]) : serial[s] > serial[r]}

\* r is some entry of S; its first one.
IsAny(r, S) == r \in S
IsFirst(r, S) == r \in S /\ \A s \in S : serial[r] <= serial[s]

\* What a post sees when it calls the entry r after those of S.
Frame(r, S) == [at |-> r, called |-> S \cup {r}, astray |-> FALSE]
Astray(r) == [at |-> r, called |-> {}, astray |-> TRUE]

\* The iterator of a post is valid.
Stands(f) == ~f.astray /\ f.at \in linked

-----------------------------------------------------------------------------
Init ==
  /\ hubAlive = TRUE
  /\ linked = {}
  /\ serial = [r \in Registrations |-> 0]
  /\ typeOf \in [Registrations -> Types]
  /\ id = [r \in Registrations |-> "unused"]
  /\ autoFree = [r \in Registrations |-> FALSE]
  /\ idHub = {}
  /\ entryId = {}
  /\ posts = <<>>
  /\ crashed = FALSE

\* register_function_callback, register_class_callback: an entry at the end
\* of the list of its type.
Register(r, free) ==
  /\ hubAlive /\ id[r] = "unused"
  /\ serial' = [serial EXCEPT ![r] = Cardinality({s \in Registrations : id[s] # "unused"}) + 1]
  /\ id' = [id EXCEPT ![r] = "held"]
  /\ autoFree' = [autoFree EXCEPT ![r] = free]
  /\ linked' = linked \cup {r}
  /\ idHub' = idHub \cup {r}
  /\ entryId' = entryId \cup {r}
  /\ UNCHANGED <<hubAlive, typeOf, posts, crashed>>

SetAutoFree(r, free) ==
  /\ id[r] = "held"
  /\ autoFree' = [autoFree EXCEPT ![r] = free]
  /\ UNCHANGED <<hubAlive, linked, serial, typeOf, id, idHub, entryId, posts, crashed>>

\* unregister_callback: an id without a hub is refused with an error.  Nothing
\* asks whether a post stands at the entry.
Unregister(r) ==
  /\ id[r] = "held" /\ r \in idHub
  /\ linked' = linked \ {r}
  /\ idHub' = idHub \ {r}
  /\ UNCHANGED <<hubAlive, idVars, id, entryId, posts, crashed>>

\* ~CallbackId that always leaves the entry.
DeleteIdOnly(r) ==
  /\ id[r] = "held"
  /\ id' = [id EXCEPT ![r] = "deleted"]
  /\ idHub' = idHub \ {r}
  /\ entryId' = entryId \ {r}
  /\ UNCHANGED <<hubAlive, linked, idVars, posts, crashed>>

\* ~CallbackId, when the last copy of the smart pointer goes: unregisters,
\* or leaves an entry without an id.
DeleteId(r) ==
  /\ id[r] = "held"
  /\ id' = [id EXCEPT ![r] = "deleted"]
  /\ linked' = IF r \in idHub /\ autoFree[r] THEN linked \ {r} ELSE linked
  /\ idHub' = idHub \ {r}
  /\ entryId' = entryId \ {r}
  /\ UNCHANGED <<hubAlive, idVars, posts, crashed>>

\* post_message: the first entry of the type is called; nothing happens when
\* there is none.
Post(t) ==
  /\ hubAlive /\ Len(posts) < MaxPosts
  /\ \E r \in linked : IsFirst(r, EntriesOf(t)) /\ posts' = Append(posts, Frame(r, {}))
  /\ UNCHANGED <<hubAlive, linked, idVars, id, idHub, entryId, crashed>>

\* The callback returns: the next entry is called, or the post is over.
Return ==
  /\ posts # <<>> /\ Stands(posts[Len(posts)])
  /\ LET top == posts[Len(posts)]
         rest == SubSeq(posts, 1, Len(posts) - 1)
     IN  \/ \E r \in linked :
              IsFirst(r, Behind(top.at)) /\ posts' = Append(rest, Frame(r, top.called))
         \/ Behind(top.at) = {} /\ posts' = rest
  /\ UNCHANGED <<hubAlive, linked, idVars, id, idHub, entryId, crashed>>

\* The callback returns, but its entry has been erased: what the iterator reads
\* from the memory of the entry may be anything.
ReturnAstray ==
  /\ posts # <<>> /\ ~Stands(posts[Len(posts)])
  /\ LET rest == SubSeq(posts, 1, Len(posts) - 1)
     IN  \/ \E r \in linked : posts' = Append(rest, Astray(r)) /\ UNCHANGED crashed
         \/ posts' = rest /\ UNCHANGED crashed
         \/ crashed' = TRUE /\ UNCHANGED posts
  /\ UNCHANGED <<hubAlive, linked, idVars, id, idHub, entryId>>

\* ~MessageHub, which does not tell the ids.
DestroySilently ==
  /\ hubAlive
  /\ hubAlive' = FALSE
  /\ linked' = {}
  /\ UNCHANGED <<idVars, id, idHub, entryId, posts, crashed>>

\* ~MessageHub: the ids of its entries lose their hub.
DestroyHub ==
  /\ hubAlive
  /\ hubAlive' = FALSE
  /\ linked' = {}
  /\ idHub' = idHub \ (linked \cap entryId)
  /\ entryId' = entryId \ linked
  /\ UNCHANGED <<idVars, id, posts, crashed>>

Step ==
  \/ \E r \in Registrations :
       \/ \E free \in BOOLEAN : Register(r, free) \/ SetAutoFree(r, free)
       \/ Unregister(r) \/ DeleteId(r)
  \/ \E t \in Types : Post(t)
  \/ Return \/ ReturnAstray
  \/ DestroyHub

Next == ~crashed /\ Step

Spec == Init /\ [][Next]_vars

-----------------------------------------------------------------------------
(* Properties.                                                             *)

HubTypeOK ==
  /\ hubAlive \in BOOLEAN
  /\ linked \subseteq Registrations
  /\ serial \in [Registrations -> Nat]
  /\ typeOf \in [Registrations -> Types]
  /\ id \in [Registrations -> {"unused", "held", "deleted"}]
  /\ autoFree \in [Registrations -> BOOLEAN]
  /\ idHub \subseteq Registrations
  /\ entryId \subseteq Registrations
  /\ posts \in Seq([at : Registrations, called : SUBSET Registrations, astray : BOOLEAN])
  /\ crashed \in BOOLEAN

\* No pointer dangles: an entry points at an id that still exists, an id at
\* a hub that still exists and has its entry.
NoDanglingPointers ==
  /\ \A r \in linked \cap entryId : id[r] = "held" /\ r \in idHub
  /\ \A r \in idHub : id[r] = "held" => hubAlive /\ r \in linked

\* When an id with auto-free goes, its callback goes too: the object that
\* held the id is not called after its destruction.
NoCallAfterAutoFree ==
  \A r \in linked : id[r] = "deleted" => ~autoFree[r]

\* A post has called every entry in front of the one it stands at, unless it
\* was unregistered, and no entry behind it: none is left out or called
\* again, though the list changes.  Not so a post whose entry was erased while
\* its callback ran.
PostsCallInOrder ==
  \A i \in DOMAIN posts : ~posts[i].astray =>
    /\ \A r \in EntriesOf(typeOf[posts[i].at]) :
         serial[r] <= serial[posts[i].at] => r \in posts[i].called
    /\ \A r \in posts[i].called : serial[r] <= serial[posts[i].at]
==============================================================================
