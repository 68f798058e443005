-------------------------------- MODULE Tree --------------------------------
(***************************************************************************)
(* The board's tree: containers, and the notes, threads and queues in them *)
(* (store/nodes.rs), with the items of the queues (store/items.rs), the    *)
(* archiving of messages and items (store/archive.rs), and the deletes of  *)
(* board-admin.                                                            *)
(*                                                                         *)
(* Every write is one transaction under the store's lock, and so one step; *)
(* a refused write is no step.  The foreign keys of the schema are not in  *)
(* the guards: NothingDangles says that no write ever leaves one dangling, *)
(* so they refuse nothing.  Rows of the nodes table are numbered by the    *)
(* largest number in use, so a number comes back after a delete; event ids *)
(* do not.                                                                 *)
(*                                                                         *)
(* Not modelled here: the board's own nodes, which clients cannot write    *)
(* nor board-admin delete (Keys.tla has their items); the blobs that       *)
(* bodies refer to (Blobs.tla); descriptions and mentions.                 *)
(***************************************************************************)
EXTENDS Integers, FiniteSets, Sequences

CONSTANTS Path,     \* the paths segments() lets through
          Top,      \* what a top-level path is under
          Up,       \* the path each path is directly under, or Top
          Name,     \* who writes
          Owner,    \* the name of the owner key (Author::human)
          Wanted,   \* bound: the paths and kinds clients ask for
          MaxNode,  \* bound: the largest row number of a node
          MaxHead   \* bound: the last event id

ContainerDepthMax == 2

ASSUME TreeAssumption ==
  /\ Top \notin Path
  /\ Up \in [Path -> Path \cup {Top}]
  /\ \A p \in Path : Up[p] # Top /\ Up[Up[p]] # Top => Up[Up[Up[p]]] = Top
  /\ Owner \in Name
  /\ Wanted \subseteq Path \X {"container", "note", "thread", "queue"}
  /\ MaxNode \in Nat /\ MaxHead \in Nat

VARIABLES nodes,  \* the rows of nodes
          events, \* the rows of events
          items,  \* the rows of items; an item's id is its filing's
          head,   \* the highest event id issued
          seen    \* the version of a note each writer has read last

vars == <<nodes, events, items, head, seen>>

Kind == {"container", "note", "thread", "queue"}
Type == {"node_created", "node_archived", "node_unarchived", "message", "note_version",
         "item_filed", "item_answered", "item_declined", "item_cancelled"}
Archiving == {"node_archived", "node_unarchived"}
Resolving == {"item_answered", "item_declined", "item_cancelled"}

Id == 1..MaxHead
NodeId == 1..MaxNode
None == 0

Node == [path : Path, parent : NodeId \cup {None}, kind : Kind, creator : Name,
         owner : Name \cup {Top}, created : Id]
NoNode == [path |-> Top]
Event == [type : Type, node : NodeId, item : Id \cup {None}, ref : Id \cup {None},
          version : 0..MaxHead, thread : Path \cup {Top}, actor : Name \cup {Top},
          archived : Id \cup {None}]
NoEvent == [type |-> "none"]
Item == [queue : NodeId, asker : Name, resolution : Id \cup {None}]
NoItem == [queue |-> None]
Seen == [path : Path \cup {Top}, version : 0..MaxHead, created : Id \cup {None}, last : Id \cup {None}]
NoSeen == [path |-> Top, version |-> 0, created |-> None, last |-> None]

\* Each column has values of its kind.
TypeOK ==
  /\ nodes \in [NodeId -> Node \cup {NoNode}]
  /\ events \in [Id -> Event \cup {NoEvent}]
  /\ items \in [Id -> Item \cup {NoItem}]
  /\ head \in 0..MaxHead
  /\ seen \in [Name -> Seen]

Init ==
  /\ nodes = [n \in NodeId |-> NoNode]
  /\ events = [e \in Id |-> NoEvent]
  /\ items = [i \in Id |-> NoItem]
  /\ head = 0
  /\ seen = [w \in Name |-> NoSeen]

-----------------------------------------------------------------------------
\* What the tables hold.

Nodes == {n \in NodeId : nodes[n] # NoNode}
Events == {e \in Id : events[e] # NoEvent}
Items == {i \in Id : items[i] # NoItem}

\* The row of path p: find().
At(p) == {n \in Nodes : nodes[n].path = p}

OfKind(k) == {n \in Nodes : nodes[n].kind = k}

\* The versions of note n, and the number of the current one: 0 for none.
Versions(n) == {e \in Events : events[e].node = n /\ events[e].type = "note_version"}
Last(n) == {e \in Versions(n) : \A f \in Versions(n) : f <= e}
CurrentVersion(n) == IF Versions(n) = {} THEN 0 ELSE events[CHOOSE e \in Last(n) : TRUE].version

Messages == {e \in Events : events[e].type = "message"}

IsArchived(e) == events[e].archived # None

Depth(p) == IF Up[p] = Top THEN 1 ELSE IF Up[Up[p]] = Top THEN 2 ELSE 3

-----------------------------------------------------------------------------
\* The writes.

\* A new event on node n.  Its actor is of interest for a note's versions only.
New(type, n) == [type |-> type, node |-> n, item |-> None, ref |-> None,
                 version |-> 0, thread |-> Top, actor |-> Top, archived |-> None]
NewVersion(n, v, w) == [New("note_version", n) EXCEPT !.version = v, !.actor = w]

\* The table with rows `new` appended to it, and the head at the last.
Appended(new) ==
  [e \in Id |-> IF e \in (head + 1)..(head + Len(new)) THEN new[e - head] ELSE events[e]]

\* Append events, and leave the head at the last.
AppendAll(new) ==
  /\ head + Len(new) <= MaxHead
  /\ events' = Appended(new)
  /\ head' = head + Len(new)

\* The row number of a new node: one more than the largest.
IsFresh(n) == n \in NodeId /\ (\A m \in Nodes : m < n) /\ (n = 1 \/ n - 1 \in Nodes)

\* check_place(): a container of the owner's at the top; anything in a
\* container, but containers two deep.
MayPlace(w, p, k) ==
  IF Up[p] = Top THEN k = "container" /\ w = Owner
  ELSE /\ At(Up[p]) \cap OfKind("container") # {}
       /\ k = "container" => Depth(p) <= ContainerDepthMax

\* owner_of(): a queue is its maker's, or whose the owner says.
MayOwn(w, k, o) == IF k # "queue" THEN o = Top ELSE o \in Name /\ (o = w \/ w = Owner)

ParentOf(p) == IF Up[p] = Top THEN None ELSE CHOOSE n \in At(Up[p]) : TRUE

\* Writer w makes a node; a note may come with its first version.
Create(w, p, k, o, first) ==
  /\ MayPlace(w, p, k)
  /\ At(p) = {}
  /\ MayOwn(w, k, o)
  /\ first => k = "note"
  /\ \E n \in NodeId :
       /\ IsFresh(n)
       /\ nodes' = [nodes EXCEPT ![n] = [path |-> p, parent |-> ParentOf(p), kind |-> k,
                                          creator |-> w, owner |-> o, created |-> head + 1]]
       /\ AppendAll(IF first
                  THEN <<New("node_created", n), NewVersion(n, 1, w)>>
                  ELSE <<New("node_created", n)>>)
  /\ UNCHANGED <<items, seen>>

Post(n) ==
  /\ n \in OfKind("thread")
  /\ AppendAll(<<New("message", n)>>)
  /\ UNCHANGED <<nodes, items, seen>>

\* Writer w reads the current version of note n, to edit it.
Read(w, n) ==
  /\ n \in OfKind("note")
  /\ seen' = [seen EXCEPT ![w] =
       [path |-> nodes[n].path, version |-> CurrentVersion(n), created |-> nodes[n].created,
        last |-> IF Versions(n) = {} THEN None ELSE CHOOSE e \in Last(n) : TRUE]]
  /\ UNCHANGED <<nodes, events, items, head>>

\* Mutant: an older version will do.
IsBase_Older(n, base) == base <= CurrentVersion(n)

\* The version saved over is the current one.
IsBase(n, base) == base = CurrentVersion(n)

\* A version may say that it summarizes the thread at p up to its message m.
MaySummarize(p, m) == m \in Messages /\ events[m].node \in At(p) \cap OfKind("thread")

\* Writer w saves a version of note n over the one it has read: its own
\* note, or the owner any.  p and m are Top and None if it summarizes nothing.
Save(w, n, p, m) ==
  /\ n \in OfKind("note") /\ nodes[n].path = seen[w].path
  /\ w \in {nodes[n].creator, Owner}
  /\ IsBase(n, seen[w].version)
  /\ (p = Top /\ m = None) \/ (p \in Path /\ MaySummarize(p, m))
  /\ AppendAll(<<[NewVersion(n, CurrentVersion(n) + 1, w) EXCEPT !.ref = m, !.thread = p]>>)
  /\ UNCHANGED <<nodes, items, seen>>

File(w, n) ==
  /\ n \in OfKind("queue")
  /\ AppendAll(<<[New("item_filed", n) EXCEPT !.item = head + 1]>>)
  /\ items' = [items EXCEPT ![head + 1] = [queue |-> n, asker |-> w, resolution |-> None]]
  /\ UNCHANGED <<nodes, seen>>

\* check_resolver(): the queue's owner answers, it or the owner key declines,
\* the asker cancels.
Resolvers(i, type) ==
  LET owner == nodes[items[i].queue].owner IN
  CASE type = "item_answered" -> {owner}
    [] type = "item_declined" -> {owner, Owner}
    [] type = "item_cancelled" -> {items[i].asker}

\* Mutant: a resolved item may be resolved again.
IsOpen_NotArchived(i) == i \in Items /\ ~IsArchived(i)

\* An item that is archived, or resolved, is not resolved (again).
IsOpen(i) == i \in Items /\ ~IsArchived(i) /\ items[i].resolution = None

\* Writer w resolves item i; an answer may refer to a message.
Resolve(w, i, type, m) ==
  /\ IsOpen(i)
  /\ w \in Resolvers(i, type)
  /\ m # None => type = "item_answered" /\ m \in Messages /\ ~IsArchived(m)
  /\ AppendAll(<<[New(type, items[i].queue) EXCEPT !.item = i, !.ref = m]>>)
  /\ items' = [items EXCEPT ![i].resolution = head + 1]
  /\ UNCHANGED <<nodes, seen>>

\* The archived column of the target, once event e archives or shows it.
ArchivedBy(type, e) == IF type = "node_archived" THEN e ELSE None

\* The owner archives message or item t, or shows it again.
Archive(t, type) ==
  /\ t \in Events /\ events[t].type \in {"message", "item_filed"}
  /\ IsArchived(t) # (type = "node_archived")
  /\ head < MaxHead
  /\ events' = [Appended(<<[New(type, events[t].node) EXCEPT !.item = events[t].item, !.ref = t]>>)
                  EXCEPT ![t].archived = ArchivedBy(type, head + 1)]
  /\ head' = head + 1
  /\ UNCHANGED <<nodes, items, seen>>

-----------------------------------------------------------------------------
\* board-admin's deletes, with the server stopped.

Under(N) == {m \in Nodes : nodes[m].parent \in N}

\* Node n and everything under it, in a tree three deep.
Branch(n) == {n} \cup Under({n}) \cup Under(Under({n}))

\* Mutant: the events of items stay when their queue goes.
EventsIn_NotItems(N) == {e \in Events : events[e].node \in N /\ events[e].item = None}

\* The events that go with nodes N.
EventsIn(N) == {e \in Events : events[e].node \in N}

\* What else points to what is to go.
PointTo(E) == {e \in Events \ E : events[e].ref \in E}

\* The rows of items that go with nodes N.
ItemsIn(N) == {i \in Items : items[i].queue \in N}

DeleteBranch(n) ==
  /\ n \in Nodes
  /\ LET N == Branch(n)
         E == EventsIn(N) IN
     /\ PointTo(E) = {}
     /\ events' = [e \in Id |-> IF e \in E THEN NoEvent ELSE events[e]]
     /\ items' = [i \in Id |-> IF i \in ItemsIn(N) THEN NoItem ELSE items[i]]
     /\ nodes' = [m \in NodeId |-> IF m \in N THEN NoNode ELSE nodes[m]]
  /\ UNCHANGED <<head, seen>>

\* A message's archive events go with it.
ArchiveEvents(m) == {e \in Events : events[e].ref = m /\ events[e].type \in Archiving}

DeleteMessage(m) ==
  /\ m \in Messages
  /\ PointTo({m}) \subseteq ArchiveEvents(m)
  /\ events' = [e \in Id |-> IF e \in {m} \cup ArchiveEvents(m) THEN NoEvent ELSE events[e]]
  /\ UNCHANGED <<nodes, items, head, seen>>

Next ==
  \/ \E w \in Name, want \in Wanted, o \in Name \cup {Top}, first \in BOOLEAN :
       Create(w, want[1], want[2], o, first)
  \/ \E n \in Nodes : Post(n) \/ DeleteBranch(n)
  \/ \E w \in Name, n \in Nodes :
       \/ Read(w, n) \/ File(w, n)
       \/ \E p \in Path \cup {Top}, m \in Messages \cup {None} : Save(w, n, p, m)
  \/ \E w \in Name, i \in Items, type \in Resolving, m \in Messages \cup {None} : Resolve(w, i, type, m)
  \/ \E t \in Events : DeleteMessage(t) \/ \E type \in Archiving : Archive(t, type)

Spec == Init /\ [][Next]_vars

-----------------------------------------------------------------------------
\* Every node is the one at its path, in the container its path says, and no
\* reference is left dangling or leads to something of another kind, by any
\* order of writes and deletes: "what is never deleted is what something
\* else points to" (bin/board-admin/main.rs).  So the foreign keys, checked
\* at the commit, never fail a write that the code's own checks let through.
NothingDangles ==
  /\ \A n \in Nodes :
       /\ IF Up[nodes[n].path] = Top THEN nodes[n].parent = None
          ELSE nodes[n].parent \in At(Up[nodes[n].path]) \cap OfKind("container")
       /\ nodes[n].created \in Events
       /\ At(nodes[n].path) = {n}
  /\ \A e \in Events :
       /\ e <= head
       /\ events[e].node \in Nodes
       /\ events[e].item = None \/ events[e].item \in Items
       /\ events[e].ref = None \/ events[e].ref \in Events
       /\ events[e].type \in {"note_version", "item_answered"} /\ events[e].ref # None
            => events[e].ref \in Messages
  /\ \A i \in Items :
       /\ items[i].queue \in OfKind("queue")
       /\ i \in Events

\* A node's events are its own: none is older than the node, though a new
\* node may have the row number of a deleted one.
EventsAreTheNodesOwn ==
  \A n \in Nodes :
    /\ events[nodes[n].created].type = "node_created" /\ events[nodes[n].created].node = n
    /\ \A e \in Events : events[e].node = n => nodes[n].created <= e

\* A version that summarizes a thread names it by its path, and the message
\* it goes up to by its id: the message is in the thread at that path, though
\* threads are deleted and others made in their place.
SummariesNameTheirThread ==
  \A e \in Events : events[e].thread # Top =>
    events[e].ref \in Messages /\ events[events[e].ref].node \in At(events[e].thread)

\* What points from one row to another leads to the row that was meant, by
\* any order of writes and deletes (delete_branch, delete_message, insert).
ReferencesAreSound == NothingDangles /\ EventsAreTheNodesOwn /\ SummariesNameTheirThread

\* The versions of a note are numbered 1, 2, ... in the order they were
\* saved, so a version number names one version.
VersionsChain ==
  \A n \in NodeId : \A e \in Versions(n) :
    /\ \A f \in Versions(n) : f < e => events[f].version < events[e].version
    /\ events[e].version = 1 \/ \E f \in Versions(n) : f < e /\ events[f].version + 1 = events[e].version

\* A message or item is archived exactly if the latest archive event about it
\* archived it, by that event: archive() answers a repeated request from the
\* events, and everything else reads the column.
ArchiveStateIsTheLatest ==
  \A t \in Events :
    LET latest == {e \in ArchiveEvents(t) : \A f \in ArchiveEvents(t) : f <= e} IN
    events[t].archived = IF \E e \in latest : events[e].type = "node_archived"
                         THEN CHOOSE e \in latest : TRUE ELSE None

\* An item is resolved by one event, in its own queue, and that event is the
\* one its row names.
ItemsFollowTheirEvents ==
  \A i \in Items :
    /\ events[i].type = "item_filed" /\ events[i].node = items[i].queue
    /\ {e \in Events : events[e].item = i /\ events[e].type \in Resolving}
         = {items[i].resolution} \ {None}
    /\ \A e \in Events : events[e].item = i => events[e].node = items[i].queue

\* The columns that reads go by agree with the log of events (archive,
\* resolve, close, set_note).
StateFollowsTheLog == ArchiveStateIsTheLatest /\ ItemsFollowTheirEvents /\ VersionsChain

\* A version is saved over what its writer has read, never over a version in
\* between that it has not: unless the note was deleted and another made in
\* its place, with as many versions.
NoUpdateIsLost ==
  [][\A e \in Events' \ Events :
       LET new == events'[e] IN
       new.type = "note_version" /\ new.node \in Nodes /\ seen[new.actor].created \in Events
         => Last(new.node) = {seen[new.actor].last} \ {None}]_vars
=============================================================================
