----------------------------- MODULE TreeProofs -----------------------------
(***************************************************************************)
(* The theorems of Tree.tla, for any paths, names and bounds: that no      *)
(* write or delete leaves a reference dangling or leading to another row   *)
(* than was meant, that the columns agree with the log of events, and that *)
(* no update of a note is lost.                                            *)
(***************************************************************************)
EXTENDS Tree, FiniteSetTheorems, WellFoundedInduction, TLAPS

(***************************************************************************)
(* The inductive invariant, row by row.                                    *)
(***************************************************************************)

\* Node n is at its own path, in the container its path says, and it has the event
\* that made it.
NodeOK(n) ==
  /\ IF Up[nodes[n].path] = Top THEN nodes[n].parent = None
     ELSE nodes[n].parent \in At(Up[nodes[n].path]) \cap OfKind("container")
  /\ At(nodes[n].path) = {n}
  /\ nodes[n].created \in Events
  /\ events[nodes[n].created].type = "node_created" /\ events[nodes[n].created].node = n

Referring == {"note_version", "item_answered"}

\* What event e says of rows is so, and its node was there before it.
EventOK(e) ==
  /\ e <= head /\ events[e].node \in Nodes /\ nodes[events[e].node].created <= e
  /\ events[e].item # None => events[e].item \in Items /\ items[events[e].item].queue = events[e].node
  /\ events[e].ref # None =>
       /\ events[e].ref \in Events
       /\ events[e].type \in Referring => events[e].ref \in Messages
  /\ events[e].type \in Archiving =>
       /\ events[e].ref \in Events
       /\ events[events[e].ref].type \in {"message", "item_filed"}
       /\ events[events[e].ref].node = events[e].node
  /\ events[e].type \notin Referring \cup Archiving => events[e].ref = None
  /\ events[e].thread # Top => events[e].ref \in Messages /\ events[events[e].ref].node \in At(events[e].thread)
  /\ events[e].type = "node_created" => nodes[events[e].node].created = e
  /\ events[e].type \in Resolving => events[e].item \in Items /\ items[events[e].item].resolution = e

\* A version is one more than one before it, or the first, and at most its event's id.
VersionOK(e) ==
  events[e].type = "note_version" =>
    /\ events[e].version \in 1..e
    /\ \A f \in Versions(events[e].node) : f < e => events[f].version < events[e].version
    /\ events[e].version = 1
       \/ \E f \in Versions(events[e].node) : f < e /\ events[f].version + 1 = events[e].version

\* The archived column of t is the latest of its archive events, if that archives it.
ArchivedOK(t) ==
  LET a == events[t].archived IN
  /\ a # None => /\ a \in ArchiveEvents(t) /\ events[a].type = "node_archived"
                 /\ \A f \in ArchiveEvents(t) : f <= a
  /\ a = None => \A f \in ArchiveEvents(t) : events[f].type = "node_archived" =>
                   \E g \in ArchiveEvents(t) : f < g

\* Item i is in its queue from its filing on, and its resolution is an event of its own.
ItemOK(i) ==
  /\ items[i].queue \in OfKind("queue")
  /\ i \in Events /\ events[i].type = "item_filed" /\ events[i].node = items[i].queue
  /\ items[i].resolution # None =>
       /\ items[i].resolution \in Events
       /\ events[items[i].resolution].type \in Resolving /\ events[items[i].resolution].item = i

\* What writer w has read is of a note that is gone, or of the one at its path still.
SeenOK(w) ==
  /\ seen[w].created <= head
  /\ seen[w].created \in Events =>
       LET n == events[seen[w].created].node IN
       /\ n \in Nodes /\ nodes[n].created = seen[w].created /\ nodes[n].path = seen[w].path
       /\ IF seen[w].last = None THEN seen[w].version = 0
          ELSE seen[w].last \in Versions(n) /\ events[seen[w].last].version = seen[w].version

Inv ==
  /\ TypeOK
  /\ \A n \in Nodes : NodeOK(n)
  /\ \A e \in Events : EventOK(e) /\ VersionOK(e) /\ ArchivedOK(e)
  /\ \A i \in Items : ItemOK(i)
  /\ \A w \in Name : SeenOK(w)

-----------------------------------------------------------------------------
(***************************************************************************)
(* What the tables hold.                                                   *)
(***************************************************************************)

LEMMA Bounds == /\ MaxHead \in Nat /\ MaxNode \in Nat /\ Id = 1..MaxHead /\ NodeId = 1..MaxNode
                /\ None \notin Id /\ None \notin NodeId /\ Id \subseteq Int
  BY TreeAssumption DEF Id, NodeId, None

LEMMA NoRows == NoNode \notin Node /\ NoEvent \notin Event /\ NoItem \notin Item
<1>1. NoNode \notin Node
  BY TreeAssumption DEF NoNode, Node
<1>2. NoEvent \notin Event
  <2>1. \A x \in Event : x.type # "none"
    BY DEF Event, Type
  <2> QED
    BY <2>1 DEF NoEvent
<1>3. NoItem \notin Item
  <2>1. \A x \in Item : x.queue # None
    BY Bounds DEF Item
  <2> QED
    BY <2>1 DEF NoItem
<1> QED
  BY <1>1, <1>2, <1>3

LEMMA RowsAre ==
  ASSUME TypeOK
  PROVE  /\ \A n : n \in Nodes <=> n \in NodeId /\ nodes[n] \in Node
         /\ \A e : e \in Events <=> e \in Id /\ events[e] \in Event
         /\ \A i : i \in Items <=> i \in Id /\ items[i] \in Item
  BY NoRows DEF TypeOK, Nodes, Events, Items

\* Rows x for the ids after the head.
LEMMA AppendedOne ==
  ASSUME TypeOK, head < MaxHead, NEW x
  PROVE  /\ head + 1 \in Id /\ Appended(<<x>>)[head + 1] = x /\ DOMAIN Appended(<<x>>) = Id
         /\ \A e \in Id \ {head + 1} : Appended(<<x>>)[e] = events[e]
         /\ Appended(<<x>>) = [events EXCEPT ![head + 1] = x]
<1>1. head \in Nat /\ head + 1 \in Id /\ Len(<<x>>) = 1 /\ <<x>>[1] = x /\ (head + 1) - head = 1
  BY Bounds DEF TypeOK
<1>2. \A e \in Id : e \in (head + 1)..(head + Len(<<x>>)) <=> e = head + 1
  BY <1>1, Bounds
<1>3. Appended(<<x>>) = [e \in Id |-> IF e = head + 1 THEN x ELSE events[e]]
  BY <1>1, <1>2 DEF Appended
<1> QED
  BY <1>1, <1>3 DEF TypeOK

LEMMA AppendedTwo ==
  ASSUME TypeOK, head + 2 <= MaxHead, NEW x, NEW y
  PROVE  /\ head + 1 \in Id /\ head + 2 \in Id
         /\ Appended(<<x, y>>) = [events EXCEPT ![head + 1] = x, ![head + 2] = y]
<1>1. /\ head \in Nat /\ head + 1 \in Id /\ head + 2 \in Id /\ Len(<<x, y>>) = 2
      /\ <<x, y>>[1] = x /\ <<x, y>>[2] = y /\ (head + 1) - head = 1 /\ (head + 2) - head = 2
      /\ head + 1 # head + 2
  BY Bounds DEF TypeOK
<1>2. \A e \in Id : e \in (head + 1)..(head + Len(<<x, y>>)) <=> e = head + 1 \/ e = head + 2
  BY <1>1, Bounds
<1>3. Appended(<<x, y>>) = [e \in Id |-> IF e = head + 1 THEN x ELSE IF e = head + 2 THEN y ELSE events[e]]
  BY <1>1, <1>2 DEF Appended
<1>4. [events EXCEPT ![head + 1] = x, ![head + 2] = y]
        = [e \in Id |-> IF e = head + 1 THEN x ELSE IF e = head + 2 THEN y ELSE events[e]]
  BY <1>1 DEF TypeOK
<1> QED
  BY <1>1, <1>3, <1>4

-----------------------------------------------------------------------------
(***************************************************************************)
(* The rows that a write leaves as they are.                               *)
(***************************************************************************)

Same(x, y) ==
  /\ x.type = y.type /\ x.node = y.node /\ x.item = y.item /\ x.ref = y.ref
  /\ x.version = y.version /\ x.thread = y.thread

\* A write only adds rows, resolves items and sets archived columns.
Grows ==
  /\ head' \in Nat /\ head <= head'
  /\ \A e \in Events : e \in Events' /\ Same(events'[e], events[e])
  /\ \A e \in Events' \ Events : e > head /\ e <= head'
  /\ \A n \in Nodes : n \in Nodes' /\ nodes'[n] = nodes[n]
  /\ \A n \in Nodes' \ Nodes : \A m \in Nodes : nodes'[n].path # nodes[m].path
  /\ \A i \in Items : /\ i \in Items' /\ items'[i].queue = items[i].queue
                      /\ items[i].resolution \in {None, items'[i].resolution}

LEMMA GrowsKeeps ==
  ASSUME Inv, TypeOK', Grows
  PROVE  /\ \A n \in Nodes : NodeOK(n)'
         /\ \A e \in Events : EventOK(e)' /\ VersionOK(e)'
         /\ \A i \in Items : items'[i].resolution = items[i].resolution => ItemOK(i)'
         /\ \A w \in Name : seen'[w] = seen[w] => SeenOK(w)'
<1>1. /\ TypeOK /\ head \in Nat /\ head' \in Nat /\ head <= head'
      /\ \A e \in Events : e \in Events' /\ Same(events'[e], events[e]) /\ e \in Int /\ e <= head /\ e # None
      /\ \A e \in Events' \ Events : e \in Int /\ e > head
      /\ \A e \in Events' : e \in Int
      /\ \A n \in Nodes : n \in Nodes' /\ nodes'[n] = nodes[n]
      /\ \A i \in Items : i \in Items' /\ items'[i].queue = items[i].queue
  BY Bounds DEF Inv, TypeOK, Grows, Events, EventOK
<1>2. /\ \A p : At(p) \subseteq At(p)'
      /\ \A n \in Nodes : At(nodes[n].path)' = At(nodes[n].path)
      /\ \A k : OfKind(k) \subseteq OfKind(k)'
  <2>1. \A p : At(p) \subseteq At(p)'
    BY <1>1 DEF At
  <2>2. \A n \in Nodes : At(nodes[n].path)' \subseteq At(nodes[n].path)
    BY <1>1 DEF At, Grows
  <2>3. \A k : OfKind(k) \subseteq OfKind(k)'
    BY <1>1 DEF OfKind
  <2> QED
    BY <1>1, <2>1, <2>2, <2>3
<1>3. Messages \subseteq Messages'
  BY <1>1 DEF Messages, Same
<1>4. ASSUME NEW n \in Nodes PROVE NodeOK(n)'
  <2>1. NodeOK(n) /\ nodes'[n] = nodes[n] /\ nodes[n].created \in Events
    BY <1>1 DEF Inv, NodeOK
  <2>2. Same(events'[nodes[n].created], events[nodes[n].created]) /\ nodes[n].created \in Events'
    BY <1>1, <2>1
  <2> QED
    BY <1>2, <2>1, <2>2 DEF NodeOK, Same
<1>5. ASSUME NEW e \in Events PROVE EventOK(e)'
  <2>1. EventOK(e) /\ Same(events'[e], events[e]) /\ e <= head'
    BY <1>1 DEF Inv
  <2>2. events[e].node \in Nodes' /\ nodes'[events[e].node] = nodes[events[e].node]
    BY <1>1, <2>1 DEF EventOK
  <2>3. events[e].item # None => events[e].item \in Items' /\ items'[events[e].item].queue = events[e].node
    BY <1>1, <2>1 DEF EventOK
  <2>4. events[e].ref # None =>
          /\ events[e].ref \in Events /\ events[e].ref \in Events' /\ Same(events'[events[e].ref], events[events[e].ref])
          /\ events[e].type \in Referring => events[e].ref \in Messages'
    BY <1>1, <1>3, <2>1 DEF EventOK
  <2>5. events[e].type \in Resolving => events[e].item \in Items' /\ items'[events[e].item].resolution = e
    <3> SUFFICES ASSUME events[e].type \in Resolving
                 PROVE  events[e].item \in Items' /\ items'[events[e].item].resolution = e
      OBVIOUS
    <3>1. events[e].item \in Items /\ items[events[e].item].resolution = e
      BY <2>1 DEF EventOK
    <3> QED
      BY <1>1, <3>1 DEF Grows
  <2>6. events[e].thread # Top =>
          events[e].ref \in Messages' /\ events'[events[e].ref].node \in At(events[e].thread)'
    <3> SUFFICES ASSUME events[e].thread # Top
                 PROVE  events[e].ref \in Messages' /\ events'[events[e].ref].node \in At(events[e].thread)'
      OBVIOUS
    <3>1. events[e].ref \in Messages /\ events[events[e].ref].node \in At(events[e].thread)
      BY <2>1 DEF EventOK
    <3>2. Same(events'[events[e].ref], events[events[e].ref])
      BY <1>1, <3>1 DEF Messages
    <3> QED
      BY <1>2, <1>3, <2>1, <3>1, <3>2 DEF Same
  <2>7. events[e].type \in Archiving =>
          /\ events[e].ref \in Events'
          /\ events'[events[e].ref].type \in {"message", "item_filed"}
          /\ events'[events[e].ref].node = events[e].node
    BY <1>1, <2>1 DEF EventOK, Same
  <2> QED
    BY <2>1, <2>2, <2>3, <2>4, <2>5, <2>6, <2>7 DEF EventOK, Same
<1>6. ASSUME NEW e \in Events PROVE VersionOK(e)'
  <2> SUFFICES ASSUME events'[e].type = "note_version" PROVE VersionOK(e)'
    BY DEF VersionOK
  <2> DEFINE n == events[e].node
  <2>1. VersionOK(e) /\ Same(events'[e], events[e]) /\ events[e].type = "note_version"
    BY <1>1 DEF Inv, Same
  <2>2. \A f \in Versions(n)' : f <= e => f \in Versions(n) /\ events'[f].version = events[f].version
    BY <1>1 DEF Versions, Same
  <2>3. \A f \in Versions(n) : f \in Versions(n)' /\ events'[f].version = events[f].version
    BY <1>1 DEF Versions, Same
  <2>4. \A f \in Versions(n)' : f < e => events'[f].version < events'[e].version
    <3>1. \A f \in Versions(n)' : f \in Int
      BY <1>1 DEF Versions
    <3> QED
      BY <1>1, <2>1, <2>2, <3>1 DEF VersionOK, Same
  <2>5. \/ events'[e].version = 1
        \/ \E f \in Versions(n)' : f < e /\ events'[f].version + 1 = events'[e].version
    BY <2>1, <2>3 DEF VersionOK, Same
  <2> QED
    BY <2>1, <2>4, <2>5 DEF VersionOK, Same
<1>7. ASSUME NEW i \in Items, items'[i].resolution = items[i].resolution PROVE ItemOK(i)'
  <2>1. ItemOK(i) /\ items'[i].queue = items[i].queue
    BY <1>1 DEF Inv
  <2>2. items[i].queue \in OfKind("queue")'
    BY <1>2, <2>1 DEF ItemOK
  <2>3. i \in Events' /\ Same(events'[i], events[i])
    BY <1>1, <2>1 DEF ItemOK
  <2>4. items[i].resolution # None =>
          /\ items[i].resolution \in Events'
          /\ Same(events'[items[i].resolution], events[items[i].resolution])
    BY <1>1, <2>1 DEF ItemOK
  <2> QED
    BY <1>7, <2>1, <2>2, <2>3, <2>4 DEF ItemOK, Same
<1>8. ASSUME NEW w \in Name, seen'[w] = seen[w] PROVE SeenOK(w)'
  <2>1. SeenOK(w) /\ seen[w].created \in Int
    BY <1>1, Bounds DEF Inv, TypeOK, Seen, None
  <2>2. seen[w].created <= head'
    BY <1>1, <2>1 DEF SeenOK
  <2>3. CASE seen[w].created \in Events'
    <3>1. seen[w].created \in Events
      BY <1>1, <2>1, <2>3 DEF SeenOK
    <3>0. PICK n : n = events[seen[w].created].node
      OBVIOUS
    <3>2. /\ n \in Nodes /\ nodes[n].created = seen[w].created /\ nodes[n].path = seen[w].path
          /\ IF seen[w].last = None THEN seen[w].version = 0
             ELSE seen[w].last \in Versions(n) /\ events[seen[w].last].version = seen[w].version
      BY <2>1, <3>0, <3>1 DEF SeenOK
    <3>3. \A f \in Versions(n) : f \in Versions(n)' /\ events'[f].version = events[f].version
      BY <1>1 DEF Versions, Same
    <3>4. events'[seen[w].created].node = n
      BY <1>1, <3>0, <3>1 DEF Same
    <3>5. n \in Nodes' /\ nodes'[n] = nodes[n]
      BY <1>1, <3>2
    <3> QED
      BY <1>8, <2>2, <3>2, <3>3, <3>4, <3>5 DEF SeenOK
  <2>4. CASE seen[w].created \notin Events'
    BY <1>8, <2>2, <2>4 DEF SeenOK
  <2> QED
    BY <2>3, <2>4
<1> QED
  BY <1>4, <1>5, <1>6, <1>7, <1>8

\* A column that is not set follows archive events that are not new.
LEMMA ArchivedStays ==
  ASSUME Inv, Grows, NEW t \in Events, events'[t].archived = events[t].archived,
         \A e \in Events' \ Events : events'[e].ref = t => events'[e].type \notin Archiving
  PROVE  ArchivedOK(t)'
<1>1. /\ \A e \in Events : e \in Events' /\ Same(events'[e], events[e])
      /\ ArchivedOK(t)
  BY DEF Inv, Grows
<1>2. ArchiveEvents(t)' = ArchiveEvents(t)
  BY <1>1 DEF ArchiveEvents, Same
<1>3. \A e \in ArchiveEvents(t) : events'[e].type = events[e].type
  BY <1>1 DEF ArchiveEvents, Same
<1> QED
  BY <1>1, <1>2, <1>3 DEF ArchivedOK

-----------------------------------------------------------------------------
(***************************************************************************)
(* The versions of a note.                                                 *)
(***************************************************************************)

LEMMA HasLargest ==
  ASSUME NEW S, S \subseteq Id, S # {}
  PROVE  \E e \in S : \A f \in S : f <= e
<1> DEFINE T == {MaxHead - e : e \in S}
<1>1. T \subseteq Nat /\ T # {}
  <2>1. \A e \in S : e \in 1..MaxHead
    BY Bounds
  <2>2. \A e \in S : MaxHead - e \in Nat
    BY <2>1, Bounds
  <2> QED
    BY <2>2
<1>2. PICK d \in T : \A c \in T : <<c, d>> \notin OpToRel(<, Nat)
  <2> HIDE DEF T
  <2> QED
    BY <1>1, NatLessThanWellFounded, WFMin
<1>3. \A c \in T : ~(c < d)
  BY <1>1, <1>2 DEF OpToRel
<1>4. PICK e \in S : d = MaxHead - e
  OBVIOUS
<1>5. ASSUME NEW f \in S PROVE f <= e
  <2>1. ~(MaxHead - f < MaxHead - e)
    BY <1>3, <1>4
  <2> QED
    BY <2>1, Bounds
<1> QED
  BY <1>5

\* The current version is that of the last event, and no other has its number.
LEMMA CurrentIs ==
  ASSUME Inv, NEW n
  PROVE  \/ Versions(n) = {} /\ Last(n) = {} /\ CurrentVersion(n) = 0
         \/ \E l \in Versions(n) :
              /\ Last(n) = {l} /\ CurrentVersion(n) = events[l].version
              /\ \A f \in Versions(n) : f = l \/ (f < l /\ events[f].version < events[l].version)
<1>1. CASE Versions(n) = {}
  BY <1>1 DEF Last, CurrentVersion
<1>2. CASE Versions(n) # {}
  <2>1. Versions(n) \subseteq Id /\ \A e \in Versions(n) : e \in Int /\ VersionOK(e)
                                                          /\ events[e].node = n /\ events[e].type = "note_version"
    BY Bounds DEF Inv, Versions, Events
  <2>2. PICK l \in Versions(n) : \A f \in Versions(n) : f <= l
    BY <1>2, <2>1, HasLargest
  <2>3. Last(n) = {l}
    BY <2>1, <2>2 DEF Last
  <2>4. CurrentVersion(n) = events[l].version
    <3>1. (CHOOSE e \in Last(n) : TRUE) = l
      BY <2>3
    <3> QED
      BY <1>2, <3>1 DEF CurrentVersion
  <2>5. \A f \in Versions(n) : f = l \/ (f < l /\ events[f].version < events[l].version)
    BY <2>1, <2>2 DEF VersionOK
  <2> QED
    BY <2>3, <2>4, <2>5
<1> QED
  BY <1>1, <1>2

-----------------------------------------------------------------------------
(***************************************************************************)
(* The writes.                                                             *)
(***************************************************************************)

\* A write of one event x, with the item it files or resolves.
Filed(x, i) == /\ i = head + 1 /\ x.type = "item_filed" /\ x.item = i /\ x.node \in OfKind("queue")
               /\ items'[i].queue = x.node /\ items'[i].resolution = None
Resolved(x, i) == /\ i \in Items /\ x.item = i /\ x.type \in Resolving
                  /\ items'[i].queue = items[i].queue
                  /\ items[i].resolution = None /\ items'[i].resolution = head + 1

LEMMA AppendInv ==
  ASSUME Inv, head < MaxHead, NEW x \in Event, events' = Appended(<<x>>), head' = head + 1,
         nodes' = nodes, seen' = seen, items' \in [Id -> Item \cup {NoItem}], Items \subseteq Items',
         x.type \notin Archiving \cup {"node_created"}, x.archived = None, x.node \in Nodes,
         x.item # None => x.item \in Items' /\ items'[x.item].queue = x.node,
         x.ref # None => x.type \in Referring /\ x.ref \in Messages,
         x.thread # Top => x.ref # None /\ events[x.ref].node \in At(x.thread),
         x.type = "note_version" => x.version = CurrentVersion(x.node) + 1,
         x.type \in Resolving => x.item \in Items /\ Resolved(x, x.item),
         \A i \in Items' : (i \in Items /\ items'[i] = items[i]) \/ Filed(x, i) \/ Resolved(x, i)
  PROVE  Inv'
<1>0. PICK h : h = head + 1
  OBVIOUS
<1>1. /\ TypeOK /\ head \in Nat /\ MaxHead \in Nat /\ h \in Id /\ h \in Int /\ None \notin Id
      /\ \A e \in Events : e \in Id /\ e \in Int /\ e <= head /\ events[e].ref # h /\ events[e] \in Event
  <2>1. TypeOK /\ head \in Nat /\ MaxHead \in Nat /\ h \in Id /\ h \in Int /\ None \notin Id
    BY <1>0, Bounds DEF Inv, TypeOK
  <2>2. \A e \in Events : e \in Id /\ e \in Int /\ e <= head /\ events[e] \in Event
    BY <2>1, RowsAre, Bounds DEF Inv, EventOK
  <2>3. \A e \in Events : events[e].ref = None \/ events[e].ref \in Events
    BY DEF Inv, EventOK
  <2> QED
    BY <1>0, <2>1, <2>2, <2>3
<1>2. h \notin Events
  BY <1>0, <1>1
<1>3. events' = [events EXCEPT ![h] = x]
  BY <1>0, <1>1, AppendedOne
<1>4. TypeOK'
  BY <1>0, <1>1, <1>3 DEF Inv, TypeOK
<1>5. /\ Events' = Events \cup {h} /\ events'[h] = x
      /\ \A e \in Events : events'[e] = events[e]
  <2>1. events'[h] = x /\ \A e \in Id \ {h} : events'[e] = events[e]
    BY <1>1, <1>3 DEF TypeOK
  <2>2. \A e : e \in Events' <=> e \in Id /\ events'[e] \in Event
    BY <1>4, NoRows DEF TypeOK, Events
  <2>3. \A e : e \in Events <=> e \in Id /\ events[e] \in Event
    BY <1>1, RowsAre
  <2> QED
    BY <1>1, <1>2, <2>1, <2>2, <2>3
<1>6. Nodes' = Nodes /\ (\A p : At(p)' = At(p)) /\ (\A k : OfKind(k)' = OfKind(k))
  BY DEF Nodes, At, OfKind
<1>7. Grows
  <2>1. \A e \in Events : e \in Events' /\ Same(events'[e], events[e])
    BY <1>5 DEF Same
  <2>2. \A e \in Events' \ Events : e > head /\ e <= head'
    BY <1>0, <1>1, <1>5
  <2>3. \A i \in Items : /\ i \in Items' /\ items'[i].queue = items[i].queue
                         /\ items[i].resolution \in {None, items'[i].resolution}
    <3>1. \A i \in Items : i # h
      BY <1>2 DEF Inv, ItemOK
    <3> QED
      BY <1>0, <3>1 DEF Filed, Resolved
  <2> QED
    BY <1>1, <1>6, <2>1, <2>2, <2>3 DEF Grows
<1>8. Messages \subseteq Messages'
  BY <1>5 DEF Messages
<1>9. EventOK(h)'
  <2>1. x.node \in Nodes' /\ nodes'[x.node].created <= h
    <3>1. NodeOK(x.node)
      BY DEF Inv
    <3> QED
      BY <1>0, <1>1, <1>6, <3>1 DEF Inv, NodeOK, EventOK
  <2>2. x.ref # None => x.ref \in Events' /\ x.ref \in Messages'
    BY <1>5, <1>8 DEF Messages
  <2>3. x.thread # Top => x.ref \in Messages' /\ events'[x.ref].node \in At(x.thread)'
    BY <1>5, <1>6, <1>8 DEF Messages
  <2>4. x.type \in Resolving => x.item \in Items' /\ items'[x.item].resolution = h
    BY <1>0 DEF Resolved
  <2>5. x.ref # None => x.type \in Referring
    OBVIOUS
  <2>6. h <= head'
    BY <1>0, <1>1
  <2>7. At(x.thread)' = At(x.thread) /\ x.type # "node_created" /\ x.type \notin Archiving
    BY <1>6
  <2> QED
    BY <1>5, <1>6, <2>1, <2>2, <2>3, <2>4, <2>5, <2>6, <2>7 DEF EventOK
<1>10. VersionOK(h)'
  <2> SUFFICES ASSUME x.type = "note_version" PROVE VersionOK(h)'
    BY <1>5 DEF VersionOK
  <2>1. Versions(x.node)' = Versions(x.node) \cup {h}
    BY <1>5 DEF Versions
  <2>2. \A f \in Versions(x.node) : /\ f \in Int /\ f <= head /\ events'[f] = events[f] /\ VersionOK(f)
                                    /\ events[f].version \in 1..f
    BY <1>0, <1>1, <1>5 DEF Versions, Inv, VersionOK
  <2>3. CASE Versions(x.node) = {} /\ CurrentVersion(x.node) = 0
    BY <1>0, <1>1, <1>5, <2>1, <2>3 DEF VersionOK
  <2>4. CASE \E l \in Versions(x.node) :
              /\ CurrentVersion(x.node) = events[l].version
              /\ \A f \in Versions(x.node) : f = l \/ (f < l /\ events[f].version < events[l].version)
    <3>1. PICK l \in Versions(x.node) :
              /\ CurrentVersion(x.node) = events[l].version
              /\ \A f \in Versions(x.node) : f = l \/ (f < l /\ events[f].version < events[l].version)
      BY <2>4
    <3>2. x.version = events[l].version + 1 /\ events[l].version \in 1..l /\ l \in Int /\ l <= head
      BY <2>2, <3>1
    <3>3. x.version \in 1..h
      BY <1>0, <1>1, <3>2
    <3>4. \A f \in Versions(x.node) : events[f].version < x.version /\ f < h
      BY <1>0, <1>1, <2>2, <3>1, <3>2
    <3>5. \A f \in Versions(x.node)' : f < h => events'[f].version < x.version
      BY <1>0, <1>1, <2>1, <2>2, <3>4
    <3>6. l \in Versions(x.node)' /\ l < h /\ events'[l].version + 1 = x.version
      BY <1>0, <1>1, <2>1, <2>2, <3>1, <3>2, <3>4
    <3> QED
      BY <1>5, <3>3, <3>5, <3>6 DEF VersionOK
  <2> QED
    BY <2>3, <2>4, CurrentIs
<1>11. ArchivedOK(h)'
  <2>1. ArchiveEvents(h)' = {}
    BY <1>0, <1>1, <1>5 DEF ArchiveEvents
  <2> QED
    BY <1>5, <2>1 DEF ArchivedOK
<1>12. \A t \in Events : ArchivedOK(t)'
  BY <1>5, <1>7, ArchivedStays
<1>13. ASSUME NEW i \in Items' PROVE ItemOK(i)'
  <2>1. CASE i \in Items /\ items'[i] = items[i]
    BY <1>4, <1>7, <2>1, GrowsKeeps
  <2>2. CASE Filed(x, i)
    BY <1>0, <1>5, <1>6, <2>2 DEF Filed, ItemOK
  <2>3. CASE Resolved(x, i)
    <3>1. ItemOK(i)
      BY <2>3 DEF Inv, Resolved
    <3> QED
      BY <1>0, <1>5, <1>6, <2>3, <3>1 DEF Resolved, ItemOK
  <2> QED
    BY <2>1, <2>2, <2>3
<1> QED
  BY <1>4, <1>5, <1>6, <1>7, <1>9, <1>10, <1>11, <1>12, <1>13, GrowsKeeps DEF Inv

\* The rows that guards speak of.
LEMMA GuardsMean ==
  ASSUME Inv
  PROVE  /\ TypeOK /\ head \in Nat
         /\ \A n \in Nodes : n \in NodeId /\ nodes[n] \in Node
         /\ \A e \in Events : e \in Id /\ events[e] \in Event
         /\ \A i \in Items : i \in Id /\ items[i] \in Item /\ items[i].queue \in OfKind("queue")
         /\ \A k : OfKind(k) \subseteq Nodes
         /\ Messages \subseteq Events
         /\ head + 1 \notin Events /\ head + 1 \notin Items
<1>1. TypeOK /\ head \in Nat
  BY Bounds DEF Inv, TypeOK
<1>2. \A i \in Items : i \in Events /\ items[i].queue \in OfKind("queue")
  BY DEF Inv, ItemOK
<1>3. head + 1 \notin Events
  BY <1>1 DEF Inv, EventOK
<1> QED
  BY <1>1, <1>2, <1>3, RowsAre DEF OfKind, Messages

\* A new event on node n is a row, with the columns that are set.
LEMMA NewIs ==
  ASSUME NEW type \in Type, NEW n \in NodeId
  PROVE  /\ New(type, n) \in Event
         /\ New(type, n).type = type /\ New(type, n).node = n /\ New(type, n).item = None
         /\ New(type, n).ref = None /\ New(type, n).version = 0 /\ New(type, n).thread = Top
         /\ New(type, n).archived = None
  BY Bounds DEF New, Event, None

LEMMA CurrentAtMost ==
  ASSUME Inv, NEW n
  PROVE  CurrentVersion(n) \in 0..head
<1>1. CASE CurrentVersion(n) = 0
  BY <1>1, GuardsMean
<1>2. CASE \E l \in Versions(n) : CurrentVersion(n) = events[l].version
  <2>1. PICK l \in Versions(n) : CurrentVersion(n) = events[l].version
    BY <1>2
  <2>2. events[l].version \in 1..l /\ l <= head /\ l \in Int
    BY <2>1, GuardsMean, Bounds DEF Versions, Inv, VersionOK, EventOK
  <2> QED
    BY <2>1, <2>2, GuardsMean
<1> QED
  BY <1>1, <1>2, CurrentIs

LEMMA PostInv ==
  ASSUME Inv, NEW n \in Nodes, Post(n)
  PROVE  Inv'
<1>1. n \in NodeId /\ head \in Nat /\ TypeOK
  BY GuardsMean
<1>2. PICK x : x = New("message", n)
  OBVIOUS
<1>3. /\ x \in Event /\ x.type = "message" /\ x.node = n /\ x.item = None /\ x.ref = None
      /\ x.thread = Top /\ x.archived = None
  BY <1>1, <1>2, NewIs DEF Type
<1>4. /\ head < MaxHead /\ events' = Appended(<<x>>) /\ head' = head + 1
      /\ nodes' = nodes /\ items' = items /\ seen' = seen
  BY <1>1, <1>2, Bounds DEF Post, AppendAll
<1>5. Items' = Items /\ items' \in [Id -> Item \cup {NoItem}]
  BY <1>1, <1>4 DEF Items, TypeOK
<1> QED
  BY <1>3, <1>4, <1>5, AppendInv DEF Archiving, Resolving

LEMMA SaveInv ==
  ASSUME Inv, NEW w \in Name, NEW n \in Nodes, NEW p \in Path \cup {Top}, NEW m \in Messages \cup {None},
         Save(w, n, p, m)
  PROVE  Inv'
<1>1. n \in NodeId /\ head \in Nat /\ TypeOK /\ Messages \subseteq Id
  BY GuardsMean
<1>2. PICK x : x = [NewVersion(n, CurrentVersion(n) + 1, w) EXCEPT !.ref = m, !.thread = p]
  OBVIOUS
<1>3. head < MaxHead
  BY <1>1, Bounds DEF Save, AppendAll
<1>4. CurrentVersion(n) + 1 \in 0..MaxHead
  BY <1>1, <1>3, CurrentAtMost, Bounds
<1>5. x = [type |-> "note_version", node |-> n, item |-> None, ref |-> m,
           version |-> CurrentVersion(n) + 1, thread |-> p, actor |-> w, archived |-> None]
  BY <1>2 DEF NewVersion, New
<1>6. x \in Event
  BY <1>1, <1>4, <1>5 DEF Event, Type
<1>7. /\ events' = Appended(<<x>>) /\ head' = head + 1
      /\ nodes' = nodes /\ items' = items /\ seen' = seen
  BY <1>1, <1>2 DEF Save, AppendAll
<1>8. Items' = Items /\ items' \in [Id -> Item \cup {NoItem}]
  BY <1>1, <1>7 DEF Items, TypeOK
<1>9. x.thread # Top => x.ref # None /\ events[x.ref].node \in At(x.thread)
  BY <1>1, <1>5, Bounds DEF Save, MaySummarize
<1> QED
  BY <1>3, <1>5, <1>6, <1>7, <1>8, <1>9, AppendInv DEF Archiving, Resolving, Referring

LEMMA FileInv ==
  ASSUME Inv, NEW w \in Name, NEW n \in Nodes, File(w, n)
  PROVE  Inv'
<1>1. n \in NodeId /\ head \in Nat /\ TypeOK /\ n \in OfKind("queue") /\ head + 1 \notin Items
  BY GuardsMean DEF File
<1>0. PICK h : h = head + 1
  OBVIOUS
<1>2. PICK x : x = [New("item_filed", n) EXCEPT !.item = h]
  OBVIOUS
<1>3. head < MaxHead /\ h \in Id
  BY <1>0, <1>1, Bounds DEF File, AppendAll
<1>4. x = [type |-> "item_filed", node |-> n, item |-> h, ref |-> None, version |-> 0,
           thread |-> Top, actor |-> Top, archived |-> None]
  BY <1>2 DEF New
<1>5. x \in Event
  BY <1>1, <1>3, <1>4, Bounds DEF Event, Type
<1>6. /\ events' = Appended(<<x>>) /\ head' = head + 1 /\ nodes' = nodes /\ seen' = seen
      /\ items' = [items EXCEPT ![h] = [queue |-> n, asker |-> w, resolution |-> None]]
  BY <1>0, <1>1, <1>2 DEF File, AppendAll
<1>7. items' \in [Id -> Item \cup {NoItem}]
  BY <1>1, <1>3, <1>6 DEF TypeOK, Item
<1>8. /\ items'[h].queue = n /\ items'[h].resolution = None /\ items'[h] # NoItem
      /\ \A i \in Id \ {h} : items'[i] = items[i]
  BY <1>1, <1>3, <1>6, Bounds DEF TypeOK, NoItem
<1>9. Items' = Items \cup {h}
  BY <1>3, <1>8 DEF Items
<1>10. \A i \in Items' : (i \in Items /\ items'[i] = items[i]) \/ Filed(x, i)
  BY <1>0, <1>1, <1>4, <1>8, <1>9, GuardsMean DEF Filed
<1>11. x.item \in Items' /\ items'[x.item].queue = x.node
  BY <1>4, <1>8, <1>9
<1> QED
  BY <1>3, <1>4, <1>5, <1>6, <1>7, <1>9, <1>10, <1>11, AppendInv DEF Archiving, Resolving, Referring

LEMMA ResolveInv ==
  ASSUME Inv, NEW w \in Name, NEW i \in Items, NEW type \in Resolving, NEW m \in Messages \cup {None},
         Resolve(w, i, type, m)
  PROVE  Inv'
<1>1. /\ i \in Id /\ items[i] \in Item /\ items[i].queue \in Nodes /\ items[i].queue \in NodeId
      /\ head \in Nat /\ TypeOK /\ Messages \subseteq Id
  BY GuardsMean DEF OfKind
<1>0. PICK h : h = head + 1
  OBVIOUS
<1>2. PICK x : x = [New(type, items[i].queue) EXCEPT !.item = i, !.ref = m]
  OBVIOUS
<1>3. head < MaxHead /\ h \in Id
  BY <1>0, <1>1, Bounds DEF Resolve, AppendAll
<1>4. x = [type |-> type, node |-> items[i].queue, item |-> i, ref |-> m, version |-> 0,
           thread |-> Top, actor |-> Top, archived |-> None]
  BY <1>2 DEF New
<1>5. x \in Event
  BY <1>1, <1>3, <1>4, Bounds DEF Event, Type, Resolving
<1>6. /\ events' = Appended(<<x>>) /\ head' = head + 1 /\ nodes' = nodes /\ seen' = seen
      /\ items' = [items EXCEPT ![i].resolution = h]
  BY <1>0, <1>1, <1>2 DEF Resolve, AppendAll
<1>7. /\ items'[i] = [items[i] EXCEPT !.resolution = h]
      /\ \A j \in Id \ {i} : items'[j] = items[j]
  BY <1>1, <1>6 DEF TypeOK
<1>8. items'[i] \in Item /\ items'[i].queue = items[i].queue /\ items'[i].resolution = h
  BY <1>1, <1>3, <1>7 DEF Item
<1>9. items' \in [Id -> Item \cup {NoItem}]
  BY <1>1, <1>6, <1>7, <1>8 DEF TypeOK
<1>10. Items' = Items
  BY <1>1, <1>7, <1>8, NoRows DEF Items
<1>11. Resolved(x, i)
  BY <1>0, <1>4, <1>8 DEF Resolve, IsOpen, Resolved
<1>12. \A j \in Items' : (j \in Items /\ items'[j] = items[j]) \/ Resolved(x, j)
  BY <1>7, <1>10, <1>11, GuardsMean
<1>13. x.ref # None => x.type \in Referring /\ x.ref \in Messages
  BY <1>4 DEF Resolve, Referring
<1>14. x.type \notin Archiving \cup {"node_created"} /\ x.type # "note_version"
  BY <1>4 DEF Archiving, Resolving
<1>15. x.archived = None /\ x.node \in Nodes /\ x.item = i /\ x.thread = Top /\ items'[i].queue = x.node
  BY <1>1, <1>4, <1>8
<1> QED
  BY <1>3, <1>5, <1>6, <1>9, <1>10, <1>11, <1>12, <1>13, <1>14, <1>15, AppendInv

LEMMA ReadInv ==
  ASSUME Inv, NEW w \in Name, NEW n \in Nodes, Read(w, n)
  PROVE  Inv'
<1>1. TypeOK /\ head \in Nat /\ head <= MaxHead /\ n \in NodeId /\ nodes[n] \in Node
  BY GuardsMean DEF TypeOK
<1> DEFINE latest == IF Versions(n) = {} THEN None ELSE CHOOSE e \in Last(n) : TRUE
           r == [path |-> nodes[n].path, version |-> CurrentVersion(n), created |-> nodes[n].created,
                 last |-> latest]
<1>2. PICK s : s = r
  <2> HIDE DEF r
  <2> QED
    OBVIOUS
<1>3. /\ seen' = [seen EXCEPT ![w] = s]
      /\ nodes' = nodes /\ events' = events /\ items' = items /\ head' = head
  BY <1>2 DEF Read
<1>4. /\ IF s.last = None THEN s.version = 0
         ELSE s.last \in Versions(n) /\ events[s.last].version = s.version
      /\ s.last \in Versions(n) \cup {None}
  <2>1. CASE Versions(n) = {} /\ CurrentVersion(n) = 0
    BY <1>2, <2>1
  <2>2. CASE \E l \in Versions(n) : Last(n) = {l} /\ CurrentVersion(n) = events[l].version
    <3>1. PICK e \in Versions(n) : Last(n) = {e} /\ CurrentVersion(n) = events[e].version
      BY <2>2
    <3>2. s.last = e /\ s.version = events[e].version
      BY <1>2, <3>1
    <3>3. e # None
      BY <3>1, GuardsMean, Bounds DEF Versions
    <3> QED
      BY <3>1, <3>2, <3>3
  <2> QED
    BY <2>1, <2>2, CurrentIs
<1>5. s \in Seen
  <2>1. Versions(n) \subseteq Id
    BY Bounds DEF Versions, Events
  <2>2. CurrentVersion(n) \in 0..MaxHead
    BY <1>1, CurrentAtMost, Bounds
  <2>3. nodes[n].path \in Path /\ nodes[n].created \in Id
    BY <1>1 DEF Node
  <2> QED
    BY <1>2, <1>4, <2>1, <2>2, <2>3 DEF Seen
<1>6. TypeOK'
  BY <1>1, <1>3, <1>5 DEF TypeOK
<1>7. /\ Nodes' = Nodes /\ Events' = Events /\ Items' = Items
      /\ \A m : Versions(m)' = Versions(m)
  BY <1>3 DEF Nodes, Events, Items, Versions
<1>8. \A m \in Nodes' : NodeOK(m)'
  BY <1>3, <1>7 DEF Inv, NodeOK, At, OfKind
<1>9. ASSUME NEW e \in Events' PROVE EventOK(e)' /\ VersionOK(e)' /\ ArchivedOK(e)'
  <2>1. EventOK(e) /\ VersionOK(e) /\ ArchivedOK(e)
    BY <1>7 DEF Inv
  <2>2. EventOK(e)'
    BY <1>3, <1>7, <2>1 DEF EventOK, At, Messages
  <2>3. VersionOK(e)'
    BY <1>3, <1>7, <2>1 DEF VersionOK
  <2>4. ArchivedOK(e)'
    BY <1>3, <1>7, <2>1 DEF ArchivedOK, ArchiveEvents
  <2> QED
    BY <2>2, <2>3, <2>4
<1>10. \A i \in Items' : ItemOK(i)'
  BY <1>3, <1>7 DEF Inv, ItemOK, OfKind
<1>11. ASSUME NEW v \in Name PROVE SeenOK(v)'
  <2>1. CASE v = w
    <3>1. seen'[w] = s /\ s.created = nodes[n].created /\ s.path = nodes[n].path
      BY <1>1, <1>2, <1>3 DEF TypeOK
    <3>2. NodeOK(n) /\ nodes[n].created <= head
      BY DEF Inv, NodeOK, EventOK
    <3>3. events[s.created].node = n
      BY <3>1, <3>2 DEF NodeOK
    <3> QED
      BY <1>3, <1>4, <1>7, <2>1, <3>1, <3>2, <3>3 DEF SeenOK
  <2>2. CASE v # w
    <3>1. seen'[v] = seen[v] /\ SeenOK(v)
      BY <1>1, <1>3, <2>2 DEF TypeOK, Inv
    <3> QED
      BY <1>3, <1>7, <3>1 DEF SeenOK
  <2> QED
    BY <2>1, <2>2
<1> QED
  BY <1>6, <1>8, <1>9, <1>10, <1>11 DEF Inv

\* The owner's archiving of t is the latest event about it.
LEMMA ArchiveInv ==
  ASSUME Inv, NEW t \in Events, NEW type \in Archiving, Archive(t, type)
  PROVE  Inv'
<1>0. PICK h : h = head + 1
  OBVIOUS
<1>1. /\ TypeOK /\ head \in Nat /\ head < MaxHead /\ h \in Id /\ t \in Id /\ h # t
      /\ events[t] \in Event /\ events[t].node \in NodeId /\ h \notin Events /\ h # None /\ t # None
  BY <1>0, GuardsMean, Bounds DEF Archive, Event
<1>2. PICK x : x = [New(type, events[t].node) EXCEPT !.item = events[t].item, !.ref = t]
  OBVIOUS
<1>3. x = [type |-> type, node |-> events[t].node, item |-> events[t].item, ref |-> t, version |-> 0,
           thread |-> Top, actor |-> Top, archived |-> None]
  BY <1>2 DEF New
<1>4. x \in Event
  BY <1>1, <1>3, Bounds DEF Event, Type, Archiving
<1>5. PICK a : a = ArchivedBy(type, h)
  OBVIOUS
<1>6. /\ events' = [[events EXCEPT ![h] = x] EXCEPT ![t].archived = a]
      /\ head' = h /\ nodes' = nodes /\ items' = items /\ seen' = seen
  BY <1>0, <1>1, <1>2, <1>5, AppendedOne DEF Archive
<1>7. /\ events'[h] = x
      /\ events'[t] = [events[t] EXCEPT !.archived = a]
      /\ \A e \in Id \ {h, t} : events'[e] = events[e]
  BY <1>1, <1>6 DEF TypeOK
<1>8. /\ events'[t] \in Event /\ Same(events'[t], events[t]) /\ events'[t].archived = a
  BY <1>0, <1>1, <1>5, <1>7 DEF Event, Same, ArchivedBy, None
<1>9. TypeOK'
  <2>1. events' \in [Id -> Event \cup {NoEvent}]
    BY <1>1, <1>4, <1>6, <1>7, <1>8 DEF TypeOK
  <2>2. head' \in 0..MaxHead
    BY <1>0, <1>1, <1>6, Bounds
  <2> QED
    BY <1>6, <2>1, <2>2 DEF Inv, TypeOK
<1>10. Events' = Events \cup {h}
  BY <1>1, <1>4, <1>7, <1>8, NoRows DEF Events
<1>11. /\ Nodes' = Nodes /\ Items' = Items /\ (\A p : At(p)' = At(p)) /\ (\A k : OfKind(k)' = OfKind(k))
  BY <1>6 DEF Nodes, Items, At, OfKind
<1>12. \A e \in Events : e \in Id /\ e # h /\ e <= head /\ Same(events'[e], events[e])
  BY <1>1, <1>7, <1>8, GuardsMean DEF Same, Inv, EventOK
<1>13. Grows
  <2>1. h > head /\ h <= h /\ head <= h /\ h \in Nat
    BY <1>0, <1>1
  <2>2. \A i \in Items : items[i].resolution \in {None, items'[i].resolution}
    BY <1>6
  <2> QED
    BY <1>6, <1>10, <1>11, <1>12, <2>1, <2>2 DEF Grows
<1>14. EventOK(t) /\ events[t].type \in {"message", "item_filed"}
  BY DEF Inv, Archive
<1>15. EventOK(h)'
  <2>1. x.node \in Nodes' /\ nodes'[x.node].created <= h
    <3>1. nodes[events[t].node].created <= t /\ t <= head /\ events[t].node \in Nodes
      BY <1>14 DEF EventOK
    <3>2. nodes[events[t].node].created \in Int
      BY <3>1, GuardsMean, Bounds DEF Node
    <3> QED
      BY <1>0, <1>1, <1>3, <1>6, <1>11, <3>1, <3>2, Bounds
  <2>2. x.item # None => x.item \in Items' /\ items'[x.item].queue = x.node
    BY <1>3, <1>6, <1>11, <1>14 DEF EventOK
  <2>3. x.ref \in Events' /\ events'[x.ref].type \in {"message", "item_filed"} /\ events'[x.ref].node = x.node
    BY <1>3, <1>8, <1>10, <1>14 DEF Same
  <2>4. x.type \in Archiving /\ x.type \notin Referring /\ x.type \notin Resolving /\ x.type # "node_created"
        /\ x.thread = Top
    BY <1>3 DEF Archiving, Referring, Resolving
  <2>5. h <= head'
    BY <1>0, <1>1, <1>6
  <2> QED
    BY <1>7, <2>1, <2>2, <2>3, <2>4, <2>5 DEF EventOK
<1>16. VersionOK(h)'
  BY <1>3, <1>7 DEF VersionOK, Archiving
<1>17. ArchivedOK(h)'
  <2>1. \A e \in Events : events[e].ref # h
    BY <1>1 DEF Inv, EventOK
  <2>2. ArchiveEvents(h)' = {}
    BY <1>1, <1>3, <1>7, <1>10, <1>12, <2>1 DEF ArchiveEvents, Same
  <2> QED
    BY <1>3, <1>7, <2>2 DEF ArchivedOK
<1>18. ArchivedOK(t)'
  <2>1. ArchiveEvents(t)' = ArchiveEvents(t) \cup {h}
    BY <1>3, <1>7, <1>10, <1>12 DEF ArchiveEvents, Same
  <2>2. \A f \in ArchiveEvents(t) : f <= h /\ f < h /\ f \in Int
    BY <1>0, <1>1, <1>12, Bounds DEF ArchiveEvents
  <2>3. h <= h
    BY <1>0, <1>1
  <2>4. CASE type = "node_archived"
    <3>1. a = h
      BY <1>5, <2>4 DEF ArchivedBy
    <3> QED
      BY <1>1, <1>3, <1>7, <1>8, <2>1, <2>2, <2>3, <2>4, <3>1 DEF ArchivedOK
  <2>5. CASE type = "node_unarchived"
    <3>1. a = None
      BY <1>5, <2>5 DEF ArchivedBy
    <3>2. \A f \in ArchiveEvents(t)' : events'[f].type = "node_archived" => f < h
      BY <1>3, <1>7, <2>1, <2>2, <2>5
    <3> QED
      BY <1>8, <2>1, <3>1, <3>2 DEF ArchivedOK
  <2> QED
    BY <2>4, <2>5 DEF Archiving
<1>19. ASSUME NEW e \in Events, e # t PROVE ArchivedOK(e)'
  <2>1. events'[e] = events[e]
    BY <1>7, <1>12, <1>19
  <2>2. \A f \in Events' \ Events : events'[f].ref # e
    BY <1>3, <1>7, <1>10, <1>19
  <2> QED
    BY <1>13, <2>1, <2>2, ArchivedStays
<1>20. \A i \in Items : items'[i].resolution = items[i].resolution
  BY <1>6
<1> QED
  BY <1>6, <1>9, <1>10, <1>11, <1>13, <1>15, <1>16, <1>17, <1>18, <1>19, <1>20, GrowsKeeps DEF Inv

\* A path has one row at most, so a new node is in the one container at its parent's path.
LEMMA ParentIs ==
  ASSUME Inv, NEW w \in Name, NEW p \in Path, NEW k, MayPlace(w, p, k)
  PROVE  IF Up[p] = Top THEN ParentOf(p) = None ELSE ParentOf(p) \in At(Up[p]) \cap OfKind("container")
<1>1. CASE Up[p] = Top
  BY <1>1 DEF ParentOf
<1>2. CASE Up[p] # Top
  <2>1. PICK m \in At(Up[p]) : m \in OfKind("container")
    BY <1>2 DEF MayPlace
  <2>2. At(Up[p]) = {m}
    BY <2>1 DEF Inv, NodeOK, At
  <2> QED
    BY <1>2, <2>1, <2>2 DEF ParentOf
<1> QED
  BY <1>1, <1>2

LEMMA CreateInv ==
  ASSUME Inv, NEW w \in Name, NEW p \in Path, NEW k \in Kind, NEW o \in Name \cup {Top},
         NEW first \in BOOLEAN, Create(w, p, k, o, first)
  PROVE  Inv'
<1>0. PICK h : h = head + 1
  OBVIOUS
<1>1. PICK n \in NodeId :
        /\ IsFresh(n)
        /\ nodes' = [nodes EXCEPT ![n] = [path |-> p, parent |-> ParentOf(p), kind |-> k,
                                           creator |-> w, owner |-> o, created |-> head + 1]]
        /\ AppendAll(IF first THEN <<New("node_created", n), NewVersion(n, 1, w)>>
                     ELSE <<New("node_created", n)>>)
  BY DEF Create
<1>2. /\ TypeOK /\ head \in Nat /\ MaxHead \in Nat /\ n \in Int /\ n \notin Nodes /\ h \notin Events
      /\ items' = items /\ seen' = seen /\ At(p) = {} /\ p # Top
      /\ \A m \in Nodes : m # n
  BY <1>0, <1>1, GuardsMean, Bounds, TreeAssumption DEF IsFresh, Create
<1>3. PICK x : x = New("node_created", n)
  OBVIOUS
<1>4. PICK y : y = NewVersion(n, 1, w)
  OBVIOUS
<1>5. /\ x = [type |-> "node_created", node |-> n, item |-> None, ref |-> None, version |-> 0,
              thread |-> Top, actor |-> Top, archived |-> None]
      /\ y = [type |-> "note_version", node |-> n, item |-> None, ref |-> None, version |-> 1,
              thread |-> Top, actor |-> w, archived |-> None]
  BY <1>3, <1>4 DEF NewVersion, New
<1>6. /\ h \in Id /\ h \in Int /\ head' \in 0..MaxHead /\ head < h /\ h <= head'
      /\ \/ ~first /\ head' = h /\ events' = [events EXCEPT ![h] = x]
         \/ first /\ head' = h + 1 /\ events' = [events EXCEPT ![h] = x, ![h + 1] = y]
  <2>1. CASE first
    <3>1. head + 2 <= MaxHead /\ head' = head + 2 /\ events' = Appended(<<x, y>>)
      BY <1>1, <1>2, <1>3, <1>4, <2>1 DEF AppendAll
    <3>2. /\ head + 1 \in Id /\ head + 2 \in Id
          /\ Appended(<<x, y>>) = [events EXCEPT ![head + 1] = x, ![head + 2] = y]
      BY <1>2, <3>1, AppendedTwo
    <3>3. h + 1 = head + 2
      BY <1>0, <1>2
    <3> QED
      BY <1>0, <1>2, <2>1, <3>1, <3>2, <3>3, Bounds
  <2>2. CASE ~first
    <3>1. head < MaxHead /\ head' = head + 1 /\ events' = Appended(<<x>>)
      BY <1>1, <1>2, <1>3, <2>2 DEF AppendAll
    <3>2. head + 1 \in Id /\ Appended(<<x>>) = [events EXCEPT ![head + 1] = x]
      BY <1>2, <3>1, AppendedOne
    <3> QED
      BY <1>0, <1>2, <2>2, <3>1, <3>2, Bounds
  <2> QED
    BY <2>1, <2>2
<1>7. x \in Event /\ y \in Event
  <2>1. 0 \in 0..MaxHead /\ 1 \in 0..MaxHead
    BY <1>0, <1>2, <1>6, Bounds
  <2> QED
    BY <1>5, <2>1 DEF Event, Type
<1>8. /\ events'[h] = x
      /\ \A e \in Events : events'[e] = events[e] /\ e \in Events'
      /\ \A e \in Events' : \/ e \in Events
                            \/ e = h
                            \/ e = h + 1 /\ e = head' /\ events'[e] = y
      /\ h \in Events'
      /\ events' \in [Id -> Event \cup {NoEvent}]
  <2>1. \A e \in Events : e \in Id /\ e < h /\ e # h + 1
    BY <1>0, <1>2, GuardsMean, Bounds DEF Inv, EventOK
  <2>2. h # h + 1
    BY <1>6
  <2>3. CASE ~first
    BY <1>6, <1>7, <2>1, <2>3, NoRows, <1>2 DEF Events, TypeOK
  <2>4. CASE first
    <3>1. /\ events' = [events EXCEPT ![h] = x, ![h + 1] = y] /\ head' = h + 1 /\ h + 1 \in Id
      BY <1>0, <1>2, <1>6, <2>4, Bounds
    <3>2. events'[h] = x /\ events'[h + 1] = y /\ \A e \in Id \ {h, h + 1} : events'[e] = events[e]
      BY <1>2, <1>6, <2>2, <3>1 DEF TypeOK
    <3>3. events' \in [Id -> Event \cup {NoEvent}]
      BY <1>2, <1>6, <1>7, <3>1 DEF TypeOK
    <3> QED
      BY <1>6, <1>7, <2>1, <3>1, <3>2, <3>3, NoRows DEF Events
  <2> QED
    BY <2>3, <2>4
<1>9. PICK r : r = [path |-> p, parent |-> ParentOf(p), kind |-> k, creator |-> w, owner |-> o, created |-> h]
  <2> DEFINE q == ParentOf(p)
             row == [path |-> p, parent |-> q, kind |-> k, creator |-> w, owner |-> o, created |-> h]
  <2> HIDE DEF row
  <2>1. \E r : r = row
    OBVIOUS
  <2> USE DEF row
  <2> QED
    BY <2>1
<1>10. /\ nodes'[n] = r
       /\ \A m \in NodeId \ {n} : nodes'[m] = nodes[m]
       /\ nodes' = [nodes EXCEPT ![n] = r]
  BY <1>0, <1>1, <1>2, <1>9 DEF TypeOK
<1>11. IF Up[p] = Top THEN r.parent = None ELSE r.parent \in At(Up[p]) \cap OfKind("container")
  BY <1>9, ParentIs DEF Create
<1>12. r \in Node
  <2>1. r.parent \in NodeId \cup {None}
    BY <1>11 DEF At, Nodes
  <2> QED
    BY <1>6, <1>9, <2>1 DEF Node
<1>13. TypeOK'
  BY <1>2, <1>6, <1>8, <1>10, <1>12 DEF TypeOK
<1>14. /\ Nodes' = Nodes \cup {n} /\ Items' = Items
       /\ \A m \in Nodes : nodes'[m] = nodes[m]
  BY <1>2, <1>10, <1>12, NoRows DEF Nodes, Items
<1>15. Grows
  <2>1. \A m \in Nodes : nodes[m].path # p
    BY <1>2 DEF At
  <2>2. \A e \in Events' \ Events : e > head /\ e <= head'
    BY <1>2, <1>6, <1>8, Bounds
  <2>3. head' \in Nat /\ head <= head'
    BY <1>2, <1>6
  <2>4. \A e \in Events : e \in Events' /\ Same(events'[e], events[e])
    BY <1>8 DEF Same
  <2>5. r.path = p
    BY <1>9
  <2> QED
    BY <1>2, <1>10, <1>14, <2>1, <2>2, <2>3, <2>4, <2>5 DEF Grows
<1>16. NodeOK(n)'
  <2>1. At(p)' = {n}
    BY <1>2, <1>9, <1>10, <1>14 DEF At
  <2>2. \A q : At(q) \subseteq At(q)'
    BY <1>14 DEF At
  <2>3. \A j : OfKind(j) \subseteq OfKind(j)'
    BY <1>14 DEF OfKind
  <2>4. r.path = p /\ r.created = h
    BY <1>9
  <2> QED
    BY <1>5, <1>8, <1>10, <1>11, <2>1, <2>2, <2>3, <2>4 DEF NodeOK
<1>17. \A e \in Events : events[e].node # n /\ events[e].ref \in Events \cup {None}
  BY <1>2 DEF Inv, EventOK
<1>18. ASSUME NEW e \in Events' \ Events PROVE EventOK(e)' /\ VersionOK(e)' /\ ArchivedOK(e)'
  <2>1. /\ e \in Int /\ h <= e /\ e <= head' /\ 1 <= e
        /\ events'[e] \in {x, y} /\ (events'[e] = y => e # h) /\ (e = h <=> events'[e] = x)
    <3>1. x # y
      BY <1>5
    <3> QED
      BY <1>0, <1>2, <1>6, <1>8, <3>1
  <2>2. n \in Nodes' /\ nodes'[n].created = h
    BY <1>9, <1>10, <1>14
  <2>3. /\ events'[e].node = n /\ events'[e].item = None /\ events'[e].ref = None
        /\ events'[e].thread = Top /\ events'[e].archived = None
        /\ events'[e].type \notin Archiving \cup Resolving
        /\ events'[e].type = "node_created" => e = h
        /\ events'[e].type = "note_version" => events'[e].version = 1
    BY <1>5, <2>1 DEF Archiving, Resolving
  <2>4. EventOK(e)'
    BY <2>1, <2>2, <2>3 DEF EventOK
  <2>5. VersionOK(e)'
    <3> SUFFICES ASSUME events'[e].type = "note_version" PROVE VersionOK(e)'
      BY DEF VersionOK
    <3>1. e = h + 1
      BY <1>5, <1>8, <2>1
    <3>2. Versions(n)' = {e}
      <4>1. \A f \in Events' : events'[f].node = n /\ events'[f].type = "note_version" => f = e
        BY <1>5, <1>8, <1>17, <3>1
      <4> QED
        BY <2>3, <4>1 DEF Versions
    <3>3. 1 \in 1..e /\ ~(e < e)
      BY <2>1
    <3> QED
      BY <2>3, <3>2, <3>3 DEF VersionOK
  <2>6. ArchivedOK(e)'
    <3>1. ArchiveEvents(e)' = {}
      <4>1. \A f \in Events' : events'[f].ref \in Events \cup {None}
        BY <1>5, <1>8, <1>17
      <4>2. e # None
        BY <2>1 DEF None
      <4> QED
        BY <4>1, <4>2 DEF ArchiveEvents
    <3> QED
      BY <2>3, <3>1 DEF ArchivedOK
  <2> QED
    BY <2>4, <2>5, <2>6
<1>19. \A e \in Events : ArchivedOK(e)'
  <2>1. \A f \in Events' \ Events : events'[f].type \notin Archiving
    BY <1>5, <1>8 DEF Archiving
  <2> QED
    BY <1>8, <1>15, <2>1, ArchivedStays
<1> QED
  BY <1>2, <1>13, <1>14, <1>15, <1>16, <1>18, <1>19, GrowsKeeps DEF Inv

-----------------------------------------------------------------------------
(***************************************************************************)
(* The deletes.                                                            *)
(***************************************************************************)

\* Rows go, the others are as they were, and with what stays all it refers to stays.
LEMMA RowsGo ==
  ASSUME Inv, TypeOK', head' = head, seen' = seen,
         Nodes' \subseteq Nodes, Events' \subseteq Events, Items' \subseteq Items,
         \A n \in Nodes' : nodes'[n] = nodes[n] /\ nodes[n].created \in Events'
                           /\ nodes[n].parent \in Nodes' \cup {None},
         \A e \in Events' : events'[e] = events[e] /\ events[e].node \in Nodes'
                            /\ events[e].item \in Items' \cup {None} /\ events[e].ref \in Events' \cup {None}
                            /\ ArchiveEvents(e) \subseteq Events',
         \A n \in Nodes' : Versions(n) \subseteq Events',
         \A i \in Items' : items'[i] = items[i] /\ items[i].queue \in Nodes' /\ i \in Events'
                           /\ items[i].resolution \in Events' \cup {None}
  PROVE  Inv'
<1>0. None \notin Id /\ None \notin NodeId /\ Nodes \subseteq NodeId /\ Events \subseteq Id
  BY Bounds DEF Nodes, Events
<1>1. /\ \A p : At(p)' = At(p) \cap Nodes'
      /\ \A k : OfKind(k)' = OfKind(k) \cap Nodes'
      /\ Messages' = Messages \cap Events'
  BY DEF At, OfKind, Messages
<1>2. /\ \A n \in Nodes' : Versions(n)' = Versions(n)
      /\ \A e \in Events' : ArchiveEvents(e)' = ArchiveEvents(e)
  BY DEF Versions, ArchiveEvents
<1>3. ASSUME NEW n \in Nodes' PROVE NodeOK(n)'
  <2>1. NodeOK(n)
    BY DEF Inv
  <2> QED
    BY <1>0, <1>1, <2>1 DEF NodeOK, At
<1>4. ASSUME NEW e \in Events' PROVE EventOK(e)' /\ VersionOK(e)' /\ ArchivedOK(e)'
  <2>1. EventOK(e) /\ VersionOK(e) /\ ArchivedOK(e) /\ events'[e] = events[e] /\ events[e].node \in Nodes'
    BY DEF Inv
  <2>2. EventOK(e)'
    <3>1. events[e].item # None => events[e].item \in Items' /\ items'[events[e].item].queue = events[e].node
      BY <2>1 DEF EventOK
    <3>2. events[e].ref # None => /\ events[e].ref \in Events' /\ events'[events[e].ref] = events[events[e].ref]
                                  /\ events[e].type \in Referring => events[e].ref \in Messages'
      BY <1>1, <2>1 DEF EventOK
    <3>3. events[e].type \in Archiving => events[e].ref \in Events' /\ events'[events[e].ref] = events[events[e].ref]
      BY <1>0, <2>1 DEF EventOK
    <3>4. events[e].thread # Top => /\ events[e].ref \in Messages'
                                    /\ events'[events[e].ref].node \in At(events[e].thread)'
      BY <1>0, <1>1, <2>1 DEF EventOK, Messages
    <3>5. events[e].type \in Resolving => events[e].item \in Items' /\ items'[events[e].item].resolution = e
      <4> SUFFICES ASSUME events[e].type \in Resolving
                   PROVE  events[e].item \in Items' /\ items'[events[e].item].resolution = e
        OBVIOUS
      <4>1. events[e].item \in Items /\ items[events[e].item].resolution = e
        BY <2>1 DEF EventOK
      <4>2. events[e].item # None
        BY <4>1, <1>0, RowsAre DEF Inv
      <4> QED
        BY <4>1, <4>2
    <3>6. nodes'[events[e].node] = nodes[events[e].node]
      BY <2>1
    <3> QED
      BY <2>1, <3>1, <3>2, <3>3, <3>4, <3>5, <3>6 DEF EventOK
  <2>3. VersionOK(e)'
    <3>1. Versions(events[e].node)' = Versions(events[e].node)
      BY <1>2, <2>1
    <3>2. \A f \in Versions(events[e].node) : events'[f] = events[f]
      BY <2>1
    <3> QED
      BY <2>1, <3>1, <3>2 DEF VersionOK
  <2>4. ArchivedOK(e)'
    <3>1. \A f \in ArchiveEvents(e) : events'[f] = events[f]
      OBVIOUS
    <3> QED
      BY <1>2, <2>1, <3>1 DEF ArchivedOK
  <2> QED
    BY <2>2, <2>3, <2>4
<1>5. ASSUME NEW i \in Items' PROVE ItemOK(i)'
  <2>1. ItemOK(i) /\ items'[i] = items[i]
    BY DEF Inv
  <2> QED
    BY <1>1, <2>1 DEF ItemOK
<1>6. ASSUME NEW w \in Name PROVE SeenOK(w)'
  <2>1. SeenOK(w)
    BY DEF Inv
  <2>2. CASE seen[w].created \in Events'
    <3>1. PICK n : n = events[seen[w].created].node
      OBVIOUS
    <3>2. n \in Nodes' /\ events'[seen[w].created].node = n /\ nodes'[n] = nodes[n] /\ Versions(n)' = Versions(n)
      BY <1>2, <2>2, <3>1
    <3>3. /\ nodes[n].created = seen[w].created /\ nodes[n].path = seen[w].path
          /\ IF seen[w].last = None THEN seen[w].version = 0
             ELSE seen[w].last \in Versions(n) /\ events[seen[w].last].version = seen[w].version
      BY <2>1, <2>2, <3>1 DEF SeenOK
    <3>4. seen[w].last # None => events'[seen[w].last] = events[seen[w].last]
      BY <3>2, <3>3
    <3> QED
      BY <2>1, <3>2, <3>3, <3>4 DEF SeenOK
  <2>3. CASE seen[w].created \notin Events'
    BY <2>1, <2>3 DEF SeenOK
  <2> QED
    BY <2>2, <2>3
<1> QED
  BY <1>3, <1>4, <1>5, <1>6 DEF Inv

\* Nothing is left under a branch that goes: paths are three deep at most.
LEMMA NothingIsUnder ==
  ASSUME Inv, NEW n \in Nodes, NEW m \in Nodes, nodes[m].parent \in Branch(n)
  PROVE  m \in Branch(n)
<1>1. \A q \in Nodes : /\ nodes[q].path \in Path
                       /\ nodes[q].parent \in Nodes =>
                            /\ Up[nodes[q].path] # Top
                            /\ nodes[nodes[q].parent].path = Up[nodes[q].path]
  <2> SUFFICES ASSUME NEW q \in Nodes
               PROVE  /\ nodes[q].path \in Path
                      /\ nodes[q].parent \in Nodes =>
                           /\ Up[nodes[q].path] # Top
                           /\ nodes[nodes[q].parent].path = Up[nodes[q].path]
    OBVIOUS
  <2>1. NodeOK(q) /\ nodes[q] \in Node /\ None \notin Nodes
    BY GuardsMean, Bounds DEF Inv
  <2> QED
    BY <2>1 DEF NodeOK, At, Node
<1>2. CASE nodes[m].parent \in {n} \cup Under({n})
  BY <1>2 DEF Branch, Under
<1>3. CASE nodes[m].parent \in Under(Under({n}))
  <2>1. PICK q \in Nodes : nodes[m].parent = q /\ nodes[q].parent \in Under({n})
    BY <1>3 DEF Under
  <2>2. PICK r \in Nodes : nodes[q].parent = r /\ nodes[r].parent = n
    BY <2>1 DEF Under
  <2>3. /\ Up[nodes[m].path] # Top /\ nodes[q].path = Up[nodes[m].path]
        /\ Up[nodes[q].path] # Top /\ nodes[r].path = Up[nodes[q].path]
        /\ Up[nodes[r].path] # Top /\ nodes[m].path \in Path
    BY <1>1, <2>1, <2>2
  <2> QED
    BY <2>3, TreeAssumption
<1> QED
  BY <1>2, <1>3 DEF Branch

LEMMA DeleteBranchInv ==
  ASSUME Inv, NEW n \in Nodes, DeleteBranch(n)
  PROVE  Inv'
<1>0. PICK N : N = Branch(n)
  OBVIOUS
<1>1. PICK E : E = EventsIn(N)
  OBVIOUS
<1>2. /\ PointTo(E) = {}
      /\ events' = [e \in Id |-> IF e \in E THEN NoEvent ELSE events[e]]
      /\ items' = [i \in Id |-> IF i \in ItemsIn(N) THEN NoItem ELSE items[i]]
      /\ nodes' = [m \in NodeId |-> IF m \in N THEN NoNode ELSE nodes[m]]
      /\ head' = head /\ seen' = seen
  BY <1>0, <1>1 DEF DeleteBranch
<1>3. TypeOK'
  BY <1>2 DEF Inv, TypeOK
<1>4. /\ Nodes' = Nodes \ N /\ Events' = Events \ E /\ Items' = Items \ ItemsIn(N)
      /\ \A m \in Nodes' : nodes'[m] = nodes[m]
      /\ \A e \in Events' : events'[e] = events[e]
      /\ \A i \in Items' : items'[i] = items[i]
  BY <1>2 DEF Nodes, Events, Items
<1>5. \A e \in Events : e \in Events' <=> events[e].node \notin N
  BY <1>1, <1>4 DEF EventsIn
<1>6. \A i \in Items : i \in Items' <=> items[i].queue \notin N
  BY <1>4 DEF ItemsIn
<1>7. ASSUME NEW m \in Nodes' PROVE nodes[m].created \in Events' /\ nodes[m].parent \in Nodes' \cup {None}
  <2>1. NodeOK(m) /\ m \notin N /\ m \in Nodes
    BY <1>4 DEF Inv
  <2>2. nodes[m].parent \notin N
    BY <1>0, <2>1, NothingIsUnder
  <2> QED
    BY <1>4, <1>5, <2>1, <2>2 DEF NodeOK, At
<1>8. ASSUME NEW e \in Events'
      PROVE  /\ events[e].node \in Nodes' /\ events[e].item \in Items' \cup {None}
             /\ events[e].ref \in Events' \cup {None} /\ ArchiveEvents(e) \subseteq Events'
  <2>1. EventOK(e) /\ e \in Events /\ e \notin E /\ events[e].node \notin N
    BY <1>4, <1>5 DEF Inv
  <2>2. events[e].ref \in Events' \cup {None}
    BY <1>2, <1>4, <2>1 DEF EventOK, PointTo
  <2>3. \A f \in ArchiveEvents(e) : f \in Events /\ events[f].node = events[e].node
    BY DEF ArchiveEvents, Inv, EventOK
  <2> QED
    BY <1>4, <1>5, <1>6, <2>1, <2>2, <2>3 DEF EventOK
<1>9. \A m \in Nodes' : Versions(m) \subseteq Events'
  BY <1>4, <1>5 DEF Versions
<1>10. ASSUME NEW i \in Items'
       PROVE  items[i].queue \in Nodes' /\ i \in Events' /\ items[i].resolution \in Events' \cup {None}
  <2>1. ItemOK(i) /\ i \in Items /\ items[i].queue \notin N /\ i # None
    BY <1>4, <1>6, GuardsMean, Bounds DEF Inv
  <2>2. items[i].resolution # None => items[i].resolution \in Events /\ events[items[i].resolution].node = items[i].queue
    BY <2>1 DEF ItemOK, Inv, EventOK
  <2> QED
    BY <1>4, <1>5, <2>1, <2>2 DEF ItemOK, OfKind
<1> QED
  BY <1>2, <1>3, <1>4, <1>7, <1>8, <1>9, <1>10, RowsGo

LEMMA DeleteMessageInv ==
  ASSUME Inv, NEW m \in Events, DeleteMessage(m)
  PROVE  Inv'
<1>0. PICK E : E = {m} \cup ArchiveEvents(m)
  OBVIOUS
<1>1. /\ m \in Messages /\ PointTo({m}) \subseteq ArchiveEvents(m)
      /\ events' = [e \in Id |-> IF e \in E THEN NoEvent ELSE events[e]]
      /\ nodes' = nodes /\ items' = items /\ head' = head /\ seen' = seen
  BY <1>0 DEF DeleteMessage
<1>2. TypeOK'
  BY <1>1 DEF Inv, TypeOK
<1>3. /\ Nodes' = Nodes /\ Events' = Events \ E /\ Items' = Items
      /\ \A e \in Events' : events'[e] = events[e]
  BY <1>1 DEF Nodes, Events, Items
<1>4. \A e \in E : events[e].type \in Archiving \cup {"message"}
  BY <1>0, <1>1 DEF ArchiveEvents, Messages
<1>5. ASSUME NEW n \in Nodes' PROVE nodes[n].created \in Events' /\ nodes[n].parent \in Nodes' \cup {None}
  <2>1. NodeOK(n)
    BY <1>3 DEF Inv
  <2> QED
    BY <1>3, <1>4, <2>1 DEF NodeOK, At, Archiving
<1>6. ASSUME NEW e \in Events'
      PROVE  /\ events[e].node \in Nodes' /\ events[e].item \in Items' \cup {None}
             /\ events[e].ref \in Events' \cup {None} /\ ArchiveEvents(e) \subseteq Events'
  <2>1. EventOK(e) /\ e \in Events /\ e \notin E /\ e # m /\ e \notin ArchiveEvents(m)
    BY <1>0, <1>3 DEF Inv
  <2>2. events[e].ref # m
    BY <1>1, <2>1 DEF PointTo
  <2>3. events[e].ref # None => events[e].ref \in Events /\ events[events[e].ref].type \in {"message", "item_filed"}
    BY <2>1 DEF EventOK, Messages
  <2>4. events[e].ref \notin ArchiveEvents(m)
    BY <2>1, <2>3, Bounds DEF ArchiveEvents, Archiving, Events
  <2>5. ArchiveEvents(e) \cap E = {}
    BY <1>0, <1>1, <2>1 DEF ArchiveEvents, Archiving, Messages
  <2>6. ArchiveEvents(e) \subseteq Events
    BY DEF ArchiveEvents
  <2> QED
    BY <1>0, <1>3, <2>1, <2>2, <2>3, <2>4, <2>5, <2>6 DEF EventOK
<1>7. \A n \in Nodes' : Versions(n) \subseteq Events'
  BY <1>3, <1>4 DEF Versions, Archiving
<1>8. ASSUME NEW i \in Items'
      PROVE  items[i].queue \in Nodes' /\ i \in Events' /\ items[i].resolution \in Events' \cup {None}
  <2>1. ItemOK(i)
    BY <1>3 DEF Inv
  <2> QED
    BY <1>3, <1>4, <2>1 DEF ItemOK, OfKind, Archiving, Resolving
<1>9. /\ Nodes' \subseteq Nodes /\ Events' \subseteq Events /\ Items' \subseteq Items
      /\ \A n \in Nodes' : nodes'[n] = nodes[n]
      /\ \A i \in Items' : items'[i] = items[i]
  BY <1>1, <1>3
<1> QED
  BY <1>1, <1>2, <1>3, <1>5, <1>6, <1>7, <1>8, <1>9, RowsGo

-----------------------------------------------------------------------------
(***************************************************************************)
(* The theorems.                                                           *)
(***************************************************************************)

LEMMA InitInv == Init => Inv
<1> SUFFICES ASSUME Init PROVE Inv
  OBVIOUS
<1>1. Nodes = {} /\ Events = {} /\ Items = {}
  BY DEF Init, Nodes, Events, Items
<1>2. NoSeen \in Seen /\ NoSeen.created = None
  BY Bounds DEF NoSeen, Seen, None
<1>3. TypeOK
  BY <1>2, Bounds DEF Init, TypeOK
<1>4. \A w \in Name : SeenOK(w)
  BY <1>1, <1>2 DEF Init, SeenOK, None
<1> QED
  BY <1>1, <1>3, <1>4 DEF Inv

LEMMA NextInv == Inv /\ [Next]_vars => Inv'
<1> SUFFICES ASSUME Inv, [Next]_vars PROVE Inv'
  OBVIOUS
<1>1. ASSUME NEW w \in Name, NEW want \in Wanted, NEW o \in Name \cup {Top}, NEW first \in BOOLEAN,
             Create(w, want[1], want[2], o, first)
      PROVE  Inv'
  <2>1. want[1] \in Path /\ want[2] \in Kind
    BY TreeAssumption DEF Kind
  <2> QED
    BY <1>1, <2>1, CreateInv
<1>2. CASE UNCHANGED vars
  <2>1. /\ nodes' = nodes /\ events' = events /\ items' = items /\ head' = head /\ seen' = seen
        /\ Nodes' = Nodes /\ Events' = Events /\ Items' = Items
        /\ (\A n : Versions(n)' = Versions(n)) /\ (\A e : ArchiveEvents(e)' = ArchiveEvents(e))
    BY <1>2 DEF vars, Nodes, Events, Items, Versions, ArchiveEvents
  <2>2. TypeOK'
    BY <2>1 DEF Inv, TypeOK
  <2>3. \A n \in Nodes : nodes[n].created \in Events /\ nodes[n].parent \in Nodes \cup {None}
    BY DEF Inv, NodeOK, At
  <2>4. \A e \in Events : /\ events[e].node \in Nodes /\ events[e].item \in Items \cup {None}
                          /\ events[e].ref \in Events \cup {None} /\ ArchiveEvents(e) \subseteq Events
    BY DEF Inv, EventOK, ArchiveEvents
  <2>5. \A n : Versions(n) \subseteq Events
    BY DEF Versions
  <2>6. \A i \in Items : /\ items[i].queue \in Nodes /\ i \in Events
                         /\ items[i].resolution \in Events \cup {None}
    BY DEF Inv, ItemOK, OfKind
  <2> QED
    BY <2>1, <2>2, <2>3, <2>4, <2>5, <2>6, RowsGo
<1> QED
  BY <1>1, <1>2, PostInv, DeleteBranchInv, ReadInv, FileInv, SaveInv, ResolveInv, ArchiveInv,
     DeleteMessageInv DEF Next

\* Every reachable state satisfies the inductive invariant: what one row says
\* of another is so, by any order of writes, archivings and deletes.
THEOREM InvAlways == Spec => []Inv
<1>1. Init => Inv
  BY InitInv
<1>2. Inv /\ [Next]_vars => Inv'
  BY NextInv
<1> QED
  BY <1>1, <1>2, PTL DEF Spec

\* Each column of the tables has values of its kind.
THEOREM TypeCorrect == Spec => []TypeOK
<1>1. Inv => TypeOK
  BY DEF Inv
<1> QED
  BY <1>1, InvAlways, PTL

LEMMA InvSound == Inv => ReferencesAreSound
<1> SUFFICES ASSUME Inv PROVE ReferencesAreSound
  OBVIOUS
<1>1. NothingDangles
  <2>1. \A n \in Nodes : /\ IF Up[nodes[n].path] = Top THEN nodes[n].parent = None
                            ELSE nodes[n].parent \in At(Up[nodes[n].path]) \cap OfKind("container")
                         /\ nodes[n].created \in Events
                         /\ At(nodes[n].path) = {n}
    BY DEF Inv, NodeOK
  <2>2. \A e \in Events : /\ e <= head
                          /\ events[e].node \in Nodes
                          /\ events[e].item = None \/ events[e].item \in Items
                          /\ events[e].ref = None \/ events[e].ref \in Events
                          /\ events[e].type \in {"note_version", "item_answered"} /\ events[e].ref # None
                               => events[e].ref \in Messages
    BY DEF Inv, EventOK, Referring
  <2>3. \A i \in Items : items[i].queue \in OfKind("queue") /\ i \in Events
    BY DEF Inv, ItemOK
  <2> QED
    BY <2>1, <2>2, <2>3 DEF NothingDangles
<1>2. EventsAreTheNodesOwn
  BY DEF Inv, NodeOK, EventOK, EventsAreTheNodesOwn
<1>3. SummariesNameTheirThread
  BY DEF Inv, EventOK, SummariesNameTheirThread
<1> QED
  BY <1>1, <1>2, <1>3 DEF ReferencesAreSound

\* What points from one row to another leads to the row that was meant, though
\* row numbers of nodes are used again after a delete (delete_branch,
\* delete_message, insert).
THEOREM NothingEverDangles == Spec => []ReferencesAreSound
  BY InvAlways, InvSound, PTL

LEMMA InvFollows == Inv => StateFollowsTheLog
<1> SUFFICES ASSUME Inv PROVE StateFollowsTheLog
  OBVIOUS
<1>1. \A e \in Events : e \in Int /\ e # None
  BY GuardsMean, Bounds
<1>2. ASSUME NEW t \in Events
      PROVE  LET latest == {e \in ArchiveEvents(t) : \A f \in ArchiveEvents(t) : f <= e} IN
             events[t].archived = IF \E e \in latest : events[e].type = "node_archived"
                                  THEN CHOOSE e \in latest : TRUE ELSE None
  <2> DEFINE latest == {e \in ArchiveEvents(t) : \A f \in ArchiveEvents(t) : f <= e}
  <2>1. ArchivedOK(t) /\ \A e \in ArchiveEvents(t) : e \in Int
    BY <1>1 DEF Inv, ArchiveEvents
  <2>2. PICK a : a = events[t].archived
    OBVIOUS
  <2>3. CASE a # None
    <3>1. a \in ArchiveEvents(t) /\ events[a].type = "node_archived" /\ \A f \in ArchiveEvents(t) : f <= a
      BY <2>1, <2>2, <2>3 DEF ArchivedOK
    <3>2. latest = {a}
      BY <2>1, <3>1
    <3>3. (CHOOSE e \in latest : TRUE) = a
      BY <3>2
    <3> HIDE DEF latest
    <3>4. \E e \in latest : events[e].type = "node_archived"
      BY <3>1, <3>2
    <3>5. a = IF \E e \in latest : events[e].type = "node_archived" THEN CHOOSE e \in latest : TRUE ELSE None
      BY <3>3, <3>4
    <3> USE DEF latest
    <3> QED
      BY <2>2, <3>5
  <2>4. CASE a = None
    <3>1. \A f \in ArchiveEvents(t) : events[f].type = "node_archived" => \E g \in ArchiveEvents(t) : f < g
      BY <2>1, <2>2, <2>4 DEF ArchivedOK
    <3>2. ~\E e \in latest : events[e].type = "node_archived"
      BY <2>1, <3>1
    <3> QED
      BY <2>2, <2>4, <3>2
  <2> QED
    BY <2>3, <2>4
<1>3. ItemsFollowTheirEvents
  <2> SUFFICES ASSUME NEW i \in Items
               PROVE  /\ events[i].type = "item_filed" /\ events[i].node = items[i].queue
                      /\ {e \in Events : events[e].item = i /\ events[e].type \in Resolving}
                           = {items[i].resolution} \ {None}
                      /\ \A e \in Events : events[e].item = i => events[e].node = items[i].queue
    BY DEF ItemsFollowTheirEvents
  <2>1. ItemOK(i) /\ i # None
    BY GuardsMean, Bounds DEF Inv
  <2>2. \A e \in Events : events[e].item = i =>
          events[e].node = items[i].queue /\ (events[e].type \in Resolving => items[i].resolution = e /\ e # None)
    BY <1>1, <2>1 DEF Inv, EventOK
  <2>3. {e \in Events : events[e].item = i /\ events[e].type \in Resolving} = {items[i].resolution} \ {None}
    BY <2>1, <2>2 DEF ItemOK
  <2> QED
    BY <2>1, <2>2, <2>3 DEF ItemOK
<1>4. VersionsChain
  <2> SUFFICES ASSUME NEW n \in NodeId, NEW e \in Versions(n)
               PROVE  /\ \A f \in Versions(n) : f < e => events[f].version < events[e].version
                      /\ events[e].version = 1
                         \/ \E f \in Versions(n) : f < e /\ events[f].version + 1 = events[e].version
    BY DEF VersionsChain
  <2>1. VersionOK(e) /\ events[e].node = n /\ events[e].type = "note_version"
    BY DEF Inv, Versions
  <2> QED
    BY <2>1 DEF VersionOK
<1> QED
  BY <1>2, <1>3, <1>4 DEF StateFollowsTheLog, ArchiveStateIsTheLatest

\* The archived and resolution columns, and the numbers of versions, are what
\* the events say (archive, resolve, close, set_note).
THEOREM ColumnsFollowTheLog == Spec => []StateFollowsTheLog
  BY InvAlways, InvFollows, PTL

\* The rows that a write appends.
LEMMA NewRows ==
  ASSUME Inv, NEW new, Len(new) \in Nat, events' = Appended(new), NEW e \in Events' \ Events
  PROVE  \E j \in 1..Len(new) : events'[e] = new[j]
<1>1. e \in Id /\ events'[e] # NoEvent /\ events[e] = NoEvent /\ head \in Nat /\ e \in Int
  BY GuardsMean, Bounds DEF Events
<1>2. e \in (head + 1)..(head + Len(new)) /\ events'[e] = new[e - head]
  BY <1>1 DEF Appended
<1>3. e - head \in 1..Len(new)
  BY <1>1, <1>2
<1> QED
  BY <1>2, <1>3

\* A note's writer who has read it since it was made, and saves over the
\* current version, has read the last one.
LEMMA SavesOverTheLast ==
  ASSUME Inv, NEW w \in Name, NEW n \in Nodes, NEW p, NEW m, Save(w, n, p, m), seen[w].created \in Events
  PROVE  Last(n) = {seen[w].last} \ {None}
<1>1. PICK k : k = events[seen[w].created].node
  OBVIOUS
<1>2. /\ k \in Nodes /\ nodes[k].path = nodes[n].path /\ seen[w].version = CurrentVersion(n)
      /\ IF seen[w].last = None THEN seen[w].version = 0
         ELSE seen[w].last \in Versions(k) /\ events[seen[w].last].version = seen[w].version
  BY <1>1 DEF Inv, SeenOK, Save, IsBase
<1>3. k = n
  <2>1. At(nodes[n].path) = {n}
    BY DEF Inv, NodeOK
  <2> QED
    BY <1>2, <2>1 DEF At
<1>4. CASE Versions(n) = {} /\ Last(n) = {}
  BY <1>2, <1>3, <1>4
<1>5. CASE \E l \in Versions(n) :
              /\ Last(n) = {l} /\ CurrentVersion(n) = events[l].version
              /\ \A f \in Versions(n) : f = l \/ (f < l /\ events[f].version < events[l].version)
  <2>1. PICK l \in Versions(n) :
              /\ Last(n) = {l} /\ CurrentVersion(n) = events[l].version
              /\ \A f \in Versions(n) : f = l \/ (f < l /\ events[f].version < events[l].version)
    BY <1>5
  <2>2. events[l].version \in 1..l /\ l # None /\ l \in Int
    BY <2>1, GuardsMean, Bounds DEF Inv, VersionOK, Versions
  <2>3. seen[w].last # None
    BY <1>2, <2>1, <2>2
  <2>4. seen[w].last = l
    <3>1. seen[w].last \in Versions(n) /\ events[seen[w].last].version = events[l].version
      BY <1>2, <1>3, <2>1, <2>3
    <3>2. ~(events[l].version < events[l].version)
      BY <2>2
    <3> QED
      BY <2>1, <3>1, <3>2
  <2> QED
    BY <2>1, <2>2, <2>4
<1> QED
  BY <1>4, <1>5, CurrentIs

LEMMA NoStepLoses ==
  ASSUME Inv, Next, NEW e \in Events' \ Events,
         events'[e].type = "note_version", events'[e].node \in Nodes, seen[events'[e].actor].created \in Events
  PROVE  Last(events'[e].node) = {seen[events'[e].actor].last} \ {None}
<1> DEFINE Goal == Last(events'[e].node) = {seen[events'[e].actor].last} \ {None}
<1>0. \A x : Len(<<x>>) = 1 /\ <<x>>[1] = x /\ Len(<<x>>) \in Nat /\ \A j \in 1..1 : j = 1
  OBVIOUS
<1>1. ASSUME NEW w \in Name, NEW want \in Wanted, NEW o \in Name \cup {Top}, NEW first \in BOOLEAN,
             Create(w, want[1], want[2], o, first)
      PROVE  FALSE
  <2>1. PICK n \in NodeId : /\ IsFresh(n)
                            /\ AppendAll(IF first THEN <<New("node_created", n), NewVersion(n, 1, w)>>
                                         ELSE <<New("node_created", n)>>)
    BY <1>1 DEF Create
  <2>2. n \notin Nodes
    BY <2>1, Bounds DEF IsFresh
  <2>3. New("node_created", n).node = n /\ NewVersion(n, 1, w).node = n
    BY DEF New, NewVersion
  <2>4. events'[e].node = n
    <3>1. CASE first
      <4>1. PICK x, y : x = New("node_created", n) /\ y = NewVersion(n, 1, w)
        OBVIOUS
      <4>2. events' = Appended(<<x, y>>) /\ Len(<<x, y>>) = 2 /\ <<x, y>>[1] = x /\ <<x, y>>[2] = y
        BY <2>1, <3>1, <4>1 DEF AppendAll
      <4>3. events'[e] \in {x, y}
        BY <4>2, NewRows
      <4> QED
        BY <2>3, <4>1, <4>3
    <3>2. CASE ~first
      <4>1. PICK x : x = New("node_created", n)
        OBVIOUS
      <4>2. events' = Appended(<<x>>)
        BY <2>1, <3>2, <4>1 DEF AppendAll
      <4>3. events'[e] = x
        BY <1>0, <4>2, NewRows
      <4> QED
        BY <2>3, <4>1, <4>3
    <3> QED
      BY <3>1, <3>2
  <2> QED
    BY <2>2, <2>4
<1>2. ASSUME NEW x, events' = Appended(<<x>>) PROVE events'[e] = x
  BY <1>0, <1>2, NewRows
<1>3. ASSUME NEW n \in Nodes, Post(n) PROVE FALSE
  <2>1. events'[e] = New("message", n)
    BY <1>2, <1>3 DEF Post, AppendAll
  <2> QED
    BY <2>1 DEF New
<1>4. ASSUME NEW w \in Name, NEW n \in Nodes, File(w, n) PROVE FALSE
  <2>1. events'[e] = [New("item_filed", n) EXCEPT !.item = head + 1]
    BY <1>2, <1>4 DEF File, AppendAll
  <2> QED
    BY <2>1 DEF New
<1>5. ASSUME NEW w \in Name, NEW i \in Items, NEW type \in Resolving, NEW m \in Messages \cup {None},
             Resolve(w, i, type, m)
      PROVE  FALSE
  <2>1. events'[e] = [New(type, items[i].queue) EXCEPT !.item = i, !.ref = m]
    BY <1>2, <1>5 DEF Resolve, AppendAll
  <2> QED
    BY <2>1 DEF New, Resolving
<1>6. ASSUME NEW w \in Name, NEW n \in Nodes, NEW p \in Path \cup {Top}, NEW m \in Messages \cup {None},
             Save(w, n, p, m)
      PROVE  Goal
  <2>1. events'[e] = [NewVersion(n, CurrentVersion(n) + 1, w) EXCEPT !.ref = m, !.thread = p]
    BY <1>2, <1>6 DEF Save, AppendAll
  <2>2. events'[e].node = n /\ events'[e].actor = w
    BY <2>1 DEF NewVersion, New
  <2>3. Last(n) = {seen[w].last} \ {None}
    BY <1>6, <2>2, SavesOverTheLast
  <2> QED
    BY <2>2, <2>3
<1>7. ASSUME NEW w \in Name, NEW n \in Nodes, Read(w, n) PROVE FALSE
  BY <1>7 DEF Read, Events
<1>8. ASSUME NEW n \in Nodes, DeleteBranch(n) PROVE FALSE
  <2>1. events'[e] = NoEvent \/ events'[e] = events[e]
    BY <1>8 DEF DeleteBranch, Events
  <2> QED
    BY <2>1 DEF Events
<1>9. ASSUME NEW m \in Events, DeleteMessage(m) PROVE FALSE
  <2>1. events'[e] = NoEvent \/ events'[e] = events[e]
    BY <1>9 DEF DeleteMessage, Events
  <2> QED
    BY <2>1 DEF Events
<1>10. ASSUME NEW t \in Events, NEW type \in Archiving, Archive(t, type) PROVE FALSE
  <2>1. PICK x : x = [New(type, events[t].node) EXCEPT !.item = events[t].item, !.ref = t]
    OBVIOUS
  <2>2. /\ head < MaxHead /\ e # t /\ e \in Id
        /\ events' = [Appended(<<x>>) EXCEPT ![t].archived = ArchivedBy(type, head + 1)]
    BY <1>10, <2>1 DEF Archive, Events
  <2>3. events'[e] = Appended(<<x>>)[e]
    BY <2>2, AppendedOne DEF Inv
  <2>4. e = head + 1 /\ events'[e] = x
    BY <2>2, <2>3, AppendedOne DEF Inv, Events
  <2> QED
    BY <2>1, <2>4 DEF New, Archiving
<1> QED
  BY <1>1, <1>3, <1>4, <1>5, <1>6, <1>7, <1>8, <1>9, <1>10 DEF Next

\* No version is saved over one that its writer has not read, but over another
\* note's at the path of a deleted one (set_note).
THEOREM UpdatesAreNotLost == Spec => NoUpdateIsLost
<1> DEFINE Kept == \A e \in Events' \ Events :
       LET new == events'[e] IN
       new.type = "note_version" /\ new.node \in Nodes /\ seen[new.actor].created \in Events
         => Last(new.node) = {seen[new.actor].last} \ {None}
<1>1. Inv /\ [Next]_vars => [Kept]_vars
  BY NoStepLoses
<1> HIDE DEF Kept
<1>2. Spec => [][Kept]_vars
  BY <1>1, InvAlways, PTL DEF Spec
<1> QED
  BY <1>2 DEF NoUpdateIsLost, Kept
=============================================================================
