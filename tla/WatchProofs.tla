----------------------------- MODULE WatchProofs -----------------------------
(***************************************************************************)
(* The theorems of Watch.tla, for any clients, names and subscriptions,    *)
(* any log and any page size: that a page is news, that a cursor passes    *)
(* over nothing, that what is archived is taken back, and that a wait ends *)
(* on its item's resolution.  And those of Reads.tla, whose reads give a   *)
(* watch the cursor it starts from.                                        *)
(***************************************************************************)
EXTENDS Watch, Reads, FiniteSetTheorems, SequenceTheorems, WellFoundedInduction, TLAPS

(***************************************************************************)
(* The inductive invariant.                                                *)
(***************************************************************************)

\* What the events say of each other.
EventsAgree ==
  \A e \in 1 .. head :
    /\ log[e].item \in 0 .. e
    /\ log[e].type = "filed" => log[e].item = e
    /\ log[e].type \in {"message", "created", "version"} => log[e].item = None
    /\ log[e].type = "message" => log[e].node = "thread"
    /\ log[e].item # None => log[log[e].item].type = "filed" /\ log[e].node = "queue"
    /\ log[e].type = "archived" =>
         LET t == log[e].ref IN
           /\ t \in 1 .. (e - 1) /\ log[t].type \in {"message", "filed"}
           /\ log[e].node = log[t].node /\ log[e].item = log[t].item /\ log[e].from = Owner

\* The archive event of t is its latest, is there as long as it is, and is after
\* everything that happened to t but to be archived and shown.
ArchivedLast(t) ==
  LET a == archived[t] IN
  a # None =>
    /\ t \in 1 .. head /\ a \in (t + 1) .. head
    /\ log[a].type = "archived" /\ log[a].ref = t /\ a \notin gone
    /\ \A b \in 1 .. head : log[b].type = "archived" /\ log[b].ref = t => b <= a
    /\ \A e \in 1 .. head : log[e].item = t /\ log[e].type \notin ArchiveTypes => e < a

\* The client is to hear of e: it asked for it, and it was never hidden.
Meant(c, e) == e \in 1 .. head /\ e \notin gone /\ Matches(watch[c], e) /\ ~WasHidden(e)

\* A cursor of c's passes nothing but what was there, or where c began.
Within(c, cursor) == cursor \in since[c] .. Larger(head, start[c])

\* What it heard is what it asked for, after its start and up to its cursor.
HeardFollows(c) ==
  /\ start[c] <= since[c] /\ Within(c, since[c])
  /\ \A h \in heard[c] :
       /\ start[c] < h /\ Matches(watch[c], h)
       /\ pc[c] # "done" => h <= since[c]
  /\ \A e \in (start[c] + 1) .. since[c] : Meant(c, e) => e \in heard[c]
  /\ pc[c] = "off" => heard[c] = {}

\* The page on its way goes on from there, and has all up to its cursor.
PageFollows(c) ==
  /\ \A e \in page[c].events : e \in (since[c] + 1) .. page[c].cursor /\ e <= head /\ Matches(watch[c], e)
  /\ pc[c] = "reads" =>
       /\ Within(c, page[c].cursor)
       /\ \A e \in (since[c] + 1) .. page[c].cursor : Meant(c, e) => e \in page[c].events
  /\ pc[c] # "reads" => page[c].events = {}

\* The scans before this one have passed nothing.
ScanFollows(c) ==
  scan_from[c] # NoPoll =>
    /\ pc[c] = "polls" /\ Within(c, scan_from[c])
    /\ \A e \in (since[c] + 1) .. scan_from[c] : ~Meant(c, e)

ClientInv(c) == HeardFollows(c) /\ PageFollows(c) /\ ScanFollows(c)

Inv ==
  /\ TypeOK /\ EventsAgree
  /\ \A t \in Ids : ArchivedLast(t)
  /\ \A c \in Clients : ClientInv(c)

-----------------------------------------------------------------------------
(***************************************************************************)
(* What a step leaves as it is.                                            *)
(***************************************************************************)

LEMMA HeadIsNat == TypeOK => head \in Nat /\ head <= MaxHead /\ MaxHead \in Nat /\ Ids = 1 .. MaxHead
  BY LimitAssumption DEF TypeOK, head, Ids

\* The log only grows.
Extends ==
  /\ head' \in Nat /\ head <= head'
  /\ \A e \in 1 .. head : log'[e] = log[e]

\* So what is asked for, and what was hidden once, stay so.
LEMMA Stable ==
  ASSUME TypeOK, EventsAgree, Extends
  PROVE  /\ \A w : \A e \in 1 .. head : Matches(w, e)' <=> Matches(w, e)
         /\ \A e \in 1 .. head : WasHidden(e) => WasHidden(e)'
<1>1. head \in Nat
  BY HeadIsNat
<1>2. \A w : \A e \in 1 .. head : Matches(w, e)' <=> Matches(w, e)
  <2> SUFFICES ASSUME NEW w, NEW e \in 1 .. head PROVE Matches(w, e)' <=> Matches(w, e)
    OBVIOUS
  <2>1. log'[e] = log[e]
    BY DEF Extends
  <2>2. log[e].item # None => log'[log[e].item] = log[log[e].item]
    BY <1>1 DEF EventsAgree, Extends, None
  <2> QED
    BY <2>1, <2>2 DEF Matches, Heard
<1>3. ASSUME NEW e \in 1 .. head, WasHidden(e) PROVE WasHidden(e)'
  <2>1. PICK a \in (e + 1) .. head : log[a].type = "archived" /\ log[a].ref \in {e, log[e].item}
    BY <1>3 DEF WasHidden
  <2>2. a \in 1 .. head /\ a \in (e + 1) .. head'
    BY <1>1, <1>3, <2>1 DEF Extends
  <2> QED
    BY <1>3, <2>1, <2>2 DEF WasHidden, Extends
<1> QED
  BY <1>2, <1>3

\* Client c is left as it is, but that the server may have dropped its poll.
Untouched(c) ==
  /\ pc'[c] = pc[c] /\ watch'[c] = watch[c] /\ waits_for'[c] = waits_for[c] /\ start'[c] = start[c]
  /\ since'[c] = since[c] /\ heard'[c] = heard[c] /\ page'[c] = page[c]
  /\ scan_from'[c] \in {scan_from[c], NoPoll}

LEMMA UntouchedFollows ==
  ASSUME TypeOK, EventsAgree, Extends, gone \subseteq gone', NEW c \in Clients, Untouched(c), ClientInv(c)
  PROVE  ClientInv(c)'
<1>1. /\ head \in Nat /\ head' \in Nat /\ head <= head' /\ start[c] \in Nat /\ since[c] \in Nat
      /\ scan_from[c] \in Int /\ page[c].cursor \in Nat /\ page[c].events \subseteq Ids /\ heard[c] \subseteq 1 .. head
      /\ start[c] <= since[c]
  BY HeadIsNat DEF TypeOK, Extends, NoPoll, Page, ClientInv, HeardFollows, head
<1>2. \A w : \A e \in 1 .. head : Matches(w, e)' <=> Matches(w, e)
  BY Stable
<1>3. \A e \in 1 .. head : WasHidden(e) => WasHidden(e)'
  BY Stable
<1>4. \A cursor : Within(c, cursor) => Within(c, cursor)'
  BY <1>1 DEF Within, Untouched, Larger
\* An event that is new is after every cursor that was not ahead.
<1>5. ASSUME NEW cursor, Within(c, cursor), NEW e \in (since[c] + 1) .. cursor
      PROVE  e \in 1 .. head
  BY <1>1, <1>5 DEF Within, Larger
<1>6. ASSUME NEW e \in (start[c] + 1) .. since[c]
      PROVE  e \in 1 .. head
  BY <1>1 DEF ClientInv, HeardFollows, Within, Larger
<1>7. ASSUME NEW e \in 1 .. head, Meant(c, e)'
      PROVE  Meant(c, e)
  BY <1>2, <1>3, <1>7 DEF Meant, Untouched
<1>8. HeardFollows(c)'
  <2>1. start'[c] <= since'[c] /\ Within(c, since[c])'
    BY <1>4 DEF ClientInv, HeardFollows, Untouched
  <2>2. \A h \in heard'[c] : /\ start'[c] < h /\ Matches(watch[c], h)'
                             /\ pc'[c] # "done" => h <= since'[c]
    BY <1>1, <1>2 DEF ClientInv, HeardFollows, Untouched
  <2>3. \A e \in (start'[c] + 1) .. since'[c] : Meant(c, e)' => e \in heard'[c]
    BY <1>6, <1>7 DEF ClientInv, HeardFollows, Untouched
  <2> QED
    BY <2>1, <2>2, <2>3 DEF ClientInv, HeardFollows, Untouched
<1>9. PageFollows(c)'
  <2>1. \A e \in page'[c].events :
          e \in (since'[c] + 1) .. page'[c].cursor /\ e <= head' /\ Matches(watch[c], e)'
    <3> SUFFICES ASSUME NEW e \in page[c].events
                 PROVE  e \in (since[c] + 1) .. page[c].cursor /\ e <= head' /\ Matches(watch[c], e)'
      BY DEF Untouched
    <3>1. e \in (since[c] + 1) .. page[c].cursor /\ e <= head /\ Matches(watch[c], e)
      BY DEF ClientInv, PageFollows
    <3>2. e \in 1 .. head
      BY <1>1, <3>1
    <3> QED
      BY <1>1, <1>2, <3>1, <3>2 DEF Untouched
  <2>2. pc'[c] = "reads" =>
          /\ Within(c, page[c].cursor)'
          /\ \A e \in (since'[c] + 1) .. page'[c].cursor : Meant(c, e)' => e \in page'[c].events
    BY <1>4, <1>5, <1>7 DEF ClientInv, PageFollows, Untouched
  <2> QED
    BY <2>1, <2>2 DEF ClientInv, PageFollows, Untouched
<1>10. ScanFollows(c)'
  <2> SUFFICES ASSUME scan_from'[c] = scan_from[c], scan_from[c] # NoPoll PROVE ScanFollows(c)'
    BY DEF Untouched, ScanFollows
  <2>1. Within(c, scan_from[c]) /\ pc[c] = "polls" /\ \A e \in (since[c] + 1) .. scan_from[c] : ~Meant(c, e)
    BY DEF ClientInv, ScanFollows
  <2>2. \A e \in (since'[c] + 1) .. scan_from'[c] : ~Meant(c, e)'
    BY <1>5, <1>7, <2>1 DEF Untouched
  <2>3. Within(c, scan_from[c])'
    BY <1>4, <2>1
  <2> QED
    BY <2>1, <2>2, <2>3 DEF Untouched, ScanFollows
<1> QED
  BY <1>8, <1>9, <1>10 DEF ClientInv

-----------------------------------------------------------------------------
(***************************************************************************)
(* The board's writes.                                                     *)
(***************************************************************************)

\* An event x that is written agrees with the log before it.
Agrees(x) ==
  /\ x \in Event
  /\ x.type = "filed" => x.item = head + 1
  /\ x.type \in {"message", "created", "version"} => x.item = None
  /\ x.type = "message" => x.node = "thread"
  /\ x.item # None => /\ x.node = "queue" /\ x.item \in 1 .. (head + 1)
                      /\ x.item = head + 1 => x.type = "filed"
                      /\ x.item # head + 1 => log[x.item].type = "filed"
  /\ x.type = "archived" =>
       /\ x.ref \in 1 .. head /\ log[x.ref].type \in {"message", "filed"}
       /\ x.node = log[x.ref].node /\ x.item = log[x.ref].item /\ x.from = Owner

LEMMA Appends ==
  ASSUME TypeOK, EventsAgree, head < MaxHead, NEW x, Agrees(x), log' = Append(log, x)
  PROVE  /\ Extends /\ head' = head + 1 /\ log'[head + 1] = x
         /\ log' \in Seq(Event) /\ EventsAgree'
<1>1. head \in Nat /\ log \in Seq(Event) /\ x \in Event /\ x.item \in Nat
  BY HeadIsNat DEF TypeOK, Agrees, Event, Ids, None
<1>2. /\ log' \in Seq(Event) /\ head' = head + 1 /\ log'[head + 1] = x
      /\ \A e \in 1 .. head : log'[e] = log[e]
  BY <1>1, AppendProperties DEF head
<1>3. Extends
  <2>1. head' \in Nat
    BY <1>1, <1>2
  <2>2. head <= head'
    BY <1>1, <1>2
  <2>3. \A e \in 1 .. head : log'[e] = log[e]
    BY <1>2
  <2> QED
    BY <2>1, <2>2, <2>3 DEF Extends
<1>4. EventsAgree'
  <2> SUFFICES ASSUME NEW e \in 1 .. head'
               PROVE  /\ log'[e].item \in 0 .. e
                      /\ log'[e].type = "filed" => log'[e].item = e
                      /\ log'[e].type \in {"message", "created", "version"} => log'[e].item = None
                      /\ log'[e].type = "message" => log'[e].node = "thread"
                      /\ log'[e].item # None => log'[log'[e].item].type = "filed" /\ log'[e].node = "queue"
                      /\ log'[e].type = "archived" =>
                           LET t == log'[e].ref IN
                             /\ t \in 1 .. (e - 1) /\ log'[t].type \in {"message", "filed"}
                             /\ log'[e].node = log'[t].node /\ log'[e].item = log'[t].item /\ log'[e].from = Owner
    BY DEF EventsAgree
  <2>1. CASE e = head + 1
    <3>1. log'[e] = x
      BY <1>2, <2>1
    <3>2. x.item \in 0 .. e
      BY <1>1, <2>1 DEF Agrees, None
    <3>3. x.item # None => log'[x.item].type = "filed" /\ x.node = "queue"
      <4> SUFFICES ASSUME x.item # None PROVE log'[x.item].type = "filed" /\ x.node = "queue"
        OBVIOUS
      <4>1. CASE x.item = head + 1
        BY <1>2, <4>1 DEF Agrees
      <4>2. CASE x.item # head + 1
        <5>1. x.item \in 1 .. head /\ log[x.item].type = "filed" /\ x.node = "queue"
          BY <1>1, <4>2 DEF Agrees
        <5> QED
          BY <1>2, <5>1
      <4> QED
        BY <4>1, <4>2
    <3>4. x.type = "archived" =>
            /\ x.ref \in 1 .. (e - 1) /\ log'[x.ref].type \in {"message", "filed"}
            /\ x.node = log'[x.ref].node /\ x.item = log'[x.ref].item /\ x.from = Owner
      <4> SUFFICES ASSUME x.type = "archived"
                   PROVE  /\ x.ref \in 1 .. (e - 1) /\ log'[x.ref].type \in {"message", "filed"}
                          /\ x.node = log'[x.ref].node /\ x.item = log'[x.ref].item /\ x.from = Owner
        OBVIOUS
      <4>1. /\ x.ref \in 1 .. head /\ log[x.ref].type \in {"message", "filed"}
            /\ x.node = log[x.ref].node /\ x.item = log[x.ref].item /\ x.from = Owner
        BY DEF Agrees
      <4>2. log'[x.ref] = log[x.ref]
        BY <1>2, <4>1
      <4>3. x.ref \in 1 .. (e - 1)
        BY <1>1, <2>1, <4>1
      <4> QED
        BY <4>1, <4>2, <4>3
    <3> QED
      BY <2>1, <3>1, <3>2, <3>3, <3>4 DEF Agrees
  <2>2. CASE e # head + 1
    <3>1. e \in 1 .. head
      BY <1>1, <1>2, <2>2
    <3>2. log'[e] = log[e] /\ log[e].item \in 0 .. e
      BY <1>2, <3>1 DEF EventsAgree
    <3>3. log[e].item # None => log[e].item \in 1 .. head
      BY <1>1, <3>1, <3>2 DEF None
    <3>4. log[e].type = "archived" => log[e].ref \in 1 .. head
      BY <1>1, <3>1 DEF EventsAgree
    <3>5. /\ log[e].item # None => log'[log[e].item] = log[log[e].item]
          /\ log[e].type = "archived" => log'[log[e].ref] = log[log[e].ref]
      BY <1>2, <3>3, <3>4
    <3>6. /\ log[e].type = "filed" => log[e].item = e
          /\ log[e].type \in {"message", "created", "version"} => log[e].item = None
          /\ log[e].type = "message" => log[e].node = "thread"
          /\ log[e].item # None => log[log[e].item].type = "filed" /\ log[e].node = "queue"
      BY <3>1 DEF EventsAgree
    <3>7. log[e].type = "archived" =>
            /\ log[e].ref \in 1 .. (e - 1) /\ log[log[e].ref].type \in {"message", "filed"}
            /\ log[e].node = log[log[e].ref].node /\ log[e].item = log[log[e].ref].item
            /\ log[e].from = Owner
      BY <3>1 DEF EventsAgree
    <3> QED
      BY <3>2, <3>5, <3>6, <3>7
  <2> QED
    BY <2>1, <2>2
<1> QED
  BY <1>2, <1>3, <1>4

\* A write of event x, that archives and shows nothing, or only its target.
LEMMA WriteInv ==
  ASSUME Inv, head < MaxHead, NEW x, Agrees(x), log' = Append(log, x),
         archived' \in [Ids -> Ids \cup {None}], gone' = gone, note' \in {note, head + 1},
         UNCHANGED <<up, client, poll>>,
         \A t \in Ids :
           \/ archived'[t] = None
           \/ archived'[t] = archived[t] /\ (x.type = "archived" => x.ref # t)
              /\ (x.type \notin ArchiveTypes => x.item # t)
           \/ archived'[t] = head + 1 /\ x.type = "archived" /\ x.ref = t
  PROVE  Inv'
<1>1. TypeOK /\ EventsAgree /\ head \in Nat /\ head < MaxHead /\ MaxHead \in Nat /\ gone \subseteq 1 .. head
  BY HeadIsNat DEF Inv, TypeOK, head
<1>2. /\ Extends /\ head' = head + 1 /\ log'[head + 1] = x
      /\ log' \in Seq(Event) /\ EventsAgree'
  BY <1>1, Appends
<1>3. UNCHANGED <<pc, watch, waits_for, start, since, heard, scan_from, page, up>>
  BY DEF client, poll
<1>4. TypeOK'
  <2>1. Len(log') = head + 1 /\ Len(log') <= MaxHead /\ 1 .. Len(log) \subseteq 1 .. Len(log')
    BY <1>1, <1>2 DEF head
  <2>2. note' \in 0 .. Len(log') /\ gone' \subseteq 1 .. Len(log')
    BY <1>1, <2>1 DEF TypeOK, head
  <2>3. heard' \in [Clients -> SUBSET (1 .. Len(log'))]
    BY <1>1, <1>3, <2>1 DEF TypeOK
  <2> QED
    BY <1>1, <1>2, <1>3, <2>1, <2>2, <2>3 DEF TypeOK
<1>5. ASSUME NEW c \in Clients PROVE ClientInv(c)'
  <2>1. Untouched(c)
    BY <1>3 DEF Untouched
  <2> QED
    BY <1>1, <1>2, <2>1, UntouchedFollows DEF Inv
<1>6. ASSUME NEW t \in Ids PROVE ArchivedLast(t)'
  <2>1. \A e \in 1 .. head' : e \in 1 .. head \/ e = head + 1
    BY <1>1, <1>2
  <2>2. CASE archived'[t] = None
    BY <2>2 DEF ArchivedLast
  <2>3. CASE archived'[t] = archived[t] /\ archived[t] # None /\ (x.type = "archived" => x.ref # t)
             /\ (x.type \notin ArchiveTypes => x.item # t)
    <3>1. /\ t \in 1 .. head /\ archived[t] \in (t + 1) .. head
          /\ log[archived[t]].type = "archived" /\ log[archived[t]].ref = t /\ archived[t] \notin gone
          /\ \A b \in 1 .. head : log[b].type = "archived" /\ log[b].ref = t => b <= archived[t]
          /\ \A e \in 1 .. head : log[e].item = t /\ log[e].type \notin ArchiveTypes => e < archived[t]
      BY <2>3 DEF Inv, ArchivedLast
    <3>2. archived[t] \in 1 .. head /\ t \in 1 .. head' /\ archived[t] \in (t + 1) .. head'
      BY <1>1, <1>2, <3>1
    <3> QED
      BY <1>2, <2>1, <2>3, <3>1, <3>2 DEF ArchivedLast, Extends
  <2>4. CASE archived'[t] = head + 1 /\ x.type = "archived" /\ x.ref = t
    <3>1. t \in 1 .. head /\ t \in 1 .. head' /\ head + 1 \in (t + 1) .. head' /\ head + 1 \notin gone
      BY <1>1, <1>2, <2>4 DEF Agrees
    <3>2. \A b \in 1 .. head' : b <= head + 1
      BY <1>1, <1>2
    <3>3. \A e \in 1 .. head' : log'[e].type \notin ArchiveTypes => e < head + 1
      <4>1. log'[head + 1].type \in ArchiveTypes
        BY <1>2, <2>4 DEF ArchiveTypes
      <4>2. \A e \in 1 .. head : e < head + 1
        BY <1>1
      <4> QED
        BY <2>1, <4>1, <4>2
    <3> QED
      BY <1>2, <2>4, <3>1, <3>2, <3>3 DEF ArchivedLast
  <2> QED
    BY <2>2, <2>3, <2>4
<1> QED
  BY <1>2, <1>4, <1>5, <1>6 DEF Inv

LEMMA PostInv ==
  ASSUME Inv, NEW n \in Names, NEW mentions \in SUBSET Names,
         Post(n, mentions) \/ Create(n) \/ Save(n) \/ File(n, mentions)
  PROVE  Inv'
<1>1. /\ TypeOK /\ head \in Nat /\ head < MaxHead /\ MaxHead \in Nat /\ Ids = 1 .. MaxHead
      /\ mentions \in SUBSET Names /\ {} \in SUBSET Names
  BY HeadIsNat DEF Inv, Post, Create, Save, File, Writable
<1> DEFINE Wrote(type, node, item, m) ==
      /\ log' = Append(log, [type |-> type, node |-> node, item |-> item, ref |-> None,
                             from |-> n, mentions |-> m])
      /\ type = "message" => node = "thread"
      /\ type = "filed" <=> item = head + 1
      /\ type = "filed" => node = "queue"
      /\ archived' = archived /\ gone' = gone /\ note' \in {note, head + 1}
      /\ UNCHANGED <<up, client, poll>>
<1>2. PICK type \in {"message", "created", "version", "filed"},
           node \in {"thread", "note", "queue"}, item \in {None, head + 1}, m \in SUBSET Names :
        Wrote(type, node, item, m)
  <2>1. head + 1 # None
    BY <1>1 DEF None
  <2>2. CASE Post(n, mentions)
    <3>1. Wrote("message", "thread", None, mentions)
      BY <2>1, <2>2 DEF Post, Append1
    <3> QED
      BY <1>1, <3>1
  <2>3. CASE Create(n)
    <3>1. Wrote("created", "note", None, {})
      BY <2>1, <2>3 DEF Create, Append1
    <3> QED
      BY <1>1, <3>1
  <2>4. CASE Save(n)
    <3>1. Wrote("version", "note", None, {})
      BY <2>1, <2>4 DEF Save, Append1
    <3> QED
      BY <1>1, <3>1
  <2>5. CASE File(n, mentions)
    <3>1. Wrote("filed", "queue", head + 1, mentions)
      BY <2>1, <2>5 DEF File, Append1
    <3> QED
      BY <1>1, <3>1
  <2> QED
    BY <2>2, <2>3, <2>4, <2>5
<1> DEFINE x == [type |-> type, node |-> node, item |-> item, ref |-> None, from |-> n, mentions |-> m]
<1>3. head + 1 \in Ids /\ head + 1 # None
  BY <1>1 DEF None
<1>4. x \in Event
  BY <1>3 DEF Event, Types, Leaves
<1>5. Agrees(x)
  BY <1>1, <1>2, <1>3, <1>4 DEF Agrees
<1>6. ASSUME NEW t \in Ids, archived[t] # None PROVE x.item # t
  <2>1. t \in 1 .. head
    BY <1>6 DEF Inv, ArchivedLast
  <2> QED
    BY <1>1, <2>1 DEF None
<1>7. archived \in [Ids -> Ids \cup {None}] /\ x.type # "archived"
  BY <1>1 DEF TypeOK
<1> QED
  BY <1>1, <1>2, <1>5, <1>6, <1>7, WriteInv

LEMMA ResolveInv ==
  ASSUME Inv, NEW i \in Ids, NEW n \in Names, NEW mentions \in Mentions[n], Resolve(i, n, mentions)
  PROVE  Inv'
<1> DEFINE x == [type |-> "resolved", node |-> "queue", item |-> i, ref |-> None,
                 from |-> n, mentions |-> mentions]
<1>1. TypeOK /\ head \in Nat /\ head < MaxHead /\ Ids = 1 .. MaxHead /\ mentions \subseteq Names
  BY HeadIsNat, OwnerAssumption DEF Inv, Resolve, Writable
<1>2. /\ log' = Append(log, x) /\ i \in 1 .. head /\ log[i].type = "filed" /\ archived[i] = None
      /\ archived' = archived /\ gone' = gone /\ note' = note /\ UNCHANGED <<up, client, poll>>
  BY DEF Resolve, Open, Append1
<1>3. x \in Event
  BY <1>1 DEF Event, Types, Leaves
<1>4. Agrees(x)
  BY <1>1, <1>2, <1>3 DEF Agrees, None
<1>5. \A t \in Ids : archived[t] # None => x.item # t
  BY <1>2
<1>6. archived \in [Ids -> Ids \cup {None}] /\ x.type # "archived"
  BY <1>1 DEF TypeOK
<1> QED
  BY <1>1, <1>2, <1>4, <1>5, <1>6, WriteInv

LEMMA ArchiveInv ==
  ASSUME Inv, NEW t \in Ids, NEW hide \in BOOLEAN, Archive(t, hide)
  PROVE  Inv'
<1> DEFINE x == [type |-> IF hide THEN "archived" ELSE "unarchived", node |-> log[t].node,
                 item |-> IF log[t].item = t THEN t ELSE None, ref |-> t,
                 from |-> Owner, mentions |-> {}]
<1>1. TypeOK /\ EventsAgree /\ head \in Nat /\ head < MaxHead /\ MaxHead \in Nat /\ Ids = 1 .. MaxHead /\ log \in Seq(Event)
  BY HeadIsNat DEF Inv, TypeOK, Archive, Writable
<1>2. /\ log' = Append(log, x) /\ t \in 1 .. head /\ log[t].type \in {"message", "filed"}
      /\ archived' = [archived EXCEPT ![t] = IF hide THEN head + 1 ELSE None]
      /\ gone' = gone /\ note' = note /\ UNCHANGED <<up, client, poll>>
  BY DEF Archive, Append1
<1>3. log[t] \in Event
  BY <1>1, <1>2, ElementOfSeq DEF head
\* The archive event is about the item if its target is one.
<1>4. /\ log[t].type = "filed" => log[t].item = t /\ log[t].node = "queue"
      /\ log[t].type = "message" => log[t].item = None
      /\ t # None /\ x.item = log[t].item
  <2>1. t # None
    BY <1>1, <1>2 DEF None
  <2>2. log[t].type = "filed" => log[t].item = t /\ log[t].node = "queue"
    BY <1>1, <1>2, <2>1 DEF EventsAgree
  <2>3. log[t].type = "message" => log[t].item = None
    BY <1>1, <1>2 DEF EventsAgree
  <2> QED
    BY <1>2, <2>1, <2>2, <2>3
<1>5. x \in Event
  BY <1>3, OwnerAssumption DEF Event, Types
<1>6. Agrees(x)
  <2>1. x.type \in ArchiveTypes /\ (x.type = "archived" => x.ref \in 1 .. head)
    BY <1>2 DEF ArchiveTypes
  <2>2. x.item # None => x.node = "queue" /\ x.item \in 1 .. head /\ log[x.item].type = "filed"
    BY <1>2, <1>4
  <2>3. 1 .. head \subseteq 1 .. (head + 1) /\ head + 1 \notin 1 .. head
    BY <1>1
  <2> QED
    BY <1>2, <1>4, <1>5, <2>1, <2>2, <2>3 DEF Agrees, ArchiveTypes
<1>7. archived' \in [Ids -> Ids \cup {None}] /\ head + 1 \in Ids
  BY <1>1, <1>2 DEF TypeOK
<1>8. ASSUME NEW u \in Ids
      PROVE  \/ archived'[u] = None
             \/ archived'[u] = archived[u] /\ (x.type = "archived" => x.ref # u)
                /\ (x.type \notin ArchiveTypes => x.item # u)
             \/ archived'[u] = head + 1 /\ x.type = "archived" /\ x.ref = u
  BY <1>1, <1>2 DEF TypeOK, ArchiveTypes
<1> QED
  BY <1>1, <1>2, <1>6, <1>7, <1>8, WriteInv

\* Without the server, nothing is written; what is deleted is no archive event of what
\* is left.
LEMMA DeleteInv ==
  ASSUME Inv, (\E m \in Ids : DeleteMessage(m)) \/ DeleteNote
  PROVE  Inv'
<1>1. TypeOK /\ EventsAgree /\ head \in Nat
  BY HeadIsNat DEF Inv
<1>2. UNCHANGED <<log, pc, watch, waits_for, start, since, heard, scan_from, page, up>>
  BY DEF DeleteMessage, DeleteNote, client, poll
<1>3. /\ gone \subseteq gone' /\ gone' \subseteq 1 .. head /\ note' \in {note, None}
      /\ archived' \in [Ids -> Ids \cup {None}]
      /\ \A t \in Ids : archived'[t] # None => /\ archived'[t] = archived[t]
                                               /\ archived[t] \in gone' => archived[t] \in gone
  <2>1. CASE \E m \in Ids : DeleteMessage(m)
    <3>0. PICK m \in Ids : DeleteMessage(m)
      BY <2>1
    <3>1. /\ m \in 1 .. head /\ log[m].type = "message"
          /\ gone' = gone \cup {m} \cup {e \in 1 .. head : log[e].ref = m /\ log[e].type \in ArchiveTypes}
          /\ archived' = [archived EXCEPT ![m] = None] /\ note' = note
      BY <3>0 DEF DeleteMessage
    <3>2. gone \subseteq gone' /\ gone' \subseteq 1 .. head /\ note' \in {note, None}
      BY <1>1, <3>1 DEF TypeOK, head
    <3>3. /\ archived' \in [Ids -> Ids \cup {None}]
          /\ \A t \in Ids : archived'[t] # None => t # m /\ archived'[t] = archived[t]
      BY <1>1, <3>1 DEF TypeOK
    <3>4. ASSUME NEW t \in Ids, archived'[t] # None, archived[t] \in gone' PROVE archived[t] \in gone
      <4>1. t # m /\ log[archived[t]].type = "archived" /\ log[archived[t]].ref = t
        BY <3>3, <3>4 DEF Inv, ArchivedLast
      <4>2. archived[t] # m
        BY <3>1, <4>1
      <4> QED
        BY <3>1, <3>4, <4>1, <4>2
    <3> QED
      BY <3>2, <3>3, <3>4
  <2>2. CASE DeleteNote
    <3>1. /\ gone' = gone \cup {e \in 1 .. head : log[e].node = "note"}
          /\ archived' = archived /\ note' = None
      BY <2>2 DEF DeleteNote
    <3>2. gone \subseteq gone' /\ gone' \subseteq 1 .. head /\ archived \in [Ids -> Ids \cup {None}]
      BY <1>1, <3>1 DEF TypeOK, head
    <3>3. ASSUME NEW t \in Ids, archived[t] # None, archived[t] \in gone' PROVE archived[t] \in gone
      <4>1. archived[t] \in 1 .. head /\ t \in 1 .. head /\ log[archived[t]].type = "archived" /\ log[archived[t]].ref = t
        BY <1>1, <3>3 DEF Inv, ArchivedLast
      <4>2. log[archived[t]].node = log[t].node /\ log[t].type \in {"message", "filed"}
        BY <1>1, <4>1 DEF EventsAgree
      <4>3. log[t].node # "note"
        BY <1>1, <4>1, <4>2 DEF EventsAgree, None
      <4> QED
        BY <3>1, <3>3, <4>2, <4>3
    <3> QED
      BY <3>1, <3>2, <3>3
  <2> QED
    BY <2>1, <2>2
<1>4. TypeOK'
  BY <1>1, <1>2, <1>3 DEF TypeOK, head, None
<1>5. EventsAgree' /\ Extends
  BY <1>1, <1>2 DEF Inv, EventsAgree, Extends, head
<1>6. ASSUME NEW c \in Clients PROVE ClientInv(c)'
  <2>1. Untouched(c)
    BY <1>2 DEF Untouched
  <2> QED
    BY <1>1, <1>3, <1>5, <2>1, UntouchedFollows DEF Inv
<1>7. ASSUME NEW t \in Ids PROVE ArchivedLast(t)'
  <2> SUFFICES ASSUME archived'[t] # None PROVE ArchivedLast(t)'
    BY DEF ArchivedLast
  <2>1. archived'[t] = archived[t] /\ (archived[t] \in gone' => archived[t] \in gone)
    BY <1>3
  <2>2. ArchivedLast(t)
    BY DEF Inv
  <2> QED
    BY <1>2, <2>1, <2>2 DEF ArchivedLast, head
<1> QED
  BY <1>4, <1>5, <1>6, <1>7 DEF Inv

-----------------------------------------------------------------------------
(***************************************************************************)
(* The steps of the server's polls and of the clients.                     *)
(***************************************************************************)

\* They write nothing, so what the log says is as it was.
LEMMA Same ==
  ASSUME UNCHANGED board
  PROVE  /\ head' = head
         /\ \A w, e : Matches(w, e)' <=> Matches(w, e)
         /\ \A e : WasHidden(e)' <=> WasHidden(e)
  BY DEF board, head, Matches, Heard, WasHidden

LEMMA StepInv ==
  ASSUME Inv, UNCHANGED board, TypeOK',
         \A c \in Clients : Untouched(c) \/ ClientInv(c)'
  PROVE  Inv'
<1>1. TypeOK /\ EventsAgree /\ head \in Nat
  BY HeadIsNat DEF Inv
<1>2. EventsAgree' /\ Extends /\ gone' = gone
  BY <1>1 DEF board, EventsAgree, Extends, head
<1>3. \A t \in Ids : ArchivedLast(t)'
  BY DEF Inv, board, ArchivedLast, head
<1>4. \A c \in Clients : ClientInv(c)'
  BY <1>1, <1>2, UntouchedFollows DEF Inv
<1> QED
  BY <1>2, <1>3, <1>4 DEF Inv

LEMMA StopInv ==
  ASSUME Inv, Stop \/ Restart
  PROVE  Inv'
<1>1. /\ UNCHANGED board /\ UNCHANGED <<pc, watch, waits_for, start, since, heard, page>>
      /\ up' \in BOOLEAN
      /\ scan_from' = scan_from \/ scan_from' = [c \in Clients |-> NoPoll]
  BY DEF Stop, Restart, client, poll
<1>2. scan_from' \in [Clients -> NoPoll .. MaxHead] /\ \A c \in Clients : scan_from'[c] \in {scan_from[c], NoPoll}
  BY <1>1, LimitAssumption DEF Inv, TypeOK, NoPoll
<1>3. TypeOK'
  BY <1>1, <1>2 DEF Inv, TypeOK, board
<1>4. \A c \in Clients : Untouched(c)
  BY <1>1, <1>2 DEF Untouched
<1> QED
  BY <1>1, <1>3, <1>4, StepInv

\* What is hidden now was hidden when it was archived, after it was written.
LEMMA HiddenWas ==
  ASSUME Inv, NEW e \in 1 .. head, Hidden(e)
  PROVE  WasHidden(e)
<1>1. TypeOK /\ head \in Nat /\ head <= MaxHead /\ MaxHead \in Nat /\ Ids = 1 .. MaxHead /\ EventsAgree
  BY HeadIsNat DEF Inv
<1>2. PICK t \in {e, log[e].item} :
        t # None /\ archived[t] # None /\ (t = e \/ (log[e].item = t /\ log[e].type \notin ArchiveTypes))
  BY <1>1 DEF Hidden, None
<1>3. t \in Ids
  <2>1. log[e].item \in 0 .. e
    BY <1>1 DEF EventsAgree
  <2> QED
    BY <1>1, <1>2, <2>1 DEF None
<1>4. archived[t] \in (t + 1) .. head /\ log[archived[t]].type = "archived" /\ log[archived[t]].ref = t
  BY <1>2, <1>3 DEF Inv, ArchivedLast
<1>5. log[e].item = t /\ log[e].type \notin ArchiveTypes => e < archived[t]
  BY <1>2, <1>3 DEF Inv, ArchivedLast
<1>6. archived[t] \in (e + 1) .. head
  BY <1>1, <1>2, <1>3, <1>4, <1>5
<1> QED
  BY <1>4, <1>6 DEF WasHidden

\* A scan finds all that the client is to hear and has not passed.
LEMMA ScanFinds_All ==
  ASSUME Inv, NEW c \in Clients, scan_from[c] # NoPoll, NEW e, e > since[c], e \in Int, Meant(c, e)
  PROVE  e \in Found(watch[c], scan_from[c])
<1>1. since[c] \in Nat /\ scan_from[c] \in Int /\ e \in 1 .. head /\ head \in Nat
  BY HeadIsNat DEF Inv, TypeOK, NoPoll, Meant
<1>2. \A f \in (since[c] + 1) .. scan_from[c] : ~Meant(c, f)
  BY DEF Inv, ClientInv, ScanFollows
<1>3. e > scan_from[c] /\ e \in (scan_from[c] + 1) .. head
  BY <1>1, <1>2
<1> QED
  BY <1>1, <1>3, HiddenWas DEF Meant, Found

\* A page as a poll may answer with it.
IsPage(c, p) ==
  /\ p \in Page /\ Within(c, p.cursor)
  /\ \A e \in p.events : e \in (since[c] + 1) .. p.cursor /\ e <= head /\ Matches(watch[c], e)
  /\ \A e \in (since[c] + 1) .. p.cursor : Meant(c, e) => e \in p.events

LEMMA AnswerInv ==
  ASSUME Inv, NEW c \in Clients, pc[c] = "polls", NEW p, IsPage(c, p), Answer(c, p)
  PROVE  Inv'
<1>1. /\ TypeOK /\ ClientInv(c) /\ UNCHANGED board
      /\ page' = [page EXCEPT ![c] = p] /\ scan_from' = [scan_from EXCEPT ![c] = NoPoll]
      /\ pc' = [pc EXCEPT ![c] = "reads"]
      /\ UNCHANGED <<up, watch, waits_for, start, since, heard>>
  BY DEF Inv, Answer
<1>2. page' \in [Clients -> Page] /\ scan_from' \in [Clients -> NoPoll .. MaxHead]
  BY <1>1, LimitAssumption DEF TypeOK, IsPage, NoPoll
<1>3. TypeOK'
  <2>1. pc' \in [Clients -> {"off", "asks", "polls", "reads", "done", "timed_out", "refused"}]
    BY <1>1 DEF TypeOK
  <2> QED
    BY <1>1, <1>2, <2>1 DEF TypeOK, board
<1>4. page'[c] = p /\ scan_from'[c] = NoPoll /\ pc'[c] = "reads"
  BY <1>1 DEF TypeOK
<1>5. /\ head' = head
      /\ \A w, e : Matches(w, e)' <=> Matches(w, e)
      /\ \A e : Meant(c, e)' <=> Meant(c, e)
      /\ \A cursor : Within(c, cursor)' <=> Within(c, cursor)
  BY <1>1, Same DEF Meant, Within, Larger, board
<1>6. HeardFollows(c)'
  BY <1>1, <1>4, <1>5 DEF ClientInv, HeardFollows
<1>7. PageFollows(c)'
  BY <1>1, <1>4, <1>5 DEF IsPage, PageFollows
<1>8. ScanFollows(c)'
  BY <1>4 DEF ScanFollows
<1>9. \A d \in Clients : d = c \/ Untouched(d)
  BY <1>1 DEF Untouched, TypeOK
<1> QED
  BY <1>1, <1>3, <1>6, <1>7, <1>8, <1>9, StepInv DEF ClientInv

LEMMA ScanInv ==
  ASSUME Inv, NEW c \in Clients, ScanFinds(c) \/ ScanExpires(c)
  PROVE  Inv'
<1> DEFINE w == watch[c]
           scan == scan_from[c]
           from == since[c]
           found == Found(w, scan)
<1>1. /\ TypeOK /\ pc[c] = "polls" /\ scan # NoPoll /\ Within(c, scan)
      /\ head \in Nat /\ head <= MaxHead /\ MaxHead \in Nat /\ Ids = 1 .. MaxHead
      /\ from \in 0 .. MaxHead /\ start[c] \in 0 .. MaxHead
      /\ start[c] <= from
  BY HeadIsNat DEF Inv, TypeOK, ScanFinds, ScanExpires, Polling, ClientInv, ScanFollows, HeardFollows
<1>2. \A e \in found : e \in (from + 1) .. head /\ e \in Ids /\ Matches(w, e)
  <2>1. \A e \in found : e \in (scan + 1) .. head /\ Matches(w, e)
    BY DEF Found
  <2>2. scan \in from .. Larger(head, start[c])
    BY <1>1 DEF Within
  <2> QED
    BY <1>1, <2>1, <2>2
<1>3. \A e \in Int : e > from /\ Meant(c, e) => e \in found
  BY <1>1, ScanFinds_All
<1>4. /\ Larger(head, from) \in Nat /\ Larger(head, from) <= MaxHead
      /\ Larger(head, from) >= head /\ Larger(head, from) >= from
      /\ Within(c, Larger(head, from))
  <2>1. from \in from .. Larger(head, start[c])
    BY DEF Inv, ClientInv, HeardFollows, Within
  <2> QED
    BY <1>1, <2>1 DEF Larger, Within
<1>5. ASSUME NEW E, E = found PROVE IsPage(c, [events |-> E, cursor |-> Larger(head, from)])
  BY <1>1, <1>2, <1>3, <1>4, <1>5 DEF IsPage, Page
<1>6. ASSUME NEW last \in found
      PROVE  IsPage(c, [events |-> {e \in found : e <= last}, cursor |-> last])
  <2>1. last \in (from + 1) .. head
    BY <1>2
  <2>2. Within(c, last)
    BY <1>1, <2>1 DEF Within, Larger
  <2>3. found \subseteq Ids /\ last \in 0 .. MaxHead
    <3>1. last \in 0 .. MaxHead
      BY <1>1, <2>1
    <3> QED
      BY <1>2, <3>1
  <2>4. ASSUME NEW e \in found, e <= last
        PROVE  e \in (from + 1) .. last /\ e <= head /\ Matches(w, e)
    <3>1. e \in (from + 1) .. head /\ Matches(w, e)
      BY <1>2
    <3> QED
      BY <1>1, <2>1, <2>4, <3>1
  <2>5. \A e \in (from + 1) .. last : Meant(c, e) => e \in found /\ e <= last
    BY <1>1, <1>3, <2>1
  <2> QED
    BY <2>2, <2>3, <2>4, <2>5 DEF IsPage, Page
<1>7. ASSUME NEW p \in Pages(w, scan, from) PROVE IsPage(c, p)
  <2>1. \/ \E last \in found : p = [events |-> {e \in found : e <= last}, cursor |-> last]
        \/ p = [events |-> found, cursor |-> Larger(head, from)]
    BY <1>7 DEF Pages, FullPageCursor, EndOfPage
  <2> QED
    BY <1>5, <1>6, <2>1
<1>8. CASE ScanFinds(c)
  BY <1>1, <1>7, <1>8, AnswerInv DEF ScanFinds
<1>9. CASE ScanExpires(c)
  <2>1. found = {} /\ Answer(c, [events |-> {}, cursor |-> Larger(head, from)])
    BY <1>9 DEF ScanExpires, EndOfPage
  <2> QED
    BY <1>1, <1>5, <2>1, AnswerInv
<1> QED
  BY <1>8, <1>9

\* Nothing was found: the next scan starts later, but passes nothing the client is to hear.
LEMMA ScanOnInv ==
  ASSUME Inv, NEW c \in Clients, ScanOn(c)
  PROVE  Inv'
<1> DEFINE next == NextScan(scan_from[c])
<1>1. /\ TypeOK /\ pc[c] = "polls" /\ scan_from[c] # NoPoll /\ Within(c, scan_from[c])
      /\ Found(watch[c], scan_from[c]) = {} /\ UNCHANGED board
      /\ scan_from' = [scan_from EXCEPT ![c] = next]
      /\ UNCHANGED <<up, pc, watch, waits_for, start, since, heard, page>>
  BY DEF Inv, ScanOn, Polling, ClientInv, ScanFollows, client
<1>2. /\ head \in Nat /\ head <= MaxHead /\ MaxHead \in Nat
      /\ scan_from[c] \in Int /\ scan_from[c] <= MaxHead /\ since[c] \in Nat /\ start[c] \in Nat
  BY <1>1, HeadIsNat DEF TypeOK, NoPoll
<1>3. next \in Nat /\ next <= MaxHead /\ Within(c, next)
  <2>1. scan_from[c] \in since[c] .. Larger(head, start[c])
    BY <1>1 DEF Within
  <2>2. next = IF head > scan_from[c] THEN head ELSE scan_from[c]
    BY DEF NextScan, Larger
  <2> QED
    BY <1>2, <2>1, <2>2 DEF Within, Larger
<1>4. \A e \in (since[c] + 1) .. next : ~Meant(c, e)
  <2>1. \A e \in Int : e > since[c] => ~Meant(c, e)
    BY <1>1, ScanFinds_All
  <2> QED
    BY <1>2, <1>3, <2>1
<1>5. TypeOK'
  <2>1. next \in NoPoll .. MaxHead
    BY <1>2, <1>3 DEF NoPoll
  <2>2. scan_from' \in [Clients -> NoPoll .. MaxHead]
    BY <1>1, <2>1 DEF TypeOK
  <2> QED
    BY <1>1, <2>2 DEF TypeOK, board
<1>6. /\ head' = head
      /\ \A w, e : Matches(w, e)' <=> Matches(w, e)
      /\ \A e : Meant(c, e)' <=> Meant(c, e)
      /\ \A cursor : Within(c, cursor)' <=> Within(c, cursor)
  BY <1>1, Same DEF Meant, Within, Larger, board
<1>7. scan_from'[c] = next
  BY <1>1 DEF TypeOK
<1>8. ScanFollows(c)'
  BY <1>1, <1>3, <1>4, <1>6, <1>7 DEF ScanFollows
<1>9. HeardFollows(c)' /\ PageFollows(c)'
  <2>1. HeardFollows(c)'
    BY <1>1, <1>6 DEF Inv, ClientInv, HeardFollows
  <2>2. PageFollows(c)'
    BY <1>1, <1>6 DEF Inv, ClientInv, PageFollows
  <2> QED
    BY <2>1, <2>2
<1>10. \A d \in Clients : d = c \/ Untouched(d)
  BY <1>1 DEF Untouched, TypeOK
<1> QED
  BY <1>1, <1>5, <1>8, <1>9, <1>10, StepInv DEF ClientInv

\* A client that begins has heard nothing and waits for nothing before its cursor.
LEMMA BeginInv ==
  ASSUME Inv, NEW c \in Clients, pc[c] = "off", NEW w \in Subscriptions, NEW item \in Ids \cup {None},
         NEW from \in 0 .. MaxHead, Begin(c, w, item, from), UNCHANGED <<board, up, heard, poll>>
  PROVE  Inv'
<1>1. /\ TypeOK /\ UNCHANGED board /\ UNCHANGED <<up, heard, scan_from, page>>
      /\ pc' = [pc EXCEPT ![c] = "asks"] /\ watch' = [watch EXCEPT ![c] = w]
      /\ waits_for' = [waits_for EXCEPT ![c] = item]
      /\ start' = [start EXCEPT ![c] = from] /\ since' = [since EXCEPT ![c] = from]
  BY DEF Inv, Begin, poll
<1>2. /\ heard[c] = {} /\ page[c].events = {} /\ scan_from[c] = NoPoll
  BY DEF Inv, ClientInv, HeardFollows, PageFollows, ScanFollows
<1>3. TypeOK'
  <2>1. pc' \in [Clients -> {"off", "asks", "polls", "reads", "done", "timed_out", "refused"}]
    BY <1>1 DEF TypeOK
  <2>2. /\ watch' \in [Clients -> Subscriptions] /\ waits_for' \in [Clients -> Ids \cup {None}]
        /\ start' \in [Clients -> 0 .. MaxHead] /\ since' \in [Clients -> 0 .. MaxHead]
    BY <1>1 DEF TypeOK
  <2> QED
    BY <1>1, <2>1, <2>2 DEF TypeOK, board
<1>4. pc'[c] = "asks" /\ start'[c] = from /\ since'[c] = from
  BY <1>1 DEF TypeOK
<1>5. head \in Nat /\ from \in Int
  BY <1>1, HeadIsNat
<1>6. HeardFollows(c)'
  <2>1. start'[c] <= since'[c]
    BY <1>4, <1>5
  <2>2. Within(c, since[c])'
    BY <1>1, <1>4, <1>5, Same DEF Within, Larger
  <2>3. \A e \in (start'[c] + 1) .. since'[c] : FALSE
    BY <1>4, <1>5
  <2> QED
    BY <1>1, <1>2, <1>4, <2>1, <2>2, <2>3 DEF HeardFollows
<1>7. PageFollows(c)' /\ ScanFollows(c)'
  BY <1>1, <1>2, <1>4 DEF PageFollows, ScanFollows
<1>8. \A d \in Clients : d = c \/ Untouched(d)
  BY <1>1 DEF Untouched, TypeOK
<1> QED
  BY <1>1, <1>3, <1>6, <1>7, <1>8, StepInv DEF ClientInv

LEMMA WaitIsASubscription ==
  \A i \in Ids : [Deaf EXCEPT !.items = {i}] \in Subscriptions
  BY DEF Deaf, Subscriptions

LEMMA StartInv ==
  ASSUME Inv, NEW c \in Clients,
         \/ \E w \in Watches : StartWatchAtHead(c, w) \/ \E from \in Cursors : StartWatch(c, w, from)
         \/ \E i \in Ids : StartWait(c, i)
  PROVE  Inv'
<1>1. /\ TypeOK /\ head \in 0 .. MaxHead /\ Cursors \subseteq 0 .. MaxHead /\ Watches \subseteq Subscriptions
      /\ Ids = 1 .. MaxHead /\ None \in Ids \cup {None} /\ MaxHead \in Nat
  BY HeadIsNat, CursorsAssumption, WatchesAssumption DEF Inv
<1>2. CASE \E w \in Watches : StartWatchAtHead(c, w)
  BY <1>1, <1>2, BeginInv DEF StartWatchAtHead, StartWatch
<1>3. CASE \E w \in Watches : \E from \in Cursors : StartWatch(c, w, from)
  BY <1>1, <1>3, BeginInv DEF StartWatch
<1>4. CASE \E i \in Ids : StartWait(c, i)
  <2>1. PICK i \in Ids : StartWait(c, i)
    BY <1>4
  <2>2. CASE Resolutions(i) = {}
    <3>1. i \in 0 .. MaxHead
      BY <1>1
    <3> QED
      BY <2>1, <2>2, <3>1, WaitIsASubscription, BeginInv DEF StartWait
  \* The item was resolved before the client read it.
  <2>3. CASE Resolutions(i) # {}
    <3>1. /\ UNCHANGED board /\ UNCHANGED <<up, heard, watch, start, since, scan_from, page>>
          /\ pc[c] = "off" /\ pc' = [pc EXCEPT ![c] = "done"]
          /\ waits_for' = [waits_for EXCEPT ![c] = i]
      BY <2>1, <2>3 DEF StartWait, poll
    <3>3. TypeOK'
      <4>1. pc' \in [Clients -> {"off", "asks", "polls", "reads", "done", "timed_out", "refused"}]
        BY <1>1, <3>1 DEF TypeOK
      <4>2. waits_for' \in [Clients -> Ids \cup {None}]
        BY <1>1, <3>1 DEF TypeOK
      <4> QED
        BY <1>1, <3>1, <4>1, <4>2 DEF TypeOK, board
    <3>4. pc'[c] = "done" /\ waits_for'[c] = i
      BY <1>1, <3>1 DEF TypeOK
    <3>5. /\ \A w, e : Matches(w, e)' <=> Matches(w, e)
          /\ \A e : Meant(c, e)' <=> Meant(c, e)
          /\ \A cursor : Within(c, cursor)' <=> Within(c, cursor)
      BY <3>1, Same DEF Meant, Within, Larger, board
    <3>6. heard[c] = {} /\ page[c].events = {} /\ scan_from[c] = NoPoll
      BY <3>1 DEF Inv, ClientInv, HeardFollows, PageFollows, ScanFollows
    <3>7. HeardFollows(c)'
      BY <3>1, <3>4, <3>5, <3>6 DEF Inv, ClientInv, HeardFollows
    <3>8. PageFollows(c)' /\ ScanFollows(c)'
      BY <3>1, <3>4, <3>5, <3>6 DEF PageFollows, ScanFollows
    <3>9. \A d \in Clients : d = c \/ Untouched(d)
      BY <1>1, <3>1 DEF Untouched, TypeOK
    <3> QED
      BY <3>1, <3>3, <3>7, <3>8, <3>9, StepInv DEF ClientInv
  <2> QED
    BY <2>2, <2>3
<1> QED
  BY <1>2, <1>3, <1>4

\* The client asks, is refused, gives up, or loses its answer: what it heard, and its
\* cursor, stay as they are.
LEMMA AskInv ==
  ASSUME Inv, NEW c \in Clients, Ask(c) \/ Refuse(c) \/ Lose(c) \/ GiveUp(c)
  PROVE  Inv'
<1>1. TypeOK /\ MaxHead \in Nat
  BY HeadIsNat DEF Inv
<1>2. /\ UNCHANGED board /\ UNCHANGED <<up, watch, waits_for, start, since, heard>>
      /\ pc[c] \in {"asks", "polls", "reads"}
      /\ pc' \in {[pc EXCEPT ![c] = s] : s \in {"asks", "polls", "refused", "timed_out"}}
      /\ \/ pc[c] = "asks" /\ page' = page
         \/ page' = [page EXCEPT ![c] = NoPage]
      /\ \/ pc[c] = "asks" /\ scan_from' = scan_from
         \/ scan_from' = [scan_from EXCEPT ![c] = NoPoll]
         \/ pc' = [pc EXCEPT ![c] = "polls"] /\ scan_from' = [scan_from EXCEPT ![c] = since[c]]
  BY DEF Ask, Refuse, Lose, GiveUp, poll
<1>3. /\ page' \in [Clients -> Page] /\ scan_from' \in [Clients -> NoPoll .. MaxHead]
      /\ pc' \in [Clients -> {"off", "asks", "polls", "reads", "done", "timed_out", "refused"}]
  <2>1. NoPage \in Page /\ NoPoll \in NoPoll .. MaxHead /\ since[c] \in NoPoll .. MaxHead
    BY <1>1 DEF NoPage, Page, NoPoll, TypeOK
  <2>2. page' \in [Clients -> Page]
    BY <1>1, <1>2, <2>1 DEF TypeOK
  <2>3. scan_from' \in [Clients -> NoPoll .. MaxHead]
    BY <1>1, <1>2, <2>1 DEF TypeOK
  <2>4. pc' \in [Clients -> {"off", "asks", "polls", "reads", "done", "timed_out", "refused"}]
    <3>1. PICK s \in {"asks", "polls", "refused", "timed_out"} : pc' = [pc EXCEPT ![c] = s]
      BY <1>2
    <3> QED
      BY <1>1, <3>1 DEF TypeOK
  <2> QED
    BY <2>2, <2>3, <2>4
<1>4. TypeOK'
  BY <1>1, <1>2, <1>3 DEF TypeOK, board
<1>5. /\ pc'[c] \in {"asks", "polls", "refused", "timed_out"}
      /\ page'[c].events = {}
      /\ \/ scan_from'[c] = NoPoll
         \/ pc'[c] = "polls" /\ scan_from'[c] = since[c]
  <2>1. pc[c] = "asks" => page[c].events = {} /\ scan_from[c] = NoPoll
    BY DEF Inv, ClientInv, PageFollows, ScanFollows
  <2>2. pc'[c] \in {"asks", "polls", "refused", "timed_out"}
    BY <1>1, <1>2 DEF TypeOK
  <2>3. page'[c].events = {}
    BY <1>1, <1>2, <2>1 DEF TypeOK, NoPage
  <2>4. scan_from'[c] = NoPoll \/ (pc'[c] = "polls" /\ scan_from'[c] = since[c])
    <3>1. CASE pc[c] = "asks" /\ scan_from' = scan_from
      BY <2>1, <3>1
    <3>2. CASE scan_from' = [scan_from EXCEPT ![c] = NoPoll]
      BY <1>1, <3>2 DEF TypeOK
    <3>3. CASE pc' = [pc EXCEPT ![c] = "polls"] /\ scan_from' = [scan_from EXCEPT ![c] = since[c]]
      BY <1>1, <3>3 DEF TypeOK
    <3> QED
      BY <1>2, <3>1, <3>2, <3>3
  <2> QED
    BY <2>2, <2>3, <2>4
<1>6. /\ \A w, e : Matches(w, e)' <=> Matches(w, e)
      /\ \A e : Meant(c, e)' <=> Meant(c, e)
      /\ \A cursor : Within(c, cursor)' <=> Within(c, cursor)
  BY <1>2, Same DEF Meant, Within, Larger, board
<1>7. HeardFollows(c)'
  BY <1>2, <1>5, <1>6 DEF Inv, ClientInv, HeardFollows
<1>8. PageFollows(c)'
  BY <1>5 DEF PageFollows
<1>9. ScanFollows(c)'
  <2> SUFFICES ASSUME scan_from'[c] # NoPoll PROVE ScanFollows(c)'
    BY DEF ScanFollows
  <2>1. pc'[c] = "polls" /\ scan_from'[c] = since[c] /\ since'[c] = since[c]
    BY <1>2, <1>5
  <2>2. Within(c, since[c])'
    BY <1>2, <1>6 DEF Inv, ClientInv, HeardFollows
  <2>3. \A e \in (since[c] + 1) .. since[c] : FALSE
    BY <1>1 DEF TypeOK
  <2> QED
    BY <2>1, <2>2, <2>3 DEF ScanFollows
<1>10. \A d \in Clients : d = c \/ Untouched(d)
  BY <1>1, <1>2 DEF Untouched, TypeOK
<1> QED
  BY <1>2, <1>4, <1>7, <1>8, <1>9, <1>10, StepInv DEF ClientInv

LEMMA HasLeast ==
  ASSUME NEW S, S \subseteq Nat, S # {}
  PROVE  \E e \in S : \A f \in S : e <= f
<1>1. PICK e \in S : \A f \in S : <<f, e>> \notin OpToRel(<, Nat)
  BY NatLessThanWellFounded, WFMin
<1>2. \A f \in S : ~(f < e)
  BY <1>1 DEF OpToRel
<1> QED
  BY <1>2

\* The client reads the page: it has heard all up to the page's cursor, which is its own
\* from then on, unless it ends.
LEMMA ReadInv ==
  ASSUME Inv, NEW c \in Clients, Read(c)
  PROVE  Inv'
<1> DEFINE cursor == page[c].cursor
<1>1. /\ TypeOK /\ pc[c] = "reads" /\ UNCHANGED board
      /\ UNCHANGED <<up, watch, waits_for, start, scan_from>>
      /\ heard' = [heard EXCEPT ![c] = heard[c] \cup page[c].events]
      /\ page' = [page EXCEPT ![c] = NoPage]
  BY DEF Inv, Read
<1>2. \/ pc' = [pc EXCEPT ![c] = "done"] /\ since' = since
      \/ /\ pc' = [pc EXCEPT ![c] = "asks"]
         /\ since' = [since EXCEPT ![c] = Larger(since[c], cursor)]
  BY DEF Read, Advance
<1>3. /\ head \in Nat /\ head <= MaxHead /\ MaxHead \in Nat /\ Ids = 1 .. MaxHead
      /\ since[c] \in 0 .. MaxHead /\ start[c] \in 0 .. MaxHead /\ cursor \in 0 .. MaxHead
      /\ page[c].events \subseteq Ids /\ heard[c] \subseteq 1 .. head /\ scan_from[c] = NoPoll
  <2>1. /\ head \in Nat /\ head <= MaxHead /\ MaxHead \in Nat /\ Ids = 1 .. MaxHead
        /\ since[c] \in 0 .. MaxHead /\ start[c] \in 0 .. MaxHead
    BY <1>1, HeadIsNat DEF TypeOK
  <2>2. page[c] \in Page
    BY <1>1 DEF TypeOK
  <2>3. heard[c] \subseteq 1 .. head
    BY <1>1 DEF TypeOK, head
  <2>4. scan_from[c] = NoPoll
    BY <1>1 DEF Inv, ClientInv, ScanFollows
  <2> QED
    BY <2>1, <2>2, <2>3, <2>4 DEF Page
<1>4. /\ start[c] <= since[c] /\ Within(c, cursor)
      /\ \A e \in page[c].events : e \in (since[c] + 1) .. cursor /\ e <= head /\ Matches(watch[c], e)
      /\ \A e \in (since[c] + 1) .. cursor : Meant(c, e) => e \in page[c].events
      /\ \A h \in heard[c] : start[c] < h /\ Matches(watch[c], h) /\ h <= since[c]
      /\ \A e \in (start[c] + 1) .. since[c] : Meant(c, e) => e \in heard[c]
  BY <1>1 DEF Inv, ClientInv, PageFollows, HeardFollows
<1>5. since[c] <= cursor /\ Larger(since[c], cursor) = cursor
  BY <1>3, <1>4 DEF Within, Larger
<1>7. /\ head' = head
      /\ \A w, e : Matches(w, e)' <=> Matches(w, e)
      /\ \A e : Meant(c, e)' <=> Meant(c, e)
  BY <1>1, Same DEF Meant, board
<1>8. /\ heard'[c] = heard[c] \cup page[c].events /\ page'[c] = NoPage
      /\ heard'[c] \subseteq 1 .. head
  BY <1>1, <1>3, <1>4 DEF TypeOK
<1>9. \/ pc'[c] = "done" /\ since'[c] = since[c]
      \/ pc'[c] = "asks" /\ since'[c] = cursor
  BY <1>1, <1>2, <1>5 DEF TypeOK
<1>10. TypeOK'
  <2>1. pc' \in [Clients -> {"off", "asks", "polls", "reads", "done", "timed_out", "refused"}]
    BY <1>1, <1>2 DEF TypeOK
  <2>2. heard' \in [Clients -> SUBSET (1 .. Len(log))] /\ page' \in [Clients -> Page]
    BY <1>1, <1>3, <1>4 DEF TypeOK, NoPage, Page, head
  <2>3. since' \in [Clients -> 0 .. MaxHead]
    BY <1>1, <1>2, <1>3, <1>5 DEF TypeOK
  <2> QED
    BY <1>1, <2>1, <2>2, <2>3 DEF TypeOK, board
<1>11. HeardFollows(c)'
  <2>1. start'[c] = start[c] /\ watch'[c] = watch[c] /\ since'[c] \in {since[c], cursor} /\ since'[c] >= since[c]
    BY <1>1, <1>3, <1>5, <1>9
  <2>2. Within(c, since[c])' /\ start'[c] <= since'[c]
    BY <1>3, <1>4, <1>5, <1>7, <2>1 DEF Inv, ClientInv, HeardFollows, Within, Larger
  <2>3. ASSUME NEW h \in heard'[c]
        PROVE  start[c] < h /\ Matches(watch[c], h) /\ (pc'[c] # "done" => h <= since'[c])
    <3>1. CASE h \in heard[c]
      BY <1>3, <1>4, <2>1, <3>1
    <3>2. CASE h \in page[c].events
      <4>1. h \in (since[c] + 1) .. cursor /\ Matches(watch[c], h)
        BY <1>4, <3>2
      <4> QED
        BY <1>3, <1>4, <1>9, <4>1
    <3> QED
      BY <1>8, <2>3, <3>1, <3>2
  <2>4. ASSUME NEW e \in (start[c] + 1) .. since'[c], Meant(c, e) PROVE e \in heard'[c]
    <3>1. CASE e <= since[c]
      BY <1>3, <1>4, <1>8, <2>4, <3>1
    <3>2. CASE e > since[c]
      <4>1. since'[c] = cursor /\ e \in (since[c] + 1) .. cursor
        BY <1>3, <2>1, <2>4, <3>2
      <4> QED
        BY <1>4, <1>8, <2>4, <4>1
    <3> QED
      BY <1>3, <2>4, <3>1, <3>2
  <2>5. pc'[c] # "off"
    BY <1>9
  <2>6. \A h \in heard'[c] : /\ start'[c] < h /\ Matches(watch[c], h)'
                             /\ pc'[c] # "done" => h <= since'[c]
    BY <1>1, <1>7, <2>1, <2>3 DEF Matches
  <2>7. \A e \in (start'[c] + 1) .. since'[c] : Meant(c, e)' => e \in heard'[c]
    BY <1>7, <2>1, <2>4
  <2> QED
    BY <2>2, <2>5, <2>6, <2>7 DEF HeardFollows
<1>12. PageFollows(c)' /\ ScanFollows(c)'
  BY <1>1, <1>3, <1>8, <1>9 DEF PageFollows, ScanFollows, NoPage
<1>13. \A d \in Clients : d = c \/ Untouched(d)
  BY <1>1, <1>2 DEF Untouched, TypeOK
<1> QED
  BY <1>1, <1>10, <1>11, <1>12, <1>13, StepInv DEF ClientInv

-----------------------------------------------------------------------------
(***************************************************************************)
(* The theorems.                                                           *)
(***************************************************************************)

LEMMA InitInv == Init => Inv
<1> SUFFICES ASSUME Init PROVE Inv
  OBVIOUS
<1>1. /\ log = <<>> /\ Len(log) = 0 /\ head = 0 /\ MaxHead \in Nat
      /\ \A e : e \notin 1 .. head
  BY LimitAssumption DEF Init, head
<1>2. TypeOK
  <2>1. <<>> \in Seq(Event) /\ Deaf \in Subscriptions /\ NoPage \in Page /\ NoPoll \in NoPoll .. MaxHead
    BY <1>1 DEF Deaf, Subscriptions, NoPage, Page, NoPoll
  <2> QED
    BY <1>1, <2>1 DEF Init, TypeOK, None
<1>3. EventsAgree
  BY <1>1 DEF EventsAgree
<1>4. \A t \in Ids : ArchivedLast(t)
  BY DEF Init, ArchivedLast
<1>5. ASSUME NEW c \in Clients PROVE ClientInv(c)
  <2>1. /\ pc[c] = "off" /\ start[c] = 0 /\ since[c] = 0 /\ scan_from[c] = NoPoll
        /\ page[c].events = {} /\ heard[c] = {}
    BY DEF Init, NoPage
  <2>2. HeardFollows(c)
    BY <1>1, <2>1 DEF HeardFollows, Within, Larger
  <2> QED
    BY <2>1, <2>2 DEF ClientInv, PageFollows, ScanFollows
<1> QED
  BY <1>2, <1>3, <1>4, <1>5 DEF Inv

LEMMA NextInv == Inv /\ [Next]_vars => Inv'
<1> SUFFICES ASSUME Inv, [Next]_vars PROVE Inv'
  OBVIOUS
<1>1. CASE Write
  <2>1. ASSUME NEW n \in Names, NEW mentions \in Mentions[n],
               Post(n, mentions) \/ File(n, mentions)
        PROVE  Inv'
    <3>1. mentions \in SUBSET Names
      BY OwnerAssumption
    <3> QED
      BY <2>1, <3>1, PostInv
  <2>2. ASSUME NEW n \in Names, Create(n) \/ Save(n) PROVE Inv'
    <3>1. {} \in SUBSET Names
      OBVIOUS
    <3> QED
      BY <2>2, <3>1, PostInv
  <2>3. ASSUME NEW n \in Names, NEW mentions \in Mentions[n], NEW i \in Ids, Resolve(i, n, mentions)
        PROVE  Inv'
    BY <2>3, ResolveInv
  <2>4. ASSUME NEW t \in Ids, NEW hide \in BOOLEAN, Archive(t, hide) PROVE Inv'
    BY <2>4, ArchiveInv
  <2>5. ASSUME (\E m \in Ids : DeleteMessage(m)) \/ DeleteNote PROVE Inv'
    BY <2>5, DeleteInv
  <2> QED
    BY <1>1, <2>1, <2>2, <2>3, <2>4, <2>5 DEF Write
<1>2. ASSUME NEW c \in Clients,
             \/ \E w \in Watches : StartWatchAtHead(c, w) \/ \E from \in Cursors : StartWatch(c, w, from)
             \/ \E i \in Ids : StartWait(c, i)
      PROVE  Inv'
  BY <1>2, StartInv
<1>3. ASSUME NEW c \in Clients, Ask(c) \/ Refuse(c) \/ Lose(c) \/ GiveUp(c) PROVE Inv'
  BY <1>3, AskInv
<1>4. ASSUME NEW c \in Clients, ScanOn(c) PROVE Inv'
  BY <1>4, ScanOnInv
<1>5. ASSUME NEW c \in Clients, ScanFinds(c) \/ ScanExpires(c) PROVE Inv'
  BY <1>5, ScanInv
<1>6. ASSUME NEW c \in Clients, Read(c) PROVE Inv'
  BY <1>6, ReadInv
<1>7. CASE Stop \/ Restart
  BY <1>7, StopInv
<1>8. CASE UNCHANGED vars
  <2>1. UNCHANGED board /\ UNCHANGED <<up, client, poll>>
    BY <1>8 DEF vars
  <2>2. TypeOK' /\ \A c \in Clients : Untouched(c)
    BY <2>1 DEF Inv, TypeOK, board, client, poll, Untouched
  <2> QED
    BY <2>1, <2>2, StepInv
<1> QED
  BY <1>1, <1>2, <1>3, <1>4, <1>5, <1>6, <1>7, <1>8 DEF Next

\* The inductive invariant holds throughout.
THEOREM InvAlways == Spec => []Inv
  BY InitInv, NextInv, PTL DEF Spec

\* Each variable has values of its kind, and no cursor is past the last event id there can
\* be (store/poll.rs, bin/board/watch.rs).
THEOREM TypeCorrect == Spec => []TypeOK
<1>1. Inv => TypeOK
  BY DEF Inv
<1> QED
  BY <1>1, InvAlways, PTL

\* Whatever answers are lost and wherever the client began, no page repeats what it printed
\* or goes back behind it (poll.rs, the scan after `since`).
THEOREM NothingIsToldTwice == Spec => []PagesAreNews
<1>1. ASSUME Inv PROVE PagesAreNews
  <2> SUFFICES ASSUME NEW c \in Clients, NEW e \in page[c].events
               PROVE  e > start[c] /\ \A h \in heard[c] : h < e
    BY DEF PagesAreNews
  <2>1. TypeOK /\ ClientInv(c) /\ head \in Nat
    BY <1>1, HeadIsNat DEF Inv
  <2>2. /\ start[c] \in Int /\ since[c] \in Int /\ heard[c] \subseteq Int /\ page[c].events \subseteq Int
        /\ start[c] <= since[c] /\ e >= since[c] + 1 /\ pc[c] = "reads"
    BY <2>1 DEF TypeOK, Page, Ids, head, ClientInv, HeardFollows, PageFollows
  <2>3. \A h \in heard[c] : h <= since[c]
    BY <2>1, <2>2 DEF ClientInv, HeardFollows
  <2> QED
    BY <2>2, <2>3
<1> QED
  BY <1>1, InvAlways, PTL

\* A cursor passes nothing its client is to hear, whatever pages are cut by POLL_LIMIT or
\* by their bytes, and whatever is archived and shown again between two scans (poll.rs,
\* watch.rs).
THEOREM NothingIsLeftBehind == Spec => []NothingIsPassedOver
<1>1. ASSUME Inv PROVE NothingIsPassedOver
  BY <1>1 DEF Inv, ClientInv, HeardFollows, Meant, NothingIsPassedOver
<1> QED
  BY <1>1, InvAlways, PTL

\* An archive event that a cursor passed was told to whoever heard of its target, so that
\* it can be dropped (poll.rs): nothing that hides the archive event is in force while its
\* target is archived by it.
THEOREM ArchivedIsTakenBack == Spec => []WhatIsArchivedIsTakenBack
<1>1. ASSUME Inv PROVE WhatIsArchivedIsTakenBack
  <2> SUFFICES ASSUME NEW c \in Clients, NEW h \in heard[c],
                      Heard([watch[c] EXCEPT !.mentions = {}], h),
                      NEW t \in {h, log[h].item} \ {None},
                      h \notin gone, log[h].type \notin ArchiveTypes, Owner \notin watch[c].not_from,
                      archived[t] # None, archived[t] <= since[c], pc[c] # "done"
               PROVE  archived[t] \in heard[c]
    BY DEF WhatIsArchivedIsTakenBack, IsTakenBack
  <2> DEFINE a == archived[t]
  <2>1. /\ TypeOK /\ EventsAgree /\ head \in Nat /\ head <= MaxHead /\ MaxHead \in Nat /\ Ids = 1 .. MaxHead
        /\ h \in 1 .. head /\ start[c] \in Int /\ since[c] \in Int /\ watch[c] \in Subscriptions
    BY SMTT(30), <1>1, HeadIsNat DEF Inv, TypeOK, head
  <2>2. t \in 1 .. head /\ (t = h \/ t = log[h].item)
    <3>1. log[h].item \in 0 .. h
      BY <2>1 DEF EventsAgree
    <3> QED
      BY <2>1, <3>1 DEF None
  <2>3. /\ a \in (t + 1) .. head /\ log[a].type = "archived" /\ log[a].ref = t /\ a \notin gone
        /\ \A b \in 1 .. head : log[b].type = "archived" /\ log[b].ref = t => b <= a
        /\ log[h].item = t => h < a
    BY <1>1, <2>1, <2>2 DEF Inv, ArchivedLast
  <2>4. a \in 1 .. head /\ a \in Int /\ h < a
    BY <2>1, <2>2, <2>3
  <2>5. /\ log[a].node = log[t].node /\ log[a].item = log[t].item /\ log[a].from = Owner
        /\ log[t].type \in {"message", "filed"}
    BY SMTT(30), <2>1, <2>3, <2>4 DEF EventsAgree
  \* It is of the same leaf and item as what was heard.
  <2>6. log[a].node = log[h].node /\ log[a].item = log[h].item /\ log[h].type \notin {"created", "version"}
    <3>1. CASE t = h
      BY <2>5, <3>1
    <3>2. CASE t = log[h].item
      <4>1. log[t].type = "filed" /\ log[h].node = "queue"
        BY <2>1, <3>2 DEF EventsAgree
      <4>2. log[t].item = t /\ log[t].node = "queue"
        BY <2>1, <2>2, <4>1 DEF EventsAgree, None
      <4>3. log[h].type \notin {"created", "version"}
        BY <2>1, <2>2, <3>2 DEF EventsAgree, None
      <4> QED
        BY <2>5, <3>2, <4>1, <4>2, <4>3
    <3> QED
      BY <2>2, <3>1, <3>2
  <2>7. Matches(watch[c], a)
    <3> DEFINE w == [watch[c] EXCEPT !.mentions = {}]
    <3>1. /\ w.paths = watch[c].paths /\ w.asked_by = watch[c].asked_by /\ w.owners = watch[c].owners
          /\ w.items = watch[c].items /\ w.mentions = {}
      BY <2>1 DEF Subscriptions
    <3>2. Heard(w, h)
      OBVIOUS
    <3> HIDE DEF w
    <3>3. Heard(watch[c], a)
      BY <2>6, <3>1, <3>2 DEF Heard
    <3> QED
      BY <2>5, <3>3 DEF Matches
  <2>8. ~WasHidden(a)
    <3> SUFFICES ASSUME NEW b \in (a + 1) .. head, log[b].type = "archived", log[b].ref \in {a, log[a].item}
                 PROVE  FALSE
      BY DEF WasHidden
    <3>1. b \in 1 .. head /\ b > a
      BY <2>1, <2>4
    <3>2. log[b].ref \in 1 .. (b - 1) /\ log[log[b].ref].type \in {"message", "filed"}
      BY <2>1, <3>1 DEF EventsAgree
    <3>3. log[b].ref = log[a].item /\ log[b].ref # None
      BY <2>3, <3>2 DEF None
    <3>4. log[b].ref = t
      <4>1. log[t].item # None
        BY <2>5, <3>3
      <4>2. log[t].type = "filed"
        BY <2>1, <2>2, <2>5, <4>1 DEF EventsAgree
      <4> QED
        BY <2>1, <2>2, <2>5, <3>3, <4>2 DEF EventsAgree
    <3> QED
      BY <2>3, <2>4, <3>1, <3>4
  <2>9. start[c] < h
    BY <1>1 DEF Inv, ClientInv, HeardFollows
  <2>10. a \in (start[c] + 1) .. since[c] /\ Meant(c, a)
    BY <2>1, <2>3, <2>4, <2>7, <2>8, <2>9 DEF Meant
  <2> QED
    BY <1>1, <2>10 DEF Inv, ClientInv, HeardFollows
<1> QED
  BY <1>1, InvAlways, PTL

-----------------------------------------------------------------------------
(***************************************************************************)
(* The theorems of Reads.tla, whose cursor a watch starts from: reading,   *)
(* reading on and then watching misses nothing and repeats nothing.        *)
(***************************************************************************)

(***************************************************************************)
(* The inductive invariant of the reader.  ReadsAreWhole speaks of a       *)
(* reader that has printed; the invariant says at each place before that   *)
(* what it owes: what is due up to where it starts is printed, what is due *)
(* up to where it will stop is printed or in the answer.                   *)
(***************************************************************************)

\* What the events and the archived rows are of, and what an answer and a
\* command may hold.
Shapes ==
  /\ \A e \in 1 .. latest : /\ events[e].type = "message" => events[e].node = "thread"
                            /\ events[e].type = "version" => events[e].node = "note"
                            /\ events[e].type = "filed" => events[e].node \in Queues
  /\ \A t \in hidden : events[t].type \in {"message", "filed"}
  /\ answer.ids \subseteq 1 .. latest /\ answer.hints \subseteq 1 .. latest
  /\ what.op # "read" => what.node = "home"

\* What the reader is to be told of.
IsDue(e) == Wanted(e) /\ Steady(e)

Lists == what.op \in {"items", "mine"}

\* What became of the entries of an answer since is after cursor c.
ChangesFrom(c) ==
  \A e \in answer.ids :
    /\ e \in answer.open => \A r \in ResolvedBy(e) : r > c
    /\ e \in hidden /\ ~what.archived =>
         \E a \in (c + 1) .. latest : events[a].type = "archived" /\ events[a].ref = e

\* Up to c, whatever is due is printed.
PrintedUpTo(c) == \A e \in 1 .. c : IsDue(e) => e \in printed

\* Whatever is due is printed or in the answer, or after a place to go on from.
Answered(e) ==
  e <= began /\ IsDue(e) => e \in printed \cup answer.ids \/ \E h \in answer.hints : h < e

ReadFollows ==
  /\ reader \in {"head", "node", "print"} =>
       /\ PrintedUpTo(after)
       /\ \A p \in printed : p <= after
       /\ printed = {} \/ Forward
  /\ reader \in {"node", "print"} => after <= first
  /\ reader = "print" =>
       /\ answer.cut => IsTail \/ Forward
       /\ \A e \in 1 .. CursorAfter : IsDue(e) => \/ e \in printed \cup answer.ids
                                                  \/ IsTail /\ \E p \in answer.ids : e < p
       /\ \A e \in answer.ids, p \in printed : p < e
       /\ what.node # "home" => \A p \in printed \cup answer.ids : p <= CursorAfter
       /\ ChangesFrom(CursorAfter)
  /\ reader = "more" => Forward

ListFollows ==
  /\ reader \in {"owned", "asked", "print"} =>
       /\ PrintedUpTo(IF after <= began THEN after ELSE began)
       /\ what.op = "items" => \A p \in printed : p <= after
  /\ reader = "asked" => \A e \in On("mine") : Answered(e)
  /\ reader = "print" => \A e \in 1 .. began : Answered(e)
  /\ reader \in {"asked", "print"} => (answer.cut <=> answer.hints # {})
  /\ reader = "print" /\ what.op = "items" =>
       /\ \A e \in answer.ids, p \in printed : p < e
       /\ \A h \in answer.hints, p \in printed \cup answer.ids : p <= h
  /\ reader = "more" /\ what.op = "items" => \A p \in printed : p <= told

BriefFollows ==
  /\ reader \in {"brief", "print"} => printed = {} /\ after = 0
  /\ reader = "print" =>
       /\ ~answer.cut => \A e \in 1 .. first : IsDue(e) => e \in answer.ids
       /\ \A p \in answer.ids : p <= first
       /\ ChangesFrom(first)

\* Where the command is.
PlaceFits ==
  /\ reader \in {"head", "node"} => what.op = "read"
  /\ reader = "owned" => Lists
  /\ reader = "asked" => what.op = "mine"
  /\ reader = "brief" => what.op = "brief"
  /\ reader = "more" => what.op # "brief"
  /\ reader = "off" => printed = {} /\ after = 0

RInv ==
  /\ ReadsTypeOK /\ Shapes /\ PlaceFits
  /\ what.op = "read" => ReadFollows
  /\ Lists => ListFollows
  /\ what.op = "brief" => BriefFollows
  /\ ReadsAreWhole

(***************************************************************************)
(* The largest, the smallest and the newest of a set.                      *)
(***************************************************************************)

\* The smallest of a set that has one.
LEMMA SmallestIs ==
  ASSUME NEW S, S \subseteq Nat, S # {}
  PROVE  Smallest(S) \in S /\ \A f \in S : Smallest(S) <= f
  BY HasLeast DEF Smallest

\* The largest of a set of ids; of none it is 0.
LEMMA LargestIs ==
  ASSUME NEW n \in Nat, NEW S, S \subseteq 0 .. n
  PROVE  /\ Largest(S) \in 0 .. n
         /\ S # {} => Largest(S) \in S
         /\ \A f \in S : f <= Largest(S)
<1>1. CASE S = {}
  BY <1>1 DEF Largest
<1>2. CASE S # {}
  <2> DEFINE D == {n - s : s \in S}
  <2>1. D \subseteq Nat /\ D # {}
    <3>1. D \subseteq Nat
      OBVIOUS
    <3>2. D # {}
      BY <1>2
    <3> QED
      BY <3>1, <3>2
  <2>2. PICK d \in D : \A c \in D : d <= c
    BY <2>1, HasLeast
  <2>3. PICK e \in S : d = n - e
    BY <2>2
  <2>4. \A f \in S : f <= e
    <3> SUFFICES ASSUME NEW f \in S PROVE f <= e
      OBVIOUS
    <3>1. n - f \in D
      OBVIOUS
    <3>2. n - e <= n - f
      BY <2>2, <2>3, <3>1
    <3> QED
      BY <3>2
  <2>5. Largest(S) \in S /\ \A f \in S : f <= Largest(S)
    BY <1>2, <2>4 DEF Largest
  <2>6. \A f \in S : f \in 0 .. n
    OBVIOUS
  <2> QED
    BY <2>5, <2>6
<1> QED
  BY <1>1, <1>2

\* Those of S above e.
Above(S, e) == {f \in S : f > e}

\* The newest are those with few above.
LEMMA NewestAre == \A S, k : Newest(S, k) = {e \in S : Cardinality(Above(S, e)) < k}
  BY DEF Newest, Above, Cardinality, Cardinality

\* A set of ids has none above its largest alone.
LEMMA AboveIs ==
  ASSUME NEW n \in Nat, NEW S, S \subseteq 1 .. n, NEW e \in S
  PROVE  /\ IsFiniteSet(Above(S, e)) /\ Cardinality(Above(S, e)) \in Nat
         /\ Cardinality(Above(S, e)) = 0 <=> \A f \in S : f <= e
<1>1. IsFiniteSet(1 .. n)
  BY FS_Interval
<1>2. IsFiniteSet(Above(S, e))
  BY <1>1, FS_Subset DEF Above
<1>3. Cardinality(Above(S, e)) \in Nat /\ (Cardinality(Above(S, e)) = 0 <=> Above(S, e) = {})
  BY <1>2, FS_CardinalityType, FS_EmptySet
<1>4. Above(S, e) = {} <=> \A f \in S : ~(f > e)
  BY DEF Above
<1>5. \A f \in S : f <= e <=> ~(f > e)
  OBVIOUS
<1> QED
  BY <1>2, <1>3, <1>4, <1>5

\* The newest are some, and what is newer than one of them is another.
LEMMA NewestIs ==
  ASSUME NEW n \in Nat, NEW S, S \subseteq 1 .. n, NEW k \in Nat \ {0}
  PROVE  /\ Newest(S, k) \subseteq S
         /\ S # {} => Newest(S, k) # {}
         /\ \A p \in Newest(S, k), e \in S : p <= e => e \in Newest(S, k)
<1>1. Newest(S, k) \subseteq S
  BY NewestAre
<1>2. ASSUME S # {} PROVE Newest(S, k) # {}
  <2>1. Largest(S) \in S /\ \A f \in S : f <= Largest(S)
    <3>1. S \subseteq 0 .. n
      OBVIOUS
    <3> QED
      BY <1>2, <3>1, LargestIs
  <2>2. Cardinality(Above(S, Largest(S))) = 0
    BY <2>1, AboveIs
  <2> QED
    BY <2>1, <2>2, NewestAre
<1>3. ASSUME NEW p \in Newest(S, k), NEW e \in S, p <= e PROVE e \in Newest(S, k)
  <2>1. p \in S /\ Cardinality(Above(S, p)) < k
    BY NewestAre
  <2>2. Above(S, e) \subseteq Above(S, p)
    <3>1. \A f \in S : f > e => f > p
      BY <1>3, <2>1
    <3> QED
      BY <3>1 DEF Above
  <2>3. Cardinality(Above(S, e)) <= Cardinality(Above(S, p))
    BY <2>1, <2>2, AboveIs, FS_Subset
  <2>4. Cardinality(Above(S, e)) < k
    <3>1. Cardinality(Above(S, e)) \in Nat /\ Cardinality(Above(S, p)) \in Nat
      BY <2>1, AboveIs
    <3> QED
      BY <2>1, <2>3, <3>1
  <2> QED
    BY <2>4, NewestAre
<1> QED
  BY <1>1, <1>2, <1>3

\* The newest one is the largest.
LEMMA NewestOne ==
  ASSUME NEW n \in Nat, NEW S, S \subseteq 1 .. n
  PROVE  Newest(S, 1) = {e \in S : \A f \in S : f <= e}
<1>1. \A e \in S : Cardinality(Above(S, e)) < 1 <=> \A f \in S : f <= e
  <2> SUFFICES ASSUME NEW e \in S PROVE Cardinality(Above(S, e)) < 1 <=> \A f \in S : f <= e
    OBVIOUS
  <2>1. Cardinality(Above(S, e)) \in Nat /\ (Cardinality(Above(S, e)) = 0 <=> \A f \in S : f <= e)
    BY AboveIs
  <2>2. Cardinality(Above(S, e)) < 1 <=> Cardinality(Above(S, e)) = 0
    BY <2>1
  <2> QED
    BY <2>1, <2>2
<1> QED
  BY <1>1, NewestAre

(***************************************************************************)
(* The log, and the pages of it.                                           *)
(***************************************************************************)

\* The log, its head, and the ids that may be held.
LEMMA HeadIs ==
  ASSUME ReadsTypeOK
  PROVE  /\ latest \in Nat /\ MaxEvents \in Nat /\ latest <= MaxEvents /\ EntryIds = 1 .. MaxEvents
         /\ events \in Seq(LogEntry) /\ hidden \subseteq 1 .. latest
         /\ after \in 0 .. latest /\ first \in 0 .. latest /\ told \in 0 .. latest /\ began \in 0 .. latest
         /\ printed \subseteq 1 .. latest
         /\ \A e \in 1 .. latest : events[e] \in LogEntry
         /\ \A node : On(node) \subseteq 1 .. latest
         /\ Listed \subseteq 1 .. latest /\ Current \subseteq 1 .. latest
<1>1. /\ latest \in Nat /\ MaxEvents \in Nat /\ latest <= MaxEvents /\ EntryIds = 1 .. MaxEvents
      /\ events \in Seq(LogEntry) /\ hidden \subseteq 1 .. latest /\ printed \subseteq 1 .. latest
      /\ after \in 0 .. latest /\ first \in 0 .. latest /\ told \in 0 .. latest /\ began \in 0 .. latest
  BY ReadsAssumption DEF ReadsTypeOK, latest, EntryIds
<1>2. \A e \in 1 .. latest : events[e] \in LogEntry
  BY <1>1, ElementOfSeq DEF latest
<1>3. \A node : On(node) \subseteq 1 .. latest
  BY DEF On
<1>4. Listed \subseteq 1 .. latest /\ Current \subseteq 1 .. latest
  BY <1>3 DEF Listed, Current, Newest
<1> QED
  BY <1>1, <1>2, <1>3, <1>4

\* A page of rows: some of them, none of which it leaves out in between.
LEMMA PageIs ==
  ASSUME ReadsTypeOK, NEW rows, rows \subseteq 1 .. latest, NEW sent \in PagesOf(rows)
  PROVE  /\ sent.ids \subseteq rows /\ sent.open = {e \in sent.ids : IsOpen(e)}
         /\ sent.cut = (sent.ids # rows)
         /\ sent.cut => sent.ids # {}
         /\ sent.hints = IF sent.cut /\ ~IsTail THEN {Largest(sent.ids)} ELSE {}
         /\ \A e \in sent.ids, f \in rows \ sent.ids : IF IsTail THEN f < e ELSE e < f
         /\ sent.hints \subseteq 1 .. latest
         /\ sent \in Answers
<1>1. PICK some \in Capped(rows) : sent = Reply(some, rows)
  BY DEF PagesOf
<1>2. /\ some \subseteq rows /\ (rows # {} => some # {})
      /\ \A e \in some, f \in rows \ some : IF IsTail THEN f < e ELSE e < f
  BY DEF Capped
<1>3. /\ sent.ids = some /\ sent.open = {e \in some : IsOpen(e)} /\ sent.cut = (some # rows)
      /\ sent.hints = IF some # rows /\ ~IsTail THEN {Largest(some)} ELSE {}
  BY <1>1 DEF Reply
<1>4. sent.cut => sent.ids # {}
  BY <1>2, <1>3
<1>5. sent.hints \subseteq 1 .. latest
  <2>1. sent.cut => Largest(sent.ids) \in 1 .. latest
    <3>1. latest \in Nat /\ sent.ids \subseteq 1 .. latest
      BY <1>2, <1>3, HeadIs
    <3>2. sent.ids # {} => Largest(sent.ids) \in sent.ids
      BY <3>1, LargestIs
    <3> QED
      BY <1>4, <3>1, <3>2
  <2> QED
    BY <1>3, <2>1
<1>6. sent \in Answers
  <2>1. some \subseteq EntryIds /\ sent.hints \subseteq EntryIds
    BY <1>2, <1>5, HeadIs
  <2> HIDE DEF EntryIds
  <2> QED
    BY <1>1, <1>3, <2>1 DEF Reply, Answers
<1> QED
  BY <1>2, <1>3, <1>4, <1>5, <1>6

-----------------------------------------------------------------------------
(***************************************************************************)
(* The board's writes.                                                     *)
(***************************************************************************)

\* One event is written, and hides or shows what it is about.
Grown ==
  /\ UNCHANGED <<tree, reader, what, after, first, answer, printed, told, began>>
  /\ latest < MaxEvents /\ latest' = latest + 1 /\ events' \in Seq(LogEntry)
  /\ \A e \in 1 .. latest : events'[e] = events[e]
  /\ LET x == events'[latest + 1] IN
       /\ x.type = "message" => x.node = "thread"
       /\ x.type = "version" => x.node = "note"
       /\ x.type = "filed" => x.node \in Queues
       /\ \A t \in hidden' : t \in hidden \/ (t \in 1 .. latest /\ events[t].type \in {"message", "filed"}
                                            /\ x.type = "archived" /\ x.ref = t)
       /\ \A t \in hidden : t \in hidden' \/ (x.type = "unarchived" /\ x.ref = t)

\* A write, by what it writes and what it hides.
LEMMA WriteIs ==
  ASSUME ReadsTypeOK,
         NEW type \in {"message", "version", "filed", "resolved", "archived", "unarchived"},
         NEW node \in Nodes, NEW from \in Who, NEW ref \in 0 .. MaxEvents,
         WriteEvent(type, node, from, ref),
         type = "message" => node = "thread",
         type = "version" => node = "note",
         type = "filed" => node \in Queues,
         \/ hidden' = hidden
         \/ /\ hidden' = hidden \cup {ref} /\ type = "archived"
            /\ ref \in 1 .. latest /\ events[ref].type \in {"message", "filed"}
         \/ hidden' = hidden \ {ref} /\ type = "unarchived"
  PROVE  Grown
<1> DEFINE x == [type |-> type, node |-> node, from |-> from, ref |-> ref]
<1>1. x \in LogEntry /\ x.type = type /\ x.node = node /\ x.ref = ref
  BY DEF LogEntry
<1>2. events' = Append(events, x) /\ latest < MaxEvents
  BY DEF WriteEvent
<1>3. events \in Seq(LogEntry)
  BY HeadIs
<1>4. UNCHANGED <<tree, reader, what, after, first, answer, printed, told, began>>
  BY DEF WriteEvent, readerVars
<1> HIDE DEF x
<1>5. /\ events' \in Seq(LogEntry) /\ latest' = latest + 1 /\ events'[latest + 1] = x
      /\ \A e \in 1 .. latest : events'[e] = events[e]
  BY <1>1, <1>2, <1>3, AppendProperties DEF latest
<1>6. /\ \A t \in hidden' : t \in hidden \/ (t \in 1 .. latest /\ events[t].type \in {"message", "filed"}
                                            /\ x.type = "archived" /\ x.ref = t)
      /\ \A t \in hidden : t \in hidden' \/ (x.type = "unarchived" /\ x.ref = t)
  <2>1. CASE hidden' = hidden
    BY <2>1
  <2>2. CASE hidden' = hidden \cup {ref} /\ type = "archived" /\ ref \in 1 .. latest /\ events[ref].type \in {"message", "filed"}
    BY <1>1, <2>2
  <2>3. CASE hidden' = hidden \ {ref} /\ type = "unarchived"
    BY <1>1, <2>3
  <2> QED
    BY <2>1, <2>2, <2>3
<1> QED
  BY <1>1, <1>2, <1>4, <1>5, <1>6 DEF Grown

\* Each write of the board is one.
LEMMA WritesGrow ==
  ASSUME ReadsTypeOK, Shapes, Writes
  PROVE  Grown
<1>0. /\ 0 \in 0 .. MaxEvents /\ latest \in Nat /\ latest <= MaxEvents /\ MaxEvents \in Nat
      /\ {"thread", "note", "mine", "theirs"} = Nodes /\ Who = {"me", "other"} /\ Queues = {"mine", "theirs"}
  BY HeadIs DEF Nodes, Who, Queues
<1>1. CASE PostMessage
  BY <1>0, <1>1, WriteIs DEF PostMessage
<1>2. CASE SaveVersion
  BY <1>0, <1>2, WriteIs DEF SaveVersion
<1>3. ASSUME NEW q \in Queues, NEW asker \in Who, FileItem(q, asker) PROVE Grown
  <2>1. q \in Nodes
    BY <1>0
  <2> QED
    BY <1>0, <1>3, <2>1, WriteIs DEF FileItem
<1>4. ASSUME NEW e \in EntryIds, ResolveItem(e) PROVE Grown
  <2>1. e \in 0 .. MaxEvents /\ events[e].node \in Nodes
    <3>1. e \in 1 .. latest
      BY <1>4 DEF ResolveItem
    <3>2. events[e] \in LogEntry
      BY <3>1, HeadIs
    <3> QED
      BY <1>0, <3>1, <3>2 DEF LogEntry
  <2>2. WriteEvent("resolved", events[e].node, "other", e) /\ hidden' = hidden
    BY <1>4 DEF ResolveItem
  <2> QED
    BY <1>0, <2>1, <2>2, WriteIs
<1>5. ASSUME NEW t \in EntryIds, ArchiveEntry(t) PROVE Grown
  <2>1. t \in 1 .. latest /\ t \in 0 .. MaxEvents /\ events[t].type \in {"message", "filed"} /\ events[t].node \in Nodes
    <3>1. t \in 1 .. latest /\ events[t].type \in {"message", "filed"}
      BY <1>5 DEF ArchiveEntry
    <3>2. events[t] \in LogEntry
      BY <3>1, HeadIs
    <3> QED
      BY <1>0, <3>1, <3>2 DEF LogEntry
  <2>2. CASE t \in hidden
    <3>1. WriteEvent("unarchived", events[t].node, "other", t) /\ hidden' = hidden \ {t}
      BY <1>5, <2>2 DEF ArchiveEntry
    <3> QED
      BY <1>0, <2>1, <3>1, WriteIs
  <2>3. CASE t \notin hidden
    <3>1. WriteEvent("archived", events[t].node, "other", t) /\ hidden' = hidden \cup {t}
      BY <1>5, <2>3 DEF ArchiveEntry
    <3> QED
      BY <1>0, <2>1, <3>1, WriteIs
  <2> QED
    BY <2>2, <2>3
<1> QED
  BY <1>1, <1>2, <1>3, <1>4, <1>5 DEF Writes

\* What has happened stays: nothing becomes due to the reader that was not.
LEMMA GrownKeeps ==
  ASSUME ReadsTypeOK, Shapes, Grown
  PROVE  /\ ReadsTypeOK' /\ Shapes'
         /\ \A e \in 1 .. latest : IsDue(e)' => IsDue(e)
         /\ \A e \in 1 .. latest : \A r \in ResolvedBy(e)' : r \in ResolvedBy(e) \/ r = latest + 1
         /\ \A node : \A e \in 1 .. latest : e \in On(node)' <=> e \in On(node)
<1>0. /\ latest \in Nat /\ latest' = latest + 1 /\ MaxEvents \in Nat /\ latest' <= MaxEvents
      /\ 1 .. latest \subseteq 1 .. latest' /\ 0 .. latest \subseteq 0 .. latest'
      /\ \A e \in 1 .. latest' : e \in 1 .. latest \/ e = latest + 1
  <2>1. latest \in Nat /\ latest' = latest + 1 /\ MaxEvents \in Nat /\ latest < MaxEvents
    BY HeadIs DEF Grown
  <2> QED
    BY <2>1
<1>1. \A node : \A e \in 1 .. latest : e \in On(node)' <=> e \in On(node)
  <2> SUFFICES ASSUME NEW node, NEW e \in 1 .. latest PROVE e \in On(node)' <=> e \in On(node)
    OBVIOUS
  <2>1. events'[e] = events[e] /\ e \in 1 .. latest'
    BY <1>0 DEF Grown
  <2> QED
    BY <2>1 DEF On
<1>2. \A e \in 1 .. latest : \A r \in ResolvedBy(e)' : r \in ResolvedBy(e) \/ r = latest + 1
  BY <1>0 DEF ResolvedBy, Grown
<1>3. \A e \in 1 .. latest : ResolvedBy(e) \subseteq ResolvedBy(e)'
  BY <1>0 DEF ResolvedBy, Grown
<1>4. \A e \in 1 .. latest : IsOpen(e)' => IsOpen(e)
  BY <1>3 DEF IsOpen, Grown
<1>5. \A e \in 1 .. latest : e \in Current' => e \in Current
  <2>1. On("note") \subseteq 1 .. latest /\ On("note")' \subseteq 1 .. latest'
    BY DEF On
  <2>2. Current = {e \in On("note") : \A f \in On("note") : f <= e}
    BY <1>0, <2>1, NewestOne DEF Current
  <2>3. Current' = {e \in On("note")' : \A f \in On("note")' : f <= e}
    <3>1. \A n \in Nat : \A S : S \subseteq 1 .. n => Newest(S, 1) = {e \in S : \A f \in S : f <= e}
      BY NewestOne
    <3>2. latest' \in Nat
      BY <1>0
    <3>3. Current' = Newest(On("note")', 1)
      BY DEF Current, Newest
    <3> QED
      BY <2>1, <3>1, <3>2, <3>3
  <2>4. \A e \in 1 .. latest : e \in On("note")' <=> e \in On("note")
    BY <1>1
  <2> QED
    BY <2>1, <2>2, <2>3, <2>4
<1>6. \A e \in 1 .. latest : IsDue(e)' => IsDue(e)
  <2> SUFFICES ASSUME NEW e \in 1 .. latest, Wanted(e)', Steady(e)' PROVE Wanted(e) /\ Steady(e)
    BY DEF IsDue
  <2>1. what' = what /\ events'[e] = events[e] /\ began' = began
    BY DEF Grown
  <2>2. Wanted(e)
    BY <1>1, <1>4, <1>5, <2>1 DEF Wanted
  <2>3. began \in 0 .. latest
    BY HeadIs
  <2>4. ASSUME NEW a \in (began + 1) .. latest', events'[a].type \in {"archived", "unarchived"}
        PROVE  events'[a].ref # e
    BY <2>1, <2>4 DEF Steady
  <2>5. \A a \in (began + 1) .. latest : events[a].type \in {"archived", "unarchived"} => events[a].ref # e
    <3> SUFFICES ASSUME NEW a \in (began + 1) .. latest, events[a].type \in {"archived", "unarchived"}
                 PROVE  events[a].ref # e
      OBVIOUS
    <3>1. a \in 1 .. latest /\ a \in (began + 1) .. latest'
      BY <1>0, <2>3
    <3>2. events'[a] = events[a]
      BY <3>1 DEF Grown
    <3> QED
      BY <2>4, <3>1, <3>2
  <2>6. Shown(e)
    <3>1. latest + 1 \in (began + 1) .. latest'
      BY <1>0, <2>3
    <3>2. e \in hidden' \/ e \notin hidden
      BY <2>4, <3>1 DEF Grown
    <3> QED
      BY <2>1, <3>2 DEF Steady, Shown
  <2> QED
    BY <2>2, <2>5, <2>6 DEF Steady
<1>7. ReadsTypeOK'
  <2>1. hidden' \subseteq 1 .. latest'
    BY <1>0, HeadIs DEF Grown
  <2>2. printed' \subseteq 1 .. latest' /\ {after', first', told', began'} \subseteq 0 .. latest'
    BY <1>0, HeadIs DEF Grown
  <2>3. latest = Len(events) /\ latest' = Len(events')
    BY DEF latest
  <2> QED
    BY <1>0, <2>1, <2>2, <2>3 DEF ReadsTypeOK, Grown
<1>8. Shapes'
  <2>1. \A e \in 1 .. latest' : /\ events'[e].type = "message" => events'[e].node = "thread"
                                /\ events'[e].type = "version" => events'[e].node = "note"
                                /\ events'[e].type = "filed" => events'[e].node \in Queues
    BY <1>0 DEF Grown, Shapes
  <2>2. \A t \in hidden' : events'[t].type \in {"message", "filed"}
    BY HeadIs DEF Grown, Shapes
  <2> QED
    BY <1>0, <2>1, <2>2 DEF Grown, Shapes
<1> QED
  BY <1>1, <1>2, <1>6, <1>7, <1>8

\* A cursor is an id of the log, or 0.
LEMMA CursorIs ==
  ASSUME ReadsTypeOK, Shapes
  PROVE  /\ CursorAfter \in 0 .. latest
         /\ Told \in 0 .. latest
<1>1. /\ latest \in Nat /\ first \in 0 .. latest /\ told \in 0 .. latest /\ began \in 0 .. latest
      /\ answer.ids \subseteq 0 .. latest /\ {first} \cup answer.ids \subseteq 0 .. latest
  BY HeadIs DEF Shapes
<1>2. Largest(answer.ids) \in 0 .. latest /\ Largest({first} \cup answer.ids) \in 0 .. latest
  BY <1>1, LargestIs
<1>3. Smallest({began, told}) \in {began, told}
  BY <1>1, SmallestIs
<1> QED
  BY <1>1, <1>2, <1>3 DEF CursorAfter, Told

\* What became of the entries of an answer is still after the cursor.
LEMMA GrownChanges ==
  ASSUME ReadsTypeOK, Shapes, Grown, NEW c \in 0 .. latest, ChangesFrom(c)
  PROVE  ChangesFrom(c)'
<1>0. /\ latest \in Nat /\ latest' = latest + 1 /\ answer' = answer /\ what' = what
      /\ answer.ids \subseteq 1 .. latest
  BY HeadIs DEF Grown, Shapes
<1>1. ASSUME NEW e \in answer.ids, e \in answer.open, NEW r \in ResolvedBy(e)' PROVE r > c
  <2>1. r \in ResolvedBy(e) \/ r = latest + 1
    BY <1>0, <1>1, GrownKeeps
  <2> QED
    BY <1>0, <1>1, <2>1 DEF ChangesFrom
<1>2. ASSUME NEW e \in answer.ids, e \in hidden', ~what.archived
      PROVE  \E a \in (c + 1) .. latest' : events'[a].type = "archived" /\ events'[a].ref = e
  <2>1. CASE e \in hidden
    <3>1. PICK a \in (c + 1) .. latest : events[a].type = "archived" /\ events[a].ref = e
      BY <1>2, <2>1 DEF ChangesFrom
    <3>2. a \in (c + 1) .. latest' /\ events'[a] = events[a]
      BY <1>0 DEF Grown
    <3> QED
      BY <3>1, <3>2
  <2>2. CASE e \notin hidden
    <3>1. latest + 1 \in (c + 1) .. latest'
      BY <1>0
    <3> QED
      BY <1>2, <2>2, <3>1 DEF Grown
  <2> QED
    BY <2>1, <2>2
<1> QED
  BY <1>0, <1>1, <1>2 DEF ChangesFrom

\* The board may be written to at any place of the reader.
LEMMA GrownRInv ==
  ASSUME RInv, Grown
  PROVE  RInv'
<1>t. ReadsTypeOK /\ Shapes
  BY DEF RInv
<1>0. /\ UNCHANGED <<reader, what, after, first, answer, printed, told, began>>
      /\ ReadsTypeOK' /\ Shapes' /\ \A e \in 1 .. latest : IsDue(e)' => IsDue(e)
      /\ \A node : \A e \in 1 .. latest : e \in On(node)' <=> e \in On(node)
      /\ latest \in Nat /\ latest' = latest + 1
      /\ after \in 0 .. latest /\ first \in 0 .. latest /\ told \in 0 .. latest /\ began \in 0 .. latest
  BY <1>t, GrownKeeps, HeadIs DEF Grown
<1>1. /\ IsTail' = IsTail /\ Forward' = Forward /\ CursorAfter' = CursorAfter /\ Told' = Told
      /\ Lists' = Lists /\ PlaceFits'
  BY <1>0 DEF IsTail, Forward, CursorAfter, Told, Kind, Largest, Smallest, Lists, RInv, PlaceFits, Queues
<1>2. CursorAfter \in 0 .. latest /\ Told \in 0 .. latest
  BY <1>t, CursorIs
<1>3. \A c \in 0 .. latest : (PrintedUpTo(c) => PrintedUpTo(c)') /\ (ChangesFrom(c) => ChangesFrom(c)')
  <2> SUFFICES ASSUME NEW c \in 0 .. latest
               PROVE  (PrintedUpTo(c) => PrintedUpTo(c)') /\ (ChangesFrom(c) => ChangesFrom(c)')
    OBVIOUS
  <2>1. PrintedUpTo(c) => PrintedUpTo(c)'
    BY <1>0 DEF PrintedUpTo
  <2> QED
    BY <1>t, <2>1, GrownChanges
<1>4. ASSUME what.op = "read" PROVE ReadFollows'
  <2>1. ReadFollows
    BY <1>4 DEF RInv
  <2>2. PICK c \in 0 .. latest : c = CursorAfter
    BY <1>2
  <2>3. PrintedUpTo(after) => PrintedUpTo(after)'
    <3>1. PICK s \in 0 .. latest : s = after
      BY <1>0
    <3>2. s = after'
      BY <1>0, <3>1
    <3> QED
      BY <1>3, <3>1, <3>2 DEF PrintedUpTo
  <2>4. ChangesFrom(CursorAfter) => ChangesFrom(CursorAfter)'
    BY <1>1, <1>3, <2>2 DEF ChangesFrom
  <2> QED
    BY <1>0, <1>1, <2>1, <2>2, <2>3, <2>4 DEF ReadFollows
<1>5. ASSUME Lists PROVE ListFollows'
  <2>1. ListFollows
    BY <1>5 DEF RInv
  <2>2. PICK c \in 0 .. latest : c = IF after <= began THEN after ELSE began
    BY <1>0
  <2>3. PrintedUpTo(IF after <= began THEN after ELSE began) => PrintedUpTo(IF after <= began THEN after ELSE began)'
    <3>1. c = IF after' <= began' THEN after' ELSE began'
      BY <1>0, <2>2
    <3> QED
      BY <1>3, <2>2, <3>1 DEF PrintedUpTo
  <2>4. \A e \in 1 .. latest : Answered(e) => Answered(e)'
    BY <1>0 DEF Answered
  <2>5. \A e \in On("mine")' : e <= began => e \in 1 .. latest /\ e \in On("mine")
    <3> SUFFICES ASSUME NEW e \in On("mine")', e <= began PROVE e \in 1 .. latest /\ e \in On("mine")
      OBVIOUS
    <3>1. e \in 1 .. latest'
      BY DEF On
    <3>2. e \in 1 .. latest
      BY <1>0, <3>1
    <3> QED
      BY <1>0, <3>2
  <2>6. reader' = "asked" => \A e \in On("mine")' : Answered(e)'
    <3> SUFFICES ASSUME reader = "asked", NEW e \in On("mine")' PROVE Answered(e)'
      BY <1>0
    <3>1. CASE e <= began
      BY <2>1, <2>4, <2>5, <3>1 DEF ListFollows
    <3>2. CASE ~(e <= began)
      BY <1>0, <3>2 DEF Answered
    <3> QED
      BY <3>1, <3>2
  <2>7. reader' = "print" => \A e \in 1 .. began' : Answered(e)'
    BY <1>0, <2>1, <2>4 DEF ListFollows
  <2> QED
    BY <1>0, <2>1, <2>3, <2>6, <2>7 DEF ListFollows
<1>6. ASSUME what.op = "brief" PROVE BriefFollows'
  <2>1. BriefFollows
    BY <1>6 DEF RInv
  <2>2. ChangesFrom(first) => ChangesFrom(first)'
    <3>1. PICK c \in 0 .. latest : c = first
      BY <1>0
    <3>2. c = first'
      BY <1>0, <3>1
    <3>3. ChangesFrom(first) => ChangesFrom(c)
      BY <3>1 DEF ChangesFrom
    <3>4. ChangesFrom(c)' => ChangesFrom(first)'
      BY <3>2 DEF ChangesFrom
    <3> QED
      BY <1>3, <3>3, <3>4
  <2> QED
    BY <1>0, <2>1, <2>2 DEF BriefFollows
<1>7. EntriesArePrinted'
  <2> SUFFICES ASSUME NEW e \in 1 .. latest',
                      reader' \in {"more", "ended"}, e <= Told', Wanted(e)', Steady(e)', ~BeforeTail(e)',
                      ~(what'.op = "brief" /\ answer'.cut)
               PROVE  e \in printed'
    BY DEF EntriesArePrinted
  <2>1. e \in 1 .. latest
    BY <1>0, <1>1, <1>2
  <2>2. IsDue(e)
    BY <1>0, <2>1 DEF IsDue
  <2>3. ~BeforeTail(e)
    BY <1>0, <1>1 DEF BeforeTail
  <2> QED
    BY <1>0, <1>1, <2>1, <2>2, <2>3 DEF RInv, ReadsAreWhole, NothingIsMissed, EntriesArePrinted, IsDue
<1>8. ChangesAreToCome'
  <2>1. ChangesAreToCome
    BY DEF RInv, ReadsAreWhole, NothingIsMissed
  <2>2. PICK c \in 0 .. latest : c = told
    BY <1>0
  <2>3. c = told'
    BY <1>0, <2>2
  <2>4. ChangesFrom(told) => ChangesFrom(told)'
    <3>1. ChangesFrom(told) => ChangesFrom(c)
      BY <2>2 DEF ChangesFrom
    <3>2. ChangesFrom(c)' => ChangesFrom(told)'
      BY <2>3 DEF ChangesFrom
    <3> QED
      BY <1>3, <3>1, <3>2
  <2> QED
    BY <1>0, <2>1, <2>4 DEF ChangesAreToCome, ChangesFrom
<1>9. NothingIsRepeated'
  BY <1>0 DEF RInv, ReadsAreWhole, NothingIsRepeated
<1> QED
  BY <1>0, <1>1, <1>4, <1>5, <1>6, <1>7, <1>8, <1>9 DEF RInv, ReadsAreWhole, NothingIsMissed

-----------------------------------------------------------------------------
(***************************************************************************)
(* The board's answers to a read.                                          *)
(***************************************************************************)

\* With page as its answer, the reader prints what is due up to c, and is to
\* hear of the rest from there.
AnswerFits(sent, c) ==
  /\ c \in 0 .. latest
  /\ sent.cut => IsTail \/ Forward
  /\ \A e \in 1 .. c : IsDue(e) => \/ e \in printed \cup sent.ids
                                   \/ IsTail /\ \E p \in sent.ids : e < p
  /\ \A e \in sent.ids, p \in printed : p < e
  /\ what.node # "home" => \A p \in printed \cup sent.ids : p <= c
  /\ \A e \in sent.ids : /\ e \in sent.open => ResolvedBy(e) = {}
                         /\ what.archived \/ e \notin hidden
  /\ sent.ids \subseteq 1 .. latest /\ sent.hints \subseteq 1 .. latest /\ sent \in Answers

\* What a read has when it asks for its node.
LEMMA NodeIs ==
  ASSUME RInv, reader = "node"
  PROVE  /\ ReadsTypeOK /\ Shapes /\ what.op = "read" /\ latest \in Nat
         /\ after \in 0 .. latest /\ first \in 0 .. latest /\ after <= first /\ printed \subseteq 1 .. latest
         /\ PrintedUpTo(after) /\ (\A p \in printed : p <= after) /\ (printed = {} \/ Forward)
<1>1. what.op = "read" /\ ReadFollows /\ ReadsTypeOK /\ Shapes
  BY DEF RInv, PlaceFits
<1> QED
  BY <1>1, HeadIs DEF ReadFollows

\* A page going forward.
LEMMA ForwardPage ==
  ASSUME RInv, reader = "node", ~IsTail, Forward,
         NEW rows, rows \subseteq 1 .. latest,
         \A e \in rows : e > after /\ (what.archived \/ e \notin hidden),
         \A e \in 1 .. latest : e > after /\ IsDue(e) => e \in rows,
         NEW sent \in PagesOf(rows),
         NEW c, c = IF sent.cut THEN Largest(sent.ids) ELSE Largest({first} \cup sent.ids)
  PROVE  AnswerFits(sent, c)
<1>1. /\ sent.ids \subseteq rows /\ sent.open = {e \in sent.ids : IsOpen(e)}
      /\ sent.cut = (sent.ids # rows) /\ (sent.cut => sent.ids # {})
      /\ \A e \in sent.ids, f \in rows \ sent.ids : e < f
      /\ sent.hints \subseteq 1 .. latest /\ sent \in Answers
  BY NodeIs, PageIs
<1>2. sent.ids \subseteq 0 .. latest /\ {first} \cup sent.ids \subseteq 0 .. latest /\ latest \in Nat
  <2>1. latest \in Nat /\ first \in 0 .. latest
    BY NodeIs
  <2>2. sent.ids \subseteq 1 .. latest
    BY <1>1
  <2> QED
    BY <2>1, <2>2
<1>3. c \in 0 .. latest /\ \A p \in sent.ids : p <= c
  BY <1>2, LargestIs
<1>4. /\ sent.cut => c \in sent.ids
      /\ ~sent.cut => first <= c
  BY <1>1, <1>2, LargestIs
<1>5. ASSUME NEW e \in 1 .. c, IsDue(e) PROVE e \in printed \cup sent.ids
  <2>1. e \in 1 .. latest
    BY <1>2, <1>3
  <2>2. CASE e <= after
    <3>1. e \in 1 .. after
      BY <2>1, <2>2, NodeIs
    <3> QED
      BY <1>5, <3>1, NodeIs DEF PrintedUpTo
  <2>3. CASE e > after
    <3>1. e \in rows
      BY <1>5, <2>1, <2>3
    <3>2. e \notin sent.ids => sent.cut /\ c < e
      BY <1>1, <1>4, <3>1
    <3> QED
      BY <1>3, <2>1, <3>2
  <2> QED
    BY <2>1, <2>2, <2>3, NodeIs
<1>6. \A e \in sent.ids : e > after
  BY <1>1
<1>7. \A e \in sent.ids, p \in printed : p < e
  <2> SUFFICES ASSUME NEW e \in sent.ids, NEW p \in printed PROVE p < e
    OBVIOUS
  <2>1. p <= after /\ e > after /\ p \in Int /\ e \in Int /\ after \in Int
    BY <1>2, <1>6, NodeIs
  <2> QED
    BY <2>1
<1>8. \A p \in printed : p <= c
  <2> SUFFICES ASSUME NEW p \in printed PROVE p <= c
    OBVIOUS
  <2>1. p <= after /\ p \in Int /\ after \in Int /\ first \in Int /\ after <= first /\ c \in Int
    BY <1>2, <1>3, NodeIs
  <2>2. CASE sent.cut
    BY <1>3, <1>4, <1>7, <2>1, <2>2
  <2>3. CASE ~sent.cut
    BY <1>4, <2>1, <2>3
  <2> QED
    BY <2>2, <2>3
<1>9. \A e \in sent.ids : (e \in sent.open => ResolvedBy(e) = {}) /\ (what.archived \/ e \notin hidden)
  BY <1>1 DEF IsOpen
<1> QED
  BY <1>1, <1>3, <1>5, <1>7, <1>8, <1>9 DEF AnswerFits

\* The tail of a thread.
LEMMA TailPage ==
  ASSUME RInv, reader = "node", IsTail,
         NEW all, all \subseteq 1 .. latest,
         \A e \in all : what.archived \/ e \notin hidden,
         \A e \in 1 .. latest : IsDue(e) => e \in all,
         NEW sent \in PagesOf(Newest(all, ThreadTail)),
         NEW c, c = Largest({first} \cup sent.ids)
  PROVE  AnswerFits(sent, c)
<1> DEFINE rows == Newest(all, ThreadTail)
<1>0. latest \in Nat /\ ThreadTail \in Nat \ {0}
  BY NodeIs, ReadsAssumption
<1>1. /\ rows \subseteq all /\ (all # {} => rows # {})
      /\ \A p \in rows, e \in all : p <= e => e \in rows
  BY <1>0, NewestIs
<1> HIDE DEF rows
<1>2. sent \in PagesOf(rows) /\ rows \subseteq 1 .. latest
  BY <1>1 DEF rows
<1>3. /\ sent.ids \subseteq rows /\ sent.open = {e \in sent.ids : IsOpen(e)}
      /\ sent.cut = (sent.ids # rows) /\ (sent.cut => sent.ids # {})
      /\ \A e \in sent.ids, f \in rows \ sent.ids : f < e
      /\ sent.hints \subseteq 1 .. latest /\ sent \in Answers
  BY <1>2, NodeIs, PageIs
<1>4. {first} \cup sent.ids \subseteq 0 .. latest
  <2>1. first \in 0 .. latest
    BY NodeIs
  <2>2. sent.ids \subseteq 1 .. latest
    BY <1>2, <1>3
  <2> QED
    BY <1>0, <2>1, <2>2
<1>5. c \in 0 .. latest /\ \A p \in sent.ids : p <= c
  BY <1>0, <1>4, LargestIs
<1>6. printed = {}
  BY NodeIs DEF Forward, IsTail, Kind, Queues
<1>7. ASSUME NEW e \in 1 .. c, IsDue(e), e \notin sent.ids PROVE \E p \in sent.ids : e < p
  <2>1. e \in all /\ e \in Int
    BY <1>0, <1>5, <1>7
  <2>2. CASE e \in rows
    BY <1>3, <1>7, <2>2
  <2>3. CASE e \notin rows
    <3>1. sent.ids # {}
      BY <1>1, <1>3, <2>1
    <3>2. PICK p \in sent.ids : TRUE
      BY <3>1
    <3>3. ~(p <= e) /\ p \in Int
      <4>1. p \in rows /\ p \in Int
        <5>1. p \in rows
          BY <1>3
        <5> QED
          BY <1>2, <5>1
      <4> QED
        BY <1>1, <2>1, <2>3, <4>1
    <3> QED
      BY <2>1, <3>3
  <2> QED
    BY <2>2, <2>3
<1>8. \A e \in sent.ids : (e \in sent.open => ResolvedBy(e) = {}) /\ (what.archived \/ e \notin hidden)
  BY <1>1, <1>3 DEF IsOpen
<1> QED
  BY <1>2, <1>3, <1>5, <1>6, <1>7, <1>8 DEF AnswerFits

\* A page that is never cut, and prints nothing before.
LEMMA WholePage ==
  ASSUME RInv, reader = "node", ~Forward, ~IsTail,
         NEW sent, sent.ids \subseteq 1 .. latest, sent.hints = {}, sent.cut = FALSE, sent \in Answers,
         sent.open = {e \in sent.ids : IsOpen(e)},
         \A e \in sent.ids : e \notin hidden,
         \A e \in 1 .. latest : IsDue(e) => e \in sent.ids,
         NEW c, \/ c = Largest({first} \cup sent.ids)
                \/ what.node = "home" /\ c = first
  PROVE  AnswerFits(sent, c)
<1>1. latest \in Nat /\ first \in 0 .. latest /\ printed = {}
  BY NodeIs
<1>2. {first} \cup sent.ids \subseteq 0 .. latest
  BY <1>1
<1>3. c \in 0 .. latest /\ (what.node # "home" => \A p \in sent.ids : p <= c)
  BY <1>1, <1>2, LargestIs
<1>4. \A e \in 1 .. c : e \in 1 .. latest
  BY <1>1, <1>3
<1>5. \A e \in sent.ids : e \in sent.open => ResolvedBy(e) = {}
  BY DEF IsOpen
<1> QED
  BY <1>1, <1>3, <1>4, <1>5 DEF AnswerFits

\* The head of a read, and its page, give its cursor.
CursorOf(sent) ==
  CASE sent.cut /\ Forward -> Largest(sent.ids)
    [] what.node = "home" -> first
    [] OTHER -> Largest({first} \cup sent.ids)

\* What the listing and the note show is none of it hidden.
LEMMA ListedIs ==
  ASSUME ReadsTypeOK, Shapes
  PROVE  /\ Current \subseteq 1 .. latest /\ Listed \subseteq 1 .. latest
         /\ \A e \in Listed : e \notin hidden
         /\ Current \subseteq Listed
         /\ \A e, f \in Current : e = f
         /\ \A e \in On("note") : events[e].type = "version"
<1>1. latest \in Nat /\ On("note") \subseteq 1 .. latest /\ On("thread") \ hidden \subseteq 1 .. latest
  BY HeadIs
<1>2. Current = {e \in On("note") : \A f \in On("note") : f <= e}
  BY <1>1, NewestOne DEF Current
<1>3. Newest(On("thread") \ hidden, 1) \subseteq On("thread") \ hidden
  BY <1>1, NewestIs
<1>4. \A e \in On("note") : events[e].type = "version"
  BY DEF On, Shapes, Queues
<1>5. \A e \in Current : e \notin hidden
  BY <1>2, <1>4 DEF Shapes
<1>6. \A e, f \in Current : e = f
  <2> SUFFICES ASSUME NEW e \in Current, NEW f \in Current PROVE e = f
    OBVIOUS
  <2>1. e <= f /\ f <= e /\ e \in Int /\ f \in Int
    BY <1>1, <1>2
  <2> QED
    BY <2>1
<1> QED
  BY <1>1, <1>2, <1>3, <1>4, <1>5, <1>6 DEF Listed

\* A read of any node at all.
LEMMA NodeFits ==
  ASSUME RInv, reader = "node", ~Misplaced,
         NEW sent \in IF what.node = "home" THEN {Reply(Listed, Listed)} ELSE PagesOf(Selected)
  PROVE  AnswerFits(sent, CursorOf(sent))
<1>0. ReadsTypeOK /\ Shapes /\ what.op = "read" /\ latest \in Nat /\ what \in Command
  BY NodeIs DEF ReadsTypeOK
<1>1. ASSUME what.node = "thread", IsTail PROVE AnswerFits(sent, CursorOf(sent))
  <2> DEFINE all == {e \in On("thread") : Shown(e)}
  <2>1. Selected = Newest(all, ThreadTail)
    BY <1>1 DEF Selected, Kind, Queues, IsTail
  <2>2. all \subseteq 1 .. latest /\ \A e \in all : what.archived \/ e \notin hidden
    BY <1>0, HeadIs DEF Shown
  <2>3. \A e \in 1 .. latest : IsDue(e) => e \in all
    BY <1>0, <1>1 DEF IsDue, Wanted, Steady
  <2>4. CursorOf(sent) = Largest({first} \cup sent.ids)
    BY <1>1 DEF CursorOf, Forward, Kind, Queues
  <2> HIDE DEF all
  <2> QED
    BY <1>1, <2>1, <2>2, <2>3, <2>4, TailPage
<1>2. ASSUME what.node = "thread", ~IsTail PROVE AnswerFits(sent, CursorOf(sent))
  <2> DEFINE rows == {e \in On("thread") : Shown(e) /\ e > after}
  <2>1. Selected = rows
    BY <1>2 DEF Selected, Kind, Queues, IsTail, After
  <2>2. rows \subseteq 1 .. latest /\ \A e \in rows : e > after /\ (what.archived \/ e \notin hidden)
    BY <1>0, HeadIs DEF Shown
  <2>3. \A e \in 1 .. latest : e > after /\ IsDue(e) => e \in rows
    BY <1>0, <1>2 DEF IsDue, Wanted, Steady
  <2>4. Forward /\ CursorOf(sent) = IF sent.cut THEN Largest(sent.ids) ELSE Largest({first} \cup sent.ids)
    BY <1>2 DEF CursorOf, Forward
  <2> HIDE DEF rows
  <2> QED
    BY <1>2, <2>1, <2>2, <2>3, <2>4, ForwardPage
<1>3. ASSUME what.node \in Queues PROVE AnswerFits(sent, CursorOf(sent))
  <2> DEFINE rows == {i \in On(what.node) : Items(i)}
  <2>1. Selected = rows /\ what.node # "home" /\ ~IsTail
    BY <1>3 DEF Selected, Kind, Queues, IsTail
  <2>2. rows \subseteq 1 .. latest /\ \A e \in rows : e > after /\ (what.archived \/ e \notin hidden)
    BY <1>0, HeadIs DEF Items, After, Shown
  <2>3. \A e \in 1 .. latest : e > after /\ IsDue(e) => e \in rows
    <3> SUFFICES ASSUME NEW e \in 1 .. latest, e > after, IsDue(e) PROVE e \in rows
      OBVIOUS
    <3>1. e \in On(what.node) /\ Shown(e) /\ (events[e].type = "filed" /\ what.state = "open" => IsOpen(e))
      BY <1>0, <2>1 DEF IsDue, Wanted, Steady
    <3>2. events[e].type = "filed"
      BY <1>0, <1>3, <3>1 DEF On, Shapes, Queues
    <3> QED
      BY <3>1, <3>2 DEF Items, After
  <2>4. Forward /\ CursorOf(sent) = IF sent.cut THEN Largest(sent.ids) ELSE Largest({first} \cup sent.ids)
    BY <1>3, <2>1 DEF CursorOf, Forward, Kind
  <2> HIDE DEF rows
  <2> QED
    BY <2>1, <2>2, <2>3, <2>4, ForwardPage
<1>4. ASSUME what.node = "note" PROVE AnswerFits(sent, CursorOf(sent))
  <2>1. Selected = Current /\ ~Forward /\ ~IsTail
    BY <1>4 DEF Selected, Kind, Queues, IsTail, Forward
  <2>2. sent \in PagesOf(Current)
    BY <1>4, <2>1
  <2>3. /\ sent.ids \subseteq Current /\ sent.open = {e \in sent.ids : IsOpen(e)}
        /\ sent.cut = (sent.ids # Current) /\ (sent.cut => sent.ids # {})
        /\ sent.hints = (IF sent.cut /\ ~IsTail THEN {Largest(sent.ids)} ELSE {}) /\ sent \in Answers
    BY <1>0, <2>2, ListedIs, PageIs
  <2>4. sent.ids = Current
    BY <1>0, <2>3, ListedIs
  <2>5. \A e \in sent.ids : e \in 1 .. latest /\ e \notin hidden
    BY <1>0, <2>4, ListedIs
  <2>6. \A e \in 1 .. latest : IsDue(e) => e \in sent.ids
    BY <1>0, <1>4, <2>4, ListedIs DEF IsDue, Wanted
  <2>7. CursorOf(sent) = Largest({first} \cup sent.ids)
    BY <1>4, <2>1 DEF CursorOf
  <2> QED
    BY <2>1, <2>3, <2>4, <2>5, <2>6, <2>7, WholePage
<1>5. ASSUME what.node = "home" PROVE AnswerFits(sent, CursorOf(sent))
  <2>1. ~Forward /\ ~IsTail
    BY <1>5 DEF Kind, Queues, IsTail, Forward
  <2>2. /\ sent.ids = Listed /\ sent.open = {e \in Listed : IsOpen(e)} /\ sent.cut = FALSE /\ sent.hints = {}
        /\ sent = [ids |-> Listed, open |-> {e \in Listed : IsOpen(e)}, cut |-> FALSE, hints |-> {}]
    <3>1. sent = Reply(Listed, Listed)
      BY <1>5
    <3> QED
      BY <3>1 DEF Reply
  <2>3. Listed \subseteq EntryIds
    BY <1>0, HeadIs
  <2>4. sent \in Answers
    BY <2>2, <2>3 DEF Answers
  <2>5. \A e \in 1 .. latest : IsDue(e) => e \in sent.ids
    BY <1>0, <1>5, <2>2, ListedIs DEF IsDue, Wanted
  <2>6. CursorOf(sent) = first
    BY <1>5, <2>1 DEF CursorOf
  <2> QED
    BY <1>0, <1>5, <2>1, <2>2, <2>4, <2>5, <2>6, ListedIs, WholePage
<1> QED
  BY <1>0, <1>1, <1>2, <1>3, <1>4, <1>5 DEF Command, Nodes

-----------------------------------------------------------------------------
(***************************************************************************)
(* The board's lists of items.                                             *)
(***************************************************************************)

\* A page of a list: its hint is its last row, and nothing before it is left out.
LEMMA ListPage ==
  ASSUME ReadsTypeOK, ~IsTail, NEW rows, rows \subseteq 1 .. latest,
         NEW sent \in PagesOf(rows)
  PROVE  /\ sent.ids \subseteq rows /\ sent.hints \subseteq 1 .. latest /\ sent \in Answers
         /\ sent.open = {e \in sent.ids : IsOpen(e)}
         /\ sent.cut \in BOOLEAN /\ (sent.cut <=> sent.hints # {}) /\ (~sent.cut => sent.ids = rows)
         /\ \A e \in rows : e \in sent.ids \/ \E h \in sent.hints : h < e
         /\ \A h \in sent.hints : h \in sent.ids /\ \A p \in sent.ids : p <= h
<1>1. /\ sent.ids \subseteq rows /\ sent.open = {e \in sent.ids : IsOpen(e)}
      /\ sent.cut = (sent.ids # rows) /\ (sent.cut => sent.ids # {})
      /\ sent.hints = (IF sent.cut THEN {Largest(sent.ids)} ELSE {})
      /\ \A e \in sent.ids, f \in rows \ sent.ids : e < f
      /\ sent.hints \subseteq 1 .. latest /\ sent \in Answers
  BY PageIs
<1>2. latest \in Nat /\ sent.ids \subseteq 0 .. latest
  <2>1. latest \in Nat
    BY HeadIs
  <2>2. sent.ids \subseteq 1 .. latest
    BY <1>1
  <2> QED
    BY <2>1, <2>2
<1>3. sent.cut => Largest(sent.ids) \in sent.ids /\ \A p \in sent.ids : p <= Largest(sent.ids)
  BY <1>1, <1>2, LargestIs
<1> QED
  BY <1>1, <1>3

\* The rows of the two lists are what is due of them.
LEMMA ListRows ==
  ASSUME ReadsTypeOK, Shapes, what.op # "read"
  PROVE  /\ Owned \subseteq 1 .. latest /\ Asked \subseteq 1 .. latest
         /\ \A e \in Owned \cup Asked : e > after /\ Shown(e)
         /\ \A e \in On("mine") : IsDue(e) /\ e > after => e \in Owned
         /\ \A e \in On("mine") \cup On("theirs") :
              IsDue(e) /\ e > after /\ events[e].from = "me" => e \in Asked
<1>1. \A e \in On("mine") \cup On("theirs") : e \in 1 .. latest /\ events[e].type = "filed"
  BY DEF On, Shapes, Queues
<1>2. \A e \in On("mine") \cup On("theirs") : IsDue(e) /\ e > after => Items(e)
  BY <1>1 DEF IsDue, Wanted, Steady, Items, After
<1> QED
  BY <1>1, <1>2 DEF Owned, Asked, Items, After

\* Only a read has a tail.
LEMMA NoTail ==
  ASSUME Shapes, what.op # "read"
  PROVE  ~IsTail
  BY DEF Shapes, IsTail

\* Two pages as one.
LEMMA MergeIs ==
  ASSUME NEW a \in Answers, NEW b \in Answers
  PROVE  /\ Merge(a, b) \in Answers
         /\ Merge(a, b).ids = a.ids \cup b.ids /\ Merge(a, b).open = a.open \cup b.open
         /\ Merge(a, b).hints = a.hints \cup b.hints /\ Merge(a, b).cut = (a.cut \/ b.cut)
  BY DEF Merge, Answers

\* Two lists as one page of a brief.
LEMMA BriefPage ==
  ASSUME ReadsTypeOK, Shapes, what.op = "brief", after = 0,
         NEW o \in PagesOf(Owned), NEW a \in PagesOf(Asked),
         NEW sent, sent = Merge(Reply(Listed, Listed), Merge(o, a))
  PROVE  /\ sent \in Answers /\ sent.ids \subseteq 1 .. latest /\ sent.hints \subseteq 1 .. latest
         /\ ~sent.cut => \A e \in 1 .. latest : IsDue(e) => e \in sent.ids
         /\ \A e \in sent.ids : /\ e \in sent.open => ResolvedBy(e) = {}
                                /\ what.archived \/ e \notin hidden
<1>1. ~IsTail
  BY NoTail
<1>2. /\ o.ids \subseteq Owned /\ o.hints \subseteq 1 .. latest /\ o \in Answers
      /\ o.open = {e \in o.ids : IsOpen(e)} /\ o.cut \in BOOLEAN /\ (~o.cut => o.ids = Owned)
  BY <1>1, ListRows, ListPage
<1>3. /\ a.ids \subseteq Asked /\ a.hints \subseteq 1 .. latest /\ a \in Answers
      /\ a.open = {e \in a.ids : IsOpen(e)} /\ a.cut \in BOOLEAN /\ (~a.cut => a.ids = Asked)
  BY <1>1, ListRows, ListPage
<1>4. PICK l : l = Reply(Listed, Listed)
  OBVIOUS
<1>5. l.ids = Listed /\ l.open = {e \in Listed : IsOpen(e)} /\ l.cut = FALSE /\ l.hints = {}
  BY <1>4 DEF Reply
<1>6. l \in Answers
  <2>1. Listed \subseteq EntryIds
    BY HeadIs
  <2> QED
    BY <1>4, <2>1 DEF Reply, Answers
<1>7. /\ sent \in Answers /\ sent.ids = Listed \cup (o.ids \cup a.ids)
      /\ sent.open = l.open \cup (o.open \cup a.open)
      /\ sent.hints = o.hints \cup a.hints /\ sent.cut = (o.cut \/ a.cut)
  <2>1. PICK m : m = Merge(o, a)
    OBVIOUS
  <2>2. /\ m \in Answers /\ m.ids = o.ids \cup a.ids /\ m.open = o.open \cup a.open
        /\ m.hints = o.hints \cup a.hints /\ m.cut = (o.cut \/ a.cut)
    BY <1>2, <1>3, <2>1, MergeIs
  <2>3. sent = Merge(l, m)
    BY <1>4, <2>1
  <2>4. /\ sent \in Answers /\ sent.ids = l.ids \cup m.ids /\ sent.open = l.open \cup m.open
        /\ sent.hints = l.hints \cup m.hints /\ sent.cut = (l.cut \/ m.cut)
    <3>1. l \in Answers /\ m \in Answers
      BY <1>6, <2>2
    <3>2. /\ Merge(l, m) \in Answers
          /\ Merge(l, m).ids = l.ids \cup m.ids /\ Merge(l, m).open = l.open \cup m.open
          /\ Merge(l, m).hints = l.hints \cup m.hints /\ Merge(l, m).cut = (l.cut \/ m.cut)
      BY <3>1, MergeIs
    <3> QED
      BY <2>3, <3>2
  <2> QED
    BY <1>2, <1>3, <1>5, <2>2, <2>4
<1>8. sent.ids \subseteq 1 .. latest /\ sent.hints \subseteq 1 .. latest
  BY <1>2, <1>3, <1>7, HeadIs, ListRows
<1>9. \A e \in sent.ids : what.archived \/ e \notin hidden
  BY <1>2, <1>3, <1>7, ListedIs, ListRows DEF Shown
<1>10. \A e \in sent.ids : e \in sent.open => ResolvedBy(e) = {}
  BY <1>2, <1>3, <1>5, <1>7 DEF IsOpen
<1>11. ASSUME ~sent.cut, NEW e \in 1 .. latest, IsDue(e) PROVE e \in sent.ids
  <2>1. e \in Current \/ e \in On("mine") \/ (e \in On("theirs") /\ events[e].from = "me")
    BY <1>11 DEF IsDue, Wanted
  <2>2. e > after
    OBVIOUS
  <2>3. e \in Current => e \in sent.ids
    BY <1>7, ListedIs
  <2> QED
    BY <1>2, <1>3, <1>7, <1>11, <2>1, <2>2, <2>3, ListRows
<1> QED
  BY <1>7, <1>8, <1>9, <1>10, <1>11

-----------------------------------------------------------------------------
(***************************************************************************)
(* The reader's steps.                                                     *)
(***************************************************************************)

\* The board stands still, and the command is after the same.
Still ==
  /\ UNCHANGED <<tree, events, hidden, began>>
  /\ what'.op = what.op /\ what'.node = what.node /\ what'.state = what.state /\ what'.archived = what.archived

\* While the board stands still the same is due.
LEMMA StillSame ==
  ASSUME Still
  PROVE  /\ latest' = latest
         /\ \A e : IsDue(e)' <=> IsDue(e)
         /\ \A e : ResolvedBy(e)' = ResolvedBy(e)
         /\ \A node : On(node)' = On(node)
<1>1. latest' = latest /\ (\A node : On(node)' = On(node)) /\ \A e : ResolvedBy(e)' = ResolvedBy(e)
  BY DEF Still, latest, On, ResolvedBy
<1>2. \A e : IsOpen(e)' <=> IsOpen(e)
  BY <1>1 DEF Still, IsOpen
<1>3. Current' = Current
  BY <1>1 DEF Current, Newest
<1>4. \A e : Wanted(e)' <=> Wanted(e)
  BY <1>1, <1>2, <1>3 DEF Still, Wanted
<1>5. \A e : Steady(e)' <=> Steady(e)
  BY <1>1 DEF Still, Steady, Shown
<1> QED
  BY <1>1, <1>4, <1>5 DEF IsDue

\* While nothing has been answered there is nothing to go wrong.
LEMMA NothingYet ==
  ASSUME reader' \notin {"print", "more", "ended"}
  PROVE  ReadsAreWhole'
  BY DEF ReadsAreWhole, NothingIsMissed, EntriesArePrinted, ChangesAreToCome, NothingIsRepeated

\* Nothing is asked for yet.
LEMMA InitRInv == ReadsInit => RInv
<1> SUFFICES ASSUME ReadsInit PROVE RInv
  OBVIOUS
<1>1. latest = 0 /\ events = <<>>
  BY DEF ReadsInit, latest
<1>2. ReadsTypeOK
  BY <1>1, ReadsAssumption DEF ReadsInit, ReadsTypeOK, NoCommand, NoAnswer, Command, Answers, Nodes, latest
<1>3. Shapes
  BY <1>1 DEF ReadsInit, Shapes, NoAnswer, NoCommand
<1>4. PlaceFits /\ ReadFollows /\ ListFollows /\ BriefFollows
  BY DEF ReadsInit, PlaceFits, ReadFollows, ListFollows, BriefFollows
<1>5. ReadsAreWhole
  BY DEF ReadsInit, ReadsAreWhole, NothingIsMissed, EntriesArePrinted, ChangesAreToCome, NothingIsRepeated
<1> QED
  BY <1>2, <1>3, <1>4, <1>5 DEF RInv

\* The types of the reader, and the shapes, where the board stands still.
LEMMA StillTypes ==
  ASSUME ReadsTypeOK, Shapes, UNCHANGED boardRows,
         what' \in Command, what'.op # "read" => what'.node = "home",
         reader' \in {"off", "head", "node", "owned", "asked", "brief", "print", "more", "ended", "refused"},
         answer' \in Answers, answer'.ids \subseteq 1 .. latest, answer'.hints \subseteq 1 .. latest,
         printed' \subseteq 1 .. latest,
         after' \in 0 .. latest, first' \in 0 .. latest, told' \in 0 .. latest, began' \in 0 .. latest
  PROVE  ReadsTypeOK' /\ Shapes'
<1>1. latest' = latest /\ latest = Len(events) /\ tree' = tree /\ events' = events /\ hidden' = hidden
  BY DEF boardRows, latest
<1>2. ReadsTypeOK'
  BY <1>1 DEF ReadsTypeOK
<1>3. Shapes'
  BY <1>1 DEF Shapes
<1> QED
  BY <1>2, <1>3

\* A command begins where nothing is printed.
LEMMA StartRInv ==
  ASSUME RInv, NEW w \in Commands, Start(w)
  PROVE  RInv'
<1>0. /\ ReadsTypeOK /\ Shapes /\ printed = {} /\ after = 0 /\ reader = "off"
      /\ UNCHANGED boardRows /\ UNCHANGED <<after, first, answer, printed, told>>
      /\ what' = w /\ w \in Command /\ (w.op # "read" => w.node = "home") /\ began' = latest
      /\ reader' = FirstStep(w)
  BY ReadsAssumption DEF RInv, PlaceFits, Start, Goto
<1>1. /\ w.op \in {"read", "brief", "items", "mine"}
      /\ FirstStep(w) = CASE w.op = "read" -> "head" [] w.op = "brief" -> "brief" [] OTHER -> "owned"
  BY <1>0 DEF Command, FirstStep
<1>2. ReadsTypeOK' /\ Shapes'
  BY <1>0, <1>1, HeadIs, StillTypes DEF Shapes, ReadsTypeOK
<1>3. PlaceFits'
  BY <1>0, <1>1 DEF PlaceFits, Lists
<1>4. ReadsAreWhole'
  BY <1>0, <1>1, NothingYet
<1>5. latest \in Nat
  BY <1>0, HeadIs
<1>6. w.op = "read" => ReadFollows'
  BY <1>0, <1>1, <1>5 DEF ReadFollows, PrintedUpTo
<1>7. w.op \in {"items", "mine"} => ListFollows'
  BY <1>0, <1>1, <1>5 DEF ListFollows, PrintedUpTo
<1>8. w.op = "brief" => BriefFollows'
  BY <1>0, <1>1 DEF BriefFollows
<1> QED
  BY <1>0, <1>2, <1>3, <1>4, <1>6, <1>7, <1>8 DEF RInv, Lists

\* A read has the head: it starts no later.
LEMMA ReadHeadRInv ==
  ASSUME RInv, ReadHead
  PROVE  RInv'
<1>0. /\ ReadsTypeOK /\ Shapes /\ what.op = "read" /\ ReadFollows /\ reader = "head"
      /\ UNCHANGED boardRows /\ UNCHANGED <<what, after, answer, printed, told, began>>
      /\ reader' = "node" /\ first' = latest
  BY DEF RInv, PlaceFits, ReadHead, Goto
<1>1. Still
  BY <1>0 DEF Still, boardRows
<1>2. ReadsTypeOK' /\ Shapes'
  <2>1. /\ latest \in 0 .. latest /\ printed \subseteq 1 .. latest
        /\ after \in 0 .. latest /\ told \in 0 .. latest /\ began \in 0 .. latest
    BY <1>0, HeadIs
  <2>2. /\ what \in Command /\ (what.op # "read" => what.node = "home")
        /\ answer \in Answers /\ answer.ids \subseteq 1 .. latest /\ answer.hints \subseteq 1 .. latest
    BY <1>0 DEF Shapes, ReadsTypeOK
  <2> QED
    BY <1>0, <2>1, <2>2, StillTypes
<1>3. PlaceFits' /\ ReadsAreWhole'
  BY <1>0, NothingYet DEF PlaceFits
<1>4. after \in 0 .. latest
  BY <1>0, HeadIs
<1>5. ReadFollows'
  BY <1>0, <1>1, <1>4, StillSame DEF ReadFollows, PrintedUpTo, Forward, IsTail, Kind
<1> QED
  BY <1>0, <1>2, <1>3, <1>5 DEF RInv, Lists

\* A read has its page.
LEMMA ReadNodeRInv ==
  ASSUME RInv, ReadNode
  PROVE  RInv'
<1>0. /\ ReadsTypeOK /\ Shapes /\ what.op = "read" /\ ReadFollows /\ reader = "node"
      /\ UNCHANGED boardRows /\ UNCHANGED <<what, after, first, printed, told, began>>
      /\ latest \in Nat
  BY HeadIs DEF RInv, PlaceFits, ReadNode
<1>1. Still
  BY <1>0 DEF Still, boardRows
<1>2. CASE Misplaced
  <2>1. reader' = "refused" /\ answer' = answer
    BY <1>2 DEF ReadNode, Goto
  <2>2. ReadsTypeOK' /\ Shapes'
    BY <1>0, <2>1, HeadIs, StillTypes DEF Shapes, ReadsTypeOK
  <2>3. PlaceFits' /\ ReadsAreWhole' /\ ReadFollows'
    BY <2>1, NothingYet DEF PlaceFits, ReadFollows
  <2> QED
    BY <1>0, <2>2, <2>3 DEF RInv, Lists
<1>3. CASE ~Misplaced
  <2>1. /\ reader' = "print"
        /\ answer' \in IF what.node = "home" THEN {Reply(Listed, Listed)} ELSE PagesOf(Selected)
    BY <1>3 DEF ReadNode, Goto
  <2>2. AnswerFits(answer', CursorOf(answer'))
    BY <1>0, <1>3, <2>1, NodeFits
  <2>3. PICK sent, c : sent = answer' /\ c = CursorOf(sent) /\ AnswerFits(sent, c)
    BY <2>2
  <2>4. CursorAfter' = c /\ IsTail' = IsTail /\ Forward' = Forward
    BY <1>0, <2>3 DEF CursorAfter, CursorOf, IsTail, Forward, Kind, Largest
  <2>5. ReadsTypeOK' /\ Shapes'
    BY <1>0, <2>1, <2>3, HeadIs, StillTypes DEF AnswerFits, Shapes, ReadsTypeOK
  <2>6. PlaceFits'
    BY <1>0, <2>1 DEF PlaceFits, Lists
  <2>7. ReadsAreWhole'
    BY <1>0, <2>1, <2>3 DEF AnswerFits, ReadsAreWhole, NothingIsMissed, EntriesArePrinted,
       ChangesAreToCome, NothingIsRepeated
  <2>8. ChangesFrom(CursorAfter)'
    BY <1>0, <1>1, <2>3, <2>4, StillSame DEF AnswerFits, ChangesFrom, boardRows
  <2>9. ReadFollows'
    BY <1>0, <1>1, <2>1, <2>3, <2>4, <2>8, StillSame DEF AnswerFits, ReadFollows, PrintedUpTo
  <2> QED
    BY <1>0, <2>5, <2>6, <2>7, <2>9 DEF RInv, Lists
<1> QED
  BY <1>2, <1>3

\* Where the answers to a list go.
LEMMA OwnedIs ==
  ASSUME RInv, Lists, reader \in {"owned", "asked"}
  PROVE  /\ ReadsTypeOK /\ Shapes /\ what.op # "read" /\ ~IsTail /\ latest \in Nat
         /\ after \in 0 .. latest /\ began \in 0 .. latest /\ printed \subseteq 1 .. latest
         /\ \A e \in 1 .. latest : e <= after /\ e <= began /\ IsDue(e) => e \in printed
         /\ what.op = "items" => \A p \in printed : p <= after
<1>1. ReadsTypeOK /\ Shapes /\ what.op # "read" /\ ListFollows
  BY DEF RInv, Lists
<1>2. latest \in Nat /\ after \in 0 .. latest /\ began \in 0 .. latest /\ printed \subseteq 1 .. latest
  BY <1>1, HeadIs
<1>3. \A e \in 1 .. latest : e <= after /\ e <= began /\ IsDue(e) => e \in printed
  BY <1>1, <1>2 DEF ListFollows, PrintedUpTo
<1> QED
  BY <1>1, <1>2, <1>3, NoTail DEF ListFollows

\* The part of ListFollows that no answer changes.
LEMMA ListStill ==
  ASSUME RInv, Lists, reader \in {"owned", "asked"}, Still, UNCHANGED <<after, printed>>
  PROVE  /\ PrintedUpTo(IF after <= began THEN after ELSE began)'
         /\ (what.op = "items" => \A p \in printed : p <= after)'
<1>1. ListFollows
  BY DEF RInv
<1> QED
  BY <1>1, StillSame DEF ListFollows, PrintedUpTo, Still

\* A list of items has those of the queue.
LEMMA ListOwnedRInv ==
  ASSUME RInv, ListOwned
  PROVE  RInv'
<1>0. /\ Lists /\ reader = "owned" /\ UNCHANGED boardRows
      /\ UNCHANGED <<what, after, first, printed, told, began>>
      /\ reader' = (IF what.op = "mine" THEN "asked" ELSE "print")
  BY DEF RInv, PlaceFits, ListOwned, Goto
<1>1. /\ ReadsTypeOK /\ Shapes /\ what.op # "read" /\ ~IsTail /\ latest \in Nat
      /\ after \in 0 .. latest /\ began \in 0 .. latest /\ printed \subseteq 1 .. latest
      /\ \A e \in 1 .. latest : e <= after /\ e <= began /\ IsDue(e) => e \in printed
      /\ what.op = "items" => \A p \in printed : p <= after
  BY <1>0, OwnedIs
<1>2. Still
  BY <1>0 DEF Still, boardRows
<1>3. PICK sent \in PagesOf(Owned) : answer' = sent
  BY DEF ListOwned
<1>4. /\ sent.ids \subseteq Owned /\ sent.hints \subseteq 1 .. latest /\ sent \in Answers
      /\ (sent.cut <=> sent.hints # {})
      /\ \A e \in Owned : e \in sent.ids \/ \E h \in sent.hints : h < e
      /\ \A h \in sent.hints : h \in sent.ids /\ \A p \in sent.ids : p <= h
  BY <1>1, ListRows, ListPage
<1>5. sent.ids \subseteq 1 .. latest /\ \A e \in sent.ids : e > after
  BY <1>1, <1>4, ListRows
<1>6. ReadsTypeOK' /\ Shapes'
  BY <1>0, <1>1, <1>3, <1>4, <1>5, HeadIs, StillTypes DEF Shapes, ReadsTypeOK
<1>7. PlaceFits'
  BY <1>0 DEF PlaceFits, Lists
<1>8. \A e \in On("mine") : e <= began /\ IsDue(e) => e \in printed \cup sent.ids \/ \E h \in sent.hints : h < e
  <2> SUFFICES ASSUME NEW e \in On("mine"), e <= began, IsDue(e)
               PROVE  e \in printed \cup sent.ids \/ \E h \in sent.hints : h < e
    OBVIOUS
  <2>1. e \in 1 .. latest
    BY <1>1, HeadIs
  <2>2. CASE e <= after
    BY <1>1, <2>1, <2>2
  <2>3. CASE e > after
    BY <1>1, <1>4, <2>3, ListRows
  <2> QED
    BY <1>1, <2>1, <2>2, <2>3
<1>9. \A e \in On("mine") : Answered(e)'
  BY <1>0, <1>2, <1>3, <1>8, StillSame DEF Answered
<1>10. what.op = "items" => \A e \in sent.ids, p \in printed : p < e
  <2> SUFFICES ASSUME what.op = "items", NEW e \in sent.ids, NEW p \in printed PROVE p < e
    OBVIOUS
  <2>1. p <= after /\ e > after /\ p \in Int /\ e \in Int /\ after \in Int
    BY <1>1, <1>5
  <2> QED
    BY <2>1
<1>11. what.op = "items" => \A h \in sent.hints, p \in printed \cup sent.ids : p <= h
  <2> SUFFICES ASSUME what.op = "items", NEW h \in sent.hints, NEW p \in printed PROVE p <= h
    BY <1>4
  <2>1. p < h /\ p \in Int /\ h \in Int
    BY <1>1, <1>4, <1>5, <1>10
  <2> QED
    BY <2>1
<1>12. reader' = "print" => \A e \in 1 .. began' : Answered(e)'
  <2> SUFFICES ASSUME what.op = "items", NEW e \in 1 .. began PROVE Answered(e)'
    BY <1>0 DEF Lists
  <2>1. IsDue(e) => e \in On("mine")
    BY DEF IsDue, Wanted
  <2> QED
    BY <1>0, <1>2, <1>3, <1>8, <2>1, StillSame DEF Answered
<1>13. ListFollows'
  BY <1>0, <1>2, <1>3, <1>4, <1>9, <1>10, <1>11, <1>12, ListStill, StillSame DEF ListFollows
<1>14. ReadsAreWhole'
  BY <1>0, <1>3, <1>10 DEF Lists, ReadsAreWhole, NothingIsMissed, EntriesArePrinted,
     ChangesAreToCome, NothingIsRepeated
<1> QED
  BY <1>0, <1>6, <1>7, <1>13, <1>14 DEF RInv, Lists

\* And those that were asked.
LEMMA ListAskedRInv ==
  ASSUME RInv, ListAsked
  PROVE  RInv'
<1>0. /\ Lists /\ reader = "asked" /\ what.op = "mine" /\ UNCHANGED boardRows
      /\ UNCHANGED <<what, after, first, printed, told, began>>
      /\ reader' = "print" /\ ListFollows
  BY DEF RInv, PlaceFits, ListAsked, Goto, Lists
<1>1. /\ ReadsTypeOK /\ Shapes /\ what.op # "read" /\ ~IsTail /\ latest \in Nat
      /\ after \in 0 .. latest /\ began \in 0 .. latest /\ printed \subseteq 1 .. latest
      /\ \A e \in 1 .. latest : e <= after /\ e <= began /\ IsDue(e) => e \in printed
  BY <1>0, OwnedIs
<1>2. Still
  BY <1>0 DEF Still, boardRows
<1>3. PICK sent \in PagesOf(Asked) : answer' = Merge(answer, sent)
  BY DEF ListAsked
<1>4. /\ sent.ids \subseteq Asked /\ sent.hints \subseteq 1 .. latest /\ sent \in Answers
      /\ sent.cut \in BOOLEAN /\ (sent.cut <=> sent.hints # {})
      /\ \A e \in Asked : e \in sent.ids \/ \E h \in sent.hints : h < e
  BY <1>1, ListRows, ListPage
<1>5. /\ answer.ids \subseteq 1 .. latest /\ answer.hints \subseteq 1 .. latest /\ answer \in Answers
      /\ (answer.cut <=> answer.hints # {})
      /\ \A e \in On("mine") : Answered(e)
  BY <1>0, <1>1 DEF Shapes, ReadsTypeOK, ListFollows
<1>6. /\ answer' \in Answers /\ answer'.ids = answer.ids \cup sent.ids
      /\ answer'.hints = answer.hints \cup sent.hints /\ answer'.cut = (answer.cut \/ sent.cut)
  BY <1>3, <1>4, <1>5, MergeIs
<1>7. answer'.ids \subseteq 1 .. latest /\ answer'.hints \subseteq 1 .. latest
  BY <1>1, <1>4, <1>5, <1>6, ListRows
<1>8. answer'.cut <=> answer'.hints # {}
  BY <1>4, <1>5, <1>6
<1>9. ReadsTypeOK' /\ Shapes'
  BY <1>0, <1>1, <1>6, <1>7, HeadIs, StillTypes DEF Shapes, ReadsTypeOK
<1>10. PlaceFits'
  BY <1>0 DEF PlaceFits, Lists
<1>11. \A e \in 1 .. began : IsDue(e) => e \in printed \cup answer'.ids \/ \E h \in answer'.hints : h < e
  <2> SUFFICES ASSUME NEW e \in 1 .. began, IsDue(e)
               PROVE  e \in printed \cup answer'.ids \/ \E h \in answer'.hints : h < e
    OBVIOUS
  <2>1. e \in 1 .. latest /\ e <= began
    BY <1>1
  <2>2. CASE e \in On("mine")
    <3>1. Answered(e)
      BY <1>5, <2>2
    <3> QED
      BY <1>6, <2>1, <3>1 DEF Answered
  <2>3. CASE e \in On("theirs") /\ events[e].from = "me"
    <3>1. CASE e <= after
      BY <1>1, <2>1, <3>1
    <3>2. CASE e > after
      <4>1. e \in Asked
        BY <1>1, <2>3, <3>2, ListRows
      <4> QED
        BY <1>4, <1>6, <4>1
    <3> QED
      BY <1>1, <2>1, <3>1, <3>2
  <2> QED
    BY <1>0, <2>2, <2>3 DEF IsDue, Wanted
<1>12. \A e \in 1 .. began' : Answered(e)'
  BY <1>0, <1>2, <1>11, StillSame DEF Answered
<1>13. ListFollows'
  BY <1>0, <1>2, <1>8, <1>12, ListStill DEF ListFollows
<1>14. ReadsAreWhole'
  BY <1>0 DEF ReadsAreWhole, NothingIsMissed, EntriesArePrinted, ChangesAreToCome, NothingIsRepeated
<1> QED
  BY <1>0, <1>9, <1>10, <1>13, <1>14 DEF RInv, Lists

\* A brief has its answer.
LEMMA AskBriefRInv ==
  ASSUME RInv, AskBrief
  PROVE  RInv'
<1>0. /\ ReadsTypeOK /\ Shapes /\ what.op = "brief" /\ reader = "brief" /\ printed = {} /\ after = 0
      /\ UNCHANGED boardRows /\ UNCHANGED <<what, after, printed, told, began>>
      /\ reader' = "print" /\ first' = latest
  BY DEF RInv, PlaceFits, BriefFollows, AskBrief, Goto
<1>1. Still
  BY <1>0 DEF Still, boardRows
<1>2. PICK o \in PagesOf(Owned), a \in PagesOf(Asked) :
        answer' = Merge(Reply(Listed, Listed), Merge(o, a))
  BY DEF AskBrief
<1>3. PICK sent : sent = Merge(Reply(Listed, Listed), Merge(o, a))
  OBVIOUS
<1>4. /\ sent \in Answers /\ sent.ids \subseteq 1 .. latest /\ sent.hints \subseteq 1 .. latest
      /\ ~sent.cut => \A e \in 1 .. latest : IsDue(e) => e \in sent.ids
      /\ \A e \in sent.ids : /\ e \in sent.open => ResolvedBy(e) = {}
                             /\ what.archived \/ e \notin hidden
  BY <1>0, <1>3, BriefPage
<1>5. answer' = sent
  BY <1>2, <1>3
<1>6. ReadsTypeOK' /\ Shapes'
  BY <1>0, <1>4, <1>5, HeadIs, StillTypes DEF Shapes, ReadsTypeOK
<1>7. PlaceFits'
  BY <1>0 DEF PlaceFits, Lists
<1>8. ChangesFrom(first)'
  BY <1>0, <1>1, <1>4, <1>5, StillSame DEF ChangesFrom, boardRows
<1>9. latest \in Nat
  BY <1>0, HeadIs
<1>10. \A p \in sent.ids : p <= first'
  BY <1>0, <1>4, <1>9
<1>11. BriefFollows'
  BY <1>0, <1>1, <1>4, <1>5, <1>8, <1>10, StillSame DEF BriefFollows
<1>12. ReadsAreWhole'
  BY <1>0 DEF ReadsAreWhole, NothingIsMissed, EntriesArePrinted, ChangesAreToCome, NothingIsRepeated
<1> QED
  BY <1>0, <1>6, <1>7, <1>11, <1>12 DEF RInv, Lists

\* No answer has no rows.
LEMMA NoAnswerIs ==
  NoAnswer \in Answers /\ NoAnswer.ids = {} /\ NoAnswer.hints = {}
  BY DEF NoAnswer, Answers

\* Where a command begins.
LEMMA FirstStepIs ==
  ASSUME ReadsTypeOK
  PROVE  /\ what.op \in {"read", "items", "mine", "brief"}
         /\ FirstStep(what) = CASE what.op = "read" -> "head" [] what.op = "brief" -> "brief" [] OTHER -> "owned"
  BY DEF ReadsTypeOK, Command, FirstStep

\* A command that fails has printed nothing, and begins again.
LEMMA FailRInv ==
  ASSUME RInv, Fail
  PROVE  RInv'
<1>0. /\ ReadsTypeOK /\ Shapes /\ reader \in {"head", "node", "owned", "asked", "brief", "print"}
      /\ UNCHANGED boardRows /\ UNCHANGED <<what, after, first, printed, told, began>>
      /\ reader' = FirstStep(what) /\ answer' = NoAnswer
  BY DEF RInv, Fail, Goto
<1>1. Still
  BY <1>0 DEF Still, boardRows
<1>2. /\ what.op \in {"read", "items", "mine", "brief"}
      /\ reader' = CASE what.op = "read" -> "head" [] what.op = "brief" -> "brief" [] OTHER -> "owned"
  BY <1>0, FirstStepIs
<1>3. answer' \in Answers /\ answer'.ids \subseteq 1 .. latest /\ answer'.hints \subseteq 1 .. latest
  BY <1>0, NoAnswerIs
<1>4. ReadsTypeOK' /\ Shapes'
  BY <1>0, <1>2, <1>3, HeadIs, StillTypes DEF Shapes, ReadsTypeOK
<1>5. PlaceFits' /\ ReadsAreWhole'
  BY <1>0, <1>2, NothingYet DEF PlaceFits, Lists
<1>6. what.op = "read" => ReadFollows'
  BY <1>0, <1>1, <1>2, StillSame DEF RInv, PlaceFits, Lists, ReadFollows, PrintedUpTo, Forward, IsTail, Kind
<1>7. Lists => ListFollows'
  BY <1>0, <1>1, <1>2, StillSame DEF RInv, PlaceFits, Lists, ListFollows, PrintedUpTo
<1>8. what.op = "brief" => BriefFollows'
  BY <1>0, <1>1, <1>2, StillSame DEF RInv, PlaceFits, Lists, BriefFollows
<1> QED
  BY <1>0, <1>4, <1>5, <1>6, <1>7, <1>8 DEF RInv, Lists

\* What a page printed leaves true of each command.
LEMMA ReadPrinted ==
  ASSUME RInv, PrintPage, what.op = "read"
  PROVE  /\ Place \in 0 .. latest
         /\ ReadFollows' /\ ReadsAreWhole'
<1>0. /\ ReadsTypeOK /\ Shapes /\ ReadFollows /\ reader = "print" /\ latest \in Nat
      /\ UNCHANGED boardRows /\ UNCHANGED <<what, after, answer, began>>
      /\ printed' = printed \cup answer.ids /\ told' = CursorAfter
      /\ reader' = IF answer.cut /\ ~IsTail THEN "more" ELSE "ended"
  BY HeadIs DEF RInv, PrintPage, Goto, Place
<1>1. Still
  BY <1>0 DEF Still, boardRows
<1>2. PICK c : c = CursorAfter
  OBVIOUS
<1>3. /\ c \in 0 .. latest /\ told' = c /\ Told' = c
      /\ IsTail' = IsTail /\ Forward' = Forward
  BY <1>0, <1>2, CursorIs DEF Told, IsTail, Forward, Kind
<1>4. /\ \A e \in 1 .. c : IsDue(e) => \/ e \in printed \cup answer.ids
                                       \/ IsTail /\ \E p \in answer.ids : e < p
      /\ what.node # "home" => \A p \in printed \cup answer.ids : p <= c
      /\ answer.cut => IsTail \/ Forward
      /\ ChangesFrom(c)
  BY <1>0, <1>2 DEF ReadFollows, ChangesFrom
<1>5. ReadFollows'
  BY <1>0, <1>3, <1>4 DEF ReadFollows
<1>6. EntriesArePrinted'
  <2> SUFFICES ASSUME NEW e \in 1 .. latest, e <= c, IsDue(e), ~BeforeTail(e)' PROVE e \in printed'
    BY <1>1, <1>3, StillSame DEF EntriesArePrinted, IsDue
  <2>1. e \in 1 .. c
    BY <1>0, <1>3
  <2>2. ~(IsTail /\ \E p \in answer.ids : e < p)
    BY <1>0, <1>3 DEF BeforeTail
  <2> QED
    BY <1>0, <1>4, <2>1, <2>2
<1>7. ChangesAreToCome'
  <2>1. ChangesFrom(c)'
    BY <1>0, <1>1, <1>4, StillSame DEF ChangesFrom, boardRows
  <2>2. ChangesFrom(told)'
    BY <1>3, <2>1 DEF ChangesFrom
  <2> QED
    BY <2>2 DEF ChangesAreToCome, ChangesFrom
<1>8. NothingIsRepeated'
  BY <1>0, <1>3, <1>4 DEF NothingIsRepeated
<1>9. Place \in 0 .. latest
  BY <1>0, <1>2, <1>3 DEF Place
<1> QED
  BY <1>5, <1>6, <1>7, <1>8, <1>9 DEF ReadsAreWhole, NothingIsMissed

\* The hint a cut list goes on from is the smallest, so no list is past a row it left out.
LEMMA ListPrinted ==
  ASSUME RInv, PrintPage, Lists
  PROVE  /\ Place \in 0 .. latest
         /\ ListFollows' /\ ReadsAreWhole'
<1>0. /\ ReadsTypeOK /\ Shapes /\ ListFollows /\ reader = "print" /\ latest \in Nat
      /\ UNCHANGED boardRows /\ UNCHANGED <<what, after, answer, began>>
      /\ printed' = printed \cup answer.ids
      /\ told' = IF answer.cut THEN Smallest(answer.hints) ELSE told
      /\ ~IsTail /\ what.op # "read" /\ what.op # "brief"
      /\ reader' = IF answer.cut THEN "more" ELSE "ended"
      /\ told' = Place
  BY HeadIs, NoTail DEF RInv, PrintPage, Goto, Place, Lists
<1>1. Still
  BY <1>0 DEF Still, boardRows
<1>2. /\ began \in 0 .. latest /\ told \in 0 .. latest
      /\ answer.hints \subseteq 1 .. latest /\ answer.ids \subseteq 1 .. latest
      /\ (answer.cut <=> answer.hints # {})
      /\ \A e \in 1 .. began : Answered(e)
  BY <1>0, HeadIs DEF ListFollows, Shapes
<1>3. answer.cut => /\ told' \in answer.hints
                    /\ \A h \in answer.hints : told' <= h
  <2>1. answer.hints \subseteq Nat
    BY <1>0, <1>2
  <2> QED
    BY <1>0, <1>2, <2>1, SmallestIs
<1>4. told' \in 0 .. latest
  <2>1. CASE answer.cut
    BY <1>0, <1>2, <1>3, <2>1
  <2>2. CASE ~answer.cut
    BY <1>0, <1>2, <2>2
  <2> QED
    BY <2>1, <2>2
<1>5. ListFollows'
  <2>1. what'.op = "items" /\ answer.cut => \A p \in printed' : p <= told'
    BY <1>0, <1>3 DEF ListFollows
  <2> QED
    BY <1>0, <2>1 DEF ListFollows
<1>6. Told' <= began /\ Told' \in Int /\ (answer.cut => Told' <= told')
  <2>1. began' = began /\ began \in Nat /\ told' \in Nat
    BY <1>0, <1>2, <1>4
  <2>2. CASE answer.cut
    <3>1. Told' = Smallest({began, told'})
      BY <1>0, <2>2 DEF Told, Lists, Smallest
    <3>2. Smallest({began, told'}) \in {began, told'} /\ \A f \in {began, told'} : Smallest({began, told'}) <= f
      BY <2>1, SmallestIs
    <3> QED
      BY <2>1, <3>1, <3>2
  <2>3. CASE ~answer.cut
    BY <1>0, <2>1, <2>3 DEF Told, Lists
  <2> QED
    BY <2>2, <2>3
<1>7. EntriesArePrinted'
  <2> SUFFICES ASSUME NEW e \in 1 .. latest, e <= Told', IsDue(e) PROVE e \in printed'
    BY <1>1, StillSame DEF EntriesArePrinted, IsDue
  <2>1. e \in 1 .. began /\ e <= began
    BY <1>0, <1>2, <1>6
  <2>2. e \in printed \cup answer.ids \/ \E h \in answer.hints : h < e
    BY <1>2, <2>1 DEF Answered
  <2>3. ASSUME NEW h \in answer.hints, h < e PROVE FALSE
    <3>1. answer.cut /\ told' <= h /\ Told' <= told'
      BY <1>2, <1>3, <1>6, <2>3
    <3>2. h \in Int /\ told' \in Int /\ e \in Int /\ Told' \in Int
      BY <1>2, <1>4, <1>6
    <3> QED
      BY <2>3, <3>1, <3>2
  <2> QED
    BY <1>0, <2>2, <2>3
<1>8. ChangesAreToCome' /\ NothingIsRepeated'
  BY <1>0 DEF ChangesAreToCome, NothingIsRepeated
<1> QED
  BY <1>0, <1>4, <1>5, <1>7, <1>8 DEF ReadsAreWhole, NothingIsMissed

\* A brief is printed once.
LEMMA BriefPrinted ==
  ASSUME RInv, PrintPage, what.op = "brief"
  PROVE  /\ Place \in 0 .. latest
         /\ BriefFollows' /\ ReadsAreWhole'
<1>0. /\ ReadsTypeOK /\ Shapes /\ BriefFollows /\ reader = "print" /\ latest \in Nat /\ first \in 0 .. latest
      /\ UNCHANGED boardRows /\ UNCHANGED <<what, after, answer, began>>
      /\ printed = {} /\ printed' = answer.ids /\ told' = first /\ Place = first
      /\ reader' = "ended"
  BY HeadIs DEF RInv, PrintPage, Goto, Place, BriefFollows
<1>1. Still
  BY <1>0 DEF Still, boardRows
<1>2. PICK c : c = first
  OBVIOUS
<1>3. /\ told' = c /\ Told' = c /\ c \in 0 .. latest
      /\ ~answer.cut => \A e \in 1 .. c : IsDue(e) => e \in answer.ids
      /\ \A p \in answer.ids : p <= c
      /\ ChangesFrom(c)
  BY <1>0, <1>2 DEF Told, BriefFollows, ChangesFrom
<1>4. BriefFollows'
  BY <1>0 DEF BriefFollows
<1>5. EntriesArePrinted'
  <2> SUFFICES ASSUME NEW e \in 1 .. latest, e <= c, IsDue(e), ~answer.cut PROVE e \in printed'
    BY <1>0, <1>1, <1>3, StillSame DEF EntriesArePrinted, IsDue
  <2>1. e \in 1 .. c
    BY <1>0, <1>3
  <2> QED
    BY <1>0, <1>3, <2>1
<1>6. ChangesAreToCome'
  <2>1. ChangesFrom(c)'
    BY <1>0, <1>1, <1>3, StillSame DEF ChangesFrom, boardRows
  <2>2. ChangesFrom(told)'
    BY <1>3, <2>1 DEF ChangesFrom
  <2> QED
    BY <2>2 DEF ChangesAreToCome, ChangesFrom
<1>7. NothingIsRepeated'
  BY <1>0, <1>3 DEF NothingIsRepeated
<1> QED
  BY <1>0, <1>4, <1>5, <1>6, <1>7 DEF ReadsAreWhole, NothingIsMissed

\* A page is printed.
LEMMA PrintPageRInv ==
  ASSUME RInv, PrintPage
  PROVE  RInv'
<1>0. /\ ReadsTypeOK /\ Shapes /\ reader = "print" /\ what.op \in {"read", "items", "mine", "brief"}
      /\ UNCHANGED boardRows /\ UNCHANGED <<what, after, answer, began>>
      /\ printed' = printed \cup answer.ids /\ told' = Place /\ first' = 0
      /\ reader' = IF answer.cut /\ what.op # "brief" /\ ~IsTail THEN "more" ELSE "ended"
  BY FirstStepIs DEF RInv, PrintPage, Goto
<1>1. Place \in 0 .. latest
  BY <1>0, ReadPrinted, ListPrinted, BriefPrinted DEF Lists
<1>2. ReadsTypeOK' /\ Shapes'
  <2>1. latest \in Nat /\ printed' \subseteq 1 .. latest /\ first' \in 0 .. latest
    <3>1. latest \in Nat /\ printed \subseteq 1 .. latest /\ answer.ids \subseteq 1 .. latest
      BY <1>0, HeadIs DEF Shapes
    <3>2. printed' \subseteq 1 .. latest
      BY <1>0, <3>1
    <3>3. first' \in 0 .. latest
      <4>1. first' = 0
        BY <1>0
      <4> QED
        BY <3>1, <4>1
    <3> QED
      BY <3>1, <3>2, <3>3
  <2> QED
    BY <1>0, <1>1, <2>1, HeadIs, StillTypes DEF Shapes, ReadsTypeOK
<1>3. PlaceFits'
  BY <1>0 DEF PlaceFits
<1> QED
  BY <1>0, <1>2, <1>3, ReadPrinted, ListPrinted, BriefPrinted DEF RInv, Lists

\* Where a command that is told to read on has got.
LEMMA ReadOnIs ==
  ASSUME RInv, reader = "more"
  PROVE  /\ ReadsTypeOK /\ Shapes /\ latest \in Nat /\ told \in 0 .. latest /\ began \in 0 .. latest
         /\ ~IsTail
         /\ what.op = "read" => Forward /\ PrintedUpTo(told) /\ \A p \in printed : p <= told
         /\ Lists => /\ PrintedUpTo(IF told <= began THEN told ELSE began)
                     /\ what.op = "items" => \A p \in printed : p <= told
<1>0. /\ ReadsTypeOK /\ Shapes /\ what.op # "brief" /\ latest \in Nat
      /\ told \in 0 .. latest /\ began \in 0 .. latest
      /\ EntriesArePrinted /\ NothingIsRepeated
  BY HeadIs DEF RInv, PlaceFits, ReadsAreWhole, NothingIsMissed
<1>1. what.op = "read" => Forward
  BY DEF RInv, ReadFollows
<1>2. ~IsTail
  BY <1>0, <1>1, NoTail DEF Forward, IsTail, Kind, Queues
<1>3. \A e \in 1 .. latest : e <= Told /\ IsDue(e) => e \in printed
  BY <1>0, <1>2 DEF EntriesArePrinted, BeforeTail, IsDue
<1>4. ASSUME what.op = "read" PROVE PrintedUpTo(told) /\ \A p \in printed : p <= told
  <2>1. Told = told
    BY <1>4 DEF Told
  <2>2. PrintedUpTo(told)
    <3> SUFFICES ASSUME NEW e \in 1 .. told, IsDue(e) PROVE e \in printed
      BY DEF PrintedUpTo
    <3>1. e \in 1 .. latest /\ e <= told
      BY <1>0
    <3> QED
      BY <1>3, <2>1, <3>1
  <2>3. what.node # "home"
    BY <1>1, <1>4 DEF Forward, Kind, Queues
  <2>4. \A p \in printed : p <= told
    BY <1>0, <1>4, <2>3 DEF NothingIsRepeated
  <2> QED
    BY <2>2, <2>4
<1>5. ASSUME Lists PROVE PrintedUpTo(IF told <= began THEN told ELSE began)
  <2>1. Told = Smallest({began, told})
    BY <1>5 DEF Told, Lists
  <2>2. Smallest({began, told}) \in {began, told} /\ \A f \in {began, told} : Smallest({began, told}) <= f
    <3>1. {began, told} \subseteq Nat /\ {began, told} # {}
      BY <1>0
    <3> QED
      BY <3>1, SmallestIs
  <2>3. Told = IF told <= began THEN told ELSE began
    BY <1>0, <2>1, <2>2
  <2>4. PICK c : c = IF told <= began THEN told ELSE began
    OBVIOUS
  <2>5. PrintedUpTo(c)
    <3> SUFFICES ASSUME NEW e \in 1 .. c, IsDue(e) PROVE e \in printed
      BY DEF PrintedUpTo
    <3>1. e \in 1 .. latest /\ e <= c
      BY <1>0, <2>4
    <3> QED
      BY <1>3, <2>3, <2>4, <3>1
  <2> QED
    BY <2>4, <2>5
<1>6. Lists /\ what.op = "items" => \A p \in printed : p <= told
  BY DEF RInv, ListFollows
<1> QED
  BY <1>0, <1>1, <1>2, <1>4, <1>5, <1>6

\* A command goes on from the cursor.
LEMMA ReadOnRInv ==
  ASSUME RInv, ReadOn
  PROVE  RInv'
<1>0. /\ reader = "more" /\ after' = told /\ answer' = NoAnswer
      /\ what' = (IF what.op = "read" THEN [what EXCEPT !.range = "since"] ELSE what)
      /\ reader' = FirstStep(what)
      /\ UNCHANGED boardRows /\ UNCHANGED <<first, printed, told, began>>
      /\ what.op # "brief"
  BY DEF RInv, PlaceFits, ReadOn, Goto
<1>1. /\ ReadsTypeOK /\ Shapes /\ latest \in Nat /\ told \in 0 .. latest /\ began \in 0 .. latest
      /\ ~IsTail
      /\ what.op = "read" => Forward /\ PrintedUpTo(told) /\ \A p \in printed : p <= told
      /\ Lists => /\ PrintedUpTo(IF told <= began THEN told ELSE began)
                  /\ what.op = "items" => \A p \in printed : p <= told
  BY <1>0, ReadOnIs
<1>2. /\ what.op \in {"read", "items", "mine"}
      /\ reader' = IF what.op = "read" THEN "head" ELSE "owned"
  BY <1>0, <1>1, FirstStepIs
<1>3. /\ what' \in Command
      /\ what'.op = what.op /\ what'.node = what.node
      /\ what'.state = what.state /\ what'.archived = what.archived
      /\ what.op = "read" => what'.range = "since"
  <2>1. what \in Command
    BY <1>1 DEF ReadsTypeOK
  <2> QED
    BY <1>0, <2>1 DEF Command
<1>4. Still
  BY <1>0, <1>3 DEF Still, boardRows
<1>5. ReadsTypeOK' /\ Shapes'
  <2>1. answer' \in Answers /\ answer'.ids \subseteq 1 .. latest /\ answer'.hints \subseteq 1 .. latest
    BY <1>0, NoAnswerIs
  <2> QED
    BY <1>0, <1>1, <1>2, <1>3, <2>1, HeadIs, StillTypes DEF Shapes
<1>6. PlaceFits' /\ ReadsAreWhole'
  BY <1>0, <1>2, <1>3, NothingYet DEF PlaceFits, Lists
<1>7. ASSUME what.op = "read" PROVE ReadFollows'
  <2>1. Forward'
    BY <1>1, <1>3, <1>7 DEF Forward, IsTail, Kind
  <2>2. PrintedUpTo(after)'
    BY <1>0, <1>1, <1>4, <1>7, StillSame DEF PrintedUpTo
  <2> QED
    BY <1>0, <1>1, <1>2, <1>7, <2>1, <2>2 DEF ReadFollows
<1>8. ASSUME Lists PROVE ListFollows'
  <2>1. PrintedUpTo(IF after <= began THEN after ELSE began)'
    BY <1>0, <1>1, <1>4, <1>8, StillSame DEF PrintedUpTo
  <2> QED
    BY <1>0, <1>1, <1>2, <1>3, <1>8, <2>1 DEF ListFollows, Lists
<1> QED
  BY <1>0, <1>3, <1>5, <1>6, <1>7, <1>8 DEF RInv, Lists

\* The step of anyone else.
LEMMA StutterRInv ==
  ASSUME RInv, UNCHANGED readsVars
  PROVE  RInv'
<1>1. /\ UNCHANGED boardRows
      /\ UNCHANGED <<reader, what, after, first, answer, printed, told, began>>
  BY DEF readsVars, readerVars
<1>2. Still
  BY <1>1 DEF Still, boardRows
<1>3. ReadsTypeOK' /\ Shapes'
  BY <1>1, HeadIs, StillTypes DEF RInv, Shapes, ReadsTypeOK
<1>4. /\ IsTail' = IsTail /\ Forward' = Forward /\ CursorAfter' = CursorAfter /\ Told' = Told
      /\ Lists' = Lists /\ PlaceFits'
  BY <1>1 DEF IsTail, Forward, CursorAfter, Told, Kind, Largest, Smallest, Lists, RInv, PlaceFits
<1>5. /\ latest' = latest /\ \A e : IsDue(e)' <=> IsDue(e)
      /\ \A e : ResolvedBy(e)' = ResolvedBy(e)
      /\ \A node : On(node)' = On(node)
  BY <1>2, StillSame
<1>6. \A c : (PrintedUpTo(c) => PrintedUpTo(c)') /\ (ChangesFrom(c) => ChangesFrom(c)')
  BY <1>1, <1>5 DEF PrintedUpTo, ChangesFrom, boardRows
<1>7. \A e : Answered(e) => Answered(e)'
  BY <1>1, <1>5 DEF Answered
<1>8. what.op = "read" => ReadFollows'
  <2>1. ChangesFrom(CursorAfter) => ChangesFrom(CursorAfter)'
    BY <1>1, <1>4, <1>5 DEF ChangesFrom, boardRows
  <2>2. PrintedUpTo(after) => PrintedUpTo(after)'
    BY <1>1, <1>5 DEF PrintedUpTo
  <2> QED
    BY <1>1, <1>4, <1>5, <2>1, <2>2 DEF RInv, ReadFollows
<1>9. Lists => ListFollows'
  <2>1. PrintedUpTo(IF after <= began THEN after ELSE began) => PrintedUpTo(IF after <= began THEN after ELSE began)'
    BY <1>1, <1>5 DEF PrintedUpTo
  <2> QED
    BY <1>1, <1>5, <1>7, <2>1 DEF RInv, ListFollows
<1>10. what.op = "brief" => BriefFollows'
  <2>1. ChangesFrom(first) => ChangesFrom(first)'
    BY <1>1, <1>5 DEF ChangesFrom, boardRows
  <2> QED
    BY <1>1, <1>5, <2>1 DEF RInv, BriefFollows
<1>11. EntriesArePrinted'
  <2>1. \A e : BeforeTail(e)' <=> BeforeTail(e)
    BY <1>1, <1>4 DEF BeforeTail
  <2> QED
    BY <1>1, <1>4, <1>5, <2>1 DEF RInv, ReadsAreWhole, NothingIsMissed, EntriesArePrinted, IsDue
<1>12. ChangesAreToCome'
  BY <1>1, <1>5 DEF RInv, ReadsAreWhole, NothingIsMissed, ChangesAreToCome, boardRows
<1>13. NothingIsRepeated'
  BY <1>1 DEF RInv, ReadsAreWhole, NothingIsRepeated
<1> QED
  BY <1>1, <1>3, <1>4, <1>8, <1>9, <1>10, <1>11, <1>12, <1>13 DEF RInv, ReadsAreWhole, NothingIsMissed

\* Every step keeps the invariant.
LEMMA NextRInv == RInv /\ [ReadsNext]_readsVars => RInv'
<1> SUFFICES ASSUME RInv, [ReadsNext]_readsVars PROVE RInv'
  OBVIOUS
<1>1. CASE Writes
  <2>1. Grown
    BY <1>1, WritesGrow DEF RInv
  <2> QED
    BY <2>1, GrownRInv
<1>2. ASSUME NEW w \in Commands, Start(w) PROVE RInv'
  BY <1>2, StartRInv
<1>3. CASE Step
  BY <1>3, ReadHeadRInv, ReadNodeRInv, ListOwnedRInv, ListAskedRInv, AskBriefRInv, PrintPageRInv, ReadOnRInv DEF Step
<1>4. CASE Fail
  BY <1>4, FailRInv
<1>5. CASE UNCHANGED readsVars
  BY <1>5, StutterRInv
<1> QED
  BY <1>1, <1>2, <1>3, <1>4, <1>5 DEF ReadsNext

\* Every place of the reader keeps its type, and no cursor, its own or one it
\* printed, is ever past the head of the log (read.rs, store.rs).
THEOREM ReadTypes ==
  ReadsSpec => []ReadsTypeOK
<1>1. ReadsInit => RInv
  BY InitRInv
<1>2. RInv /\ [ReadsNext]_readsVars => RInv'
  BY NextRInv
<1>3. RInv => ReadsTypeOK
  BY DEF RInv
<1> QED
  BY <1>1, <1>2, <1>3, PTL DEF ReadsSpec

\* A read, a list of items and a brief, read on to their end and then watched
\* from, give every entry that was asked for and none of them twice, for any
\* commands, cuts of the answers and writes between them (read.rs,
\* "so that `watch --since <cursor>` misses nothing written after the read").
THEOREM ReadsAreWholeAlways ==
  ReadsSpec => []ReadsAreWhole
<1>1. ReadsInit => RInv
  BY InitRInv
<1>2. RInv /\ [ReadsNext]_readsVars => RInv'
  BY NextRInv
<1>3. RInv => ReadsAreWhole
  BY DEF RInv
<1> QED
  BY <1>1, <1>2, <1>3, PTL DEF ReadsSpec

=============================================================================
