------------------------------- MODULE Watch -------------------------------
(***************************************************************************)
(* Watching the board: the server's long poll (store/poll.rs) and the two  *)
(* commands that live on it, `board watch` and `board wait`                *)
(* (bin/board/watch.rs), while others post, file and resolve, the owner    *)
(* archives, messages are deleted with the server stopped, and answers get *)
(* lost.                                                                   *)
(*                                                                         *)
(* The log is the events table; an event's id is its place in it, and ids  *)
(* are never handed out twice, so Len(log) is sqlite_sequence's high-water *)
(* mark even when rows are gone.  There is one container, "home", with a   *)
(* thread, a queue and, once it is created, a note.                        *)
(*                                                                         *)
(* A scan happens under the board's lock, and the poll looks again after   *)
(* POLL_CHECK whether it was notified or not: it may scan at any moment.   *)
(***************************************************************************)
EXTENDS Integers, FiniteSets, Sequences

CONSTANTS Clients,     \* the processes running `board watch` or `board wait`
          Names,       \* who writes
          Owner,       \* the board's owner, who alone archives
          QueueOwner,  \* who owns the queue
          Mentions,    \* the sets of names each may mention in one body
          Watches,     \* what a `board watch` may be subscribed to
          Cursors,     \* the ids it may be given to start from
          PollLimit,   \* store.rs POLL_LIMIT: events in one page
          MaxHead      \* bound: events written

ASSUME OwnerAssumption == {Owner, QueueOwner} \subseteq Names /\ Mentions \in [Names -> SUBSET SUBSET Names]
ASSUME LimitAssumption == PollLimit \in Nat \ {0} /\ MaxHead \in Nat

None == 0
NoPoll == -1
Leaves == {"thread", "queue", "note"}
Types == {"message", "filed", "resolved", "created", "version", "archived", "unarchived"}
ArchiveTypes == {"archived", "unarchived"}
Ids == 1 .. MaxHead

Subscriptions == [paths : SUBSET (Leaves \cup {"home"}), mentions : SUBSET Names,
                  asked_by : SUBSET Names, owners : SUBSET Names,
                  items : SUBSET Ids, not_from : SUBSET Names]

\* Subscribed to nothing.
Deaf == [paths |-> {}, mentions |-> {}, asked_by |-> {}, owners |-> {}, items |-> {}, not_from |-> {}]

\* `--me`: what mentions n, what it asked and its queues, but never its own.
Me(n) == [Deaf EXCEPT !.mentions = {n}, !.asked_by = {n}, !.owners = {n}, !.not_from = {n}]

\* `not_from` alone is no subscription: the client refuses it, as the board does.
ASSUME WatchesAssumption ==
  /\ Watches \subseteq Subscriptions
  /\ \A w \in Watches : [w EXCEPT !.not_from = {}] # Deaf
ASSUME CursorsAssumption == Cursors \subseteq 0 .. MaxHead

VARIABLES
  log,        \* events written, in the order of their ids
  archived,   \* events.archived: the archive event a target is hidden by, or None
  gone,       \* rows deleted
  note,       \* the note's node_created event, or None while there is none
  up,         \* the server runs
  pc,         \* a client: off, asks, polls (the server holds its poll),
              \* reads (a page is on its way), or how it ended
  watch,      \* what it is subscribed to
  waits_for,  \* the item `board wait` was given, or None for `board watch`
  start,      \* the cursor it began from
  since,      \* the cursor it holds
  scan_from,  \* the server's: where the poll's next scan starts, or NoPoll
  page,       \* the reply on its way
  heard       \* the events it printed (a wait: was told)

board == <<log, archived, gone, note>>
client == <<pc, watch, waits_for, start, since, heard>>
poll == <<scan_from, page>>
vars == <<board, up, client, poll>>

Event == [type : Types, node : Leaves, item : Ids \cup {None},
          ref : Ids \cup {None}, from : Names, mentions : SUBSET Names]
Page == [events : SUBSET Ids, cursor : 0 .. MaxHead]
NoPage == [events |-> {}, cursor |-> 0]

\* Each variable has values of its kind; no cursor is past the last event id.
TypeOK ==
  /\ log \in Seq(Event) /\ Len(log) <= MaxHead
  /\ archived \in [Ids -> Ids \cup {None}]
  /\ gone \subseteq 1 .. Len(log)
  /\ note \in 0 .. Len(log)
  /\ up \in BOOLEAN
  /\ pc \in [Clients -> {"off", "asks", "polls", "reads", "done", "timed_out", "refused"}]
  /\ watch \in [Clients -> Subscriptions]
  /\ waits_for \in [Clients -> Ids \cup {None}]
  /\ start \in [Clients -> 0 .. MaxHead]
  /\ since \in [Clients -> 0 .. MaxHead]
  /\ scan_from \in [Clients -> NoPoll .. MaxHead]
  /\ page \in [Clients -> Page]
  /\ heard \in [Clients -> SUBSET (1 .. Len(log))]

Larger(a, b) == IF a > b THEN a ELSE b
head == Len(log)

-----------------------------------------------------------------------------
(* The board's writes.                                                      *)

Append1(type, node, item, ref, from, mentions) ==
  log' = Append(log, [type |-> type, node |-> node, item |-> item, ref |-> ref,
                      from |-> from, mentions |-> mentions])

\* The resolutions of item i (the items table keeps at most one).
Resolutions(i) == {e \in 1 .. head : log[e].type = "resolved" /\ log[e].item = i}

Open(i) == i \in 1 .. head /\ log[i].type = "filed" /\ Resolutions(i) = {}

Writable == up /\ head < MaxHead

\* The bodies of messages and of items are searched for names, not those of
\* notes.
Post(n, mentions) ==
  /\ Writable
  /\ Append1("message", "thread", None, None, n, mentions)
  /\ UNCHANGED <<archived, gone, note, up, client, poll>>

Create(n) ==
  /\ Writable /\ note = None
  /\ Append1("created", "note", None, None, n, {})
  /\ note' = head + 1
  /\ UNCHANGED <<archived, gone, up, client, poll>>

Save(n) ==
  /\ Writable /\ note # None
  /\ Append1("version", "note", None, None, n, {})
  /\ UNCHANGED <<archived, gone, note, up, client, poll>>

File(n, mentions) ==
  /\ Writable
  /\ Append1("filed", "queue", head + 1, None, n, mentions)
  /\ UNCHANGED <<archived, gone, note, up, client, poll>>

\* An answer, a decline or a cancellation.
Resolve(i, n, mentions) ==
  /\ Writable
  /\ Open(i) /\ archived[i] = None
  /\ Append1("resolved", "queue", i, None, n, mentions)
  /\ UNCHANGED <<archived, gone, note, up, client, poll>>

\* The owner archives (hide) or unarchives a message or an item; as asked
\* already is a success with nothing written.
Archive(t, hide) ==
  /\ Writable
  /\ t \in 1 .. head \ gone /\ log[t].type \in {"message", "filed"}
  /\ (archived[t] # None) # hide
  /\ Append1(IF hide THEN "archived" ELSE "unarchived", log[t].node,
             IF log[t].item = t THEN t ELSE None, t, Owner, {})
  /\ archived' = [archived EXCEPT ![t] = IF hide THEN head + 1 ELSE None]
  /\ UNCHANGED <<gone, note, up, client, poll>>

\* board-admin deletes one message, and its archive events with it, while the
\* service is stopped.
DeleteMessage(m) ==
  /\ ~up
  /\ m \in 1 .. head \ gone /\ log[m].type = "message"
  /\ gone' = gone \cup {m} \cup {e \in 1 .. head : log[e].ref = m /\ log[e].type \in ArchiveTypes}
  /\ archived' = [archived EXCEPT ![m] = None]
  /\ UNCHANGED <<log, note, up, client, poll>>

\* And the note, with what happened on it.
DeleteNote ==
  /\ ~up /\ note # None
  /\ gone' = gone \cup {e \in 1 .. head : log[e].node = "note"}
  /\ note' = None
  /\ UNCHANGED <<log, archived, up, client, poll>>

-----------------------------------------------------------------------------
(* The poll, in the server.                                                 *)

\* A mutant of Hidden: what happens to an archived item is hidden with it,
\* its archive event too.
Hidden_ArchiveEvents(e) ==
  archived[e] # None \/ (log[e].item # None /\ archived[log[e].item] # None)

\* events.rs event_archived!: the message or filing itself, or an item's
\* event while its filing is archived; an archive event never.
Hidden(e) ==
  \/ archived[e] # None
  \/ /\ log[e].item # None /\ log[e].type \notin ArchiveTypes
     /\ archived[log[e].item] # None

\* One of the subscriptions: a leaf, a container's children (created, or a
\* note's new version; not what is archived on them), a mention, an item
\* asked, owned or named.
Heard(w, e) ==
  \/ log[e].node \in w.paths
  \/ "home" \in w.paths /\ log[e].type \in {"created", "version"}
  \/ log[e].mentions \cap w.mentions # {}
  \/ log[e].item # None /\ \/ log[log[e].item].from \in w.asked_by
                           \/ QueueOwner \in w.owners
                           \/ log[e].item \in w.items

Matches(w, e) == Heard(w, e) /\ log[e].from \notin w.not_from

\* The rows a scan finds.
Found(w, from) == {e \in (from + 1) .. head : e \notin gone /\ Matches(w, e) /\ ~Hidden(e)}

\* A mutant of FullPageCursor: the head.
FullPageCursor_Head(last) == head

\* A page that is not full has everything found, and its cursor is the head
\* (or the client's own, which may be ahead of it).  One that is full, by
\* POLL_LIMIT or by the bytes of its bodies, has what was found up to some
\* event, and its cursor is that event.
EndOfPage(from) == Larger(head, from)
FullPageCursor(last) == last

Pages(w, scan, from) ==
  LET found == Found(w, scan)
      UpTo(last) == {e \in found : e <= last}
      full == {[events |-> UpTo(last), cursor |-> FullPageCursor(last)] :
                 last \in {l \in found : Cardinality(UpTo(l)) <= PollLimit}}
      whole == [events |-> found, cursor |-> EndOfPage(from)]
  IN IF found # {} /\ Cardinality(found) < PollLimit THEN full \cup {whole} ELSE full

\* A mutant of NextScan: at the head, even if the client's cursor is ahead.
NextScan_Head(from) == head

\* The scan found nothing: the next starts from the head, never before since.
NextScan(from) == Larger(head, from)

Polling(c) == up /\ pc[c] = "polls" /\ scan_from[c] # NoPoll

\* Nothing yet, and time is left: wait for a write or POLL_CHECK.
ScanOn(c) ==
  /\ Polling(c)
  /\ Found(watch[c], scan_from[c]) = {}
  /\ scan_from' = [scan_from EXCEPT ![c] = NextScan(scan_from[c])]
  /\ UNCHANGED <<board, up, client, page>>

Answer(c, p) ==
  /\ page' = [page EXCEPT ![c] = p]
  /\ scan_from' = [scan_from EXCEPT ![c] = NoPoll]
  /\ pc' = [pc EXCEPT ![c] = "reads"]
  /\ UNCHANGED <<board, up, watch, waits_for, start, since, heard>>

ScanFinds(c) ==
  /\ Polling(c)
  /\ \E p \in Pages(watch[c], scan_from[c], since[c]) : Answer(c, p)

\* The poll's time is up.
ScanExpires(c) ==
  /\ Polling(c)
  /\ Found(watch[c], scan_from[c]) = {}
  /\ Answer(c, [events |-> {}, cursor |-> EndOfPage(since[c])])

-----------------------------------------------------------------------------
(* The client.                                                              *)

Begin(c, w, item, from) ==
  /\ pc' = [pc EXCEPT ![c] = "asks"]
  /\ watch' = [watch EXCEPT ![c] = w]
  /\ waits_for' = [waits_for EXCEPT ![c] = item]
  /\ start' = [start EXCEPT ![c] = from]
  /\ since' = [since EXCEPT ![c] = from]

\* `board watch --since <id>`; the cursor may be ahead of the head.
StartWatch(c, w, from) ==
  /\ pc[c] = "off"
  /\ Begin(c, w, None, from)
  /\ UNCHANGED <<board, up, heard, poll>>

\* `--since head`, which asks until the board answers.
StartWatchAtHead(c, w) == up /\ StartWatch(c, w, head)

\* `board wait <item>` reads the item first; it polls from the item's own id,
\* so that a resolution is after its cursor whenever it comes.
StartWait(c, i) ==
  /\ up /\ pc[c] = "off"
  /\ i \in 1 .. head /\ log[i].type = "filed"
  /\ IF Resolutions(i) = {}
     THEN Begin(c, [Deaf EXCEPT !.items = {i}], i, i)
     ELSE /\ pc' = [pc EXCEPT ![c] = "done"]
          /\ waits_for' = [waits_for EXCEPT ![c] = i]
          /\ UNCHANGED <<watch, start, since>>
  /\ UNCHANGED <<board, up, heard, poll>>

\* The paths of a watch are looked up at every poll.
IsMissing(w) == "note" \in w.paths /\ note = None

Ask(c) ==
  /\ up /\ pc[c] = "asks" /\ ~IsMissing(watch[c])
  /\ pc' = [pc EXCEPT ![c] = "polls"]
  /\ scan_from' = [scan_from EXCEPT ![c] = since[c]]
  /\ UNCHANGED <<board, up, watch, waits_for, start, since, heard, page>>

\* There is no such path, or no longer: the board refuses, and the watch ends.
Refuse(c) ==
  /\ up /\ pc[c] = "asks" /\ IsMissing(watch[c])
  /\ pc' = [pc EXCEPT ![c] = "refused"]
  /\ UNCHANGED <<board, up, watch, waits_for, start, since, heard, poll>>

\* A mutant of Advance: the client stays where it is.
Advance_Not(mine, cursor) == mine

\* Never backwards, whatever the answer says.
Advance(mine, cursor) == Larger(mine, cursor)

\* What ends a wait: an event that resolves its item.
Ends(c, e) == log[e].type = "resolved" /\ log[e].item = waits_for[c]

\* The client reads the page: a watch prints a line per event; a wait ends on
\* the resolution, if it is there.
Read(c) ==
  /\ pc[c] = "reads"
  /\ heard' = [heard EXCEPT ![c] = @ \cup page[c].events]
  /\ page' = [page EXCEPT ![c] = NoPage]
  /\ IF waits_for[c] # None /\ \E e \in page[c].events : Ends(c, e)
     THEN pc' = [pc EXCEPT ![c] = "done"] /\ UNCHANGED since
     ELSE /\ pc' = [pc EXCEPT ![c] = "asks"]
          /\ since' = [since EXCEPT ![c] = Advance(@, page[c].cursor)]
  /\ UNCHANGED <<board, up, watch, waits_for, start, scan_from>>

\* No answer in time, or the connection broke: the client asks again with the
\* cursor it has.  The server's poll, if there is one, answers nobody.
Lose(c) ==
  /\ pc[c] \in {"polls", "reads"}
  /\ pc' = [pc EXCEPT ![c] = "asks"]
  /\ page' = [page EXCEPT ![c] = NoPage]
  /\ scan_from' = [scan_from EXCEPT ![c] = NoPoll]
  /\ UNCHANGED <<board, up, watch, waits_for, start, since, heard>>

\* `board wait --timeout` gives up between two polls.
GiveUp(c) ==
  /\ pc[c] = "asks" /\ waits_for[c] # None
  /\ pc' = [pc EXCEPT ![c] = "timed_out"]
  /\ UNCHANGED <<board, up, watch, waits_for, start, since, heard, poll>>

-----------------------------------------------------------------------------
\* The server stops or dies; the polls it held end without an answer, and
\* their clients find out later.
Stop ==
  /\ up
  /\ up' = FALSE
  /\ scan_from' = [c \in Clients |-> NoPoll]
  /\ UNCHANGED <<board, client, page>>

Restart ==
  /\ ~up
  /\ up' = TRUE
  /\ UNCHANGED <<board, client, poll>>

Init ==
  /\ log = <<>> /\ gone = {} /\ note = None /\ up = TRUE
  /\ archived = [e \in Ids |-> None]
  /\ pc = [c \in Clients |-> "off"]
  /\ watch = [c \in Clients |-> Deaf]
  /\ waits_for = [c \in Clients |-> None]
  /\ start = [c \in Clients |-> 0]
  /\ since = [c \in Clients |-> 0]
  /\ scan_from = [c \in Clients |-> NoPoll]
  /\ page = [c \in Clients |-> NoPage]
  /\ heard = [c \in Clients |-> {}]

Write ==
  \/ \E n \in Names : \/ Create(n) \/ Save(n)
                      \/ \E mentions \in Mentions[n] :
                           \/ Post(n, mentions) \/ File(n, mentions)
                           \/ \E i \in Ids : Resolve(i, n, mentions)
  \/ \E t \in Ids, hide \in BOOLEAN : Archive(t, hide)
  \/ \E m \in Ids : DeleteMessage(m)
  \/ DeleteNote

Next ==
  \/ Write
  \/ \E c \in Clients :
       \/ \E w \in Watches : StartWatchAtHead(c, w) \/ \E from \in Cursors : StartWatch(c, w, from)
       \/ \E i \in Ids : StartWait(c, i)
       \/ Ask(c) \/ Refuse(c) \/ ScanOn(c) \/ ScanFinds(c) \/ ScanExpires(c)
       \/ Read(c) \/ Lose(c) \/ GiveUp(c)
  \/ Stop \/ Restart

\* The client's loop never stops asking, the server is started again (by the
\* service manager, or by who stopped it), a client whose poll is dead times
\* out, a poll scans when it is woken and ends when its time is up, and now and
\* then an answer arrives: answers and servers may be lost any number of times,
\* but not every time.
Fairness ==
  /\ WF_vars(Restart)
  /\ \A c \in Clients :
       /\ WF_vars(Lose(c) /\ pc[c] = "polls" /\ scan_from[c] = NoPoll)
       /\ WF_vars(ScanExpires(c))
       /\ SF_vars(Ask(c) \/ Refuse(c)) /\ SF_vars(ScanFinds(c)) /\ SF_vars(Read(c))

Spec == Init /\ [][Next]_vars /\ Fairness

-----------------------------------------------------------------------------
(* Properties.                                                              *)

\* Every page brings news: each of its events is after the cursor the client
\* began from and after everything the client has printed.  Nothing is
\* printed twice and nothing out of order, whatever answers were lost, and
\* even if the client began ahead of the head.
PagesAreNews ==
  \A c \in Clients : \A e \in page[c].events :
    e > start[c] /\ \A h \in heard[c] : h < e

\* e was hidden at some time since it was written: its archive event is later.
WasHidden(e) ==
  \E a \in (e + 1) .. head :
    log[a].type = "archived" /\ log[a].ref \in {e, log[e].item}

\* The cursor never passes an event the client asked for: up to it, the client
\* has printed all that matches, but for what was archived or deleted.
NothingIsPassedOver ==
  \A c \in Clients : \A e \in (start[c] + 1) .. since[c] :
    e \in 1 .. head /\ e \notin gone /\ Matches(watch[c], e) /\ ~WasHidden(e) => e \in heard[c]

\* The archive event of what h tells of, once the cursor is past it, was printed too.
IsTakenBack(c, h) ==
  \A t \in {h, log[h].item} \ {None} :
    LET a == archived[t] IN
      /\ h \notin gone /\ log[h].type \notin ArchiveTypes
      /\ Owner \notin watch[c].not_from
      /\ a # None /\ a <= since[c] /\ pc[c] # "done"
      => a \in heard[c]

\* A client that printed what is archived now, and whose cursor is past the
\* archiving, printed the archive event: it can drop what it heard.  (Not one
\* that never hears the owner; nor one that heard it only as a mention.)
WhatIsArchivedIsTakenBack ==
  \A c \in Clients : \A h \in heard[c] :
    Heard([watch[c] EXCEPT !.mentions = {}], h) => IsTakenBack(c, h)

\* "so that a watcher can drop what it heard" (store/poll.rs): not one that
\* heard a message or an item because it mentions someone.  The archive event
\* mentions nobody.
MentionsAreTakenBack == \A c \in Clients : \A h \in heard[c] : IsTakenBack(c, h)

Runs(c) == pc[c] \in {"asks", "polls", "reads"}

\* Something the client asked for has been written and not printed yet.
Due(c, e) ==
  /\ Runs(c) /\ e \in (start[c] + 1) .. head /\ Matches(watch[c], e)
  /\ e \notin gone /\ ~WasHidden(e) /\ e \notin heard[c]

\* A client that is behind catches up once nothing more is written (here the
\* log is bounded): everything it asked for reaches it, unless it is archived
\* or deleted first or the client gives up.  The server may restart and
\* answers may be lost any number of times.
IsBehind(c) == \E e \in Ids : Due(c, e)
NewsArrives == \A c \in Clients : IsBehind(c) ~> ~IsBehind(c)

\* watch.rs:196, "Block until `item` is no longer open": once its item is
\* resolved, a wait ends.  The code waits for the resolving event, which the
\* poll does not announce when the item was archived before it looked.
WaitEnds ==
  \A c \in Clients, i \in Ids :
    Runs(c) /\ waits_for[c] = i /\ Resolutions(i) # {} ~> ~Runs(c)

=============================================================================
