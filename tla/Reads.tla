------------------------------- MODULE Reads -------------------------------
(***************************************************************************)
(* Reading the board: `board read`, `board items` and `board brief`        *)
(* (bin/board/read.rs), the pages the board cuts their answers into        *)
(* (bin/board-server/api.rs, store/nodes.rs, store/items.rs, store.rs),    *)
(* and the cursor a read leaves for the watch that follows it, while       *)
(* others post, save, file and resolve, and the owner archives.            *)
(*                                                                         *)
(* The board has one container, "home", with some of a thread, a note and  *)
(* two queues, of which the reader owns one.  The log is the events table, *)
(* as in Watch.tla, which takes over at the cursor.  Each answer of the    *)
(* board is one transaction.  Bodies are left out: the limit on their      *)
(* bytes may cut an answer short after any row.  No name is one of         *)
(* Watch.tla's, so that one module can extend both.                        *)
(***************************************************************************)
EXTENDS Integers, FiniteSets, Sequences

CONSTANTS Trees,        \* the leaves there may be
          Commands,     \* what the reader may run
          ReadRowsMax,  \* store.rs READ_ROWS_MAX: rows in one answer
          ThreadTail,   \* store.rs THREAD_TAIL: messages of a thread, unless told
          MaxEvents     \* bound: events written

Queues == {"mine", "theirs"}
Nodes == {"thread", "note"} \cup Queues
Who == {"me", "other"}
EntryIds == 1 .. MaxEvents

\* A read of one node; the items in the reader's queues, or also those it
\* asked; or a brief.  `range` and `state` are read's options, and `archived`
\* asks for what is hidden too.
Command == [op : {"read", "items", "mine", "brief"}, node : Nodes \cup {"home"},
            range : {"tail", "since", "all"}, state : {"open", "all"}, archived : BOOLEAN]

\* Only `read` names a node.
ASSUME ReadsAssumption ==
  /\ Trees \subseteq SUBSET Nodes /\ Commands \subseteq Command
  /\ \A w \in Commands : w.op # "read" => w.node = "home"
  /\ ReadRowsMax \in Nat \ {0} /\ ThreadTail \in Nat \ {0} /\ MaxEvents \in Nat

VARIABLES
  tree,     \* the leaves there are
  events,   \* events written, in the order of their ids
  hidden,   \* the messages and filings whose `archived` column is set
  reader,   \* where it is: off, head, node, owned, asked, brief (about to ask
            \* for that), print, more (it was told to read on), ended or refused
  what,     \* the command it runs
  after,    \* the id this page starts after
  first,    \* the head it read first, until it prints
  answer,   \* what it was answered
  printed,  \* the entries printed, on all pages
  told,     \* the cursor printed, or the `after` it was told
  began     \* the head when the first page was asked for

boardRows == <<tree, events, hidden>>
readerVars == <<reader, what, after, first, answer, printed, told, began>>
readsVars == <<boardRows, readerVars>>

LogEntry == [type : {"message", "version", "filed", "resolved", "archived", "unarchived"},
             node : Nodes, from : Who, ref : 0 .. MaxEvents]
Answers == [ids : SUBSET EntryIds, open : SUBSET EntryIds, cut : BOOLEAN, hints : SUBSET EntryIds]
NoAnswer == [ids |-> {}, open |-> {}, cut |-> FALSE, hints |-> {}]
NoCommand == [op |-> "read", node |-> "home", range |-> "tail", state |-> "open", archived |-> FALSE]

\* Each variable has values of its kind; no cursor is past the head.
ReadsTypeOK ==
  /\ tree \in Trees
  /\ events \in Seq(LogEntry) /\ Len(events) <= MaxEvents
  /\ hidden \subseteq 1 .. Len(events)
  /\ reader \in {"off", "head", "node", "owned", "asked", "brief", "print", "more", "ended", "refused"}
  /\ what \in Command
  /\ answer \in Answers
  /\ printed \subseteq 1 .. Len(events)
  /\ {after, first, told, began} \subseteq 0 .. Len(events)

Largest(S) == IF S = {} THEN 0 ELSE CHOOSE e \in S : \A f \in S : f <= e
Smallest(S) == CHOOSE e \in S : \A f \in S : e <= f

\* The head of the log.
latest == Len(events)

-----------------------------------------------------------------------------
(* The board's writes.                                                      *)

WriteEvent(type, node, from, ref) ==
  /\ latest < MaxEvents /\ node \in tree
  /\ events' = Append(events, [type |-> type, node |-> node, from |-> from, ref |-> ref])
  /\ UNCHANGED <<tree, readerVars>>

PostMessage == WriteEvent("message", "thread", "other", 0) /\ UNCHANGED hidden
SaveVersion == WriteEvent("version", "note", "other", 0) /\ UNCHANGED hidden

\* In the reader's queue, or by the reader: what others file elsewhere no
\* command here is about.
FileItem(q, asker) ==
  /\ q = "mine" \/ asker = "me"
  /\ WriteEvent("filed", q, asker, 0) /\ UNCHANGED hidden

ResolvedBy(i) == {e \in 1 .. latest : events[e].type = "resolved" /\ events[e].ref = i}
IsOpen(i) == events[i].type = "filed" /\ ResolvedBy(i) = {}

ResolveItem(i) ==
  /\ i \in 1 .. latest \ hidden /\ IsOpen(i)
  /\ WriteEvent("resolved", events[i].node, "other", i)
  /\ UNCHANGED hidden

\* Of a message or an item, in both directions.
ArchiveEntry(t) ==
  /\ t \in 1 .. latest /\ events[t].type \in {"message", "filed"}
  /\ WriteEvent(IF t \in hidden THEN "unarchived" ELSE "archived", events[t].node, "other", t)
  /\ hidden' = IF t \in hidden THEN hidden \ {t} ELSE hidden \cup {t}

-----------------------------------------------------------------------------
(* The board's answers.                                                     *)

Kind(node) == IF node \in Queues THEN "queue" ELSE node

On(node) == {e \in 1 .. latest : events[e].node = node /\ events[e].type \in {"message", "version", "filed"}}

Shown(e) == what.archived \/ e \notin hidden

\* The next page starts after the last row of the one before.
After(e) == e > after

\* items.rs list(): the items of some queues, by state.
Items(i) ==
  /\ events[i].type = "filed" /\ After(i) /\ Shown(i)
  /\ what.state = "open" => IsOpen(i)

\* The newest n.
Newest(S, n) == {e \in S : Cardinality({f \in S : f > e}) < n}

\* The current version of the note.
Current == Newest(On("note"), 1)

\* A container's listing tells a note by its version and a thread by its
\* newest message; it is never cut.
Listed == Current \cup Newest(On("thread") \ hidden, 1)

\* What a read of the node selects.  A thread has the newest, those after an
\* id, or all; a note its newest version.
Selected ==
  CASE Kind(what.node) = "queue" -> {i \in On(what.node) : Items(i)}
    [] what.node = "note" -> Current
    [] what.node = "home" -> Listed
    [] OTHER -> LET all == {e \in On("thread") : Shown(e)} IN
                IF what.range = "tail" THEN Newest(all, ThreadTail) ELSE {e \in all : After(e)}

IsTail == what.node = "thread" /\ what.range = "tail"

\* store.rs capped(): at most ReadRowsMax rows, and fewer when their bytes run
\* over, but one at least.  A tail is cut at its old end.
Capped(rows) ==
  {some \in SUBSET rows :
     /\ Cardinality(some) <= ReadRowsMax
     /\ rows # {} => some # {}
     /\ \A e \in some, f \in rows \ some : IF IsTail THEN f < e ELSE e < f}

Reply(some, rows) ==
  [ids |-> some, open |-> {e \in some : IsOpen(e)}, cut |-> some # rows,
   hints |-> IF some # rows /\ ~IsTail THEN {Largest(some)} ELSE {}]

\* Two lists of items as one: each item once.
Merge(a, b) ==
  [ids |-> a.ids \cup b.ids, open |-> a.open \cup b.open,
   cut |-> a.cut \/ b.cut, hints |-> a.hints \cup b.hints]

\* The items in the reader's queue, or those it asked.
Owned == {i \in On("mine") : Items(i)}
Asked == {i \in On("mine") \cup On("theirs") : Items(i) /\ events[i].from = "me"}

PagesOf(rows) == {Reply(some, rows) : some \in Capped(rows)}

-----------------------------------------------------------------------------
(* The reader.                                                              *)

Goto(place) == reader' = place

FirstStep(w) == CASE w.op = "read" -> "head" [] w.op = "brief" -> "brief" [] OTHER -> "owned"

Start(w) ==
  /\ reader = "off"
  /\ w.node \in tree \cup {"home"}
  /\ what' = w /\ Goto(FirstStep(w)) /\ began' = latest
  /\ UNCHANGED <<boardRows, after, first, answer, printed, told>>

\* `read` asks for the head before it asks for the node.
ReadHead ==
  /\ reader = "head"
  /\ first' = latest
  /\ Goto("node")
  /\ UNCHANGED <<boardRows, what, after, answer, printed, told, began>>

\* ReadOptions::misplaced: a range is for a thread, `--since` also for a queue.
Misplaced ==
  \/ what.range # "tail" /\ Kind(what.node) # "thread"
     /\ ~(Kind(what.node) = "queue" /\ what.range = "since")
  \/ what.state # "open" /\ Kind(what.node) # "queue"
  \/ what.archived /\ what.node = "note"

ReadNode ==
  /\ reader = "node"
  /\ IF Misplaced
     THEN Goto("refused") /\ UNCHANGED answer
     ELSE /\ Goto("print")
          /\ answer' \in IF what.node = "home" THEN {Reply(Listed, Listed)} ELSE PagesOf(Selected)
  /\ UNCHANGED <<boardRows, what, after, first, printed, told, began>>

ListOwned ==
  /\ reader = "owned"
  /\ answer' \in PagesOf(Owned)
  /\ Goto(IF what.op = "mine" THEN "asked" ELSE "print")
  /\ UNCHANGED <<boardRows, what, after, first, printed, told, began>>

ListAsked ==
  /\ reader = "asked"
  /\ \E sent \in PagesOf(Asked) : answer' = Merge(answer, sent)
  /\ Goto("print")
  /\ UNCHANGED <<boardRows, what, after, first, printed, told, began>>

\* One transaction: the head, the listing with its notes, and the two lists, of which a brief
\* does not say that they were cut.
AskBrief ==
  /\ reader = "brief"
  /\ first' = latest
  /\ \E o \in PagesOf(Owned), a \in PagesOf(Asked) :
       answer' = Merge(Reply(Listed, Listed), Merge(o, a))
  /\ Goto("print")
  /\ UNCHANGED <<boardRows, what, after, printed, told, began>>

\* A request is not answered, or with an error: the command ends with nothing
\* printed, and is run again.
Fail ==
  /\ reader \in {"head", "node", "owned", "asked", "brief", "print"}
  /\ Goto(FirstStep(what))
  /\ answer' = NoAnswer
  /\ UNCHANGED <<boardRows, what, after, first, printed, told, began>>

Forward == Kind(what.node) = "queue" \/ (what.node = "thread" /\ ~IsTail)

\* A mutant of CursorAfter: the head when the answer came, not read first.
CursorAfter_Late == IF answer.cut /\ Forward THEN Largest(answer.ids) ELSE latest

\* A read that was cut short going forward stops at the last row it printed.
\* Otherwise the cursor is the head, but past every entry printed; a listing
\* does not move it.
CursorAfter ==
  CASE answer.cut /\ Forward -> Largest(answer.ids)
    [] what.node = "home" -> first
    [] OTHER -> Largest({first} \cup answer.ids)

\* A list of items has no cursor; one that was cut says where to go on, and
\* of two such lists the reader goes on from the one that was cut first.
Place ==
  CASE what.op = "read" -> CursorAfter
    [] what.op = "brief" -> first
    [] OTHER -> IF answer.cut THEN Smallest(answer.hints) ELSE told

PrintPage ==
  /\ reader = "print"
  /\ printed' = printed \cup answer.ids
  /\ told' = Place
  /\ first' = 0
  /\ Goto(IF answer.cut /\ what.op # "brief" /\ ~IsTail THEN "more" ELSE "ended")
  /\ UNCHANGED <<boardRows, what, after, answer, began>>

\* `read --since <cursor>`, or `items --after <hint>`.
ReadOn ==
  /\ reader = "more"
  /\ after' = told
  /\ what' = IF what.op = "read" THEN [what EXCEPT !.range = "since"] ELSE what
  /\ Goto(FirstStep(what))
  /\ answer' = NoAnswer
  /\ UNCHANGED <<boardRows, first, printed, told, began>>

-----------------------------------------------------------------------------
ReadsInit ==
  /\ tree \in Trees
  /\ events = <<>> /\ hidden = {}
  /\ reader = "off" /\ what = NoCommand
  /\ after = 0 /\ first = 0 /\ answer = NoAnswer
  /\ printed = {} /\ told = 0 /\ began = 0

Writes ==
  \/ PostMessage \/ SaveVersion
  \/ \E q \in Queues, asker \in Who : FileItem(q, asker)
  \/ \E e \in EntryIds : ResolveItem(e) \/ ArchiveEntry(e)

Step == ReadHead \/ ReadNode \/ ListOwned \/ ListAsked \/ AskBrief \/ PrintPage \/ ReadOn

ReadsNext ==
  \/ Writes
  \/ \E w \in Commands : Start(w)
  \/ Step \/ Fail

ReadsSpec == ReadsInit /\ [][ReadsNext]_readsVars

-----------------------------------------------------------------------------
(* Properties.                                                              *)

\* The entries a command is about.
Wanted(e) ==
  /\ CASE what.op = "read" -> e \in On(IF what.node = "home" THEN "note" ELSE what.node)
       [] what.op = "items" -> e \in On("mine")
       [] what.op = "mine" -> e \in On("mine") \/ (e \in On("theirs") /\ events[e].from = "me")
       [] OTHER -> e \in Current \cup On("mine") \/ (e \in On("theirs") /\ events[e].from = "me")
  /\ events[e].type = "filed" /\ what.state = "open" => IsOpen(e)
  /\ events[e].type = "version" => e \in Current

\* e was not archived or unarchived since the command began.
Steady(e) ==
  Shown(e) /\ \A a \in (began + 1) .. latest :
                events[a].type \in {"archived", "unarchived"} => events[a].ref # e

\* Older than the newest a tail shows.
BeforeTail(e) == IsTail /\ \E p \in printed : e < p

\* How far the reader has got.  A list of items has no cursor to watch from:
\* it is good for what there was when it began.
Told == IF what.op \notin {"items", "mine"} THEN told
        ELSE IF reader = "ended" THEN began ELSE Smallest({began, told})

\* What the reader asked for is printed, or is still to come: after the place
\* where it reads on, or where it watches from.
EntriesArePrinted ==
  \A e \in 1 .. latest :
    /\ reader \in {"more", "ended"} /\ e <= Told
    /\ Wanted(e) /\ Steady(e) /\ ~BeforeTail(e)
    /\ ~(what.op = "brief" /\ answer.cut)
    => e \in printed

\* What happened to an entry since the board showed it on the last page is
\* after the cursor: a watch from there hears it.
ChangesAreToCome ==
  reader \in {"more", "ended"} /\ what.op \in {"read", "brief"} =>
    \A e \in answer.ids :
      /\ e \in answer.open => \A r \in ResolvedBy(e) : r > told
      /\ e \in hidden /\ ~what.archived =>
           \E a \in (told + 1) .. latest : events[a].type = "archived" /\ events[a].ref = e

\* read.rs, "so that `watch --since <cursor>` misses nothing written after the
\* read": reading, reading on and then watching misses no entry, and no change
\* to what the last page showed, in whatever order writes fall between the
\* steps of the reads.
NothingIsMissed == EntriesArePrinted /\ ChangesAreToCome

\* No page of a read has an entry of an earlier page, or one older than it,
\* and a watch from the cursor repeats none (but of a listing).
NothingIsRepeated ==
  /\ reader = "print" /\ what.op \in {"read", "items"} => \A e \in answer.ids, p \in printed : p < e
  /\ reader \in {"more", "ended"} /\ what.op \in {"read", "brief"} /\ ~(what.op = "read" /\ what.node = "home")
       => \A p \in printed : p <= told

\* Reading, reading on and then watching gives every entry the reader asked
\* for, and none of them twice.
ReadsAreWhole == NothingIsMissed /\ NothingIsRepeated

\* read.rs, "reading on from it misses nothing", of a read that was cut short:
\* whatever the node shows at the end is printed or still to come.  The code
\* breaks this: an entry that is unarchived between two pages is before the
\* second, and its archive event before the head that page starts with.
ReadingOnMissesNothing ==
  reader = "ended" /\ what.op = "read" =>
    \A e \in 1 .. told :
      Wanted(e) /\ Shown(e) /\ ~BeforeTail(e) =>
        \/ e \in printed
        \/ \E a \in (told + 1) .. latest : events[a].type = "unarchived" /\ events[a].ref = e

=============================================================================
