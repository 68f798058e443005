------------------------------- MODULE Server -------------------------------
(***************************************************************************)
(* The life of the board-server process: what run() does before it serves  *)
(* (main.rs: opening and migrating the database, store/schema.rs, and      *)
(* binding the owner key), the requests that share its one connection      *)
(* (Board::read, Board::write, store.rs), the fault that ends it           *)
(* (Context::note, routes.rs), the stop signal (Shutdown, main.rs), and    *)
(* systemd, which restarts it (home-manager/ai.nix).                       *)
(*                                                                         *)
(* Another program, board-admin, may hold the database file's write lock.  *)
(* A panic aborts the process (Cargo.toml), so no lock is ever poisoned.   *)
(*                                                                         *)
(* There are two ways to write: a write of the JSON API is answered with   *)
(* its outcome; a form of the web view reads the board once more, after    *)
(* its write is committed, for the piece of page that it answers with.     *)
(* (The forms that create a node or register do not: they are like the     *)
(* API's.)                                                                 *)
(***************************************************************************)
EXTENDS Naturals

CONSTANTS Request,    \* the requests, each sent once
          Kind,       \* Request -> {"read", "write", "form", "poll"}
          Version,    \* how many steps the schema has (STEPS)
          Files,      \* what the database file may be at first
          Owner,      \* the keys the settings can give the board's owner
          NoOwner,    \* settings that give none the board could bind, or no owner yet
          Revoked,    \* settings that give a key the board has revoked
          MaxFaults,  \* bound: crashes, failed starts and database faults
          MaxHeld,    \* bound: how often another program holds the file
          MaxStops    \* bound: how often the unit is stopped

\* A database file: whose it is, the schema's steps that made its tables, its
\* user_version, whether it has the board's own nodes, and the owner's key.
FileType ==
  [ schema : {"none", "board-v2", "other"}, tables : Nat, version : Nat,
    seeded : BOOLEAN, owner : Owner \cup {NoOwner} ]

\* What boards leave for a start, which trusts it: a file without a schema is
\* empty; a board's version counts the steps that made its tables, but for one of
\* before there were versions, which has those of one step or of two.
Left(f) ==
  /\ f.schema = "none" => f.tables = 0 /\ f.version = 0
  /\ f.schema = "board-v2" =>
       IF f.version = 0 THEN f.tables \in {1, 2} ELSE f.tables = f.version

ASSUME ServerAssumption ==
  /\ "free" \notin Request
  /\ Kind \in [Request -> {"read", "write", "form", "poll"}]
  /\ NoOwner # Revoked /\ NoOwner \notin Owner /\ Revoked \notin Owner
  /\ Version \in Nat \ {0, 1}
  /\ Files \subseteq FileType /\ \A f \in Files : Left(f)
  /\ MaxFaults \in Nat /\ MaxHeld \in Nat /\ MaxStops \in Nat

VARIABLES
  unit,    \* systemd's state of the unit
  at,      \* how far run() has come
  setting, \* whose key this start binds: what the settings, the key file and
           \* the board's rules for names leave of BOARD_OWNER_*
  signal,  \* a stop signal was sent
  file,    \* the database file
  fresh,   \* what probe() said of it
  conn,    \* Board.db: the connection, under its mutex
  lock,    \* which request holds that mutex
  held,    \* the file's write lock: "none", "server" (in a transaction), "other"
  written, \* the writes committed
  pc,      \* where each request is
  told,    \* what the client of each write was told
  faults, holds, stops

processVars == <<at, setting, signal, fresh, conn, lock, pc, told>>
bounds == <<faults, holds, stops>>
vars == <<unit, at, setting, signal, file, fresh, conn, lock, held, written, pc, told, bounds>>

Stage == {"down", "starting", "opened", "migrated", "seeded", "bound", "serving"}
Told == {"nothing", "done", "refused", "busy", "fault", "closed", "lost"}

\* Each variable has values of its kind.
TypeOK ==
  /\ unit \in {"inactive", "active", "stopping", "restarting"}
  /\ at \in Stage
  /\ setting \in Owner \cup {NoOwner, Revoked}
  /\ signal \in BOOLEAN
  /\ file \in FileType
  /\ fresh \in BOOLEAN
  /\ conn \in {"none", "open", "closed"}
  /\ lock \in Request \cup {"free"}
  /\ held \in {"none", "server", "other"}
  /\ written \subseteq Request
  /\ pc \in [Request -> {"away", "asked", "locked", "transaction", "committed",
                         "fatal", "parked", "over"}]
  /\ told \in [Request -> Told]
  /\ faults \in 0..MaxFaults /\ holds \in 0..MaxHeld /\ stops \in 0..MaxStops

Init ==
  /\ unit = "inactive" /\ at = "down" /\ setting = NoOwner /\ signal = FALSE
  /\ file \in Files /\ fresh = FALSE
  /\ conn = "none" /\ lock = "free" /\ held = "none"
  /\ written = {}
  /\ pc = [r \in Request |-> "away"] /\ told = [r \in Request |-> "nothing"]
  /\ faults = 0 /\ holds = 0 /\ stops = 0

----------------------------------------------------------------------------
(* systemd. *)

\* The unit is started, by the login, by systemctl, or after RestartSec.  The
\* settings and the key file may be others than at the last start.
Start ==
  /\ unit \in {"inactive", "restarting"}
  /\ unit' = "active"
  /\ at' = "starting"
  /\ setting' \in Owner \cup {NoOwner, Revoked}
  /\ UNCHANGED <<signal, file, fresh, conn, lock, held, written, pc, told, bounds>>

\* The unit is stopped: a server gets SIGTERM.
Stop ==
  /\ stops < MaxStops
  /\ stops' = stops + 1
  /\ \/ /\ unit = "active"
        /\ unit' = "stopping"
        /\ signal' = TRUE
     \/ /\ unit = "restarting"
        /\ unit' = "inactive"
        /\ UNCHANGED signal
  /\ UNCHANGED <<at, setting, file, fresh, conn, lock, held, written, pc, told, faults, holds>>

\* Of the others' answers nothing is said below.
Writes(r) == Kind[r] \in {"write", "form"}

\* The process ends, and with it its connection, its transaction and its
\* clients' connections.
Ended ==
  /\ at' = "down"
  /\ setting' = NoOwner
  /\ signal' = FALSE
  /\ conn' = "none"
  /\ lock' = "free"
  /\ held' = IF held = "server" THEN "none" ELSE held
  /\ told' = [r \in Request |->
                IF pc[r] \in {"away", "over"} \/ ~Writes(r) THEN told[r] ELSE "lost"]
  /\ pc' = [r \in Request |-> IF pc[r] = "away" THEN "away" ELSE "over"]
  /\ unit' = IF unit = "stopping" THEN "inactive" ELSE "restarting"
  /\ UNCHANGED <<file, fresh, written>>

\* A fault of the system's (the port or the blob directory's lock taken, a full
\* disk, a panic, a kill) ends the process at any point.
Crash ==
  /\ at # "down"
  /\ faults < MaxFaults
  /\ faults' = faults + 1
  /\ Ended
  /\ UNCHANGED <<holds, stops>>

\* board-admin takes the file's write lock for a while.
HoldFile ==
  /\ held = "none"
  /\ holds < MaxHeld
  /\ held' = "other"
  /\ holds' = holds + 1
  /\ UNCHANGED <<unit, file, written, processVars, faults, stops>>

LetGo ==
  /\ held = "other"
  /\ held' = "none"
  /\ UNCHANGED <<unit, file, written, processVars, bounds>>

----------------------------------------------------------------------------
(* run(), before it serves; a signal does not keep the main thread from it. *)

StartUp(from, to) ==
  /\ at = from
  /\ at' = to
  /\ UNCHANGED <<unit, setting, signal, lock, held, written, pc, told, bounds>>

\* What ends a start for good, until someone changes the file or the program.
Refused(from) ==
  /\ at = from
  /\ Ended
  /\ UNCHANGED bounds

\* Binding an owner takes a transaction, unless the owner is as it should be.
NeedsBinding == setting \notin {NoOwner, file.owner}

\* A start that needs the file's write lock gives up after BUSY_TIMEOUT.
StartBusy ==
  /\ \/ /\ at = "opened"
        /\ file.version < Version
     \/ /\ at = "migrated"
        /\ ~file.seeded
     \/ /\ at = "seeded"
        /\ NeedsBinding
  /\ held = "other"
  /\ Ended
  /\ UNCHANGED bounds

\* Mutant: A file is taken for a board's without a look at its schema.
Open_Anything ==
  /\ StartUp("starting", "opened")
  /\ fresh' = (file.tables = 0)
  /\ conn' = "open"
  /\ UNCHANGED file

\* probe() and verdict() look at the file read-only; the connection is opened.
Open ==
  /\ file.schema # "other"
  /\ StartUp("starting", "opened")
  /\ fresh' = (file.tables = 0)
  /\ conn' = "open"
  /\ UNCHANGED file

NotABoard ==
  /\ file.schema = "other"
  /\ Refused("starting")

\* migrate(): the version of a board made before there were versions is what
\* its tables show, one step or, if they have the thread column, two.
Stamp ==
  /\ ~fresh /\ file.version = 0
  /\ held # "other"
  /\ StartUp("opened", "opened")
  /\ file' = [file EXCEPT !.version = IF file.tables = 1 THEN 1 ELSE 2]
  /\ UNCHANGED <<fresh, conn>>

\* The steps that its version says are missing are made in one transaction.
Migrate ==
  /\ fresh \/ file.version # 0
  /\ file.version <= Version
  /\ held # "other" \/ file.version = Version
  /\ StartUp("opened", "migrated")
  /\ file' = [file EXCEPT !.tables = Version, !.version = Version, !.schema = "board-v2"]
  /\ UNCHANGED <<fresh, conn>>

\* A newer board's file.
NoMigration ==
  /\ file.version > Version
  /\ Refused("opened")

\* Mutant: Only a fresh file gets the board's own nodes.
Unseeded_Fresh == fresh /\ ~file.seeded

\* unseeded() and seed(): the board's own nodes.
Unseeded == ~file.seeded
Seed ==
  /\ held # "other" \/ ~Unseeded
  /\ StartUp("migrated", "seeded")
  /\ file' = [file EXCEPT !.seeded = @ \/ Unseeded]
  /\ UNCHANGED <<fresh, conn>>

\* bind_owner(), in one transaction (Keys!SetOwner).  If the settings give no key
\* that the board takes, the owner of an earlier start stays, or there is none,
\* and the start goes on.
BindOwner ==
  /\ held # "other" \/ ~NeedsBinding
  /\ StartUp("seeded", "bound")
  /\ file' = [file EXCEPT !.owner = IF setting \in Owner THEN setting ELSE @]
  /\ UNCHANGED <<fresh, conn>>

\* The port is bound and the shutdown is told of the board.
Serve ==
  /\ StartUp("bound", "serving")
  /\ UNCHANGED <<file, fresh, conn>>

----------------------------------------------------------------------------
(* The stop signal: a thread of its own waits for it. *)

\* Before there is a board to close, the process ends at once.  (Between the look
\* for a board and the end a board may be served yet: that is a Crash.)
StopStarting ==
  /\ signal
  /\ at \notin {"down", "serving"}
  /\ Ended
  /\ UNCHANGED bounds

\* Board::close(): once no request holds the mutex, the connection is taken out
\* and closed,
CloseBoard ==
  /\ signal
  /\ at = "serving"
  /\ lock = "free"
  /\ conn = "open"
  /\ conn' = "closed"
  /\ UNCHANGED <<unit, at, setting, signal, file, fresh, lock, held, written, pc, told, bounds>>

\* and the process ends.
StopServing ==
  /\ signal
  /\ at = "serving"
  /\ lock = "free"
  /\ conn = "closed"
  /\ Ended
  /\ UNCHANGED bounds

----------------------------------------------------------------------------
(* The requests, each on a thread of its own. *)

Move(r, to) == pc' = [pc EXCEPT ![r] = to]
Tell(r, what) ==
  /\ Move(r, "over")
  /\ told' = IF Writes(r) THEN [told EXCEPT ![r] = what] ELSE told

Step(r, from) ==
  /\ pc[r] = from
  /\ UNCHANGED <<unit, at, setting, signal, file, fresh, holds, stops>>

Ask(r) ==
  /\ Step(r, "away")
  /\ at = "serving"
  /\ Move(r, "asked")
  /\ UNCHANGED <<conn, lock, held, written, told, faults>>

\* The connection is closed: answered with a fault.
FindClosed(r) ==
  /\ Step(r, "asked")
  /\ lock = "free"
  /\ conn # "open"
  /\ Tell(r, "closed")
  /\ UNCHANGED <<conn, lock, held, written, faults>>

\* Board::read(), under the mutex from beginning to end.  A reader waits for
\* another program's write where the file has no WAL (main.rs says so in the log).
Look(r) ==
  /\ lock = "free" /\ conn = "open"
  /\ \/ /\ Tell(r, "done")
        /\ UNCHANGED faults
     \/ /\ held = "other"
        /\ Tell(r, "busy")
        /\ UNCHANGED faults
     \/ /\ faults < MaxFaults
        /\ faults' = faults + 1
        /\ Tell(r, "fault")

Read(r) ==
  /\ Kind[r] = "read"
  /\ Step(r, "asked")
  /\ Look(r)
  /\ UNCHANGED <<conn, lock, held, written>>

\* Board::poll(): what it waits for is there, or it lets the mutex go.
Poll(r) ==
  /\ Kind[r] = "poll"
  /\ Step(r, "asked")
  /\ lock = "free" /\ conn = "open"
  /\ IF written # {} THEN Tell(r, "done") ELSE Move(r, "parked") /\ UNCHANGED told
  /\ UNCHANGED <<conn, lock, held, written, faults>>

\* A write notifies it, or POLL_CHECK is over, and it looks again.
Wake(r) ==
  /\ Step(r, "parked")
  /\ Move(r, "asked")
  /\ UNCHANGED <<conn, lock, held, written, told, faults>>

\* Its deadline: what it would answer with is nothing new.
Expire(r) ==
  /\ Step(r, "parked")
  /\ lock = "free" /\ conn = "open"
  /\ Tell(r, "done")
  /\ UNCHANGED <<conn, lock, held, written, faults>>

\* Board::write(): the mutex is taken,
Lock(r) ==
  /\ Writes(r)
  /\ Step(r, "asked")
  /\ lock = "free" /\ conn = "open"
  /\ lock' = r
  /\ Move(r, "locked")
  /\ UNCHANGED <<conn, held, written, told, faults>>

\* BEGIN IMMEDIATE takes the file's write lock,
Begin(r) ==
  /\ Step(r, "locked")
  /\ held = "none"
  /\ held' = "server"
  /\ Move(r, "transaction")
  /\ UNCHANGED <<conn, lock, written, told, faults>>

\* or gives up after BUSY_TIMEOUT: "nothing was written, try again".
Busy(r) ==
  /\ Step(r, "locked")
  /\ held = "other"
  /\ Tell(r, "busy")
  /\ lock' = "free"
  /\ UNCHANGED <<conn, held, written, faults>>

\* The operation refuses, and is rolled back.
Refuse(r) ==
  /\ Step(r, "transaction")
  /\ held' = "none"
  /\ lock' = "free"
  /\ Tell(r, "refused")
  /\ UNCHANGED <<conn, written, faults>>

\* Mutant: The transaction is committed whatever the operation's outcome.
Fail_Committed(r) ==
  /\ Step(r, "transaction")
  /\ faults < MaxFaults
  /\ faults' = faults + 1
  /\ held' = "none"
  /\ lock' = "free"
  /\ written' = written \cup {r}
  /\ Tell(r, "fault")
  /\ UNCHANGED conn

\* A statement or the commit fails, and what was written is rolled back.
Fail(r) ==
  /\ Step(r, "transaction")
  /\ faults < MaxFaults
  /\ faults' = faults + 1
  /\ held' = "none"
  /\ lock' = "free"
  /\ Tell(r, "fault")
  /\ UNCHANGED <<conn, written>>

\* Mutant: A connection whose rollback failed is kept, in its transaction.
RollbackFails_Kept(r) ==
  /\ Step(r, "transaction")
  /\ faults < MaxFaults
  /\ faults' = faults + 1
  /\ lock' = "free"
  /\ Tell(r, "fault")
  /\ UNCHANGED <<conn, held, written>>

\* The rollback fails too: closing the connection rolls back.
RollbackFails(r) ==
  /\ Step(r, "transaction")
  /\ faults < MaxFaults
  /\ faults' = faults + 1
  /\ conn' = "closed"
  /\ held' = "none"
  /\ lock' = "free"
  /\ Move(r, "fatal")
  /\ UNCHANGED <<written, told>>

\* Mutant: The fault is answered and the process goes on, without its connection.
Note_Answers(r) ==
  /\ Step(r, "fatal")
  /\ Tell(r, "fault")
  /\ UNCHANGED <<conn, lock, held, written, faults>>

\* note(): such a fault ends the process before it is answered.
Note(r) ==
  /\ pc[r] = "fatal"
  /\ Ended
  /\ UNCHANGED bounds

Commit(r) ==
  /\ Step(r, "transaction")
  /\ written' = written \cup {r}
  /\ held' = "none"
  /\ lock' = "free"
  /\ Move(r, "committed")
  /\ UNCHANGED <<conn, told, faults>>

\* The API's write is answered with its outcome.
Reply(r) ==
  /\ Kind[r] = "write"
  /\ Step(r, "committed")
  /\ Tell(r, "done")
  /\ UNCHANGED <<conn, lock, held, written, faults>>

\* web::write(): a form's is made already, and its answer is what comes of
\* reading the board for the piece of page: the piece, a fault, or the refusal of
\* a parameter that nothing before has looked at.
Render(r) ==
  /\ Kind[r] = "form"
  /\ Step(r, "committed")
  /\ \/ Look(r)
     \/ /\ lock = "free" /\ conn # "open"
        /\ Tell(r, "closed")
        /\ UNCHANGED faults
     \/ /\ Tell(r, "refused")
        /\ UNCHANGED faults
  /\ UNCHANGED <<conn, lock, held, written>>

Handle(r) ==
  \/ FindClosed(r) \/ Read(r) \/ Poll(r) \/ Wake(r) \/ Expire(r)
  \/ Lock(r) \/ Begin(r) \/ Busy(r) \/ Refuse(r) \/ Fail(r)
  \/ RollbackFails(r) \/ Note(r) \/ Commit(r) \/ Reply(r) \/ Render(r)

Starting ==
  \/ Open \/ NotABoard \/ Stamp \/ Migrate \/ NoMigration \/ Seed \/ BindOwner \/ Serve
  \/ StartBusy
Stopping == StopStarting \/ CloseBoard \/ StopServing

Next ==
  \/ Start \/ Stop \/ Crash \/ HoldFile \/ LetGo
  \/ Starting \/ Stopping
  \/ \E r \in Request : Ask(r) \/ Handle(r)

\* systemd restarts the unit, run() goes on, the shutdown thread acts on its
\* signal, every request's thread goes on, and the other program lets go.
Fairness ==
  /\ WF_vars(Start /\ unit = "restarting")
  /\ WF_vars(Starting)
  /\ WF_vars(Stopping)
  /\ WF_vars(LetGo)
  /\ \A r \in Request : WF_vars(Handle(r))

Spec == Init /\ [][Next]_vars /\ Fairness

----------------------------------------------------------------------------
(* What the server promises. *)

\* What a client is told is so, and stays so: a write that is answered well is
\* committed, and one of the API's that is answered with "nothing was written", a
\* refusal or a fault is not and never will be, whatever fails, closes or restarts
\* meanwhile.  A form's refusal says less: see the next.
AnswersAreTrue ==
  \A r \in Request :
    /\ told[r] = "done" /\ Writes(r) => r \in written
    /\ told[r] \in {"refused", "busy", "fault", "closed"} /\ Kind[r] # "form" => r \notin written

\* The documentation of write() in web.rs: the answer to a form is "the piece of
\* page it changed, or the refusal".  So who gets another answer than the piece of
\* page was refused, and changed nothing.  The code breaks this: the write is
\* committed before the board is read for the piece, which may fail.
FormsAreRefusedOrMade ==
  \A r \in Request :
    told[r] \in {"refused", "busy", "fault", "closed"} /\ Kind[r] = "form" => r \notin written

\* The server holds the file against other programs only while one of its
\* requests is in a transaction: a rollback that fails does not leave it locked.
FileIsLetGo ==
  held = "server" => /\ lock # "free"
                     /\ pc[lock] = "transaction"

\* Whatever an earlier start left half done, the board a server serves is whole:
\* it has every table, the board's own nodes, and the owner that its settings give
\* it, if they give one that the board takes.
BoardIsWhole ==
  at = "serving" =>
    /\ file.tables = Version /\ file.version = Version
    /\ file.seeded
    /\ setting \in Owner => file.owner = setting

\* A file of another program's, or of a newer board, is left as it is.
OthersAreLeftAlone ==
  [][file.schema = "other" \/ file.version > Version => file' = file]_vars

\* The files the server takes: none yet, and those an earlier or the present
\* version left.
Usable == file.schema # "other" /\ file.version <= Version

\* The unit the other programs see.
Process ==
  CASE at = "down" -> "down"
    [] at = "serving" /\ conn = "open" -> "up"
    [] at = "serving" /\ conn = "closed" -> "closing"
    [] OTHER -> "starting"

AService == INSTANCE Service WITH server <- Process, usable <- Usable

\* The process and systemd keep what Service says of them: a stop ends, and a
\* board that is wanted is served again, whatever befell its server.
ImplementsService == AService!Spec

=============================================================================
