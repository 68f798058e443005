# A specification of the message board

The repository is a NixOS configuration with a few programs of its own. The one
with a protocol worth proving is the *message board* (`apps/message-board`): a
single-node server on SQLite with signed writes, keys that the board's owner
approves, a store for blobs, and long polls; a command-line client; and
`board-admin`, which stops the server to delete from its database. This directory
holds TLA+ modules for them, configurations with which TLC checks them, and proofs
that TLAPS checks.

    tlc -workers 2 -config keys.cfg MCKeys         # a run
    tlapm KeysProofs.tla                           # the proofs of a module; so each *Proofs.tla

## The system

### Components, their state and operations

| Component | State | Operations | Modelled |
|---|---|---|---|
| Keys and registrations (`store/keys.rs`, the register queue of `store/items.rs`) | `keys`, `items`, the trust list versions, the register queue's owner | register, approve, decline (`resolve`), revoke, `set_owner` at each start; the owner's commands, from the list they read to the write | `Keys`, `OwnerCommands`, `Names` |
| Signed writes (`bin/board/write.rs`, `store/actions.rs`, `store.rs`) | the head, client keys and request hashes of events; a command's counters of stale signatures and dropped tries | read the head, sign, send, resend, re-sign; verify, replay, admit, check the nonce, apply | `SignedWrite` |
| Blob store (`store/blobs.rs`, `blobdir.rs`, `bin/board-server/blobs.rs`) | `blobs`, `blob_refs`, the files, the bytes and slots promised, the commit lock | upload (begin, receive, land), evict, delete, download, reference, archive | `Blobs` |
| Watching (`store/poll.rs`, `store/archive.rs`, `bin/board/watch.rs`) | the log of events, what is archived; a client's cursor | long poll, `board watch`, `board wait` | `Watch` |
| Reading (`bin/board/read.rs`, `bin/board-server/api.rs`) | a reader's cursor and pages | `board read`, `items`, `brief` | `Reads` |
| Tree (`store/nodes.rs`, `store/items.rs`, `store/archive.rs`) | `nodes`, note versions, messages, items, what is archived | create, post, read and set a note, file, resolve, archive, delete | `Tree` |
| Connections (`bin/board-server/main.rs`, `http.rs`, `routes.rs`) | slots, a connection's place, what is left of a body | accept, refuse, read a request, answer, linger, close | `Connection` |
| Server process (`bin/board-server/main.rs`, `store.rs`, `store/schema.rs`, the unit in `home-manager/ai.nix`) | the database file, the connection to it and its mutex, the stop signal, the unit | start, migrate, seed, bind the owner, read, poll, write, roll back, fail, stop | `Server`, which implements `Service` |
| board-admin (`bin/board-admin`) and the repair of the blob store (`fsck.rs`) | whether the session stopped the unit; rows and files; what a repair found and did | stop, delete, record, start again; check, move aside, forget, record | `Maintenance`, over `Service` |
| Transfers (`bin/board/blobs.rs`, `client.rs`) | `FILE`, `FILE.part`, the sender's file | `board put`, `board get --resume` | `Upload`, which extends `Download` |
| Signatures, text, time; web pages; NixOS modules; small scripts | none that changes | pure conversions, rendering, declarations | no |

`PROJECT.json` lists the components with their files, those that are not modelled
included.

### How they interact

A connection (`Connection`) hands a request to its handler, on a thread of its own.
Every write to the board goes through `Board::signed`: verify the signature
(outside the lock), look up the client key, admit the signing key, check that the
nonce is the head, apply. All of it after the verification is in one
transaction under the board's mutex (`Server`), so for the other components a write
is one step, and each module takes it so. `Keys` says what admission depends on,
`SignedWrite` what a client may conclude from an answer or from none. Blobs are
written in many steps, in files as well as rows, and only the rows are in
the transaction: `Blobs` is where threads interleave. A poll reads under the
mutex, sleeps on a condition variable, and reads again; between the two
anything may be written (`Watch`). A reader's commands are several requests with
writes between them, and leave a cursor from which a watch goes on (`Reads`). The unit
that systemd keeps is all that board-admin and the repair know of the server
(`Service`, `Maintenance`).

### What is hard

- **Orders of legal calls** (keys): a registration is checked against the names
  bound when it is made and decided much later; the owner may be reconfigured at
  any start of the server; one key may be pending, declined, pending again,
  trusted, revoked, or be made the owner while it waits; the owner decides by a list that
  other writes have overtaken.
- **Unreliable delivery and retries** (signed writes, transfers): a try given up may
  still be served, before or after its resend, and after the command has ended.
- **Interleaving, partial failure, crash** (blobs): a row and its file change
  in two steps; room is planned, promised and made at three times; a delete takes
  no lock that an upload takes; any step may fail or be the last.
- **References and reused names** (tree): the schema's foreign keys are checked only
  at the commit; a branch is deleted as a set of rows that others may point into;
  a path, a row number and a note's version number come back after a delete, so what a
  client has read may be of an earlier node.
- **Cursors, lost answers, restarts** (watching, reading): what is hidden by an archive
  comes and goes while the cursor only moves forward; a page may be cut anywhere.
- **Unread bytes** (connections): the server tells requests from bodies only by
  counting, answers before it has read all, and a close with bytes unread destroys
  answers.
- **Faults in the wrong place** (server): between migration, seeding and the owner's
  key; in a rollback; between the stop signal and the close.
- **Two programs and a service manager** (maintenance): the unit may be between
  two servers, or stopped by someone else, or come back while one still works.

`PROJECT.json` has every hazard at its line, with the properties that would
catch it, and a note where no property does.

## The modules

`MC...` modules give constants values. A definition named `X_Y` that nothing uses is a faulty
version of `X`, there to show that a property notices. Each module defines a type invariant,
`TypeOK` (`TransferTypeOK` of `Upload`, `ReadsTypeOK` of `Reads`). It is proved where there is
a module of proofs (`KeysProofs` for `Keys` and `OwnerCommands`, `TreeProofs` for `Tree`, and
so on); the configurations list only what could be wrong in the code and leave the type
invariants out (each holds on its run's instance: add `INVARIANT TypeOK` to its configuration).

### Keys

One action per write: `Register`, `Approve`, `Decline`, `Revoke`, `SetOwner`, and
`Write` for any other. Columns are functions from keys (`state`, `name`, `item`,
`approved`, `revoked`) or from event ids (`itemState`, `by`); `head` is the last
id. A request the code refuses writes nothing and is no step. Names are opaque,
and which look alike is a constant relation `Near`. Registrations are answered by
`approve` or declined by `resolve`; they cannot be cancelled or archived, as the code
refuses that.

What it shows: two live keys never share a name, so the unique index never fails
a write (`OneLiveKeyPerName`); pending keys and open registrations pair off, with the
one exception of a key made the owner while it waited (`PendingPairsOff`); a revoked
key is so by a trust list version, and signs nothing after it (`RevokedInTheLog`); trust
is earned by an answered registration and the approval of another key that was
the owner, and approved names stay apart although the check at registration goes stale
(`TrustWasEarned`); the register queue is owned by a *name*, and yet only the owner
decides (`OnlyTheOwnerDecides`).

`NameDirectory` says the same in three actions: the owner grants a name, the owner
withdraws a key, the configuration appoints an owner. `NamesAreKept` is that `Keys`
implements it: `holds` is the name of a bound key, `dead` the revoked keys, `boss`
the owner key.

`OwnerCommands` puts `board approve` and `board revoke` on top: a command reads the
list, picks the one registration or key its target names (`pick`, `bound_key`), and
signs that, while every action of `Keys` goes on. `OwnerGetsWhatWasSeen`: what is
approved is the registration on the screen, and no key is revoked by it that the
list did not show. The list shows which key an approval replaces, and that is not
signed; it is safe because an approval declines every rival for the name, so a key
that was bound to the name meanwhile was approved from another registration and
ended this one.

`Names` is `check_name`, `distance` (the row-by-row dynamic program) and `looks_alike`
of `store.rs` as operators and recursive functions over sequences of letters. The run
`keys` evaluates three assumptions with them: the names of the instance are names, `Near` is what
`looks_alike` says of them, and `distance` is the fewest edits for all words of up to
three letters over two.

### SignedWrite

Commands (`ReadHead`, `Send`, `Retry`, `TimeOut`, `ReceiveStale`, `ReceiveEnd`)
follow `submit` and `send_once`; a set of requests is the network (`Lose`);
`Serve` goes through `Board::signed`, and `Replay`, `Reject`, `FindStale`, `Repeat`,
`Forbid`, `Miss`, `Make` and `Busy` are the ways out of it. Two kinds of write are applied,
since they differ in what a resend finds: a post of several events, and a
registration, which reads and writes its key's state; `Decide` is the owner deciding
registrations meanwhile. Which commands run beside each other is a constant (`Together`), and what
is allowed or stored is followed only as long as a command may ask for it (`Asking`). A post may be refused for the rows it is about (`Forbid`: an item
that is resolved, a note saved since), which other writes change (`Others`, `Affects`); and for a
blob that it references and the board has not (`Miss`), while blobs come and go with no
event (`ChangeBlobs`). To show again what is archived is refused for a missing blob too
(`BlobGone`), and is such a post.

What it shows: a refusal for what the log says, or a
command that gave up on stale signatures, is final: no request of it that is
still on its way is ever applied (`RefusalIsFinal`), which holds because what
would lift the refusal moves the head past the nonce of every earlier
request; every command ends (`EveryCommandEnds`). The refusal for a missing blob is *not*
final: an upload lifts it and leaves the head where it was, so an earlier request of the same
nonce, given up and still on its way, makes the write after its command was told no.
`WritesAreOnce` is the
refinement to `WriteOnce`: made at most once, told yes only of what was made, told
no only of what was not and never will be, and "not yet" of what wants for a blob. A
registration that waits stands for
another by the same key for the same name, and the abstract specification has
that as the constant `Same`.

Left out: an archive that is already as asked is a success with no event of its own; and
board-admin's deletes, which may lift a refusal without an event too, but no request outlives
the server that is stopped for them.

### Blobs

A step is one transaction, one file operation, or one critical section. An upload
goes `Begin` (or `BeginExisted`), `Receive`, `Lock`, `Survey`, `MakeRoom`,
`Unlink` of each victim, `Place` (the rename), `Land` (the row), `Drop`; it may fail
at every step (`ReceiveFails`, `LandingFails`, and an unlink that does nothing). A
delete is `DeleteRow` and `DeleteFile`, without the commit lock; a download is
`ReadRow` and `OpenFile` or `FindMissing`. Holders are messages, items and note
versions with a reference; they are archived, unarchived, superseded or retired.
`Crash` keeps rows, files and references.

What it shows: what is pinned keeps its row (`PinnedHasRow`); what is stored stays
within the cap although admission, planning and eviction happen at three
times (`WithinCap`); bytes and slots promised are exactly those of the uploads in
flight, whichever way one ends (`PromisesAreCounted`; `Total` is the sum over a set); a row keeps its file but
for the second half of a delete (`RowKeepsFile`); the commit lock is let go
(`LandingEnds`).

### Watch

The log is a sequence and an id is a position in it; deleted rows are in `gone`, so
ids are never reused, as SQLite's AUTOINCREMENT does. `Post`, `File`, `Resolve`, `Create`,
`Save`, `Archive`, `DeleteMessage` and `DeleteNote` are the writes a watcher can tell
apart. A watch is subscribed to paths (a container's among them), to mentions of a
name, what a name asked, the queues it owns, and items, and leaves out who it is told
to. The poll is `ScanOn` (nothing yet), `ScanFinds` (a page: full, by number or by size,
or whole) and `ScanExpires`, or `Refuse` when a path is gone; the client is `StartWatch`,
`StartWatchAtHead`, `StartWait`, `Ask`, `Read`, `Lose`, `GiveUp`; the server has `Stop`
and `Restart`.

What it shows: a page brings only events after all that was printed, whatever
was lost and even from a cursor ahead of the head (`PagesAreNews`); the cursor never
passes an event that was asked for, but for one archived meanwhile or deleted
(`NothingIsPassedOver`); whoever heard what is archived now, in some other way than as a mention, hears of its
archiving (`WhatIsArchivedIsTakenBack`; for mentions, see the findings);
and what is asked for arrives (`NewsArrives`), but for the resolution a wait is to end on when its
item is archived too early (`WaitEnds`, see the findings).

### Reads

The same log, and one reader with one command. `read` asks for the head (`ReadHead`),
then for the node (`ReadNode`); `items` asks for one list or two (`ListOwned`,
`ListAsked`); `brief` is one request. `Capped` cuts an answer after any row, as the
limit on bytes does, or at the most rows; `PrintPage` prints it with the cursor or the
place to go on from; `ReadOn` is the user following that. `Fail` is a request without
answer.

What it shows: `ReadsAreWhole`, that of what the reader asked for every entry is
printed or is still to come, after the place it reads on from or watches from; that
what happened to an entry since it was shown is after the cursor; and that no page
repeats an earlier one. An entry archived or shown again during the command is left
out of the first part, and must be: see the findings.

### Tree

The rows of `nodes`, `events` and `items`, the head, and, for each writer, the version
of a note it has read last. `Create`, `Post`, `Save`, `File`, `Resolve` and `Archive`
are the writes, `Read` is a client's, `DeleteBranch` and `DeleteMessage` are
board-admin's. A new node has the row number after the largest in use, as SQLite
numbers them, so a number is reused after a delete; event ids are not. What the
code checks is in the guards; what the schema's foreign keys would check is not, so
that `ReferencesAreSound` shows that they never have anything to refuse. The board's own
nodes are left to `Keys`, the references of bodies to blobs to `Blobs`. The paths are any
tree three deep, the depth that the code lets a tree have (`TreeAssumption`).

What it shows: no order of writes and deletes leaves a reference dangling or
leading to something of the wrong kind, gives a node the events of the one whose
number it has, or a summary another thread (`ReferencesAreSound`); what the columns say
of archiving and of resolutions is what the log says, and a version number names
one version of a note (`StateFollowsTheLog`). `NoUpdateIsLost` says that a version is
saved only over what its writer has read. It has an exception, which the code has
too: a base is a version number, so a note that was deleted and made again, with as
many versions, takes a save meant for the old one.

### Connection

One connection for each client, and what lies between the two: the pieces sent and not
taken, the answers sent and not read, and whether the connection was reset. The server takes
the next piece for a head (`TakeHead`) because the bytes do not say what they are; a
client may pipeline, stall or leave anywhere. `AfterAnswer` is what the loop in
`connection` does after an answer, `LingerOn` and `LingerOut` the wait before a close,
`End` the drop of the `Slot`. A close with pieces unread, or a piece sent after it, resets the
connection.

What it shows: what is served as requests are the client's requests, in order, whatever
bodies are left unread (`OnlyRequestsAreServed`); slots are those of the connections
served (`SlotsAreHeld`); an upload that is answered early reads its answer,
unless it goes on sending past what `linger` waits for (`EarlyAnswersArrive`); and no
connection holds its slot for ever (`ConnectionsEnd`). The last holds because a client's
requests are bounded (`MaxRequests`): no stall of a client keeps a slot, but one that goes on
asking, each time within the timeout, is served for as long as it does.

### Server and Service

`Service` is the unit as others see it: `unit`, `server` and whether the database is
`usable`; a stop ends, and a board that is wanted is served again. `Server` is the
process: `Open`, `Stamp`, `Migrate`, `Seed`, `BindOwner` and `Serve`, each of which may be
refused (`NotABoard`, `NoMigration`, `StartBusy`) or be the last (`Crash`); requests
that read (`Look`), or take the mutex (`Lock`) and the file's write lock (`Begin`, or `Busy` while
board-admin has it), and commit, refuse, fail, or fail to roll back (`RollbackFails`,
then `Note` ends the process); a write that is answered with its outcome (`Reply`), and a form
of the web view, which reads the board again, after its commit, for the piece of page it
answers with (`Render`); polls that let go of the mutex; the thread that waits for
the signal (`StopStarting`, or `CloseBoard` and `StopServing`); and systemd. The files a
server may find (`Files`) are those that may have been left (`Left`): `migrate` trusts a
version to say which tables there are, and so does the model. `setting` is what the
settings of a start leave of an owner: a key, none (not configured, no key file, an unusable
key, a name that is refused), or a key that the board has revoked. `bind_owner` takes the first,
and with the other two the owner of an earlier start stays, or the board is served without one.

What it shows: a client that is told of a write's success, refusal or fault is told the
truth (`AnswersAreTrue`), but for the refusal of a form, which may come after the commit (see the
findings); a failed rollback does not leave the file locked
(`FileIsLetGo`); a board that is served has every table, its own nodes and, if the settings
give one that it takes, their owner's
key, whatever earlier starts left half done (`BoardIsWhole`); the file of another
program or of a newer board is not touched (`OthersAreLeftAlone`); and `Server` implements
`Service`, liveness included (`ImplementsService`).

### Maintenance

`Service`'s actions (it is instantiated, not copied) beside sessions of board-admin and
the repair `fsck --deep --quarantine`. A session asks systemd (`IsActive`), then
the port (`Probe`); stops the unit (`StopUnit`, `StopFails`), waits for the port
(`Free`); shows a blob and deletes it (`Show`, `Delete`, `Record`, `Unlink`); and ends by
a key, a signal or the loss of its terminal (`Quit`, `Signal`, `HangUp`), to close the
database (`Close`), say so (`Restarting`) and start the unit (`StartUnit`). The repair
reads the index, walks the files, looks at what it found, and moves each bad file
aside (`Move`) before it drops its row (`Forget`); it records that at the end.
The disk has lost files or parts of them at the beginning. The variables `between` and
`met` are history: a program asked while the unit was between two servers; it had the
database open while there was one.

What it shows: a program that works meets a server in just two ways, which no
question it asks could see (`ServerMeetsOnlyThus`): the unit was between two servers, or being
stopped by another, when it asked; or a session that had stopped it started it
again. (That is among sessions, repairs and systemd. Nobody else starts the unit, or a server
by hand, after a program has asked: nothing in the code could see that.) Unless a server was met, a repair leaves no row without its good
file, and what a repair that was cut short left is found by the next
(`RepairFindsAll`), and no good file is lost (`GoodBytesStay`). The board
comes back after every session whose terminal is there
(`BoardComesBackOnATerminal`); without, see the findings.

### Download and Upload

A blob is a sequence of pieces. `Download` has `board get`: `BeginGet` hashes what
`FILE.part` holds, `AskSize` asks for the size, `Open` for the rest with a `Range`, `Copy`
and `Break`, `Sync`, and `Mismatch` or `Rename`; `Kill`, `PowerFails` and `Damage` befall
it. What was not synced may be lost or damaged by a power failure, and a rename undone.
`Upload` adds `board put` and the board's side of it, one command at a time: `Digest`
hashes the file, each try opens it again (`ReceiveBody` takes it as it is then),
`Resend` and a stale signature start another, and earlier tries may still land. `Edit` is
the file's owner, `Evict` the board.

What they show: the board stores under a hash only what has it, and what `put` printed was
stored (`StoredUnderItsHash`); `FILE` is the whole blob or nothing (`FileIsTheBlob`);
whoever keeps resuming gets there once the blob stays (`ResumedDownloadsArrive`).

## The runs

| Run | Instance | What it shows |
|---|---|---|
| `keys` | 3 keys, 3 names of which two look alike, `REGISTER_OPEN_MAX` 2, 7 events, one command of the owner at a time; symmetry on keys and on the two names | all of `Keys`' and `OwnerCommands`' properties, the refinement, and the assumptions about `Names` |
| `signed_write` | a post of 2 events that references a blob; or two of three registrations of one key: two under one client key, two for one name, two for two; 2 signatures, 1 resend, 3 events | all of `SignedWrite`'s, the refinement and liveness included |
| `blobs` | 2 blobs of sizes 1 and 2, cap 2, 2 uploads, a delete, a download, 2 holders, 2 instants | all of `Blobs`' |
| `watch` | a client, 2 names, 3 events, pages of 2, from the head or the cursor 2, three subscriptions | all of `Watch`'s, liveness included |
| `reads` | 11 commands, boards with a thread, a note and a queue, or two queues; pages of 2, tails of 1, 5 events | `ReadsAreWhole` |
| `tree` | 2 names, one of them the owner's; a container with a thread and a container, in that a note or a queue; 4 rows, 7 events | all of `Tree`'s |
| `http` | a client with 2 requests of 10 kinds and one with an upload, for 1 slot; bodies of at most 2 pieces, of which 1 is allowed | all of `Connection`'s, liveness included |
| `server` | 6 kinds of file, an owner, none or a revoked key at each start; a write, a form, a read, a poll; 2 faults, 1 stop, the file held once by another | all of `Server`'s, the refinement of `Service` with its liveness included |
| `maintenance` | 2 sessions, the repair; 2 starts of the repair, 1 fault, 1 blob | all of `Maintenance`'s, liveness included |
| `transfers` | a blob of 2 pieces, 1 upload of 2 signatures and 1 resend, 2 edits, 1 write, 2 faults, any number of downloads | all of `Upload`'s and `Download`'s, liveness included |
| `blobs_delete_race`, `wait_hang` | one property each | a counterexample to what the documentation says; see below |

### The bounds and why they are enough

- `MaxHead`, in `Reads` `MaxEvents`, bounds the events. In `keys`, seven allow the longest story that
  matters: an owner, two registrations for one name, an approval with its
  declined rival, a second registration, a revocation and a new owner. The
  theorems say the rest for every bound. In `signed_write` 3 events
  are the post's two and a change before it, or a change before each of its tries, or both
  registrations with a decline between them.
  In `watch` 3 events make an item, its resolution
  and its archiving, or a full page and one event after it, or a client whose
  cursor (2) is ahead of the head. In `reads` 5 events make two full pages and an event
  between them.
- Keys: three are the owner, a holder and a rival. Symmetry permutes keys,
  and the two names that look alike, which leaves `Near` as it is; the run
  has safety properties only.
- Retries: `NONCE_TRIES` 2 (the code has 8) and `WRITE_RETRIES` 1 (the
  code has 3) let each counter run out, alone and together; a command then has
  two or three requests on their way at once, of one nonce or of several. A post and a
  registration have nothing in common but the head, and share a client key as two
  registrations do, so they do not run together; the theorems are about any commands.
- Blobs: one blob fills the cap and one does not, so that landing one evicts the
  other; two uploads suffice for each race with the lock and the reservation. `MaxTime`
  2 and `Grace` 1 give blobs within and past the grace.
- Watch: clients only read, and none sees another, so one client is enough.
- Tree: the paths have the greatest depth the code lets a tree have (containers
  two deep, and something in the second). Seven events make the whole tree and two
  versions of a note besides; or a thread with a message, its archiving and a
  delete; or a queue (4 events), an item, its resolution and its archiving. A branch
  deleted and made again, with the row numbers of the first, fits too.
- Connection: two requests are one left unread and the one that would be misread
  from it; bodies of two pieces are longer than the limit, and longer than what
  `linger` reads; one slot is the limit for two clients.
- Server: two faults are a failed operation with a failed rollback or a crash
  in the start after a crash; the write and the form contend for the mutex; an owner, none and a revoked
  key are changes of the settings between two starts.
- Maintenance: two sessions, or one and the repair, are the two programs of each
  race; one fault makes each step fail alone, and two starts of the repair let one make good
  what the other left. Blobs do not see each other.
- Transfers: two pieces are a part that is half there; a damaged part that is resumed and a
  power failure are two faults.
- Deadlock is not checked where a bound on events, faults or starts ends every
  behaviour (`keys`, `tree`, `reads`, `server`, `maintenance`), where all
  commands may have ended (`signed_write`), and where every client has left (`http`).

### Fairness

- `SignedWrite`: while a command has a step of its own, some command takes one (weak). Its waits
  have timeouts (`WRITE_TIMEOUT`), so a command that has not ended always has a step. Nothing is assumed of
  the network or the board.
- `Blobs`: weak fairness of each upload's steps: the threads run and each wait for
  the body has a deadline.
- `Watch`: the server is started again (weak): the service manager does it after a
  failure (`Restart = "on-failure"`, `home-manager/ai.nix`), and board-admin or the operator
  after a stop; a client whose poll is
  dead times out (weak); a poll's time runs out (weak); asking, finding and reading
  are strongly fair: answers and servers are lost any number of times, but not
  every time. Without that last assumption no protocol could deliver anything.
- `Connection`: weak fairness of each connection's thread: every read and write of it has
  a timeout (`CLIENT_TIMEOUT`), and so has a poll. Nothing is assumed of the clients.
- `Server`: systemd restarts a failed unit, `run` goes on, the thread of the signal acts,
  requests' threads go on, and another program lets go of the file (all weak). The
  mutex is held for one request after another, so none waits for ever in the run's bounds.
- `Maintenance`: systemd does what it is told, and a session goes on except where its
  user must (weak). Nothing is assumed of the repair.
- `Upload`: the user goes on trying, and the commands' steps are taken, but for what breaks
  off a transfer (weak); such faults are bounded.

## What the runs found

Two are runs that end in a counterexample:

1. `blobs_delete_race`: "a row never exists without its durable file"
   (`bin/board-server/blobs.rs:17`), but a delete unlinks the file after its row is
   gone and outside the commit lock; an upload of the same bytes that lands in
   between loses its file. `RowKeepsFile` shows that this is the only way.
2. `wait_hang`: `board wait` blocks "until `item` is no longer open"
   (`bin/board/watch.rs:196`), but it waits for the resolving event, which a
   poll hides once the item is archived: resolved and archived between two polls,
   the wait never ends (without `--timeout`).

The others are definitions whose comment says that the code breaks them. Put the one named
in place of the properties of its configuration to see its counterexample.

3. `ResendReturnsFirstResult` (INVARIANT, `signed_write.cfg`): "a resend of a write that landed returns the first result"
   (`store.rs:34`), but a registration's outcome is read from the key as it is at the resend,
   so after a decline and a second registration the first is told the name of the second.
4. `MissingIsBroken` (INVARIANT, `blobs.cfg`): a download that read the row before an
   eviction opens the file after it, and reports the broken store that `BlobMissing`
   documents as "an invariant broken, not a state" (`store.rs:274`).
5. `EvictsForRoom` (PROPERTY, `blobs.cfg` with `Blob <- MCThree`, `Size <- MCSize`,
   `Cap = 4`): eviction comes "only under upload pressure" (`store/blobs.rs:32`), but an
   upload that has written its row counts as promised too until its place is dropped, and
   the next landing may evict though all fits. It errs on the safe side of the cap.
6. `BoardComesBack` (PROPERTY, `maintenance.cfg`): "any way out of it ... brings the board
   back" (`bin/board-admin/main.rs:377`), but the line "restarting" is written before the
   unit is started, and an error of that ends the program: a session whose terminal has
   closed leaves the board down.
7. `ReadingOnMissesNothing` (INVARIANT, `reads.cfg`): an entry that is unarchived between
   two pages of a read is before the second page, and its event before the head that page
   begins with: neither the pages nor the watch after them has it.
8. `ProtocolErrorsAreAnswered` (INVARIANT, `http.cfg`): an error of the protocol is
   answered and the connection closed at once, with the body unread; unlike an upload's,
   this close does not linger, and the answer may be destroyed.
9.  `MentionsAreTakenBack` (INVARIANT, `watch.cfg`): an archive event is told "so that a
    watcher can drop what it heard" (`store/poll.rs:15`), but the event itself mentions nobody:
    a watcher that heard a message or an item only because it mentions someone is not told
    that it was archived.
10. `FormsAreRefusedOrMade` (INVARIANT, `server.cfg`): a form of the web view is answered with
    "the piece of page it changed, or the refusal" (`bin/board-server/web.rs:332`), but its write
    is committed before the board is read again for the piece of page: a close, a fault, a busy
    file ("nothing was written, try again") or a bad parameter found then is the answer to a write
    that stands. The page keeps the client key of such a form (`static/board-sign.js`), so
    sending it again makes nothing twice.

Seen while modelling, and left out of the models: `brief` drops the mark that
its lists of items were cut, so a brief of more than `READ_ROWS_MAX` items looks complete
(`Reads` takes it as it is, and excepts it); a list of blobs whose last blob is evicted
between two pages ends early; the database "is only written to once the server is gone"
(`bin/board-admin/main.rs`) has the two exceptions of `ServerMeetsOnlyThus`; two
`board get` into one FILE share its `FILE.part`.

## What is proved

Eight modules hold theorems, each about one specification, two or three, for all values of their
constants that their assumptions allow. Of each specification they prove the type invariant, an
inductive invariant, and from it every safety invariant and action property that a run checks of
it, so that no safety property is only model-checked. TLC checked each inductive invariant on
the instance of the run before it was proved. An assumption says no more of a constant than the
code does: that a limit is a number, that a size is not zero, which values a
configuration may have.

`BlobsProofs` extends `Blobs` and `Upload`, and `WatchProofs` extends `Watch` and `Reads`. So the
names in `Download`, `Upload` and `Reads` are kept apart from those of the other two: their
specifications are `TransferSpec` and `ReadsSpec`.

| Module | Theorems beside `TypeCorrect` and `InvAlways` | For |
|---|---|---|
| `KeysProofs` | `NamesAreUnique`, `RevocationIsFinalInTheLog`, `TrustIsEarned`, `RegistrationsPairOff`, `QueueFollowsTheOwner`, `RevocationIsForGood`, `OwnerDecides`; `KeysImplementTheDirectory`, a refinement; of `OwnerCommands`: `CommandTypeCorrect`, `CommandInvAlways`, `CommandsAreWrites`, `TheOwnerGetsWhatWasSeen` | any keys and names, infinitely many too; any symmetric irreflexive `Near` |
| `TreeProofs` | `NothingEverDangles`, `ColumnsFollowTheLog`, `UpdatesAreNotLost` | any paths, three deep; any names, one of them the owner's |
| `SignedWriteProofs` | `ClientKeysAreUnique`, `RefusalsAreFinal`; `SignedWritesAreOnce`, a refinement | any commands, keys, blobs and limits; a registration is one event and references nothing |
| `BlobsProofs` | `PinsHold`, `TheCapHolds`, `NothingLeaks`, `OnlyDeletesTakeFiles` | finitely many blobs and uploads, sizes that are not zero |
| `BlobsProofs`, of `Upload` and `Download` | `FileIsTheBlobAlways`, `StoredUnderItsHashAlways`; types: `TransferTypes` | a blob of any length but zero, any number of tries, uploads, edits and faults |
| `WatchProofs` | `NothingIsToldTwice`, `NothingIsLeftBehind`, `ArchivedIsTakenBack` | any clients and names, subscriptions to anything at all, any page size but zero |
| `WatchProofs`, of `Reads` | `ReadsAreWholeAlways`; types: `ReadTypes` | any commands, trees and logs, answers cut anywhere, any `READ_ROWS_MAX` and `THREAD_TAIL` but zero |
| `ConnectionProofs` | `RequestsAreServedInOrder`, `NoSlotIsLost`, `EarlyAnswersAreNotDestroyed` | any clients, any requests of any length |
| `ServerProofs` | `AnswersStayTrue`, `TheFileIsLetGo`, `TheBoardIsWhole`, `OthersStayAsTheyAre`; `ServerTakesServiceSteps`, the refinement of `Service` but for its liveness | any requests and owners, any schema version over 1, any files that may have been left |
| `MaintenanceProofs` | `ServerIsMetOnlyThus`, `RepairsFindAll`, `NoGoodFileIsLost`, `SessionsEndStarted` | any sessions and blobs |

The arguments:

**Keys.** None of the invariants is inductive alone, but their
conjunction is. That names are unique after an approval
needs that what `approve` revokes is all of the name's holders but the owner, and
that the owner's name is not the pending one's, which the approval checks anew. That
pending keys and open items pair off is needed by `Approve` (which declines the
rivals' items by their keys) and by `Decline` (which finds the key by its
item), and each keeps it for the other. `NothingAfterRevocation` needs that only
bound and registering keys sign, that a revoked key is neither (`RevokedByTheTrustList`),
and that ids only grow. `TrustedWasApproved` rests on the order of three ids of
a key, collected in the lemma `TrustedFacts`, and `TrustedStays` carries it through
each step that does not touch the key. `OwnerDecides` uses
`RegisterQueueIsTheOwners`: the code compares names, and the proof shows that the
queue's owner name has just one live key. The refinement maps `Approve` to `Grant`, `Revoke`
to `Withdraw`, `SetOwner` to `Appoint` or a stutter, and the rest to a stutter. A command of the
owner takes steps of `Keys` (`CommandsAreWrites`), so all of that holds of it; `SeenInv` is what
its list is still good for: while the registration it picked waits, every key trusted with
the name is one it showed.

**Tree.** The invariant says of each row what it says of others: a node is in the container its
path says, and the event that made it is there (`NodeOK`); an event's node was made no later
than it (`EventOK`), so a row number that is used again has none of the earlier events; versions
of a note count up in the order of their ids (`VersionOK`); an archived column is the last
archive event about its row (`ArchivedOK`); an item has its filing and its
resolution (`ItemOK`); and what a writer has read is a version of a note that is gone, or of
the one still there (`SeenOK`). Writes append, and have one lemma for what stays
(`AppendInv`); deletes have another (`RowsGo`), that asks that what goes has all that
points into it.

**SignedWrite.** A command signs over heads the board has had (`NoncesWereHeads`), and the try it
waits for is its last (`TriesAreCounted`). `AnswerStands` is what makes a refusal
final: none of the requests still on their way can make the write, whatever blobs come (`Hopeless`), as
what stands against it is for good or is lifted only by an event, which moves the head
(`HopelessStays`). Of a refusal for a missing blob it says nothing, as there is nothing to say. The refinement is by
cases: `Make` is the one step that makes a write, and what a command then tells is what
the invariant says of its answer.

**Blobs.** `UploadFollows` says who has the lock and what is gone of a plan, `RoomIsMade` that once
an upload has made its room nobody takes it, which `TheCapHolds` needs at the landing. Sums
are over finite sets, and what adding or taking one element does to them is proved by a least
counterexample (`SubsetInduction`, from the library's well-founded orders): the set of
the good subsets is a parameter the provers take, where an operator is not.

**Download and Upload.** That the file is the blob needs that what the command
compares, the hash it made as it copied, is that of what lies in the part, and that the part is synced
when it is renamed (`PartIsHashed`): what an earlier run left is hashed as it is found. That
what is stored has its hash needs what the requests on their way are (`RequestsAgree`): those
of the upload that runs carry the hash it signed, those of earlier uploads may carry another,
and what is about to land has been hashed to what it was sent under; and what an answer says
(`RepliesAreTrue`): one that says "stored" reaches only an upload whose hash has landed.

**Reads.** `ReadsAreWhole` speaks of what was printed, at the end of a page; the invariant
`RInv` says at each place before it what the reader owes. `ReadFollows`: what is due up to the
place a read starts from is printed; what is due up to the cursor it will print is printed, in the
answer or older than a tail's; and what became of an entry since the answer is after that
cursor, as the head was read first. `ListFollows`: an entry that was there when the command
began is printed, in the answer, or after a hint, of which the smallest is taken.
`BriefFollows` is the same for a brief. A write keeps all of it (`GrownRInv`), as an event
only ever makes less due (`GrownKeeps`): it comes after every cursor, and an entry that it
archives or shows again is no longer steady. What cutting keeps is in `PageIs`:
an answer leaves out only what is on one side of what it has.

**Watch.** A cursor has passed nothing that its client did not hear or a scan did not see
hidden (`HeardFollows`, `PageFollows`, `ScanFollows`, one for each place what is read can be), and the
archive event that hides a row is the last about it and after all else (`ArchivedLast`), so a
cursor that is past it has passed it as news.

**Connection.** What is on the wire, with what is still to be sent, is the rest of what
the client sends after what was taken (`WireFollows`): `Rest` has the place where each request
begins. That it stays so as heads and bodies are put and taken is four lemmas about sequences
(`TakeAHead`, `TakeABody`, `PutAHead`, `PutABody`). Slots are counted by
cardinality (`SlotsFollow`).

**Server.** A request's place tells who has the mutex and the file (`LocksAreHeld`) and what
was written and told (`WritesFollow`); the stages of a start tell what the file has
(`StagesFollow`), whatever an earlier start left.

**Maintenance.** A program that has gone on since it asked has a unit that is down, or one of
the two exceptions holds (`QuietWhileAtWork`), which stays so as only a session that stopped the
unit starts it. While nobody has met the server, rows and files are as the repair saw them,
or are gone (`TheRepairIsRight`), and what a session has deleted stays
deleted until its file is removed (`TheDeletedStayDeleted`). Three lemmas say
what a step of the service, of a session and of the repair may do at all
(`ServicesMay`, `SessionsMay`, `RepairsMay`), and the rest uses little else. `SessionsEndStarted`
is the safety in `BoardComesBackOnATerminal`: no way out of a session leads past the start of
the unit it stopped.

Model-checked only:

- liveness, which needs fairness and ENABLED and is out of the prover's reach:
  `EveryCommandEnds`, `LandingEnds`, `NewsArrives`, `ConnectionsEnd`, `ResumedDownloadsArrive`,
  `BoardComesBackOnATerminal`, and the liveness of `ImplementsService`;
- `Names`: what its recursive functions compute for every pair of words would be an
  induction over data, and the run `keys` evaluates it for short ones.

No module uses a RECURSIVE operator: `Names` and `Total` are recursive functions.

## What is not modelled, and why

- Signatures, the syntax of requests, formatting and pages are functions of data the
  models keep opaque. The models take it that a signature verifies only for its signer
  and its nonce.
- SQLite's transactions are atomic and durable steps (`synchronous` is SQLite's
  default, FULL). `Server` has what may fail around them.
- In `Blobs`: the disk reserve (one more refusal), and the list of blobs.
- In `Server`: the port and the lock on the blob directory are faults of a start, like a
  full disk. In `Connection` the process does not end; that is `Server`'s.
- In `Maintenance`: a SIGKILL of a session, of which nothing is promised. The screens of
  board-admin are presentation.
- `create -p` writes one node after another and can be run again; two writers
  of one path are `Tree`'s. The identity of a client is a file made once.
- `claude-sandbox.py` is correct if flock, cgroups and `prctl` do what it takes them to;
  nothing of that is in the repository. `update-pins.py` and the reconciler of
  `witcher-corpus` are sequential scripts around other programs' state.
- The NixOS configuration declares and does not behave, but for the restart
  of the unit, which `Service` has.

## The plan

The theorems cover every safety property that the runs check. What is left:

1. `Reads` with more than the one container "home", and containers in it.
2. Two `board get` into one FILE, which `Download` takes to be its user's to avoid.
