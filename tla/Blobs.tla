-------------------------------- MODULE Blobs --------------------------------
(***************************************************************************)
(* The blob store: the index in the database (store/blobs.rs), the files   *)
(* beside it (blobdir.rs), and the uploads, downloads and deletes of the   *)
(* server's threads that keep the two together (bin/board-server/blobs.rs).*)
(*                                                                         *)
(* A step is one database transaction, one file operation, or one critical *)
(* section of the server's own locks: `commit`, held while an upload lands,*)
(* and that of `reserved`.  Neither is held by the delete of a blob.       *)
(*                                                                         *)
(* Not modelled: signatures, keys and nonces (SignedWrite.tla), the disk   *)
(* reserve (check_reserve: one more reason to refuse an upload), and the   *)
(* order of blobs uploaded in one instant, which is any order here.        *)
(***************************************************************************)
EXTENDS Integers, FiniteSets, FiniteSetsExt

CONSTANTS Blob,       \* contents, by hash
          Size,       \* the bytes of each
          NoBlob,
          Holder,     \* messages, items and note versions, each with one reference
          Upload,     \* the threads that serve uploads
          NoUpload,
          Deleter,    \* the threads that serve deletes
          Reader,     \* the threads that serve downloads
          Cap,        \* Limits::cap
          Grace,      \* Limits::grace
          UploadsMax, \* UPLOADS_MAX
          MaxTime     \* bound: the last instant

ASSUME BlobsAssumption ==
  /\ IsFiniteSet(Blob) /\ IsFiniteSet(Upload)
  /\ Size \in [Blob -> Nat \ {0}]
  /\ NoBlob \notin Blob /\ NoUpload \notin Upload
  /\ Cap \in Nat /\ Grace \in Nat /\ UploadsMax \in Nat /\ MaxTime \in Nat \ {0}

VARIABLES
  \* durable
  ts,        \* blobs.ts: when each blob was last uploaded; 0 for one without a row
  files,     \* the blobs with a file
  refs,      \* blob_refs: the blob each holder references, or NoBlob
  holder,    \* each holder: "none", "live", "archived", or "over" for good
  \* of the process
  now,       \* the clock
  pc,        \* where each upload is
  hash,      \* the blob it uploads
  victims,   \* the evicted blobs whose files it has yet to unlink
  others,    \* what it found the others to have promised
  commit,    \* the upload that holds the commit lock, or NoUpload
  reserved,  \* the bytes promised to the uploads in flight
  slots,     \* the number of them
  doomed,    \* the blob each delete has yet to unlink
  asked      \* the blob each download has found a row of

durable == <<ts, files, refs, holder>>
uploadVars == <<pc, hash, victims, others, commit, reserved, slots>>
vars == <<ts, files, refs, holder, now, pc, hash, victims, others, commit, reserved, slots, doomed, asked>>

PC == {"idle", "receive", "received", "survey", "evict", "unlink", "land", "over"}

\* Each variable has values of its kind.
TypeOK ==
  /\ ts \in [Blob -> 0..MaxTime]
  /\ files \subseteq Blob
  /\ refs \in [Holder -> Blob \cup {NoBlob}]
  /\ holder \in [Holder -> {"none", "live", "archived", "over"}]
  /\ now \in 1..MaxTime
  /\ pc \in [Upload -> PC]
  /\ hash \in [Upload -> Blob \cup {NoBlob}]
  /\ victims \in [Upload -> SUBSET Blob]
  /\ others \in [Upload -> Nat]
  /\ commit \in Upload \cup {NoUpload}
  /\ reserved \in Nat
  /\ slots \in Nat
  /\ doomed \in [Deleter -> Blob \cup {NoBlob}]
  /\ asked \in [Reader -> Blob \cup {NoBlob}]

Idle ==
  /\ pc = [u \in Upload |-> "idle"]
  /\ hash = [u \in Upload |-> NoBlob]
  /\ victims = [u \in Upload |-> {}]
  /\ others = [u \in Upload |-> 0]
  /\ commit = NoUpload
  /\ reserved = 0
  /\ slots = 0
  /\ doomed = [d \in Deleter |-> NoBlob]
  /\ asked = [r \in Reader |-> NoBlob]

Init ==
  /\ ts = [b \in Blob |-> 0]
  /\ files = {}
  /\ refs = [h \in Holder |-> NoBlob]
  /\ holder = [h \in Holder |-> "none"]
  /\ now = 1
  /\ Idle

-----------------------------------------------------------------------------
\* The index.

Rows == {b \in Blob : ts[b] # 0}

\* The sum of f over S.
Total(f, S) == MapThenSumSet(LAMBDA x : f[x], S)

Bytes(B) == Total(Size, B)

\* live(): what pins a blob is a holder that is neither archived nor over.
Pinned(b) == \E h \in Holder : refs[h] = b /\ holder[h] = "live"

\* What a blob, and so a reference to it, stands at now.
StateOf(b) == IF b \notin Rows THEN "gone" ELSE IF Pinned(b) THEN "pinned" ELSE "released"

\* candidates(): unpinned, and past the grace.
Candidates == {b \in Blob : StateOf(b) = "released" /\ ts[b] <= now - Grace}

\* How many bytes must go for `needed` more to fit beside `promised`.
Over(promised, needed) == Bytes(Rows) + promised + needed - Cap

\* victims_needed(), one too few.
Victims_OneShort(promised, needed) ==
  {V \in SUBSET Candidates :
     \E v \in Candidates : /\ Bytes(V) < Over(promised, needed)
                          /\ Bytes(V \cup {v}) >= Over(promised, needed)
                          /\ \A w \in V : ts[w] <= ts[v]}
    \cup {V \in {{}} : Over(promised, needed) <= 0}

\* victims_needed(): the candidates that go, the oldest first and no more
\* than it takes.  There is no such set if all of them are not enough.
Victims(promised, needed) ==
  {V \in SUBSET Candidates :
     /\ Bytes(V) >= Over(promised, needed)
     /\ \A v \in V, c \in Candidates \ V : ts[v] <= ts[c]
     /\ V # {} => \E v \in V : /\ \A w \in V : ts[w] <= ts[v]
                               /\ Bytes(V \ {v}) < Over(promised, needed)}

\* Time passes.
Tick ==
  /\ now < MaxTime
  /\ now' = now + 1
  /\ UNCHANGED <<durable, uploadVars, doomed, asked>>

\* A body is written: record_refs() checks that the blob has a row.
Hold(h, b) ==
  /\ holder[h] = "none"
  /\ b \in Rows
  /\ holder' = [holder EXCEPT ![h] = "live"]
  /\ refs' = [refs EXCEPT ![h] = b]
  /\ UNCHANGED <<ts, files, now, uploadVars, doomed, asked>>

\* The owner archives the holder.
Archive(h) ==
  /\ holder[h] = "live"
  /\ holder' = [holder EXCEPT ![h] = "archived"]
  /\ UNCHANGED <<ts, files, refs, now, uploadVars, doomed, asked>>

\* Mutant: what is archived comes back whether its blobs are there or not.
CanUnarchive_Always(h) == TRUE

\* check_unarchive(): not if its file is gone.
CanUnarchive(h) == refs[h] \in Rows

Unarchive(h) ==
  /\ holder[h] = "archived"
  /\ CanUnarchive(h)
  /\ holder' = [holder EXCEPT ![h] = "live"]
  /\ UNCHANGED <<ts, files, refs, now, uploadVars, doomed, asked>>

\* A note is saved again, in one transaction: the pin of its earlier version
\* goes, that of the new one comes.
Supersede(old, h, b) ==
  /\ holder[old] = "live"
  /\ holder[h] = "none"
  /\ b \in Rows
  /\ holder' = [holder EXCEPT ![old] = "over", ![h] = "live"]
  /\ refs' = [refs EXCEPT ![h] = b]
  /\ UNCHANGED <<ts, files, now, uploadVars, doomed, asked>>

\* An item is resolved, or a message deleted.
Retire(h) ==
  /\ holder[h] = "live"
  /\ holder' = [holder EXCEPT ![h] = "over"]
  /\ UNCHANGED <<ts, files, refs, now, uploadVars, doomed, asked>>

-----------------------------------------------------------------------------
\* An upload: put(), begin(), receive(), land().

Goto(u, place) == pc' = [pc EXCEPT ![u] = place]

\* The bytes are stored already: only their time is refreshed.
BeginExisted(u, b) ==
  /\ pc[u] = "idle"
  /\ b \in Rows
  /\ ts' = [ts EXCEPT ![b] = now]
  /\ UNCHANGED <<files, refs, holder, now, uploadVars, doomed, asked>>

\* The upload fits, perhaps by evicting, and gets a slot and its bytes
\* promised, all under the lock of `reserved`.  Otherwise it is refused.
Begin(u, b) ==
  /\ pc[u] = "idle"
  /\ b \notin Rows
  /\ Victims(reserved, Size[b]) # {}
  /\ slots < UploadsMax
  /\ reserved' = reserved + Size[b]
  /\ slots' = slots + 1
  /\ hash' = [hash EXCEPT ![u] = b]
  /\ Goto(u, "receive")
  /\ UNCHANGED <<durable, now, victims, others, commit, doomed, asked>>

\* The body is in a temp file, synced, and has the hash that was signed.
Receive(u) ==
  /\ pc[u] = "receive"
  /\ Goto(u, "received")
  /\ UNCHANGED <<durable, now, hash, victims, others, commit, reserved, slots, doomed, asked>>

\* It is not, or the client is gone, or past its deadline.
ReceiveFails(u) ==
  /\ pc[u] = "receive"
  /\ Goto(u, "over")
  /\ UNCHANGED <<durable, now, hash, victims, others, commit, reserved, slots, doomed, asked>>

\* Take the commit lock, and see whether the bytes landed meanwhile.
Lock(u) ==
  /\ pc[u] = "received"
  /\ commit = NoUpload
  /\ IF hash[u] \in Rows
     THEN /\ ts' = [ts EXCEPT ![hash[u]] = now]
          /\ Goto(u, "over")
          /\ UNCHANGED commit
     ELSE /\ commit' = u
          /\ Goto(u, "survey")
          /\ UNCHANGED ts
  /\ UNCHANGED <<files, refs, holder, now, hash, victims, others, reserved, slots, doomed, asked>>

\* others()
Survey(u) ==
  /\ pc[u] = "survey"
  /\ others' = [others EXCEPT ![u] = reserved - Size[hash[u]]]
  /\ Goto(u, "evict")
  /\ UNCHANGED <<durable, now, hash, victims, commit, reserved, slots, doomed, asked>>

\* Mutant: an eviction keeps the rows of its victims.
Without_Nothing(V) == ts

\* The index without the rows of V.
Without(V) == [b \in Blob |-> IF b \in V THEN 0 ELSE ts[b]]

\* blob_make_room(): the plan is made again, and its rows are deleted.
MakeRoom(u) ==
  /\ pc[u] = "evict"
  /\ \E V \in Victims(others[u], Size[hash[u]]) :
       /\ ts' = Without(V)
       /\ victims' = [victims EXCEPT ![u] = V]
  /\ Goto(u, "unlink")
  /\ UNCHANGED <<files, refs, holder, now, hash, others, commit, reserved, slots, doomed, asked>>

\* The file of a victim goes, or cannot be deleted.
Unlink(u) ==
  /\ pc[u] = "unlink"
  /\ \E v \in victims[u] :
       /\ victims' = [victims EXCEPT ![u] = @ \ {v}]
       /\ files' \in {files, files \ {v}}
  /\ UNCHANGED <<ts, refs, holder, now, pc, hash, others, commit, reserved, slots, doomed, asked>>

\* The rename, and the sync of its directory.
Place(u) ==
  /\ pc[u] = "unlink"
  /\ victims[u] = {}
  /\ files' = files \cup {hash[u]}
  /\ Goto(u, "land")
  /\ UNCHANGED <<ts, refs, holder, now, hash, victims, others, commit, reserved, slots, doomed, asked>>

\* The row is written, and the lock let go.
Land(u) ==
  /\ pc[u] = "land"
  /\ ts' = [ts EXCEPT ![hash[u]] = now]
  /\ commit' = NoUpload
  /\ Goto(u, "over")
  /\ UNCHANGED <<files, refs, holder, now, hash, victims, others, reserved, slots, doomed, asked>>

\* Mutant: a landing that fails keeps the commit lock.
FailedLock_Kept(u) == commit

\* Who has the commit lock once the landing of u failed: no more u.
FailedLock(u) == IF commit = u THEN NoUpload ELSE commit

\* A step of the landing fails: no room after all, a fault of the database,
\* or of the file system, before the rename or after it.
LandingFails(u) ==
  /\ \/ pc[u] \in {"received", "evict", "land"} /\ UNCHANGED files
     \/ pc[u] = "unlink" /\ victims[u] = {} /\ files' \in {files, files \cup {hash[u]}}
  /\ commit' = FailedLock(u)
  /\ Goto(u, "over")
  /\ UNCHANGED <<ts, refs, holder, now, hash, victims, others, reserved, slots, doomed, asked>>

\* Mutant: an upload gives back its slot, and not the bytes it was promised.
GiveBack_SlotOnly(u) == slots' = slots - 1 /\ UNCHANGED reserved

\* The bytes and the slot of an upload are given back.
GiveBack(u) == slots' = slots - 1 /\ reserved' = reserved - Size[hash[u]]

\* Place::drop, whichever way the upload ends.
Drop(u) ==
  /\ pc[u] = "over"
  /\ GiveBack(u)
  /\ Goto(u, "idle")
  /\ hash' = [hash EXCEPT ![u] = NoBlob]
  /\ others' = [others EXCEPT ![u] = 0]
  /\ UNCHANGED <<durable, now, victims, commit, doomed, asked>>

UploadStep(u) ==
  \/ Receive(u) \/ ReceiveFails(u) \/ Lock(u) \/ Survey(u) \/ MakeRoom(u) \/ Unlink(u)
  \/ Place(u) \/ Land(u) \/ LandingFails(u) \/ Drop(u)

-----------------------------------------------------------------------------
\* A delete: the row, unless it is pinned, then the file.

\* forget(): the row goes.
Forget(b) == ts' = [ts EXCEPT ![b] = 0]

DeleteRow(d, b) ==
  /\ doomed[d] = NoBlob
  /\ StateOf(b) = "released"
  /\ Forget(b)
  /\ doomed' = [doomed EXCEPT ![d] = b]
  /\ UNCHANGED <<files, refs, holder, now, uploadVars, asked>>

DeleteFile(d) ==
  /\ doomed[d] # NoBlob
  /\ files' \in {files, files \ {doomed[d]}}
  /\ doomed' = [doomed EXCEPT ![d] = NoBlob]
  /\ UNCHANGED <<ts, refs, holder, now, uploadVars, asked>>

\* A download: the row, then the file, which stays readable once open.
ReadRow(r, b) ==
  /\ asked[r] = NoBlob
  /\ b \in Rows
  /\ asked' = [asked EXCEPT ![r] = b]
  /\ UNCHANGED <<durable, now, uploadVars, doomed>>

OpenFile(r) ==
  /\ asked[r] \in files
  /\ asked' = [asked EXCEPT ![r] = NoBlob]
  /\ UNCHANGED <<durable, now, uploadVars, doomed>>

\* No file: the operator is told of a broken store (BlobMissing).
FindMissing(r) ==
  /\ asked[r] \in Blob \ files
  /\ asked' = [asked EXCEPT ![r] = NoBlob]
  /\ UNCHANGED <<durable, now, uploadVars, doomed>>

\* The process dies and starts again: temp files are purged.
Crash ==
  /\ pc' = [u \in Upload |-> "idle"]
  /\ hash' = [u \in Upload |-> NoBlob]
  /\ victims' = [u \in Upload |-> {}]
  /\ others' = [u \in Upload |-> 0]
  /\ commit' = NoUpload
  /\ reserved' = 0
  /\ slots' = 0
  /\ doomed' = [d \in Deleter |-> NoBlob]
  /\ asked' = [r \in Reader |-> NoBlob]
  /\ UNCHANGED <<durable, now>>

Next ==
  \/ \E u \in Upload : UploadStep(u) \/ \E b \in Blob : BeginExisted(u, b) \/ Begin(u, b)
  \/ \E h \in Holder : Archive(h) \/ Unarchive(h) \/ Retire(h) \/ \E b \in Blob : Hold(h, b)
  \/ \E old, h \in Holder, b \in Blob : Supersede(old, h, b)
  \/ \E d \in Deleter : DeleteFile(d) \/ \E b \in Blob : DeleteRow(d, b)
  \/ \E r \in Reader : OpenFile(r) \/ FindMissing(r) \/ \E b \in Blob : ReadRow(r, b)
  \/ Tick
  \/ Crash

\* The threads run, and every wait of an upload has its deadline.
Spec == Init /\ [][Next]_vars /\ \A u \in Upload : WF_vars(UploadStep(u))

-----------------------------------------------------------------------------
\* What pins a blob keeps its row, whatever eviction, deletes and unarchiving
\* do meanwhile: "the check and the write happen under the board's lock, so
\* no eviction or delete can come between them" (store/blobs.rs).
PinnedHasRow == \A h \in Holder : holder[h] = "live" => refs[h] \in Rows

\* The blobs stored never exceed the cap, though an upload is admitted before
\* its bytes are there and others are promised room meanwhile ("so that two
\* uploads that each fit do not both land in room for one").
WithinCap == Bytes(Rows) <= Cap

InFlight == {u \in Upload : pc[u] # "idle"}
Promised == [u \in InFlight |-> Size[hash[u]]]

\* What is promised is what the uploads in flight were promised, so no way an
\* upload can end leaks bytes or a slot.
PromisesAreCounted == reserved = Total(Promised, InFlight) /\ slots = Cardinality(InFlight)

\* The blobs that must have a file: those with a row, and those about to get
\* one.
Owed == Rows \cup {hash[u] : u \in {v \in Upload : pc[v] = "land"}}

\* A blob gets its row with its file in place, and keeps the file: only the
\* second half of a delete takes the file of a row.  ("A row never exists
\* without its durable file", bin/board-server/blobs.rs, but for that.)
RowKeepsFile ==
  [][\A b \in Blob : b \in Owed' /\ b \notin files' =>
       \/ b \in Owed /\ b \notin files
       \/ \E d \in Deleter : doomed[d] = b /\ doomed'[d] = NoBlob]_vars

\* A landing ends, so uploads do not wait for the commit lock for ever.
LandingEnds == commit # NoUpload ~> commit = NoUpload

\* "A row never exists without its durable file" (bin/board-server/blobs.rs).
RowHasFile == Rows \subseteq files

\* "A row without its file: an invariant broken, not a state" (store.rs): a
\* download is told of one only if that is what there is.
MissingIsBroken == \A r \in Reader : asked[r] \in Blob \ files => asked[r] \in Rows

\* "Only under upload pressure: an upload that does not fit evicts"
\* (store/blobs.rs): what is stored, with what is still to land, is over the
\* cap whenever a landing evicts.
EvictsForRoom ==
  [][LET ToLand == {u \in Upload : pc[u] \notin {"idle", "over"}} IN
     \A u \in Upload : pc[u] = "evict" /\ victims'[u] # {} =>
       Bytes(Rows) + Total(Promised, ToLand) > Cap]_vars
=============================================================================
