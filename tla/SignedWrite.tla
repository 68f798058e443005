----------------------------- MODULE SignedWrite -----------------------------
(***************************************************************************)
(* A signed write from end to end: the command that reads the board's      *)
(* head, signs over it and sends until it is answered (submit and          *)
(* send_once, bin/board/write.rs), the connections in between, and the     *)
(* steps the board takes it through in one transaction (Board::signed,     *)
(* store/actions.rs): replay, admit, nonce, apply.                         *)
(*                                                                         *)
(* A command sends a request on a connection of its own.  When it gives    *)
(* the connection up the request may still be on its way, and be served    *)
(* later; an answer to it reaches nobody.  A crash of the server loses     *)
(* requests and answers, and no event: a commit is synchronous.  So a      *)
(* crash is some Lose and TimeOut steps.                                   *)
(*                                                                         *)
(* Two writes are modelled: a post (a message, an item or its answer, a    *)
(* note), of as many events as Events says, and a registration, which also *)
(* reads and writes the state of its key.  A post is refused for what      *)
(* other writes made of the rows it is about, and for a blob it references *)
(* that the board has not: blobs come and go with no event, so with the    *)
(* head where it was.  The board's owner decides registrations and revokes *)
(* keys; Keys.tla has the whole of that, and Blobs.tla of the blobs.       *)
(***************************************************************************)
EXTENDS Integers, FiniteSets

CONSTANTS Writer,       \* the commands there can be, each with one write to make
          Together,     \* the sets of them that run beside each other
          Key,          \* the keys they sign with
          Name,         \* the names a registration can ask for
          NoName,       \* what a post asks for
          Nobody,       \* the writer of an event without a client key
          KeyOf,        \* the key of each command
          ClientKey,    \* the client key of each: a UUID, but for a command that reuses one
          Asks,         \* the name each asks for, or NoName for a post
          Events,       \* the number of events each appends
          Known,        \* the keys approved already
          Blob,         \* the blobs there can be
          Refs,         \* those the body of each post references
          NonceTries,   \* NONCE_TRIES
          WriteRetries, \* WRITE_RETRIES
          MaxHead       \* bound: the last event id

ASSUME SignedWriteAssumption ==
  /\ NoName \notin Name /\ Nobody \notin Writer
  /\ Together \subseteq SUBSET Writer
  /\ KeyOf \in [Writer -> Key]
  /\ Asks \in [Writer -> Name \cup {NoName}]
  /\ Events \in [Writer -> Nat \ {0}]
  /\ \A w \in Writer : Asks[w] # NoName => Events[w] = 1
  /\ DOMAIN ClientKey = Writer
  /\ Known \subseteq Key
  /\ Refs \in [Writer -> SUBSET Blob]
  /\ \A w \in Writer : Asks[w] # NoName => Refs[w] = {}
  /\ NonceTries \in Nat \ {0} /\ WriteRetries \in Nat /\ MaxHead \in Nat

VARIABLES
  \* the commands
  pc,        \* where each is
  nonce,     \* the head it signed over
  stale,     \* its signatures gone stale
  dropped,   \* its tries without an answer
  result,    \* the id and name it was told, at "done"
  \* the connections
  requests,  \* the requests on their way
  reply,     \* the answer to the try each command waits on, or NoReply
  \* the board
  head,      \* the highest event id
  writer,    \* events.client_key and request_hash: whose write each event is the first of
  state,     \* keys.state
  name,      \* keys.name
  item,      \* keys.item
  barred,    \* the posts the nodes, items and notes do not allow as they are
  blobs      \* the rows of blobs

clientVars == <<pc, nonce, stale, dropped, result>>
keyVars == <<state, name, item>>
rowVars == <<state, name, item, barred>>
vars == <<pc, nonce, stale, dropped, result, requests, reply, head, writer,
          state, name, item, barred, blobs>>

Id == 1..MaxHead
Posts == {w \in Writer : Asks[w] = NoName}
NoReply == [is |-> "none"]
Nothing == [id |-> 0, name |-> NoName]
Answer == [is : {"none", "stale-nonce", "refused", "unknown-blob", "busy"}]
            \cup [is : {"ok"}, id : Id, name : Name \cup {NoName}]
\* What a signed write carries: its command stands for the action, the client
\* key and the signer; the signature covers them and the nonce.
Request == [from : Writer, try : 0..(NonceTries + WriteRetries), nonce : 0..MaxHead]
Ended == {"done", "stale", "refused", "missing", "failed", "unreachable"}

\* Each variable has values of its kind.
TypeOK ==
  /\ pc \in [Writer -> {"read", "send", "wait"} \cup Ended]
  /\ nonce \in [Writer -> 0..MaxHead]
  /\ stale \in [Writer -> 0..NonceTries]
  /\ dropped \in [Writer -> 0..WriteRetries]
  /\ result \in [Writer -> [id : 0..MaxHead, name : Name \cup {NoName}]]
  /\ requests \subseteq Request
  /\ reply \in [Writer -> Answer]
  /\ head \in 0..MaxHead
  /\ writer \in [Id -> Writer \cup {Nobody}]
  /\ state \in [Key -> {"unknown", "pending", "trusted", "declined", "revoked"}]
  /\ name \in [Key -> Name \cup {NoName}]
  /\ item \in [Key -> 0..MaxHead]
  /\ barred \subseteq Posts
  /\ blobs \subseteq Blob

\* Those who may still ask the board for something, and the blobs they ask with.
\* What else is allowed, stored or approved comes to no answer, and stays as it is.
Asking == {w \in Writer : pc[w] \notin Ended \/ \E r \in requests : r.from = w}
Wanted == UNION {Refs[w] : w \in Asking}

\* A command that does not run is over.
Init ==
  /\ \E all \in Together : pc = [w \in Writer |-> IF w \in all THEN "read" ELSE "unreachable"]
  /\ nonce = [w \in Writer |-> 0]
  /\ stale = [w \in Writer |-> 0]
  /\ dropped = [w \in Writer |-> 0]
  /\ result = [w \in Writer |-> Nothing]
  /\ requests = {}
  /\ reply = [w \in Writer |-> NoReply]
  /\ head = 0
  /\ writer = [i \in Id |-> Nobody]
  /\ state = [k \in Key |-> IF k \in Known THEN "trusted" ELSE "unknown"]
  /\ name = [k \in Key |-> NoName]
  /\ item = [k \in Key |-> 0]
  /\ barred \in SUBSET (Posts \cap Asking)
  /\ blobs \in SUBSET Wanted

-----------------------------------------------------------------------------
\* The command: submit() and send_once().

Goto(w, place) == pc' = [pc EXCEPT ![w] = place]

\* GET /healthz, answered.
ReadHead(w) ==
  /\ pc[w] = "read"
  /\ nonce' = [nonce EXCEPT ![w] = head]
  /\ Goto(w, "send")
  /\ UNCHANGED <<stale, dropped, result, requests, reply, head, writer, rowVars, blobs>>

\* Sign and send.  The number of the try names its connection.
Send(w) ==
  /\ pc[w] = "send"
  /\ requests' = requests \cup {[from |-> w, try |-> stale[w] + dropped[w], nonce |-> nonce[w]]}
  /\ Goto(w, "wait")
  /\ UNCHANGED <<nonce, stale, dropped, result, reply, head, writer, rowVars, blobs>>

\* GET /healthz, answered with an error.
FailRead(w) ==
  /\ pc[w] = "read"
  /\ Goto(w, "failed")
  /\ UNCHANGED <<nonce, stale, dropped, result, requests, reply, head, writer, rowVars, blobs>>

\* Mutant: lost tries are not counted.
Retry_Forever(w) == Goto(w, "read") /\ UNCHANGED dropped

\* No answer, from /healthz or to the write: try again, a few times.
Retry(w) ==
  IF dropped[w] < WriteRetries
  THEN Goto(w, "read") /\ dropped' = [dropped EXCEPT ![w] = @ + 1]
  ELSE Goto(w, "unreachable") /\ UNCHANGED dropped

\* The connection breaks or times out; an answer on it is lost.
TimeOut(w) ==
  /\ pc[w] \in {"read", "wait"}
  /\ Retry(w)
  /\ reply' = [reply EXCEPT ![w] = NoReply]
  /\ UNCHANGED <<nonce, stale, result, requests, head, writer, rowVars, blobs>>

\* stale-nonce: read the head again, unless it was the last try.
ReceiveStale(w) ==
  /\ pc[w] = "wait"
  /\ reply[w].is = "stale-nonce"
  /\ stale' = [stale EXCEPT ![w] = @ + 1]
  /\ Goto(w, IF stale[w] + 1 = NonceTries THEN "stale" ELSE "read")
  /\ reply' = [reply EXCEPT ![w] = NoReply]
  /\ UNCHANGED <<nonce, dropped, result, requests, head, writer, rowVars, blobs>>

\* A success, or a refusal: the command ends.
ReceiveEnd(w) ==
  /\ pc[w] = "wait"
  /\ \/ /\ reply[w].is = "ok"
        /\ result' = [result EXCEPT ![w] = [id |-> reply[w].id, name |-> reply[w].name]]
        /\ Goto(w, "done")
     \/ /\ reply[w].is = "refused"
        /\ Goto(w, "refused")
        /\ UNCHANGED result
     \/ /\ reply[w].is = "unknown-blob"
        /\ Goto(w, "missing")
        /\ UNCHANGED result
     \/ /\ reply[w].is = "busy"
        /\ Goto(w, "failed")
        /\ UNCHANGED result
  /\ reply' = [reply EXCEPT ![w] = NoReply]
  /\ UNCHANGED <<nonce, stale, dropped, requests, head, writer, rowVars, blobs>>

Command(w) == ReadHead(w) \/ FailRead(w) \/ Send(w) \/ TimeOut(w) \/ ReceiveStale(w) \/ ReceiveEnd(w)

-----------------------------------------------------------------------------
\* The board: one step per transaction.

\* The write that used the client key of w before: replay().
Earlier(w) == {i \in Id : writer[i] # Nobody /\ ClientKey[writer[i]] = ClientKey[w]}

\* Mutant: a client key stands for its request, whatever is in it.
SameRequest_KeyOnly(w, i) == TRUE

\* request_hash(): it was made by this very request, whatever its nonce.
SameRequest(w, i) == writer[i] = w

\* Mutant: the nonce is checked before the client key is looked up.
Replayed_AfterNonce(r) == Earlier(r.from) # {} /\ r.nonce = head

\* The client key was used; this comes before the nonce is looked at.
Replayed(r) == Earlier(r.from) # {}

Registers(w) == Asks[w] # NoName

\* admit(): a post is by a trusted key, and anyone may try to register.
Admitted(w) == Registers(w) \/ state[KeyOf[w]] = "trusted"

\* check_nonce()
Current(r) == r.nonce = head

\* A registration like it waits already: it is the answer.
WaitsAlready(w) == Registers(w) /\ state[KeyOf[w]] = "pending" /\ name[KeyOf[w]] = Asks[w]

\* The guards of apply on the rows: a key that is unknown, or was declined,
\* registers; a post is where it may be, its item open, its note unchanged.
Allowed(w) == IF Registers(w) THEN state[KeyOf[w]] \in {"unknown", "declined"} ELSE w \notin barred

\* record_refs(), after them: the board has what the post references.
Stored(w) == Refs[w] \subseteq blobs

\* Only the first event of a write has its client key: Stamp::later().
Log(w) == [writer EXCEPT ![head + 1] = w]

\* The outcome of a registration names its key as it is now, in state n, not
\* as it was when the registration was made.
Outcome(w, i, n) == [is |-> "ok", id |-> i, name |-> IF Registers(w) THEN n[KeyOf[w]] ELSE NoName]

\* A write by one changes what is allowed to others, to any of them; a post
\* that was made is found by its client key before it is asked of again.
Affects(w) == barred' \in SUBSET ((Posts \cap Asking) \ {w})

\* Append the events of w, and file its registration if it is one.
Apply(w) ==
  /\ head + Events[w] <= MaxHead
  /\ head' = head + Events[w]
  /\ writer' = Log(w)
  /\ IF Registers(w)
     THEN /\ state' = [state EXCEPT ![KeyOf[w]] = "pending"]
          /\ name' = [name EXCEPT ![KeyOf[w]] = Asks[w]]
          /\ item' = [item EXCEPT ![KeyOf[w]] = head + 1]
          /\ UNCHANGED barred
     ELSE Affects(w) /\ UNCHANGED keyVars

\* The answer to request r, if its command still waits for it.
Respond(r, a) ==
  /\ requests' = requests \ {r}
  /\ reply' = IF pc[r.from] = "wait" /\ r.try = stale[r.from] + dropped[r.from]
              THEN [reply EXCEPT ![r.from] = a] ELSE reply
  /\ UNCHANGED clientVars

Tell(r, a) == Respond(r, a) /\ UNCHANGED <<head, writer, rowVars, blobs>>
Refuse(r, why) == Tell(r, [is |-> why])

\* Board::signed(): a resend gets the result of the first; then the key must
\* be one that may write, the nonce the head, and the write allowed.
Replay(r) ==
  /\ Replayed(r)
  /\ \E i \in Earlier(r.from) :
       IF SameRequest(r.from, i) THEN Tell(r, Outcome(r.from, i, name)) ELSE Refuse(r, "refused")

Reject(r) == ~Replayed(r) /\ ~Admitted(r.from) /\ Refuse(r, "refused")

Proceeds(r) == ~Replayed(r) /\ Admitted(r.from) /\ Current(r)

FindStale(r) == ~Replayed(r) /\ Admitted(r.from) /\ ~Current(r) /\ Refuse(r, "stale-nonce")

Repeat(r) == Proceeds(r) /\ WaitsAlready(r.from) /\ Tell(r, Outcome(r.from, item[KeyOf[r.from]], name))

Forbid(r) == Proceeds(r) /\ ~WaitsAlready(r.from) /\ ~Allowed(r.from) /\ Refuse(r, "refused")

Miss(r) == Proceeds(r) /\ Allowed(r.from) /\ ~Stored(r.from) /\ Refuse(r, "unknown-blob")

Make(r) ==
  /\ Proceeds(r)
  /\ Allowed(r.from)
  /\ Stored(r.from)
  /\ Apply(r.from)
  /\ Respond(r, Outcome(r.from, head + 1, name'))
  /\ UNCHANGED blobs

\* The transaction does not start, or is rolled back: the file is locked.
Busy(r) == Refuse(r, "busy")

\* One request, read from what it carries and given to the store.
Serve(r) ==
  \/ Replay(r) \/ Reject(r) \/ FindStale(r) \/ Repeat(r) \/ Forbid(r) \/ Miss(r)
  \/ Make(r) \/ Busy(r)

\* A request is never served.
Lose(r) ==
  /\ requests' = requests \ {r}
  /\ UNCHANGED <<clientVars, reply, head, writer, rowVars, blobs>>

\* A write by the owner that changes key k.  How many events it has does not
\* matter here: it moves the head.
ChangeKey(k, s) ==
  /\ head < MaxHead
  /\ head' = head + 1
  /\ state' = [state EXCEPT ![k] = s]

Decide(k) ==
  /\ \/ state[k] = "pending" /\ \E s \in {"trusted", "declined"} : ChangeKey(k, s)
     \/ state[k] = "trusted" /\ ChangeKey(k, "revoked")
  /\ UNCHANGED <<clientVars, requests, reply, writer, name, item, barred, blobs>>

\* A write by anyone else: it archives a node or an item, resolves one, saves a
\* note, or undoes that.
Others ==
  /\ head < MaxHead
  /\ head' = head + 1
  /\ barred' \in SUBSET (Posts \cap Asking)
  /\ UNCHANGED <<clientVars, requests, reply, writer, keyVars, blobs>>

\* An upload lands, or a blob is evicted or deleted: neither is an event.
ChangeBlobs ==
  /\ \E b \in Wanted : blobs' \in {blobs \cup {b}, blobs \ {b}}
  /\ UNCHANGED <<clientVars, requests, reply, head, writer, rowVars>>

Next ==
  \/ \E w \in Writer : Command(w)
  \/ \E r \in requests : Serve(r) \/ Lose(r)
  \/ \E k \in {KeyOf[w] : w \in Asking} : Decide(k)
  \/ Others
  \/ ChangeBlobs

\* While a command has a step to make, one makes it: each is scheduled, and each of
\* its waits has a timeout.
Fairness == WF_vars(\E w \in Writer : Command(w))

Spec == Init /\ [][Next]_vars /\ Fairness

-----------------------------------------------------------------------------
\* A client key names one event, whoever used it and however often: the
\* unique index on events.client_key never turns a write into a failure.
MadeOnce ==
  \A i, j \in Id :
    writer[i] # Nobody /\ writer[j] # Nobody /\ ClientKey[writer[i]] = ClientKey[writer[j]] => i = j

\* A command that was refused for what the log says, or gave up on stale
\* signatures, wrote nothing and never will, though a request it gave up on may
\* still be on its way: what would lift the refusal moves the head past its
\* nonce.  (One that had no answer, or a fault of the board for an answer,
\* cannot know; and one refused for a blob may be made yet, when the blob comes
\* before an earlier request of its own does.)
RefusalIsFinal ==
  \A w \in Writer : pc[w] \in {"stale", "refused"} => \A i \in Id : writer[i] # w

\* The documentation of store.rs: "a resend of a write that landed returns
\* the first result".  A registration's result is its name.
ResendReturnsFirstResult ==
  \A w \in Writer : pc[w] = "done" => result[w].name = Asks[w]

\* Every command ends, whatever the board and the network do.
EveryCommandEnds == <>(\A w \in Writer : pc[w] \in Ended)

\* The promise this module implements.  A registration that waits stands for
\* another by the same key for the same name.
Told == [w \in Writer |-> IF pc[w] = "done" THEN "yes"
                          ELSE IF pc[w] \in {"stale", "refused"} THEN "no"
                          ELSE IF pc[w] = "missing" THEN "not yet" ELSE "nothing"]
Made == [w \in Writer |-> Cardinality({i \in Id : writer[i] = w})]
StandsFor == [w \in Writer |->
  {w} \cup {v \in Writer : Registers(w) /\ KeyOf[v] = KeyOf[w] /\ Asks[v] = Asks[w]}]

Once == INSTANCE WriteOnce WITH made <- Made, told <- Told, Same <- StandsFor

\* A command is never told of a write that was not made, or made for another.
WritesAreOnce == Once!Spec
=============================================================================
