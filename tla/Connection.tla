----------------------------- MODULE Connection -----------------------------
(***************************************************************************)
(* The connections of board-server: accepting them up to a limit (serve    *)
(* and Connections, bin/board-server/main.rs), reading one request after   *)
(* another from each (connection, and read_request in http.rs), handing    *)
(* each to its handler (routes.rs), answering, and ending the connection.  *)
(*                                                                         *)
(* What a client sends is a sequence of pieces: the head of a request, and *)
(* the pieces of its body.  The server tells them apart only by counting,  *)
(* as the bytes do not say what they are.  A client may pipeline, stall or *)
(* leave at any point.  Closing a socket that has unread pieces, or has    *)
(* pieces sent to it later, resets the connection: what the client has not *)
(* read yet is lost to it.                                                 *)
(*                                                                         *)
(* A piece is more than the 8 KiB that the server's BufReader takes at once,*)
(* so that what it has not asked for is still in the socket.               *)
(*                                                                         *)
(* A panic ends the process (Cargo.toml), and the process is Server.tla's: *)
(* here it serves for ever.                                                *)
(***************************************************************************)
EXTENDS Naturals, Sequences, FiniteSets

CONSTANTS Client,          \* the clients, each with one connection
          Request,         \* the requests each may send: records of RequestType
          MaxRequests,     \* bound: how many each sends
          MaxConnections,  \* MAX_CONNECTIONS
          MaxBody,         \* MAX_BODY, in pieces
          LingerMax        \* the most linger() reads, in pieces

\* What the server sees of a request.  A "put" is the one whose body is
\* streamed to its handler.  A head with the fault "cut" never ends, the other
\* faults are answered.
RequestType ==
  [ kind : {"read", "poll", "write", "put"},
    fault : {"none", "cut", "malformed", "too-large", "chunked"},
    length : Nat,
    foreign : BOOLEAN,
    expect : BOOLEAN,
    close : BOOLEAN ]

ASSUME ConnectionAssumption ==
  /\ Request \in [Client -> SUBSET RequestType]
  /\ MaxRequests \in [Client -> Nat]
  /\ MaxConnections \in Nat \ {0} /\ MaxBody \in Nat /\ LingerMax \in Nat \ {0}

VARIABLES
  \* the client
  client,   \* "away", "here", or "left": it has closed its end
  sent,     \* the requests whose heads it sent
  toSend,   \* the pieces of the last one's body it has still to send
  read,     \* how many answers it has read
  \* between them
  wire,     \* the pieces sent and not taken
  answers,  \* the answers sent
  reset,    \* whether the connection was reset: the answers not read are lost
  \* the server
  slots,    \* Connections.open
  at,       \* where the connection's thread is
  taken,    \* the pieces it took for heads
  left,     \* the pieces it still reads: of the body (Body.remaining), or in linger()
  cut       \* whether linger() ended before the client did

clientVars == <<client, sent, toSend, read>>
vars == <<client, sent, toSend, read, wire, answers, reset, slots, at, taken, left, cut>>

Piece == [of : Nat, is : {"head", "body"}]
Serving == {"idle", "head", "body", "handle", "stream", "poll", "linger"}
Place == {"none", "waiting", "over"} \cup Serving
Status == {"ok", "refused", "protocol", "full"}
Answer == [to : Nat, status : Status, closing : BOOLEAN]

\* Each variable has values of its kind.
TypeOK ==
  /\ client \in [Client -> {"away", "here", "left"}]
  /\ sent \in [Client -> Seq(UNION {Request[k] : k \in Client})]
  /\ toSend \in [Client -> Nat]
  /\ read \in [Client -> Nat]
  /\ wire \in [Client -> Seq(Piece)]
  /\ answers \in [Client -> Seq(Answer)]
  /\ reset \in [Client -> BOOLEAN]
  /\ slots \in Nat
  /\ at \in [Client -> Place]
  /\ taken \in [Client -> Seq(Piece)]
  /\ left \in [Client -> Nat]
  /\ cut \in [Client -> BOOLEAN]

Init ==
  /\ client = [k \in Client |-> "away"]
  /\ sent = [k \in Client |-> <<>>]
  /\ toSend = [k \in Client |-> 0]
  /\ read = [k \in Client |-> 0]
  /\ wire = [k \in Client |-> <<>>]
  /\ answers = [k \in Client |-> <<>>]
  /\ reset = [k \in Client |-> FALSE]
  /\ slots = 0
  /\ at = [k \in Client |-> "none"]
  /\ taken = [k \in Client |-> <<>>]
  /\ left = [k \in Client |-> 0]
  /\ cut = [k \in Client |-> FALSE]

-----------------------------------------------------------------------------
\* The client.

Connect(k) ==
  /\ client[k] = "away"
  /\ client' = [client EXCEPT ![k] = "here"]
  /\ at' = [at EXCEPT ![k] = "waiting"]
  /\ UNCHANGED <<sent, toSend, read, wire, answers, reset, slots, taken, left, cut>>

\* A piece sent to a socket that is closed resets the connection.
Put(k, piece) ==
  IF at[k] = "over"
  THEN reset' = [reset EXCEPT ![k] = TRUE] /\ UNCHANGED wire
  ELSE wire' = [wire EXCEPT ![k] = Append(@, piece)] /\ UNCHANGED reset

\* Whether the client said, or was told, that there is no next request.
Ending(k) ==
  \/ sent[k] # <<>> /\ sent[k][Len(sent[k])].close
  \/ \E i \in 1..read[k] : answers[k][i].closing

SendHead(k, r) ==
  /\ client[k] = "here" /\ ~reset[k] /\ ~Ending(k)
  /\ toSend[k] = 0
  /\ Len(sent[k]) < MaxRequests[k]
  /\ sent' = [sent EXCEPT ![k] = Append(@, r)]
  /\ toSend' = [toSend EXCEPT ![k] = IF r.fault = "cut" THEN 0 ELSE r.length]
  /\ Put(k, [of |-> Len(sent[k]) + 1, is |-> "head"])
  /\ UNCHANGED <<client, read, answers, slots, at, taken, left, cut>>

\* A client that expects a 100 Continue waits for it, but not for ever.
SendBody(k) ==
  /\ client[k] = "here" /\ ~reset[k]
  /\ toSend[k] > 0
  /\ toSend' = [toSend EXCEPT ![k] = @ - 1]
  /\ Put(k, [of |-> Len(sent[k]), is |-> "body"])
  /\ UNCHANGED <<client, sent, read, answers, slots, at, taken, left, cut>>

\* It was answered instead, and keeps its body.
KeepBody(k) ==
  /\ client[k] = "here"
  /\ toSend[k] > 0 /\ sent[k][Len(sent[k])].expect
  /\ read[k] = Len(sent[k])
  /\ toSend' = [toSend EXCEPT ![k] = 0]
  /\ UNCHANGED <<client, sent, read, wire, answers, reset, slots, at, taken, left, cut>>

ReadAnswer(k) ==
  /\ client[k] = "here" /\ ~reset[k]
  /\ read[k] < Len(answers[k])
  /\ read' = [read EXCEPT ![k] = @ + 1]
  /\ UNCHANGED <<client, sent, toSend, wire, answers, reset, slots, at, taken, left, cut>>

Leave(k) ==
  /\ client[k] = "here" /\ at[k] # "over"
  /\ client' = [client EXCEPT ![k] = "left"]
  /\ UNCHANGED <<sent, toSend, read, wire, answers, reset, slots, at, taken, left, cut>>

ClientStep(k) ==
  \/ Connect(k) \/ SendBody(k) \/ KeepBody(k) \/ ReadAnswer(k) \/ Leave(k)
  \/ \E r \in Request[k] : SendHead(k, r)

-----------------------------------------------------------------------------
\* The server.  Every step leaves what the client did alone.

Goto(k, place) == at' = [at EXCEPT ![k] = place]

\* The connection's thread ends: its Slot is dropped, and its socket closed
\* with u unread in it.
End(k, u) ==
  /\ Goto(k, "over")
  /\ slots' = slots - 1
  /\ reset' = [reset EXCEPT ![k] = (u # <<>>)]
  /\ wire' = [wire EXCEPT ![k] = <<>>]
  /\ left' = [left EXCEPT ![k] = 0]

Stay == UNCHANGED <<slots, reset>>

\* Response::write_to: the answer to the last request taken.
Send(k, status, closing) ==
  answers' = [answers EXCEPT ![k] = Append(@, [to |-> Len(taken'[k]), status |-> status, closing |-> closing])]

\* serve(): a connection gets a slot, a thread, and waits for a request.
Accept(k) ==
  /\ at[k] = "waiting"
  /\ slots < MaxConnections
  /\ slots' = slots + 1
  /\ Goto(k, "idle")
  /\ UNCHANGED <<clientVars, wire, answers, reset, taken, left, cut>>

\* Mutant: a connection without a thread keeps its slot.
AcceptFails_KeepsSlot(k) ==
  /\ at[k] = "waiting"
  /\ slots < MaxConnections
  /\ slots' = slots + 1
  /\ Goto(k, "over")
  /\ UNCHANGED <<clientVars, wire, answers, reset, taken, left, cut>>

\* No thread could be spawned, or its socket not set up: the slot is given
\* back.
AcceptFails(k) ==
  /\ at[k] = "waiting"
  /\ slots < MaxConnections
  /\ Goto(k, "over")
  /\ reset' = [reset EXCEPT ![k] = (wire[k] # <<>>)]
  /\ wire' = [wire EXCEPT ![k] = <<>>]
  /\ UNCHANGED <<clientVars, answers, slots, taken, left, cut>>

\* Connections::refuse: over the limit, it is answered 503 and closed.
Refuse(k) ==
  /\ at[k] = "waiting"
  /\ slots = MaxConnections
  /\ UNCHANGED taken
  /\ Send(k, "full", FALSE)
  /\ Goto(k, "over")
  /\ reset' = [reset EXCEPT ![k] = (wire[k] # <<>>)]
  /\ wire' = [wire EXCEPT ![k] = <<>>]
  /\ UNCHANGED <<clientVars, slots, left, cut>>

\* An error of the protocol is answered, and the connection closed.
Protest(k, u) == Send(k, "protocol", FALSE) /\ End(k, u)

\* The request that a piece taken for a head is read as.
Current(k) == sent[k][taken[k][Len(taken[k])].of]

\* read_request(): the next piece is taken for a head.  Its faults come first,
\* then whether its body is streamed; a body read whole may not be too large,
\* and the client is told to send it if it waits to be told.
TakeHead(k) ==
  /\ at[k] = "idle"
  /\ wire[k] # <<>>
  /\ taken' = [taken EXCEPT ![k] = Append(@, Head(wire[k]))]
  /\ LET r == sent[k][Head(wire[k]).of]
         rest == Tail(wire[k])
         Take == wire' = [wire EXCEPT ![k] = rest] /\ UNCHANGED answers /\ Stay
     IN  \/ /\ r.fault = "cut"
            /\ Goto(k, "head") /\ Take
            /\ UNCHANGED left
         \/ /\ r.fault \notin {"none", "cut"}
            /\ Protest(k, rest)
         \/ /\ r.fault = "none" /\ r.kind = "put"
            /\ Goto(k, "handle") /\ Take
            /\ left' = [left EXCEPT ![k] = r.length]
         \/ /\ r.fault = "none" /\ r.kind # "put" /\ r.length > MaxBody
            /\ Protest(k, rest)
         \/ /\ r.fault = "none" /\ r.kind # "put" /\ r.length <= MaxBody
            /\ Goto(k, IF r.length = 0 THEN "handle" ELSE "body") /\ Take
            /\ left' = [left EXCEPT ![k] = r.length]
  /\ UNCHANGED <<clientVars, cut>>

\* An idle connection is closed when its client leaves, or after a while.
CloseIdle(k) ==
  /\ at[k] = "idle"
  /\ wire[k] = <<>>
  /\ End(k, <<>>)
  /\ UNCHANGED <<clientVars, answers, taken, cut>>

\* A piece of a body, for read_request() or for the handler.
TakeBody(k) ==
  /\ at[k] \in {"body", "stream"}
  /\ wire[k] # <<>>
  /\ wire' = [wire EXCEPT ![k] = Tail(@)]
  /\ left' = [left EXCEPT ![k] = @ - 1]
  /\ Goto(k, IF at[k] = "body" /\ left[k] = 1 THEN "handle" ELSE at[k])
  /\ left[k] > 0
  /\ Stay
  /\ UNCHANGED <<clientVars, answers, taken, cut>>

\* Mutant: a head may take for ever.
Timed_BodiesOnly == {"body"}

\* Where a request has CLIENT_TIMEOUT to arrive whole.
Timed == {"head", "body"}

\* It does not: 408.
TimeOut(k) ==
  /\ at[k] \in Timed
  /\ UNCHANGED taken
  /\ Protest(k, wire[k])
  /\ UNCHANGED <<clientVars, cut>>

\* Its client left in the middle of it: nobody is there to answer.
Truncated(k) ==
  /\ at[k] \in {"head", "body"}
  /\ client[k] = "left" /\ wire[k] = <<>>
  /\ End(k, <<>>)
  /\ UNCHANGED <<clientVars, answers, taken, cut>>

\* Mutant: a body left unread is taken for read.
Unread_Never(k) == FALSE

\* Whether the handler left some of a streamed body unread.
Unread(k) == Current(k).kind = "put" /\ left[k] > 0

\* Read the next request, unless this was to be the last.
GoOn(k) ==
  IF Current(k).close
  THEN End(k, wire[k])
  ELSE Goto(k, "idle") /\ left' = [left EXCEPT ![k] = 0] /\ UNCHANGED wire /\ Stay

\* Mutant: the connection is closed at once.
AfterAnswer_NoLinger(k) == IF Unread(k) THEN End(k, wire[k]) ELSE GoOn(k)

\* What connection() does after an answer: a body left unread is never read
\* as requests; the connection ends, but lingers first.
AfterAnswer(k) ==
  IF Unread(k)
  THEN Goto(k, "linger") /\ left' = [left EXCEPT ![k] = LingerMax] /\ UNCHANGED wire /\ Stay
  ELSE GoOn(k)

Reply(k, status) ==
  /\ UNCHANGED taken
  /\ Send(k, status, Unread(k))
  /\ AfterAnswer(k)
  /\ UNCHANGED <<clientVars, cut>>

\* handle(): who the board does not answer and what it does not serve is
\* refused; so is what a handler refuses, and what it serves is answered.  An
\* upload may be refused, or found to be there already, before its body.
Handle(k) ==
  /\ at[k] = "handle"
  /\ \/ Reply(k, "refused")
     \/ Current(k).kind \in {"read", "write", "put"} /\ ~Current(k).foreign /\ Reply(k, "ok")

\* poll(): the long poll waits, and put() streams a body it wants.
Begin(k) ==
  /\ at[k] = "handle" /\ ~Current(k).foreign
  /\ \/ Current(k).kind = "poll" /\ Goto(k, "poll")
     \/ Current(k).kind = "put" /\ left[k] > 0 /\ Goto(k, "stream")
  /\ Stay
  /\ UNCHANGED <<clientVars, wire, answers, taken, left, cut>>

\* There is news, or the time the poll was given is up.
AnswerPoll(k) == at[k] = "poll" /\ Reply(k, "ok")

\* The body is there and stored, or does not hash to what was signed; or it
\* cannot be written, which may be found before it is all there.
AnswerPut(k) ==
  /\ at[k] = "stream"
  /\ \/ Reply(k, "refused")
     \/ left[k] = 0 /\ Reply(k, "ok")

\* client_waiting(): the client has left, and sent nothing more; or it stalls
\* in the middle of an upload, or leaves it.  It gets no answer.
Gone(k) ==
  /\ \/ at[k] = "poll" /\ client[k] = "left" /\ wire[k] = <<>>
     \/ at[k] = "stream" /\ left[k] > 0
  /\ End(k, wire[k])
  /\ UNCHANGED <<clientVars, answers, taken, cut>>

\* The answer cannot be written: its client left, or does not read it.
WriteFails(k) ==
  /\ at[k] \in {"handle", "poll", "stream"}
  /\ End(k, wire[k])
  /\ UNCHANGED <<clientVars, answers, taken, cut>>

\* linger(): read on for a moment, so that the answer is not destroyed.
LingerOn(k) ==
  /\ at[k] = "linger"
  /\ left[k] > 0 /\ wire[k] # <<>>
  /\ wire' = [wire EXCEPT ![k] = Tail(@)]
  /\ left' = [left EXCEPT ![k] = @ - 1]
  /\ UNCHANGED <<clientVars, answers, reset, slots, at, taken, cut>>

LingerOut(k) ==
  /\ at[k] = "linger"
  /\ End(k, wire[k])
  /\ cut' = [cut EXCEPT ![k] = ~(client[k] = "left" /\ wire[k] = <<>>)]
  /\ UNCHANGED <<clientVars, answers, taken>>

ServerStep(k) ==
  \/ Accept(k) \/ AcceptFails(k) \/ Refuse(k)
  \/ TakeHead(k) \/ CloseIdle(k) \/ TakeBody(k) \/ TimeOut(k) \/ Truncated(k)
  \/ Handle(k) \/ Begin(k) \/ AnswerPoll(k) \/ AnswerPut(k) \/ Gone(k)
  \/ WriteFails(k) \/ LingerOn(k) \/ LingerOut(k)

Next == \E k \in Client : ClientStep(k) \/ ServerStep(k)

\* The server's threads run, and its timeouts pass; a client may stop anywhere.
Fairness == \A k \in Client : WF_vars(ServerStep(k))

Spec == Init /\ [][Next]_vars /\ Fairness

-----------------------------------------------------------------------------
\* What the server reads as requests are the requests its client sent, in
\* order and each once, however it pipelines them, whatever bodies are left
\* unread and whatever is refused; and what it answers, in that order, are
\* those, at most once each.  (main.rs: a body left unread "is never drained".)
OnlyRequestsAreServed ==
  \A k \in Client :
    /\ taken[k] = [i \in 1..Len(taken[k]) |-> [of |-> i, is |-> "head"]]
    /\ \A i \in 1..Len(answers[k]) :
         answers[k][i].to = i \/ (answers[k][i].status = "full" /\ taken[k] = <<>>)

\* A slot is held by every connection that is served and by no other, and
\* there are never more than MAX_CONNECTIONS.
SlotsAreHeld ==
  /\ slots = Cardinality({k \in Client : at[k] \in Serving})
  /\ slots <= MaxConnections

Lost(k) == IF reset[k] THEN {answers[k][i] : i \in (read[k] + 1)..Len(answers[k])} ELSE {}

\* An upload that is answered before its body was read is told so, though it
\* is still sending: only if it goes on past what linger() waits for is the
\* answer destroyed.
EarlyAnswersArrive ==
  \A k \in Client : (\E a \in Lost(k) : a.closing) => cut[k]

\* A connection does not hold its slot for ever, whatever its client does or
\* leaves undone.
ConnectionsEnd == \A k \in Client : at[k] = "waiting" ~> at[k] = "over"

\* The documentation of http.rs: "every protocol error named, so that it can
\* be logged and answered".  An answer that the server destroys by closing
\* with a body unread is none.
ProtocolErrorsAreAnswered ==
  \A k \in Client : \A a \in Lost(k) : a.status # "protocol"
=============================================================================
