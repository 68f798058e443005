-------------------------- MODULE SignedWriteProofs --------------------------
(***************************************************************************)
(* The theorems of SignedWrite.tla, for any commands, keys, client keys,   *)
(* blobs and retries: that a client key names one event, that a refusal is *)
(* final unless it is for a blob, and that the commands and the board keep *)
(* the promise of WriteOnce.tla, though requests that were given up may be *)
(* served late.                                                            *)
(***************************************************************************)
EXTENDS SignedWrite, FiniteSetTheorems, TLAPS

(***************************************************************************)
(* The inductive invariant.                                                *)
(***************************************************************************)

\* A command signs over heads the board has had, and later ones later.
NoncesWereHeads ==
  /\ \A w \in Writer : nonce[w] <= head
  /\ \A r \in requests : r.nonce <= nonce[r.from]

\* The number of a try names it: the one a command waits for is its last, and
\* carries its nonce.
TriesAreCounted ==
  /\ \A w \in Writer : pc[w] \in {"read", "send", "wait"} => stale[w] < NonceTries
  /\ \A r \in requests :
       /\ r.try <= stale[r.from] + dropped[r.from]
       /\ pc[r.from] \in {"read", "send"} => r.try < stale[r.from] + dropped[r.from]
       /\ r.try = stale[r.from] + dropped[r.from] => r.nonce = nonce[r.from]

\* Events have ids up to the head.
LogEndsAtHead == \A i \in Id : writer[i] # Nobody => i <= head

\* Only who waits has an answer.
AnswersAreAwaited == \A w \in Writer : reply[w].is # "none" => pc[w] = "wait"

WasMade(w) == \E i \in Id : writer[i] = w

\* A key that is pending was registered, by a command that asked for its name.
PendingWasAsked ==
  \A k \in Key : state[k] = "pending" =>
    /\ item[k] \in Id
    /\ \E v \in Writer : WasMade(v) /\ Registers(v) /\ KeyOf[v] = k /\ Asks[v] = name[k]

\* None of its requests that are still on their way can make the write, whatever
\* blobs come: if what stands against it is the state of its key, or the rows it
\* is about, a change of those moves the head.
Hopeless(w) ==
  \A r \in requests : r.from = w => ~(Proceeds(r) /\ Allowed(w))

\* What an answer says of the write, from when it is given to after it is read.
AnswerStands(w) ==
  /\ reply[w].is \in {"ok", "stale-nonce", "refused"} \/ pc[w] \in {"done", "stale", "refused"}
       => Hopeless(w)
  /\ reply[w].is \in {"stale-nonce", "refused"} \/ pc[w] \in {"stale", "refused"}
       => ~WasMade(w)
  /\ reply[w].is = "ok" => \E v \in StandsFor[w] : WasMade(v)

Inv ==
  /\ TypeOK
  /\ NoncesWereHeads /\ TriesAreCounted /\ LogEndsAtHead /\ AnswersAreAwaited
  /\ MadeOnce /\ PendingWasAsked
  /\ \A w \in Writer : AnswerStands(w)

-----------------------------------------------------------------------------
LEMMA NoReplyIsAnAnswer == NoReply \in Answer
  BY DEF NoReply, Answer

\* What is asked with is a blob.
LEMMA WantedAreBlobs == Wanted \subseteq Blob
  BY SignedWriteAssumption DEF Wanted, Asking

\* The owner decides on keys.
LEMMA KeysAreDecided ==
  (\E k \in {KeyOf[w] : w \in Asking} : Decide(k)) => \E k \in Key : Decide(k)
<1>1. {KeyOf[w] : w \in Asking} \subseteq Key
  BY SignedWriteAssumption DEF Asking
<1> QED
  BY <1>1

\* Who runs is at the beginning, and who does not is told nothing.
LEMMA InitNothing == Init => \A w \in Writer : pc[w] \in {"read", "unreachable"}
<1> SUFFICES ASSUME Init PROVE \A w \in Writer : pc[w] \in {"read", "unreachable"}
  OBVIOUS
<1>1. PICK all \in Together :
        pc = [w \in Writer |-> IF w \in all THEN "read" ELSE "unreachable"]
  BY DEF Init
<1> QED
  BY <1>1

\* The initial state.
LEMMA InitInv == Init => Inv
<1> SUFFICES ASSUME Init PROVE Inv
  OBVIOUS
<1> USE SignedWriteAssumption
<1>1. TypeOK
  <2>1. pc \in [Writer -> {"read", "send", "wait"} \cup Ended]
    <3>1. PICK all \in Together :
            pc = [w \in Writer |-> IF w \in all THEN "read" ELSE "unreachable"]
      BY DEF Init
    <3> QED
      BY <3>1 DEF Ended
  <2>2. /\ nonce \in [Writer -> 0..MaxHead] /\ stale \in [Writer -> 0..NonceTries]
        /\ dropped \in [Writer -> 0..WriteRetries] /\ head \in 0..MaxHead
        /\ result \in [Writer -> [id : 0..MaxHead, name : Name \cup {NoName}]]
    BY DEF Init, Nothing
  <2>3. requests \subseteq Request /\ reply \in [Writer -> Answer]
    BY DEF Init, NoReply, Answer
  <2>4. /\ writer \in [Id -> Writer \cup {Nobody}]
        /\ state \in [Key -> {"unknown", "pending", "trusted", "declined", "revoked"}]
        /\ name \in [Key -> Name \cup {NoName}] /\ item \in [Key -> 0..MaxHead]
    BY DEF Init
  <2>5. barred \subseteq Posts /\ blobs \subseteq Blob
    BY WantedAreBlobs DEF Init
  <2> QED
    BY <2>1, <2>2, <2>3, <2>4, <2>5 DEF TypeOK
<1>2. NoncesWereHeads /\ TriesAreCounted /\ LogEndsAtHead /\ MadeOnce
  BY DEF Init, NoncesWereHeads, TriesAreCounted, LogEndsAtHead, MadeOnce
<1>3. AnswersAreAwaited /\ PendingWasAsked
  BY DEF Init, AnswersAreAwaited, PendingWasAsked, NoReply
<1>4. \A w \in Writer : AnswerStands(w)
  BY InitNothing DEF Init, AnswerStands, NoReply
<1> QED
  BY <1>1, <1>2, <1>3, <1>4 DEF Inv

-----------------------------------------------------------------------------
(***************************************************************************)
(* What the board does, in the words of the invariant.                     *)
(***************************************************************************)

\* No event is by a command whose client key another has used, or nobody.
LEMMA NotMade ==
  ASSUME MadeOnce, NEW w \in Writer,
         Earlier(w) = {} \/ \E i \in Earlier(w) : writer[i] # w
  PROVE  ~WasMade(w)
BY SignedWriteAssumption DEF MadeOnce, Earlier, WasMade

\* A request that is answered has a reason: it is made now, or was made before
\* for the one who asked or another, or cannot be.
LEMMA ServeAnswers ==
  ASSUME Inv, NEW r \in requests, Serve(r)
  PROVE  \E a \in Answer :
           /\ Respond(r, a)
           /\ \/ Make(r) /\ a.is = "ok"
              \/ /\ UNCHANGED <<head, writer, rowVars, blobs>>
                 /\ a.is = "ok" => /\ Replayed(r) \/ ~Allowed(r.from)
                                   /\ \E v \in StandsFor[r.from] : WasMade(v)
                 /\ a.is \in {"stale-nonce", "refused"} => ~WasMade(r.from)
                 /\ a.is = "stale-nonce" => ~Current(r)
                 /\ a.is = "refused" =>
                      Replayed(r) \/ ~Admitted(r.from) \/ ~Allowed(r.from)
<1> USE SignedWriteAssumption DEF Inv
<1>1. r.from \in Writer
  BY DEF TypeOK, Request
<1> DEFINE w == r.from
           Reason(a) ==
             /\ Respond(r, a)
             /\ \/ Make(r) /\ a.is = "ok"
                \/ /\ UNCHANGED <<head, writer, rowVars, blobs>>
                   /\ a.is = "ok" => /\ Replayed(r) \/ ~Allowed(r.from)
                                     /\ \E v \in StandsFor[r.from] : WasMade(v)
                   /\ a.is \in {"stale-nonce", "refused"} => ~WasMade(r.from)
                   /\ a.is = "stale-nonce" => ~Current(r)
                   /\ a.is = "refused" =>
                        Replayed(r) \/ ~Admitted(r.from) \/ ~Allowed(r.from)
<1>2. /\ [is |-> "refused"] \in Answer /\ [is |-> "stale-nonce"] \in Answer
      /\ [is |-> "unknown-blob"] \in Answer /\ [is |-> "busy"] \in Answer
  BY DEF Answer
<1>3. ASSUME NEW i \in Id, NEW n \in [Key -> Name \cup {NoName}]
      PROVE  Outcome(w, i, n) \in Answer /\ Outcome(w, i, n).is = "ok"
  BY <1>1 DEF Outcome, Answer
<1>4. w \in StandsFor[w]
  BY <1>1 DEF StandsFor
<1>5. CASE Replay(r)
  <2>1. PICK i \in Earlier(w) :
          IF SameRequest(w, i) THEN Tell(r, Outcome(w, i, name)) ELSE Refuse(r, "refused")
    BY <1>5 DEF Replay
  <2>2. i \in Id /\ name \in [Key -> Name \cup {NoName}]
    BY DEF Earlier, TypeOK
  <2>3. CASE SameRequest(w, i)
    <3>1. WasMade(w)
      BY <2>2, <2>3 DEF SameRequest, WasMade
    <3>2. Reason(Outcome(w, i, name))
      BY <1>3, <1>4, <1>5, <2>1, <2>2, <2>3, <3>1 DEF Tell, Replay
    <3> QED
      BY <1>3, <2>2, <3>2
  <2>4. CASE ~SameRequest(w, i)
    <3>1. ~WasMade(w)
      BY <1>1, <2>4, NotMade DEF SameRequest
    <3>2. Reason([is |-> "refused"])
      BY <1>5, <2>1, <2>4, <3>1 DEF Refuse, Tell, Replay
    <3> QED
      BY <1>2, <3>2
  <2> QED
    BY <2>3, <2>4
<1>6. ~Replayed(r) => ~WasMade(w)
  BY <1>1, NotMade DEF Replayed
<1>7. CASE Reject(r) \/ Forbid(r)
  <2>1. Reason([is |-> "refused"])
    BY <1>6, <1>7 DEF Reject, Forbid, Refuse, Tell, Proceeds
  <2> QED
    BY <1>2, <2>1
<1>8. CASE FindStale(r)
  <2>1. Reason([is |-> "stale-nonce"])
    BY <1>6, <1>8 DEF FindStale, Refuse, Tell
  <2> QED
    BY <1>2, <2>1
<1>9. CASE Repeat(r)
  <2>1. /\ Registers(w) /\ KeyOf[w] \in Key /\ state[KeyOf[w]] = "pending" /\ name[KeyOf[w]] = Asks[w]
        /\ Tell(r, Outcome(w, item[KeyOf[w]], name))
    BY <1>1, <1>9 DEF Repeat, WaitsAlready
  <2>2. PICK v \in Writer : WasMade(v) /\ Registers(v) /\ KeyOf[v] = KeyOf[w] /\ Asks[v] = Asks[w]
    BY <2>1 DEF PendingWasAsked
  <2>3. v \in StandsFor[w]
    BY <1>1, <2>1, <2>2 DEF StandsFor
  <2>4. item[KeyOf[w]] \in Id /\ name \in [Key -> Name \cup {NoName}] /\ ~Allowed(w)
    BY <2>1 DEF PendingWasAsked, TypeOK, Allowed
  <2>5. Reason(Outcome(w, item[KeyOf[w]], name))
    BY <1>3, <2>1, <2>2, <2>3, <2>4 DEF Tell
  <2> QED
    BY <1>3, <2>4, <2>5
<1>10. CASE Make(r)
  <2>1. head + 1 \in Id /\ name' \in [Key -> Name \cup {NoName}]
    <3>1. Events[w] \in Nat \ {0} /\ head \in 0..MaxHead /\ Apply(w)
      BY <1>1, <1>10 DEF Make, TypeOK
    <3>2. head + Events[w] <= MaxHead
      BY <3>1 DEF Apply
    <3>3. head + 1 \in Id
      BY <3>1, <3>2 DEF Id
    <3>4. name' \in [Key -> Name \cup {NoName}]
      <4>1. name \in [Key -> Name \cup {NoName}]
        BY DEF TypeOK
      <4>2. Registers(w) => name' = [name EXCEPT ![KeyOf[w]] = Asks[w]] /\ Asks[w] \in Name
        BY <1>1, <3>1 DEF Apply, Registers
      <4>3. ~Registers(w) => name' = name
        BY <3>1 DEF Apply, keyVars
      <4> QED
        BY <4>1, <4>2, <4>3
    <3> QED
      BY <3>3, <3>4
  <2>2. Reason(Outcome(w, head + 1, name'))
    BY <1>3, <1>10, <2>1 DEF Make
  <2> QED
    BY <1>3, <2>1, <2>2
<1>11. CASE Busy(r)
  <2>1. Reason([is |-> "busy"])
    BY <1>11 DEF Busy, Refuse, Tell
  <2> QED
    BY <1>2, <2>1
<1>12. CASE Miss(r)
  <2>1. Reason([is |-> "unknown-blob"])
    BY <1>12 DEF Miss, Refuse, Tell
  <2> QED
    BY <1>2, <2>1
<1> QED
  BY <1>5, <1>7, <1>8, <1>9, <1>10, <1>11, <1>12 DEF Serve

\* An answer reaches the command that waits for it, or nobody.
LEMMA RespondFacts ==
  ASSUME TypeOK, NEW r \in requests, NEW a \in Answer, Respond(r, a)
  PROVE  /\ requests' \subseteq requests /\ reply' \in [Writer -> Answer]
         /\ UNCHANGED clientVars
         /\ \A w \in Writer :
              \/ reply'[w] = reply[w]
              \/ /\ reply'[w] = a /\ w = r.from
                 /\ pc[w] = "wait" /\ r.try = stale[w] + dropped[w]
BY DEF Respond, TypeOK

\* Making a write appends to the log, and leaves the rest of it.
LEMMA MakeFacts ==
  ASSUME Inv, NEW r \in requests, Make(r)
  PROVE  /\ r.from \in Writer
         /\ head' \in 0..MaxHead /\ head < head' /\ head + 1 \in Id /\ head + 1 <= head'
         /\ writer' \in [Id -> Writer \cup {Nobody}]
         /\ writer' = [writer EXCEPT ![head + 1] = r.from]
         /\ writer[head + 1] = Nobody
         /\ Earlier(r.from) = {}
         /\ \A v \in Writer : WasMade(v)' <=> WasMade(v) \/ v = r.from
<1> USE SignedWriteAssumption DEF Inv
<1>1. r.from \in Writer
  BY DEF TypeOK, Request
<1>2. Events[r.from] \in Nat \ {0} /\ head \in Nat
  BY <1>1 DEF TypeOK
<1>3. head' = head + Events[r.from] /\ head' <= MaxHead /\ writer' = [writer EXCEPT ![head + 1] = r.from]
  BY DEF Make, Apply, Log
<1>4. head' \in 0..MaxHead /\ head < head' /\ head + 1 \in Id /\ head + 1 <= head'
  BY <1>2, <1>3 DEF Id
<1>5. writer[head + 1] = Nobody
  BY <1>2, <1>4 DEF LogEndsAtHead
<1>6. \A v \in Writer : WasMade(v)' <=> WasMade(v) \/ v = r.from
  BY <1>3, <1>4, <1>5 DEF WasMade, TypeOK
<1> QED
  BY <1>1, <1>3, <1>4, <1>5, <1>6 DEF Make, Proceeds, Replayed, TypeOK

\* Whatever changes a key or what a post is about moves the head past every nonce
\* there is, so nothing that stood against a request ceases to.
LEMMA HopelessStays ==
  ASSUME Inv, NEW w \in Writer, Hopeless(w),
         \A r \in requests' : r.from = w => r \in requests,
         \/ UNCHANGED <<head, writer, rowVars>>
         \/ head' \in Nat /\ head < head'
  PROVE  Hopeless(w)'
<1> SUFFICES ASSUME NEW r \in requests', r.from = w, Proceeds(r)', Allowed(w)'
             PROVE  FALSE
  BY DEF Hopeless
<1>1. r \in requests /\ ~(Proceeds(r) /\ Allowed(w))
  BY DEF Hopeless
<1>2. CASE UNCHANGED <<head, writer, rowVars>>
  BY <1>1, <1>2 DEF Proceeds, Replayed, Earlier, Admitted, Current, Allowed, rowVars
<1>3. CASE head' \in Nat /\ head < head'
  <2>1. r.nonce \in Nat /\ nonce[w] \in Nat /\ head \in Nat /\ r.nonce <= nonce[w] /\ nonce[w] <= head
    BY <1>1, SignedWriteAssumption DEF Inv, NoncesWereHeads, TypeOK, Request
  <2> QED
    BY <1>3, <2>1 DEF Proceeds, Current
<1> QED
  BY <1>2, <1>3

\* The rest of the invariant is about the commands and their requests,
Client == NoncesWereHeads /\ TriesAreCounted /\ AnswersAreAwaited
\* or about the log.
Board == LogEndsAtHead /\ MadeOnce /\ PendingWasAsked

\* The log does not change but by what the board makes, nor a key become pending.
LEMMA BoardStays ==
  ASSUME Board, UNCHANGED <<head, writer, rowVars>>
  PROVE  Board' /\ \A w \in Writer : WasMade(w)' <=> WasMade(w)
BY DEF Board, LogEndsAtHead, MadeOnce, PendingWasAsked, WasMade, rowVars

-----------------------------------------------------------------------------
(***************************************************************************)
(* Each action keeps the invariant.                                        *)
(***************************************************************************)

\* A command's step, on its own variables.
LEMMA CommandKeepsInv ==
  ASSUME Inv, NEW w \in Writer, Command(w)
  PROVE  Inv'
<1> USE SignedWriteAssumption DEF Inv, Goto
<1>1. UNCHANGED <<head, writer, rowVars>>
  BY DEF Command, ReadHead, FailRead, Send, TimeOut, ReceiveStale, ReceiveEnd
<1>2. LogEndsAtHead' /\ MadeOnce' /\ PendingWasAsked' /\ \A v \in Writer : WasMade(v)' <=> WasMade(v)
  BY <1>1, BoardStays DEF Board
<1>3. ASSUME NEW v \in Writer, v # w
      PROVE  /\ UNCHANGED <<pc[v], nonce[v], stale[v], dropped[v], result[v], reply[v]>>
             /\ \A r \in requests' : r.from = v => r \in requests
  BY <1>3 DEF Command, ReadHead, FailRead, Send, TimeOut, Retry, ReceiveStale, ReceiveEnd, TypeOK
<1>4. ASSUME NEW v \in Writer,
             UNCHANGED <<pc[v], reply[v]>>, \A r \in requests' : r.from = v => r \in requests
      PROVE  AnswerStands(v)'
  <2>1. Hopeless(v) => Hopeless(v)'
    BY <1>1, <1>4, HopelessStays
  <2>2. StandsFor' = StandsFor
    BY DEF StandsFor, Registers
  <2>3. \A u \in StandsFor[v] : u \in Writer
    BY DEF StandsFor
  <2> QED
    BY <1>2, <1>4, <2>1, <2>2, <2>3 DEF AnswerStands
<1>5. \A v \in Writer \ {w} : AnswerStands(v)'
  BY <1>3, <1>4
<1>6. ASSUME requests' = requests
      PROVE  Hopeless(w) => Hopeless(w)'
  BY <1>1, <1>6, HopelessStays
<1>7. CASE ReadHead(w)
  <2>1. TypeOK'
    BY <1>7 DEF ReadHead, TypeOK, rowVars, Ended
  <2>2. NoncesWereHeads' /\ TriesAreCounted' /\ AnswersAreAwaited'
    BY <1>7 DEF ReadHead, TypeOK, Request, NoncesWereHeads, TriesAreCounted, AnswersAreAwaited
  <2>3. AnswerStands(w)'
    BY <1>7 DEF ReadHead, AnswersAreAwaited, AnswerStands, TypeOK
  <2> QED
    BY <1>2, <1>5, <2>1, <2>2, <2>3
<1>8. CASE FailRead(w)
  <2>1. TypeOK'
    BY <1>8 DEF FailRead, TypeOK, rowVars, Ended
  <2>2. NoncesWereHeads' /\ TriesAreCounted' /\ AnswersAreAwaited'
    BY <1>8 DEF FailRead, TypeOK, Request, NoncesWereHeads, TriesAreCounted, AnswersAreAwaited
  <2>3. AnswerStands(w)'
    BY <1>8 DEF FailRead, AnswersAreAwaited, AnswerStands, TypeOK
  <2> QED
    BY <1>2, <1>5, <2>1, <2>2, <2>3
<1>9. CASE Send(w)
  <2> DEFINE r == [from |-> w, try |-> stale[w] + dropped[w], nonce |-> nonce[w]]
  <2>1. r \in Request
    BY DEF TypeOK, Request
  <2>2. TypeOK'
    BY <1>9, <2>1 DEF Send, TypeOK, rowVars, Ended
  <2>3. NoncesWereHeads' /\ AnswersAreAwaited'
    BY <1>9 DEF Send, TypeOK, Request, NoncesWereHeads, AnswersAreAwaited
  <2>4. TriesAreCounted'
    BY <1>9 DEF Send, TypeOK, Request, TriesAreCounted
  <2>5. AnswerStands(w)'
    BY <1>9 DEF Send, AnswersAreAwaited, AnswerStands, TypeOK
  <2> QED
    BY <1>2, <1>5, <2>2, <2>3, <2>4, <2>5
<1>10. CASE TimeOut(w)
  <2>1. TypeOK'
    <3>1. reply' \in [Writer -> Answer]
      BY <1>10, NoReplyIsAnAnswer DEF TimeOut, TypeOK
    <3>2. dropped' \in [Writer -> 0..WriteRetries]
      BY SMTT(30), <1>10 DEF TimeOut, Retry, TypeOK
    <3> QED
      BY SMTT(30), <1>10, <3>1, <3>2 DEF TimeOut, Retry, TypeOK, rowVars, Ended
  <2>2. NoncesWereHeads' /\ AnswersAreAwaited'
    BY <1>10 DEF TimeOut, Retry, TypeOK, Request, NoncesWereHeads, AnswersAreAwaited, NoReply
  <2>3. TriesAreCounted'
    BY <1>10 DEF TimeOut, Retry, TypeOK, Request, TriesAreCounted
  <2>4. AnswerStands(w)'
    BY <1>10 DEF TimeOut, Retry, AnswerStands, TypeOK, NoReply
  <2> QED
    BY <1>2, <1>5, <2>1, <2>2, <2>3, <2>4
<1>11. CASE ReceiveStale(w)
  <2>1. stale[w] + 1 \in 0..NonceTries
    BY <1>11 DEF ReceiveStale, TriesAreCounted, TypeOK
  <2>2. TypeOK'
    BY <1>11, <2>1, NoReplyIsAnAnswer DEF ReceiveStale, TypeOK, rowVars, Ended
  <2>3. NoncesWereHeads' /\ AnswersAreAwaited'
    BY <1>11 DEF ReceiveStale, TypeOK, Request, NoncesWereHeads, AnswersAreAwaited, NoReply
  <2>4. TriesAreCounted'
    BY <1>11, <2>1 DEF ReceiveStale, TypeOK, Request, TriesAreCounted
  <2>5. AnswerStands(w)'
    BY <1>2, <1>6, <1>11 DEF ReceiveStale, AnswerStands, TypeOK, NoReply
  <2> QED
    BY <1>2, <1>5, <2>2, <2>3, <2>4, <2>5
<1>12. CASE ReceiveEnd(w)
  <2>1. reply[w].is = "ok" => [id |-> reply[w].id, name |-> reply[w].name] \in [id : 0..MaxHead, name : Name \cup {NoName}]
    <3>1. reply[w] \in Answer
      BY DEF TypeOK
    <3>2. reply[w].is = "ok" => reply[w] \in [is : {"ok"}, id : Id, name : Name \cup {NoName}]
      BY <3>1 DEF Answer
    <3> QED
      BY <3>2 DEF Id
  <2>2. TypeOK'
    <3>1. result' \in [Writer -> [id : 0..MaxHead, name : Name \cup {NoName}]]
      BY <1>12, <2>1 DEF ReceiveEnd, TypeOK
    <3>2. pc' \in [Writer -> {"read", "send", "wait"} \cup Ended]
      <4>1. \E p \in {"done", "refused", "missing", "failed"} : pc' = [pc EXCEPT ![w] = p]
        BY <1>12 DEF ReceiveEnd
      <4> QED
        BY <4>1 DEF TypeOK, Ended
    <3> QED
      BY <1>12, <3>1, <3>2, NoReplyIsAnAnswer DEF ReceiveEnd, TypeOK, rowVars
  <2>3. NoncesWereHeads' /\ AnswersAreAwaited'
    BY <1>12 DEF ReceiveEnd, TypeOK, Request, NoncesWereHeads, AnswersAreAwaited, NoReply
  <2>4. TriesAreCounted'
    BY <1>12 DEF ReceiveEnd, TypeOK, Request, TriesAreCounted
  <2>5. AnswerStands(w)'
    BY <1>2, <1>6, <1>12 DEF ReceiveEnd, AnswerStands, TypeOK, NoReply
  <2> QED
    BY <1>2, <1>5, <2>2, <2>3, <2>4, <2>5
<1> QED
  BY <1>7, <1>8, <1>9, <1>10, <1>11, <1>12 DEF Command

\* An answer that is not a write's making.
LEMMA TellKeepsInv ==
  ASSUME Inv, NEW r \in requests, NEW a \in Answer, Respond(r, a),
         UNCHANGED <<head, writer, rowVars, blobs>>,
         a.is = "ok" => /\ Replayed(r) \/ ~Allowed(r.from)
                        /\ \E v \in StandsFor[r.from] : WasMade(v),
         a.is \in {"stale-nonce", "refused"} => ~WasMade(r.from),
         a.is = "stale-nonce" => ~Current(r),
         a.is = "refused" => Replayed(r) \/ ~Admitted(r.from) \/ ~Allowed(r.from)
  PROVE  Inv'
<1> USE SignedWriteAssumption DEF Inv
<1>1. /\ requests' \subseteq requests /\ reply' \in [Writer -> Answer] /\ UNCHANGED clientVars
      /\ \A w \in Writer :
           \/ reply'[w] = reply[w]
           \/ /\ reply'[w] = a /\ w = r.from
              /\ pc[w] = "wait" /\ r.try = stale[w] + dropped[w]
  BY RespondFacts
<1>2. LogEndsAtHead' /\ MadeOnce' /\ PendingWasAsked' /\ \A v \in Writer : WasMade(v)' <=> WasMade(v)
  BY BoardStays DEF Board
<1>3. TypeOK'
  BY <1>1 DEF TypeOK, clientVars, rowVars
<1>4. NoncesWereHeads' /\ TriesAreCounted' /\ AnswersAreAwaited'
  BY <1>1 DEF NoncesWereHeads, TriesAreCounted, AnswersAreAwaited, clientVars
<1>5. \A w \in Writer : Hopeless(w) => Hopeless(w)'
  BY <1>1, HopelessStays
<1>6. ASSUME NEW w \in Writer
      PROVE  AnswerStands(w)'
  <2>1. StandsFor' = StandsFor /\ \A u \in StandsFor[w] : u \in Writer
    BY DEF StandsFor, Registers
  <2>2. CASE reply'[w] = reply[w]
    BY <1>1, <1>2, <1>5, <2>1, <2>2 DEF AnswerStands, clientVars
  <2>3. CASE reply'[w] # reply[w]
    <3>1. reply'[w] = a /\ w = r.from /\ pc[w] = "wait" /\ r.try = stale[w] + dropped[w]
      BY <1>1, <2>3
    <3>2. a.is \in {"ok", "stale-nonce", "refused"} => Hopeless(w)
      <4>1. a.is \in {"ok", "refused"} => Hopeless(w)
        BY <3>1 DEF Hopeless, Replayed, Proceeds
      <4>2. ASSUME a.is = "stale-nonce", NEW q \in requests, q.from = w
            PROVE  ~Current(q)
        <5>1. /\ r.nonce = nonce[w] /\ q.nonce <= nonce[w] /\ nonce[w] <= head
              /\ r.nonce # head /\ q.nonce \in Nat /\ nonce[w] \in Nat /\ head \in Nat
          BY <3>1, <4>2 DEF TriesAreCounted, NoncesWereHeads, Current, TypeOK, Request
        <5> QED
          BY <5>1 DEF Current
      <4> QED
        BY <4>1, <4>2 DEF Hopeless, Proceeds
    <3> QED
      BY <1>1, <1>2, <1>5, <2>1, <3>1, <3>2 DEF AnswerStands, clientVars
  <2> QED
    BY <2>2, <2>3
<1> QED
  BY <1>2, <1>3, <1>4, <1>6

\* A write that is made.
LEMMA MakeKeepsInv ==
  ASSUME Inv, NEW r \in requests, NEW a \in Answer, Respond(r, a), Make(r), a.is = "ok"
  PROVE  Inv'
<1> USE SignedWriteAssumption DEF Inv
<1> DEFINE m == r.from
<1>1. /\ requests' \subseteq requests /\ reply' \in [Writer -> Answer] /\ UNCHANGED clientVars
      /\ \A w \in Writer :
           \/ reply'[w] = reply[w]
           \/ /\ reply'[w] = a /\ w = r.from
              /\ pc[w] = "wait" /\ r.try = stale[w] + dropped[w]
  BY RespondFacts
<1>2. /\ m \in Writer
      /\ head' \in 0..MaxHead /\ head < head' /\ head + 1 \in Id /\ head + 1 <= head'
      /\ writer' \in [Id -> Writer \cup {Nobody}]
      /\ writer' = [writer EXCEPT ![head + 1] = m]
      /\ writer[head + 1] = Nobody
      /\ Earlier(m) = {}
      /\ \A v \in Writer : WasMade(v)' <=> WasMade(v) \/ v = m
  BY MakeFacts
<1>3. KeyOf[m] \in Key /\ (Registers(m) => Asks[m] \in Name)
  BY <1>2 DEF Registers
<1>4. ASSUME Registers(m)
      PROVE  TypeOK' /\ PendingWasAsked'
  <2>1. /\ state' = [state EXCEPT ![KeyOf[m]] = "pending"]
        /\ name' = [name EXCEPT ![KeyOf[m]] = Asks[m]]
        /\ item' = [item EXCEPT ![KeyOf[m]] = head + 1]
        /\ UNCHANGED <<barred, blobs>>
    BY <1>4 DEF Make, Apply
  <2>2. TypeOK'
    <3>1. /\ state' \in [Key -> {"unknown", "pending", "trusted", "declined", "revoked"}]
          /\ name' \in [Key -> Name \cup {NoName}] /\ item' \in [Key -> 0..MaxHead]
      BY <1>2, <1>3, <1>4, <2>1 DEF TypeOK, Id
    <3> QED
      BY <1>1, <1>2, <2>1, <3>1 DEF TypeOK, clientVars, Posts
  <2>3. PendingWasAsked'
    <3> SUFFICES ASSUME NEW k \in Key, state'[k] = "pending"
                 PROVE  /\ item'[k] \in Id
                        /\ \E v \in Writer : WasMade(v)' /\ Registers(v) /\ KeyOf[v] = k /\ Asks[v] = name'[k]
      BY DEF PendingWasAsked, Registers
    <3>1. CASE k = KeyOf[m]
      BY <1>2, <1>4, <2>1, <3>1 DEF TypeOK
    <3>2. CASE k # KeyOf[m]
      BY <1>2, <2>1, <3>2 DEF TypeOK, PendingWasAsked
    <3> QED
      BY <3>1, <3>2
  <2> QED
    BY <2>2, <2>3
<1>5. ASSUME ~Registers(m)
      PROVE  TypeOK' /\ PendingWasAsked'
  <2>1. UNCHANGED <<keyVars, blobs>> /\ barred' \subseteq Posts
    BY <1>5 DEF Make, Apply, Affects
  <2>2. TypeOK'
    BY <1>1, <1>2, <2>1 DEF TypeOK, clientVars, keyVars, Posts
  <2>3. PendingWasAsked'
    BY <1>2, <2>1 DEF PendingWasAsked, keyVars, Registers
  <2> QED
    BY <2>2, <2>3
<1>6. TypeOK' /\ PendingWasAsked'
  BY <1>4, <1>5
<1>7. LogEndsAtHead'
  BY <1>2 DEF LogEndsAtHead, TypeOK, Id
<1>8. MadeOnce'
  BY <1>2 DEF MadeOnce, Earlier, TypeOK
<1>9. NoncesWereHeads' /\ TriesAreCounted' /\ AnswersAreAwaited'
  BY <1>1, <1>2 DEF NoncesWereHeads, TriesAreCounted, AnswersAreAwaited, clientVars, TypeOK
<1>10. \A w \in Writer : Hopeless(w) => Hopeless(w)'
  BY <1>1, <1>2, HopelessStays
<1>11. ASSUME NEW w \in Writer
       PROVE  AnswerStands(w)'
  <2>1. StandsFor' = StandsFor /\ (\A u \in StandsFor[w] : u \in Writer) /\ w \in StandsFor[w]
    BY DEF StandsFor, Registers
  <2>2. CASE w = m
    <3>1. ~Hopeless(m)
      BY DEF Hopeless, Make
    <3>2. ~(pc[m] \in {"done", "stale", "refused"}) /\ ~(reply[m].is \in {"ok", "stale-nonce", "refused"})
      BY <1>2, <3>1 DEF AnswerStands
    <3>3. Hopeless(m)'
      <4> SUFFICES ASSUME NEW q \in requests', q.from = m
                   PROVE  Replayed(q)'
        BY DEF Hopeless, Proceeds
      <4>1. head + 1 \in Earlier(m)'
        BY <1>2 DEF Earlier, TypeOK
      <4> QED
        BY <4>1 DEF Replayed
    <3> QED
      BY <1>1, <1>2, <2>1, <2>2, <3>2, <3>3 DEF AnswerStands, clientVars
  <2>3. CASE w # m
    BY <1>1, <1>2, <1>10, <2>1, <2>3 DEF AnswerStands, clientVars
  <2> QED
    BY <2>2, <2>3
<1> QED
  BY <1>6, <1>7, <1>8, <1>9, <1>11

\* Every step keeps it.
LEMMA NextInv == Inv /\ [Next]_vars => Inv'
<1> SUFFICES ASSUME Inv, [Next]_vars
             PROVE  Inv'
  OBVIOUS
<1> USE SignedWriteAssumption
<1>1. ASSUME NEW r \in requests, Serve(r)
      PROVE  Inv'
  BY <1>1, ServeAnswers, TellKeepsInv, MakeKeepsInv
<1>2. ASSUME \/ \E r \in requests : Lose(r)
             \/ ChangeBlobs
             \/ UNCHANGED vars
      PROVE  Inv'
  <2>1. /\ requests' \subseteq requests /\ UNCHANGED <<clientVars, reply, head, writer, rowVars>>
        /\ blobs' \subseteq Blob
    BY <1>2, WantedAreBlobs DEF Lose, ChangeBlobs, vars, clientVars, rowVars, Inv, TypeOK
  <2>2. LogEndsAtHead' /\ MadeOnce' /\ PendingWasAsked' /\ \A v \in Writer : WasMade(v)' <=> WasMade(v)
    BY <2>1, BoardStays DEF Board, Inv
  <2>3. TypeOK'
    BY <2>1 DEF Inv, TypeOK, clientVars, rowVars
  <2>4. NoncesWereHeads' /\ TriesAreCounted' /\ AnswersAreAwaited'
    BY <2>1 DEF Inv, NoncesWereHeads, TriesAreCounted, AnswersAreAwaited, clientVars
  <2>5. ASSUME NEW w \in Writer
        PROVE  AnswerStands(w)'
    <3>1. Hopeless(w) => Hopeless(w)'
      BY <2>1, HopelessStays
    <3>2. StandsFor' = StandsFor /\ \A u \in StandsFor[w] : u \in Writer
      BY DEF StandsFor, Registers
    <3> QED
      BY <2>1, <2>2, <3>1, <3>2 DEF Inv, AnswerStands, clientVars
  <2> QED
    BY <2>2, <2>3, <2>4, <2>5 DEF Inv
<1>3. ASSUME (\E k \in Key : Decide(k)) \/ Others
      PROVE  Inv'
  <2>1. /\ head' = head + 1 /\ head < MaxHead
        /\ UNCHANGED <<clientVars, requests, reply, writer, name, item, blobs>>
        /\ barred' \subseteq Posts
        /\ \/ \E k \in Key, s \in {"trusted", "declined", "revoked"} : state' = [state EXCEPT ![k] = s]
           \/ state' = state
    BY <1>3 DEF Decide, ChangeKey, Others, keyVars, Inv, TypeOK
  <2>2. head \in Nat /\ head' \in 0..MaxHead /\ head < head'
    BY <2>1 DEF Inv, TypeOK
  <2>3. TypeOK'
    BY <2>1, <2>2 DEF Inv, TypeOK, clientVars
  <2>4. MadeOnce' /\ PendingWasAsked' /\ \A v \in Writer : WasMade(v)' <=> WasMade(v)
    BY <2>1 DEF Inv, TypeOK, MadeOnce, PendingWasAsked, WasMade, Registers
  <2>5. LogEndsAtHead' /\ NoncesWereHeads'
    <3>1. UNCHANGED <<nonce, requests, writer>>
      BY <2>1 DEF clientVars
    <3>2. /\ \A i \in Id : i \in Nat
          /\ \A w \in Writer : nonce[w] \in Nat
          /\ \A r \in requests : r.nonce \in Nat /\ r.from \in Writer
      BY DEF Inv, TypeOK, Request, Id
    <3>3. LogEndsAtHead'
      BY <2>2, <3>1, <3>2 DEF Inv, LogEndsAtHead
    <3>4. NoncesWereHeads'
      BY <2>2, <3>1, <3>2 DEF Inv, NoncesWereHeads
    <3> QED
      BY <3>3, <3>4
  <2>6. TriesAreCounted' /\ AnswersAreAwaited'
    BY <2>1 DEF Inv, TriesAreCounted, AnswersAreAwaited, clientVars
  <2>7. ASSUME NEW w \in Writer
        PROVE  AnswerStands(w)'
    <3>1. Hopeless(w) => Hopeless(w)'
      BY <2>1, <2>2, HopelessStays
    <3>2. StandsFor' = StandsFor /\ \A u \in StandsFor[w] : u \in Writer
      BY DEF StandsFor, Registers
    <3> QED
      BY <2>1, <2>4, <3>1, <3>2 DEF Inv, AnswerStands, clientVars
  <2> QED
    BY <2>3, <2>4, <2>5, <2>6, <2>7 DEF Inv
<1> QED
  BY <1>1, <1>2, <1>3, CommandKeepsInv, KeysAreDecided DEF Next

\* The inductive invariant holds in every state the commands and the board reach.
THEOREM InvAlways == Spec => []Inv
<1> QED
  BY InitInv, NextInv, PTL DEF Spec

\* Every such state is well typed.
THEOREM TypeCorrect == Spec => []TypeOK
<1>1. Inv => TypeOK
  BY DEF Inv
<1> QED
  BY <1>1, InvAlways, PTL

\* A client key names one event: the unique index never fails a write.
THEOREM ClientKeysAreUnique == Spec => []MadeOnce
<1>1. Inv => MadeOnce
  BY DEF Inv
<1> QED
  BY <1>1, InvAlways, PTL

\* A command that was refused, but for a blob, or gave up on stale signatures,
\* wrote nothing, and none of its requests still on their way ever will.
THEOREM RefusalsAreFinal == Spec => []RefusalIsFinal
<1>1. Inv => RefusalIsFinal
  BY DEF Inv, AnswerStands, WasMade, RefusalIsFinal
<1> QED
  BY <1>1, InvAlways, PTL

-----------------------------------------------------------------------------
(***************************************************************************)
(* The refinement: a write that is made is Once!Make, and a command that   *)
(* reads its last answer is TellYes or TellNo.                             *)
(***************************************************************************)

\* A log that has one event of a write or none has 1 or 0 of them.
LEMMA CountOnce ==
  ASSUME NEW log, NEW w, \A i, j \in Id : log[i] = w /\ log[j] = w => i = j
  PROVE  Cardinality({i \in Id : log[i] = w}) = IF \E i \in Id : log[i] = w THEN 1 ELSE 0
<1> DEFINE S == {i \in Id : log[i] = w}
<1>1. CASE \E i \in Id : log[i] = w
  <2>1. PICK i \in Id : log[i] = w
    BY <1>1
  <2>2. S = {i}
    BY <2>1
  <2> QED
    BY <1>1, <2>2, FS_Singleton
<1>2. CASE ~\E i \in Id : log[i] = w
  <2>1. S = {}
    BY <1>2
  <2> QED
    BY <1>2, <2>1, FS_EmptySet
<1> QED
  BY <1>1, <1>2

\* The log is such a one, before and after a step.
LEMMA MadeCounts ==
  ASSUME MadeOnce, MadeOnce', NEW w \in Writer
  PROVE  /\ Made[w] = IF WasMade(w) THEN 1 ELSE 0
         /\ Made'[w] = IF WasMade(w)' THEN 1 ELSE 0
<1>1. \A i, j \in Id : writer[i] = w /\ writer[j] = w => i = j
  BY SignedWriteAssumption DEF MadeOnce
<1>2. \A i, j \in Id : writer'[i] = w /\ writer'[j] = w => i = j
  BY SignedWriteAssumption DEF MadeOnce
<1>3. Cardinality({i \in Id : writer[i] = w}) = IF WasMade(w) THEN 1 ELSE 0
  BY <1>1, CountOnce DEF WasMade
<1>4. Cardinality({i \in Id : writer'[i] = w}) = IF WasMade(w)' THEN 1 ELSE 0
  BY <1>2, CountOnce DEF WasMade
<1> QED
  BY <1>3, <1>4 DEF Made

\* The promise sees only which writes were made and what was told of them.
LEMMA OnceStutters ==
  ASSUME MadeOnce, MadeOnce', \A w \in Writer : WasMade(w)' <=> WasMade(w), UNCHANGED pc
  PROVE  UNCHANGED Once!vars
<1>1. \A w \in Writer : Made'[w] = Made[w]
  BY MadeCounts
<1>2. Made' = Made
  BY <1>1 DEF Made
<1> QED
  BY <1>2 DEF Once!vars, Told

\* What is told changes when a command ends, and in no other way.
LEMMA ToldFacts ==
  ASSUME TypeOK
  PROVE  /\ Told \in [Writer -> {"nothing", "yes", "no", "not yet"}]
         /\ \A w \in Writer :
              /\ Told[w] = "yes" <=> pc[w] = "done"
              /\ Told[w] = "no" <=> pc[w] \in {"stale", "refused"}
BY DEF Told

\* The step of a command that ends it tells it what is so; the others tell nothing.
LEMMA CommandTells ==
  ASSUME Inv, Inv', NEW w \in Writer, Command(w)
  PROVE  [Once!Next]_(Once!vars)
<1> USE DEF Inv
<1>1. UNCHANGED <<head, writer, rowVars>>
  BY DEF Command, ReadHead, FailRead, Send, TimeOut, ReceiveStale, ReceiveEnd
<1>2. Made' = Made /\ StandsFor' = StandsFor
  BY <1>1 DEF Made, StandsFor, Registers
<1>3. ASSUME pc[w] \in {"read", "send", "wait"},
             NEW p \in {"done", "stale", "refused", "missing"},
             pc' = [pc EXCEPT ![w] = p]
      PROVE  /\ Told[w] = "nothing"
             /\ Told' = [Told EXCEPT ![w] = CASE p = "done" -> "yes"
                                              [] p = "missing" -> "not yet" [] OTHER -> "no"]
  BY <1>3 DEF Told, TypeOK
<1>4. ASSUME pc[w] \in {"read", "send", "wait"},
             NEW p \in {"read", "send", "wait", "failed", "unreachable"},
             pc' = [pc EXCEPT ![w] = p]
      PROVE  UNCHANGED Once!vars
  BY <1>2, <1>4 DEF Told, TypeOK, Once!vars
<1>5. ASSUME NEW p \in {"stale", "refused"}, pc' = [pc EXCEPT ![w] = p], pc[w] = "wait",
             ~WasMade(w)
      PROVE  Once!Next
  <2>1. Made[w] = 0
    BY <1>5, MadeCounts
  <2> QED
    BY <1>2, <1>3, <1>5, <2>1 DEF Once!TellNo, Once!Next
<1> USE DEF Goto
<1>6. CASE ReadHead(w)
  BY <1>4, <1>6 DEF ReadHead
<1>7. CASE FailRead(w)
  BY <1>4, <1>7 DEF FailRead
<1>8. CASE Send(w)
  BY <1>4, <1>8 DEF Send
<1>9. CASE TimeOut(w)
  BY <1>4, <1>9 DEF TimeOut, Retry
<1>10. CASE ReceiveStale(w)
  <2>1. pc[w] = "wait" /\ ~WasMade(w)
    BY <1>10 DEF ReceiveStale, AnswerStands
  <2>2. pc' = [pc EXCEPT ![w] = "stale"] \/ pc' = [pc EXCEPT ![w] = "read"]
    BY <1>10 DEF ReceiveStale
  <2> QED
    BY <1>4, <1>5, <2>1, <2>2
<1>11. CASE ReceiveEnd(w)
  <2>1. CASE reply[w].is = "ok" /\ pc' = [pc EXCEPT ![w] = "done"]
    <3>1. PICK v \in StandsFor[w] : WasMade(v)
      BY <2>1 DEF AnswerStands
    <3>2. v \in Writer
      BY <3>1 DEF StandsFor
    <3>3. Made[v] = 1
      BY <3>1, <3>2, MadeCounts
    <3>4. Told[w] = "nothing" /\ Told' = [Told EXCEPT ![w] = "yes"]
      BY <1>3, <1>11, <2>1 DEF ReceiveEnd
    <3> QED
      BY <1>2, <3>1, <3>3, <3>4 DEF Once!TellYes, Once!Next
  <2>2. CASE reply[w].is = "refused" /\ pc' = [pc EXCEPT ![w] = "refused"]
    BY <1>5, <1>11, <2>2 DEF ReceiveEnd, AnswerStands
  <2>3. CASE pc' = [pc EXCEPT ![w] = "failed"]
    BY <1>4, <1>11, <2>3 DEF ReceiveEnd
  <2>4. CASE pc' = [pc EXCEPT ![w] = "missing"]
    <3>1. Told[w] = "nothing" /\ Told' = [Told EXCEPT ![w] = "not yet"]
      BY <1>3, <1>11, <2>4 DEF ReceiveEnd
    <3> QED
      BY <1>2, <3>1 DEF Once!TellNotYet, Once!Next
  <2> QED
    BY <1>11, <2>1, <2>2, <2>3, <2>4 DEF ReceiveEnd
<1> QED
  BY <1>6, <1>7, <1>8, <1>9, <1>10, <1>11 DEF Command

\* A write is made once, before its maker was told anything.
LEMMA MakeIsOnce ==
  ASSUME Inv, Inv', NEW r \in requests, NEW a \in Answer, Respond(r, a), Make(r)
  PROVE  Once!Next
<1> USE DEF Inv
<1> DEFINE m == r.from
<1>1. /\ m \in Writer /\ Earlier(m) = {}
      /\ \A v \in Writer : WasMade(v)' <=> WasMade(v) \/ v = m
  BY MakeFacts
<1>2. pc' = pc
  BY DEF Respond, clientVars
<1>3. ~WasMade(m)
  BY <1>1, NotMade
<1>4. pc[m] \notin {"done", "stale", "refused"}
  BY <1>1 DEF AnswerStands, Hopeless, Make
<1>5. \A w \in Writer : Made'[w] = IF w = m THEN 1 ELSE Made[w]
  BY <1>1, <1>3, MadeCounts
<1>6. Made[m] = 0 /\ Made' = [Made EXCEPT ![m] = 1]
  <2>1. Made[m] = 0
    BY <1>1, <1>3, MadeCounts
  <2> QED
    BY <1>5, <2>1 DEF Made
<1>7. Told[m] \in {"nothing", "not yet"} /\ Told' = Told
  BY <1>1, <1>2, <1>4 DEF Told
<1> QED
  BY <1>1, <1>6, <1>7 DEF Once!Make, Once!Next

\* Every step is a step of the promise, or none.
LEMMA OnceStep ==
  ASSUME Inv, Inv', [Next]_vars
  PROVE  [Once!Next]_(Once!vars)
<1> USE DEF Inv
<1>1. ASSUME UNCHANGED <<pc, writer>>
      PROVE  UNCHANGED Once!vars
  BY <1>1, OnceStutters DEF WasMade
<1>2. ASSUME NEW r \in requests, Serve(r)
      PROVE  [Once!Next]_(Once!vars)
  BY <1>1, <1>2, ServeAnswers, MakeIsOnce DEF Respond, clientVars
<1>3. ASSUME NEW r \in requests, Lose(r)
      PROVE  UNCHANGED Once!vars
  BY <1>1, <1>3 DEF Lose, clientVars
<1>4. ASSUME (\E k \in Key : Decide(k)) \/ Others \/ ChangeBlobs
      PROVE  UNCHANGED Once!vars
  BY <1>1, <1>4 DEF Decide, Others, ChangeBlobs, clientVars
<1>5. CASE UNCHANGED vars
  BY <1>1, <1>5 DEF vars
<1> QED
  BY <1>2, <1>3, <1>4, <1>5, CommandTells, KeysAreDecided DEF Next

\* The commands, their connections and the board keep the promise of WriteOnce: a
\* write is made at most once however often it is sent, and what its maker is told
\* of it is so: a success of what was made, a refusal of what never is, but for one
\* that wants for a blob.
THEOREM SignedWritesAreOnce == Spec => WritesAreOnce
<1>1. Init => Once!Init
  <2> SUFFICES ASSUME Init PROVE Once!Init
    OBVIOUS
  <2>1. \A w \in Writer : {i \in Id : writer[i] = w} = {}
    BY SignedWriteAssumption DEF Init
  <2>2. Made = [w \in Writer |-> 0]
    BY <2>1, FS_EmptySet DEF Made
  <2>3. Told = [w \in Writer |-> "nothing"]
    BY InitNothing DEF Told
  <2> QED
    BY <2>2, <2>3 DEF Once!Init
<1>2. Inv /\ Inv' /\ [Next]_vars => [Once!Next]_(Once!vars)
  BY OnceStep
<1>3. [Once!Next]_(Once!vars) => [Once!vars' # Once!vars => Once!Next]_(Once!vars)
  OBVIOUS
<1> QED
  BY <1>1, <1>2, <1>3, InvAlways, PTL DEF Spec, WritesAreOnce, Once!Spec
=============================================================================
