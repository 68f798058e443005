------------------------------- MODULE Upload -------------------------------
(***************************************************************************)
(* `board put FILE` (bin/board/blobs.rs put, upload, client.rs put) and    *)
(* the board's `PUT /blob` (bin/board-server/blobs.rs put, receive, land;  *)
(* store/blobs.rs blob_begin), before and between the downloads of         *)
(* Download.tla: one user, one command at a time.                          *)
(*                                                                         *)
(* The file is hashed, and opened again to be sent, once for each try; its *)
(* owner edits it meanwhile.  What the board checks before it asks for the *)
(* body, other than the nonce, and the store's room and rows, are          *)
(* Blobs.tla's: here it may always refuse.                                 *)
(***************************************************************************)
EXTENDS Download, FiniteSets

CONSTANTS NonceTries, \* NONCE_TRIES
          Retries,    \* RETRIES
          MaxPuts,    \* bound: uploads
          MaxEdits,   \* bound: edits of the file
          MaxHead     \* bound: writes by others

ASSUME UploadAssumption ==
  NonceTries \in Nat \ {0} /\ {Retries, MaxPuts, MaxEdits, MaxHead} \subseteq Nat

VARIABLES
  source,   \* the sender's file
  put,      \* where the upload is
  signed,   \* what it hashed, and signs
  nonce,    \* the head it signed over
  stale,    \* its signatures gone stale
  dropped,  \* its tries without an answer
  reply,    \* the answer to its present try
  requests, \* what the board has in hand
  head,     \* the highest event id; uploads are no events
  landed,   \* whatever the board has stored
  puts,
  edits

sender == <<source, put, signed, nonce, stale, dropped, puts, edits>>
server == <<stored, requests, reply, head, landed>>
transferVars == <<downloadVars, sender, server>>

Other == [i \in 1..Pieces |-> Bad]
Content == {TheBlob, Other}
Ended == {"off", "printed", "failed"}

\* A request, with what has come of its body.
Request == [run : Nat, try : Nat, nonce : Nat, sum : Content,
            at : {"head", "body", "landing"}, got : Content \cup {None}]

\* Each variable has values of its kind; a request is one of its tries.
TransferTypeOK ==
  /\ DownloadTypeOK /\ stored \in Content \cup {None}
  /\ source \in Content /\ signed \in Content \cup {None}
  /\ put \in Ended \cup {"head", "send", "wait"}
  /\ nonce \in 0..head /\ head \in 0..MaxHead
  /\ stale \in 0..NonceTries /\ dropped \in 0..Retries
  /\ reply \in {"none", "stored", "stale-nonce", "refused"}
  /\ requests \subseteq Request
  /\ landed \subseteq Content
  /\ puts \in 0..MaxPuts /\ edits \in 0..MaxEdits

TransferInit ==
  /\ DownloadInit
  /\ source = TheBlob
  /\ put = "off" /\ signed = None
  /\ nonce = 0 /\ stale = 0 /\ dropped = 0
  /\ reply = "none" /\ requests = {}
  /\ head = 0
  /\ landed = {stored} \ {None}
  /\ puts = 0 /\ edits = 0

----------------------------------------------------------------------------
(* The command. *)

\* digest(): the file is hashed before anything is signed.
Digest ==
  /\ step = "away" /\ put \in Ended
  /\ puts < MaxPuts /\ puts' = puts + 1
  /\ signed' = source
  /\ put' = "head" /\ stale' = 0 /\ dropped' = 0 /\ reply' = "none"
  /\ UNCHANGED <<downloadVars, stored, requests, source, nonce, head, landed, edits>>

\* The nonce is read for each try, and a failure to ends the upload.
ReadNonce ==
  /\ put = "head"
  /\ \/ put' = "send" /\ nonce' = head
     \/ put' = "failed" /\ UNCHANGED nonce
  /\ UNCHANGED <<downloadVars, server, source, signed, stale, dropped, puts, edits>>

\* The numbers of the run and the try name its connection.
Send ==
  /\ put = "send"
  /\ put' = "wait"
  /\ requests' = requests \cup {[run |-> puts, try |-> stale + dropped, nonce |-> nonce,
                               sum |-> signed, at |-> "head", got |-> None]}
  /\ UNCHANGED <<downloadVars, stored, reply, head, landed, source, signed, nonce, stale, dropped, puts, edits>>

\* Its answer: printed, signed afresh, or the board's refusal.
ReceiveReply ==
  /\ put = "wait" /\ reply # "none"
  /\ reply' = "none"
  /\ stale' = IF reply = "stale-nonce" THEN stale + 1 ELSE stale
  /\ put' = CASE reply = "stored" -> "printed"
              [] reply = "refused" -> "failed"
              [] OTHER -> IF stale' = NonceTries THEN "failed" ELSE "head"
  /\ UNCHANGED <<downloadVars, stored, requests, head, landed, source, signed, nonce, dropped, puts, edits>>

\* No answer within UPLOAD_TIMEOUT, or the connection breaks: it is sent again
\* ("the bytes are the same whoever sends them, so it is harmless").
Resend ==
  /\ put = "wait"
  /\ reply' = "none"
  /\ IF dropped < Retries
     THEN dropped' = dropped + 1 /\ put' = "head"
     ELSE put' = "failed" /\ UNCHANGED dropped
  /\ UNCHANGED <<downloadVars, stored, requests, head, landed, source, signed, nonce, stale, puts, edits>>

Put == ReadNonce \/ Send \/ ReceiveReply \/ Resend

----------------------------------------------------------------------------
(* The board. *)

Waits(q) == put = "wait" /\ q.run = puts /\ q.try = stale + dropped

\* Request q is answered, if anyone still waits for it.
Answer(q, a) ==
  /\ requests' = requests \ {q}
  /\ reply' = IF Waits(q) THEN a ELSE reply

CarryOn(q, place, body) ==
  requests' = (requests \ {q}) \cup {[q EXCEPT !.at = place, !.got = body]} /\ UNCHANGED reply

\* The bytes are stored already.  Those of the edited file never are.
Existed(q) == q.sum = TheBlob /\ stored # None

\* blob_begin(): the nonce, then whether the bytes are there; only then is the
\* client told to go on.
Check(q) ==
  /\ q.at = "head"
  /\ \/ Answer(q, "refused")
     \/ q.nonce # head /\ Answer(q, "stale-nonce")
     \/ q.nonce = head /\ Existed(q) /\ Answer(q, "stored")
     \/ q.nonce = head /\ ~Existed(q) /\ CarryOn(q, "body", None)
  /\ UNCHANGED <<downloadVars, sender, stored, head, landed>>

\* A mutant of Verified: the hash of what came is not looked at.
Verified_Not(q, body) == TRUE

\* receive(): what came has the hash that was signed.
Verified(q, body) == body = q.sum

\* The body, as the file is now; a client that has left sends none.
ReceiveBody(q) ==
  /\ q.at = "body"
  /\ IF ~Waits(q) THEN Answer(q, "none")
     ELSE IF Verified(q, source) THEN CarryOn(q, "landing", source) ELSE Answer(q, "refused")
  /\ UNCHANGED <<downloadVars, sender, stored, head, landed>>

\* The bytes arrived meanwhile by another upload, or are put in place and
\* recorded; or there is no room, or a fault.
LandBody(q) ==
  /\ q.at = "landing"
  /\ \/ Answer(q, "refused") /\ UNCHANGED <<stored, landed>>
     \/ /\ Answer(q, "stored")
        /\ stored' = IF q.sum = TheBlob /\ ~Existed(q) THEN q.got ELSE stored
        /\ landed' = landed \cup {q.sum}
  /\ UNCHANGED <<downloadVars, sender, head>>

\* The connection breaks, or the server dies.
Lose(q) ==
  /\ Answer(q, "none")
  /\ UNCHANGED <<downloadVars, sender, stored, head, landed>>

Serve == \E q \in requests : Check(q) \/ ReceiveBody(q) \/ LandBody(q) \/ Lose(q)

----------------------------------------------------------------------------
(* The others. *)

\* The sender's file is written to, or put back.
Edit ==
  /\ edits < MaxEdits /\ edits' = edits + 1
  /\ \E c \in Content \ {source} : source' = c
  /\ UNCHANGED <<downloadVars, server, put, signed, nonce, stale, dropped, puts>>

Write ==
  /\ head < MaxHead /\ head' = head + 1
  /\ UNCHANGED <<downloadVars, sender, stored, requests, reply, landed>>

\* The board's blob is evicted or deleted, or comes from somebody else.
Evict ==
  /\ stored' = IF stored = None THEN TheBlob ELSE None
  /\ landed' = landed \cup ({stored'} \ {None})
  /\ UNCHANGED <<downloadVars, sender, requests, reply, head>>

\* `board get`, when the upload has ended.
Get == put \in Ended /\ (\E r \in BOOLEAN : BeginGet(r)) /\ UNCHANGED <<sender, server>>

TransferNext ==
  \/ Digest \/ Put \/ Serve \/ Edit \/ Write \/ Evict
  \/ Get
  \/ Download /\ UNCHANGED <<sender, server>>

\* The user tries again, and what the commands can do they do, but for a
\* transfer's breaking off.  The board may not answer: the upload's waits end.
Fairness == WF_transferVars(Put) /\ WF_transferVars(Get) /\ WF_transferVars(Step /\ UNCHANGED <<sender, server>>)

TransferSpec == TransferInit /\ [][TransferNext]_transferVars /\ Fairness

----------------------------------------------------------------------------
(* What an upload promises. *)

\* What the board has under a hash are the bytes with that hash, and what `put`
\* printed a reference to was stored, though the file is hashed first and sent
\* later, is edited in between, and tries overlap: "the hash must be the signed
\* one" (bin/board-server/blobs.rs receive).
StoredUnderItsHash ==
  /\ stored \in {None, TheBlob}
  /\ put = "printed" => signed \in landed
=============================================================================
