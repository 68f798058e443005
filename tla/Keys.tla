-------------------------------- MODULE Keys --------------------------------
(***************************************************************************)
(* The keys of the message board: who may write, and under which name      *)
(* (apps/message-board/src/store/keys.rs, with the register queue's items  *)
(* of store/items.rs).                                                     *)
(*                                                                         *)
(* Every action is one signed write, or one start of the server            *)
(* (SetOwner).  The store holds its mutex and one transaction for the      *)
(* whole of each, so each is one step.  The signature, the client key and  *)
(* the nonce come before what is modelled here (SignedWrite.tla).  A       *)
(* request that is refused writes nothing: its refusal is the negation of  *)
(* an action's guard, and it is no step.                                   *)
(*                                                                         *)
(* Event ids are 1..MaxHead, for the code's 10001 and on; 0 stands for an  *)
(* id column that is NULL.  Names are opaque: looks_alike() is the         *)
(* constant relation Near, without the pairs of equal names, which every   *)
(* use of it leaves out.                                                   *)
(***************************************************************************)
EXTENDS Integers, FiniteSets

CONSTANTS Key,              \* fingerprints
          Name,             \* what check_name and check_reserved let through
          Near,             \* pairs of different names fewer than 3 edits apart
          ServerName,       \* "board", the board's own name
          Server,           \* the signer of the board's own events: no key
          NoName,           \* the name of a key the board does not know
          RegisterOpenMax,  \* REGISTER_OPEN_MAX
          MaxHead           \* bound: the last event id

ASSUME KeysAssumption ==
  /\ MaxHead \in Nat
  /\ RegisterOpenMax \in Nat
  /\ Server \notin Key
  /\ NoName \notin Name
  /\ ServerName \notin Name \cup {NoName}
  /\ Near \subseteq Name \X Name
  /\ \A m, n \in Name : <<m, n>> \in Near => <<n, m>> \in Near
  /\ \A n \in Name : <<n, n>> \notin Near

VARIABLES
  state,      \* keys.state; "unknown" for a key without a row
  name,       \* keys.name: the name asked for, then bound
  item,       \* keys.item: the key's latest registration
  approved,   \* keys.approved: the event that approved it
  revoked,    \* keys.revoked: the trust list version that revoked it
  itemState,  \* items.state of the register queue; "none" for an id that is no item
  by,         \* events.actor_fp: who signed each event
  trust,      \* the events that are versions of the trust list
  queueOwner, \* nodes.owner of the register queue
  head        \* the highest event id issued

keyVars == <<state, name, item, approved, revoked>>
vars == <<state, name, item, approved, revoked, itemState, by, trust, queueOwner, head>>

Id == 1..MaxHead
KeyState == {"unknown", "owner", "pending", "trusted", "declined", "revoked"}
ItemState == {"none", "open", "answered", "declined"}

\* Each column has values of its kind.
TypeOK ==
  /\ state \in [Key -> KeyState]
  /\ name \in [Key -> Name \cup {NoName}]
  /\ item \in [Key -> 0..MaxHead]
  /\ approved \in [Key -> 0..MaxHead]
  /\ revoked \in [Key -> 0..MaxHead]
  /\ itemState \in [Id -> ItemState]
  /\ by \in [Id -> Key \cup {Server}]
  /\ trust \in SUBSET Id
  /\ queueOwner \in Name \cup {ServerName}
  /\ head \in 0..MaxHead

\* A new board: no keys, and its register queue owned by the board itself.
Init ==
  /\ state = [k \in Key |-> "unknown"]
  /\ name = [k \in Key |-> NoName]
  /\ item = [k \in Key |-> 0]
  /\ approved = [k \in Key |-> 0]
  /\ revoked = [k \in Key |-> 0]
  /\ itemState = [i \in Id |-> "none"]
  /\ by = [i \in Id |-> Server]
  /\ trust = {}
  /\ queueOwner = ServerName
  /\ head = 0

-----------------------------------------------------------------------------
\* The keys names are bound to: bound().
Bound == {k \in Key : state[k] \in {"owner", "trusted"}}

OwnerNames == {name[k] : k \in {j \in Key : state[j] = "owner"}}

TooClose(n) == \E k \in Bound : name[k] # n /\ <<name[k], n>> \in Near

OpenItems == {i \in Id : itemState[i] = "open"}

\* Append n events, all signed by s, and leave the head at the last.
Append(s, n) ==
  /\ head + n <= MaxHead
  /\ head' = head + n
  /\ by' = [i \in Id |-> IF i \in (head + 1)..(head + n) THEN s ELSE by[i]]

\* begin_trust, revoke_keys and finish_trust: event `at` is a trust list
\* version, and the keys in Out are revoked by it.
Revoking(Out, at) ==
  /\ trust' = trust \cup {at}
  /\ revoked' = [k \in Key |-> IF k \in Out THEN at ELSE revoked[k]]

-----------------------------------------------------------------------------
\* A key the board does not know, or one it declined, may register.
MayRegister(k) == state[k] \in {"unknown", "declined"}

\* A key the board has not bound asks for a name.  A pending key gets its
\* waiting registration back, or a conflict, and writes nothing.
Register(k, n) ==
  /\ MayRegister(k)
  /\ n \notin OwnerNames
  /\ ~TooClose(n)
  /\ Cardinality(OpenItems) < RegisterOpenMax
  /\ Append(k, 1)
  /\ itemState' = [itemState EXCEPT ![head + 1] = "open"]
  /\ state' = [state EXCEPT ![k] = "pending"]
  /\ name' = [name EXCEPT ![k] = n]
  /\ item' = [item EXCEPT ![k] = head + 1]
  /\ UNCHANGED <<approved, revoked, trust, queueOwner>>

\* The other keys that wait for the name of k.
Rivals(k) == {r \in Key \ {k} : state[r] = "pending" /\ name[r] = name[k]}

\* The registrations they wait on.
RivalItems(k) == {i \in OpenItems : \E r \in Rivals(k) : item[r] = i}

\* Mutant: the keys an approval replaces stay bound.
Replaced_Kept(k) == {}

\* The trusted key bound to the name of k before, if there is one.
Replaced(k) == {r \in Key : state[r] = "trusted" /\ name[r] = name[k]}

\* A version that leaves the look-alikes to the check at registration.
MayApprove_LookAlikes(s, k) ==
  state[s] = "owner" /\ state[k] = "pending" /\ item[k] \in OpenItems /\ name[k] \notin OwnerNames

\* The owner approves a waiting key, unless its name has been bound to the
\* owner since, or a look-alike of it to any key.
MayApprove(s, k) ==
  /\ state[s] = "owner"
  /\ state[k] = "pending"
  /\ item[k] \in OpenItems
  /\ name[k] \notin OwnerNames
  /\ ~TooClose(name[k])

\* The owner binds the name of pending key k to it: the registration is
\* answered, each rival's declined, and a new trust list version revokes
\* the key that had the name.
Approve(s, k) ==
  LET last == head + 2 + Cardinality(RivalItems(k)) IN
  /\ MayApprove(s, k)
  /\ Append(s, 2 + Cardinality(RivalItems(k)))
  /\ itemState' = [i \in Id |-> IF i = item[k] THEN "answered"
                                ELSE IF i \in RivalItems(k) THEN "declined" ELSE itemState[i]]
  /\ state' = [j \in Key |-> IF j = k THEN "trusted"
                             ELSE IF j \in Rivals(k) THEN "declined"
                             ELSE IF j \in Replaced(k) THEN "revoked" ELSE state[j]]
  /\ approved' = [approved EXCEPT ![k] = head + 1]
  /\ Revoking(Replaced(k), last)
  /\ UNCHANGED <<name, item, queueOwner>>

\* Mutant: any bound key may decline a registration.
MayDecline_AnyBoundKey(s) == s \in Bound

\* check_resolver(): the queue's owner, a name, or the owner key declines.
MayDecline(s) == s \in Bound /\ (name[s] = queueOwner \/ state[s] = "owner")

\* Mutant: a declined registration leaves its key waiting.
WaitsOn_None(i) == {}

\* decline_registration(): the keys that wait on item i.
WaitsOn(i) == {k \in Key : item[k] = i /\ state[k] = "pending"}

\* A registration is declined, and the key that waits on it with it.
Decline(s, i) ==
  /\ MayDecline(s)
  /\ i \in OpenItems
  /\ Append(s, 1)
  /\ itemState' = [itemState EXCEPT ![i] = "declined"]
  /\ state' = [k \in Key |-> IF k \in WaitsOn(i) THEN "declined" ELSE state[k]]
  /\ UNCHANGED <<name, item, approved, revoked, trust, queueOwner>>

\* The owner withdraws a trusted key.  Revoking one that is revoked already
\* returns that revocation and writes nothing.
Revoke(s, k) ==
  /\ state[s] = "owner"
  /\ state[k] = "trusted"
  /\ Append(s, 1)
  /\ state' = [state EXCEPT ![k] = "revoked"]
  /\ Revoking({k}, head + 1)
  /\ UNCHANGED <<name, item, approved, itemState, queueOwner>>

\* Mutant: setting an owner revokes only the owners before it.
Ousted_Owners(k, n) == {r \in Key \ {k} : state[r] = "owner"}

\* The keys that make way for owner k, under name n.
Ousted(k, n) == {r \in Key \ {k} : state[r] = "owner" \/ (state[r] = "trusted" /\ name[r] = n)}

\* The register queue is the owner's.
HandQueue(n) == queueOwner' = n

\* A start of the server with key k configured as the owner's under name n.
\* It writes unless that is how things are.
SetOwner(k, n) ==
  /\ ~( {r \in Key : state[r] = "owner"} = {k} /\ name[k] = n /\ queueOwner = n )
  /\ revoked[k] = 0
  /\ Append(Server, 1)
  /\ Revoking(Ousted(k, n), head + 1)
  /\ state' = [j \in Key |-> IF j = k THEN "owner" ELSE IF j \in Ousted(k, n) THEN "revoked" ELSE state[j]]
  /\ name' = [name EXCEPT ![k] = n]
  /\ HandQueue(n)
  /\ UNCHANGED <<item, approved, itemState>>

\* Mutant: a revoked key may go on writing.
Admitted_AnyKnown(s) == state[s] # "unknown"

\* admit() lets only a bound key through.
Admitted(s) == s \in Bound

\* Any other signed write.
Write(s) ==
  /\ Admitted(s)
  /\ Append(s, 1)
  /\ UNCHANGED <<state, name, item, approved, revoked, itemState, trust, queueOwner>>

Next ==
  \/ \E k \in Key, n \in Name : Register(k, n) \/ SetOwner(k, n)
  \/ \E s, k \in Key : Approve(s, k) \/ Revoke(s, k)
  \/ \E s \in Key, i \in Id : Decline(s, i)
  \/ \E s \in Key : Write(s)

Spec == Init /\ [][Next]_vars

-----------------------------------------------------------------------------
\* A name has one live key, and the board one owner ("one live key per name",
\* keys.rs).  The schema's unique index would turn a violation into a failed
\* write; this says that no write ever runs into it.  Every key the board
\* knows has a name.
OneLiveKeyPerName ==
  /\ \A j, k \in Bound : name[j] = name[k] => j = k
  /\ \A j, k \in Key : state[j] = "owner" /\ state[k] = "owner" => j = k
  /\ \A k \in Key : state[k] # "unknown" => name[k] \in Name

\* A key that waits waits on an open registration of its own; so the owner
\* can always decide it.
PendingWaitsOnItsItem ==
  \A k \in Key : state[k] = "pending" =>
    /\ item[k] \in OpenItems
    /\ by[item[k]] = k

\* An open registration is the latest of the key that signed it, and that
\* key waits on it, unless it was made the owner while it waited.
OpenItemHasItsKey ==
  \A i \in OpenItems :
    /\ i <= head
    /\ by[i] \in Key
    /\ item[by[i]] = i
    /\ state[by[i]] \in {"pending", "owner", "revoked"}

\* Pending keys and open registrations pair off, so the owner can always
\* decide every registration and the register queue drains (register,
\* approve, decline_registration).
PendingPairsOff == PendingWaitsOnItsItem /\ OpenItemHasItsKey

\* A key is revoked exactly by one version of the trust list: the row's
\* CHECK, and "the event of the version that revoked a key is that key's
\* revoked_at" (keys.rs).
RevokedByTheTrustList ==
  /\ \A e \in trust : e <= head
  /\ \A k \in Key :
       /\ (state[k] = "revoked") = (revoked[k] # 0)
       /\ revoked[k] # 0 => revoked[k] \in trust

\* No event that a revoked key signed comes after its revocation.
NothingAfterRevocation ==
  \A k \in Key, e \in Id : revoked[k] # 0 /\ e <= head /\ by[e] = k => e < revoked[k]

\* What a revoked key signed, and when it was revoked, can be read off the
\* log (begin_trust, revoke_keys, admit).
RevokedInTheLog == RevokedByTheTrustList /\ NothingAfterRevocation

\* A trusted key's own registration was answered, by another key that was
\* the owner then: it is so still, or it is revoked.
TrustedWasApproved ==
  \A k \in Key : state[k] = "trusted" =>
    /\ item[k] \in Id /\ itemState[item[k]] = "answered" /\ by[item[k]] = k
    /\ approved[k] \in (item[k] + 1)..head
    /\ by[approved[k]] \in Key \ {k}
    /\ state[by[approved[k]]] \in {"owner", "revoked"}

\* No two approved names look alike, whatever order the registrations and
\* approvals came in.  (The configured owner's name is not held to it: the
\* server only warns of bound names near it.)
ApprovedNamesApart ==
  \A j, k \in Key : state[j] = "trusted" /\ state[k] = "trusted" => <<name[j], name[k]>> \notin Near

\* Trust was earned by a registration of its own and names nobody else
\* (Board::approve).
TrustWasEarned == TrustedWasApproved /\ ApprovedNamesApart

\* The register queue is the owner's: resolve() lets the queue's owner, a
\* name, decline, and no other key may come to that name.
RegisterQueueIsTheOwners ==
  IF OwnerNames = {} THEN queueOwner = ServerName ELSE OwnerNames = {queueOwner}

\* A revoked key is revoked for good, by the version that revoked it.
RevokedForGood ==
  [][\A k \in Key : state[k] = "revoked" =>
       /\ state'[k] = "revoked"
       /\ revoked'[k] = revoked[k]
       /\ name'[k] = name[k]]_vars

\* A registration is decided by the owner key, which signs every event of
\* the write that decides it.
OnlyTheOwnerDecides ==
  [][\A i \in OpenItems : itemState'[i] # "open" =>
       \E s \in Key : /\ state[s] = "owner"
                      /\ \A e \in (head + 1)..head' : by'[e] = s]_vars

-----------------------------------------------------------------------------
OwnerKeys == {k \in Key : state[k] = "owner"}

\* The promise this module implements: a key holds its name while it is
\* live, and is dead once revoked.
Holds == [k \in Key |-> IF k \in Bound THEN name[k] ELSE NoName]
Dead == {k \in Key : state[k] = "revoked"}
Boss == IF OwnerKeys = {} THEN Server ELSE CHOOSE k \in OwnerKeys : TRUE

Directory == INSTANCE NameDirectory WITH NoKey <- Server, holds <- Holds, dead <- Dead, boss <- Boss

\* Names move between keys only as NameDirectory says.
NamesAreKept == Directory!Spec
=============================================================================
