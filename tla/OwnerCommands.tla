---------------------------- MODULE OwnerCommands ----------------------------
(***************************************************************************)
(* `board approve TARGET` and `board revoke TARGET` (bin/board/write.rs):  *)
(* each reads a list (Board::registrations, Board::keys), picks from it,   *)
(* and signs what it picked; the board carries that out later, when other  *)
(* writes, by others and by the owner elsewhere, and a start of the server *)
(* with another owner may have come between (Keys.tla, whose actions go    *)
(* on meanwhile).  The owner's page in the browser signs the same fields.  *)
(*                                                                         *)
(* One command at a time; SignedWrite.tla has how it is sent.              *)
(***************************************************************************)
EXTENDS Keys

VARIABLE seen  \* what the command picked, and is about to sign; or Nothing

commandVars == <<vars, seen>>

Nothing == [to |-> "none"]

\* Board::registrations(): the keys that wait, each with the key it replaces.
Registrations ==
  {[key |-> k, name |-> name[k], item |-> item[k],
    replaces |-> {b \in Bound : name[b] = name[k]}] : k \in {j \in Key : state[j] = "pending"}}

\* Each variable has values of its kind.
CommandTypeOK ==
  /\ TypeOK
  /\ seen \in {Nothing}
       \cup [to : {"approve"}, key : Key, name : Name, item : Id, replaces : SUBSET Key]
       \cup [to : {"revoke"}, key : Key, replaces : SUBSET Key]

\* pick(): the registrations a target names, by key, item or name.
Pick(field, value) == {r \in Registrations : r[field] = value}

\* `approve` reads the list and picks the one registration its target names.
LookAtRegistrations ==
  /\ seen = Nothing
  /\ \E r \in Registrations, field \in {"key", "item", "name"} :
       /\ Pick(field, r[field]) = {r}
       /\ seen' = [to |-> "approve", key |-> r.key, name |-> r.name, item |-> r.item,
                    replaces |-> r.replaces]
  /\ UNCHANGED vars

\* bound_key(): the keys bound to a name.
BoundKeys(n) == {k \in Bound : name[k] = n}

\* `revoke` reads the keys, and finds the one bound to the name.
LookAtKeys ==
  /\ seen = Nothing
  /\ \E n \in Name : \E k \in BoundKeys(n) :
       /\ BoundKeys(n) = {k}
       /\ seen' = [to |-> "revoke", key |-> k, replaces |-> {k}]
  /\ UNCHANGED vars

\* A version of the check that goes by the key alone.
AsSigned_KeyOnly == TRUE

\* Board::approve(): the item's key is the one signed, and so is its name.
AsSigned == item[seen.key] = seen.item /\ name[seen.key] = seen.name

\* The board approves what was signed.
Approved ==
  /\ seen.to = "approve"
  /\ AsSigned
  /\ \E s \in Key : Approve(s, seen.key)
  /\ seen' = Nothing

\* The board revokes the key that was signed; if it is revoked, that is told.
Revoked ==
  /\ seen.to = "revoke"
  /\ \/ \E s \in Key : Revoke(s, seen.key)
     \/ state[seen.key] = "revoked" /\ OwnerNames # {} /\ UNCHANGED vars
  /\ seen' = Nothing

\* The board refuses it, or it has no answer.
Refused == seen # Nothing /\ seen' = Nothing /\ UNCHANGED vars

CommandInit == Init /\ seen = Nothing

CommandNext ==
  \/ LookAtRegistrations \/ LookAtKeys \/ Approved \/ Revoked \/ Refused
  \/ Next /\ UNCHANGED seen

CommandSpec == CommandInit /\ [][CommandNext]_commandVars

-----------------------------------------------------------------------------
\* The owner gets what was on the screen when the command was given, whatever
\* happened until the board carried it out ("so what the owner signs is that
\* key", write.rs approve).  An approval is of that very registration, and no
\* key is revoked by it but the one shown, though `replaces` is not signed.
OwnerGetsWhatWasSeen ==
  [][/\ Approved => by[seen.item] = seen.key /\ item[seen.key] = seen.item
     /\ Approved \/ Revoked =>
          \A k \in Key : state'[k] = "revoked" /\ state[k] # "revoked" => k \in seen.replaces
    ]_commandVars
=============================================================================
