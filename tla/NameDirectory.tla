---------------------------- MODULE NameDirectory ----------------------------
(***************************************************************************)
(* What the message board promises about names (store/keys.rs, the module  *)
(* documentation): "one name per key, one live key per name"; a name comes *)
(* to a key by the owner's approval alone, and the key that held it before *)
(* is out for good.  Keys.tla is shown to implement this specification.    *)
(***************************************************************************)

CONSTANTS Key,      \* the fingerprints
          Name,     \* the names a key can be bound to
          NoName,   \* what a key that is not bound holds
          NoKey     \* the owner, before one is configured

VARIABLES holds,    \* the name each key is bound to, or NoName
          dead,     \* the keys that were bound once and never can be again
          boss      \* the owner key, or NoKey

vars == <<holds, dead, boss>>

Init ==
  /\ holds = [k \in Key |-> NoName]
  /\ dead = {}
  /\ boss = NoKey

\* Bind n to k and put out the keys in Out, which lose their names for good.
Rebind(k, n, Out) ==
  /\ holds' = [j \in Key |-> IF j = k THEN n ELSE IF j \in Out THEN NoName ELSE holds[j]]
  /\ dead' = dead \cup Out

\* The owner grants n to a key that holds nothing and is not out.
Grant(k, n) ==
  /\ boss # NoKey
  /\ k \notin dead
  /\ holds[k] = NoName
  /\ holds[boss] # n
  /\ Rebind(k, n, {j \in Key : holds[j] = n})
  /\ UNCHANGED boss

\* The owner withdraws a key other than its own.
Withdraw(k) ==
  /\ boss \notin {k, NoKey}
  /\ holds[k] # NoName
  /\ holds' = [holds EXCEPT ![k] = NoName]
  /\ dead' = dead \cup {k}
  /\ UNCHANGED boss

\* The configuration names another owner key, or another name for it.
Appoint(k, n) ==
  /\ k \notin dead
  /\ Rebind(k, n, {j \in Key \ {k} : j = boss \/ holds[j] = n})
  /\ boss' = k

Next == \E k \in Key :
  \/ Withdraw(k)
  \/ \E n \in Name : Grant(k, n) \/ Appoint(k, n)

Spec == Init /\ [][Next]_vars
=============================================================================
