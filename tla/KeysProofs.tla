----------------------------- MODULE KeysProofs -----------------------------
(***************************************************************************)
(* The theorems of Keys.tla, for every set of keys and names, every        *)
(* look-alike relation and every bound: its type invariant, its safety     *)
(* invariants (proved together, since each rests on the others) and its    *)
(* action properties; and, at the end, those of OwnerCommands.tla, whose   *)
(* steps are Keys' too.                                                    *)
(***************************************************************************)
EXTENDS OwnerCommands, FiniteSetTheorems, TLAPS

\* Approving a registration declines a finite number of others, so a write
\* appends a number of events.
LEMMA RivalItemsCount ==
  ASSUME NEW k \in Key
  PROVE  Cardinality(RivalItems(k)) \in Nat
<1>1. IsFiniteSet(Id)
  BY FS_Interval, KeysAssumption DEF Id
<1>2. RivalItems(k) \subseteq Id
  BY DEF RivalItems, OpenItems
<1>3. IsFiniteSet(RivalItems(k))
  BY <1>1, <1>2, FS_Subset
<1> QED
  BY <1>3, FS_CardinalityType

\* What appending events does: new ids, after all the others, all by one
\* signer; the old ones stay as they were.
LEMMA AppendFacts ==
  ASSUME TypeOK, NEW s \in Key \cup {Server}, NEW n \in Nat, Append(s, n)
  PROVE  /\ head' \in 0..MaxHead
         /\ head' = head + n
         /\ by' \in [Id -> Key \cup {Server}]
         /\ \A e \in Id : e <= head => by'[e] = by[e]
         /\ \A e \in Id : head < e /\ e <= head' => by'[e] = s
         /\ head + n <= MaxHead
<1> USE KeysAssumption
<1>1. head' = head + n /\ head' \in 0..MaxHead
  BY DEF TypeOK, Append
<1>2. by' \in [Id -> Key \cup {Server}]
  BY DEF TypeOK, Append
<1>3. \A e \in Id : e <= head => by'[e] = by[e]
  BY DEF TypeOK, Append, Id
<1>4. \A e \in Id : head < e /\ e <= head' => by'[e] = s
  BY DEF TypeOK, Append, Id
<1> QED
  BY <1>1, <1>2, <1>3, <1>4 DEF Append

-----------------------------------------------------------------------------
\* The initial state has a value of its kind in each column.
LEMMA InitTypeOK == Init => TypeOK
  BY KeysAssumption DEF Init, TypeOK, Id, KeyState, ItemState

\* Every write leaves one.
LEMMA NextTypeOK == TypeOK /\ [Next]_vars => TypeOK'
<1> SUFFICES ASSUME TypeOK, [Next]_vars
             PROVE  TypeOK'
  OBVIOUS
<1> USE KeysAssumption
<1>1. ASSUME NEW k \in Key, NEW n \in Name, Register(k, n)
      PROVE  TypeOK'
  <2>1. Append(k, 1) /\ head + 1 \in Id
    BY <1>1 DEF Register, Append, TypeOK, Id
  <2>2. head' \in 0..MaxHead /\ by' \in [Id -> Key \cup {Server}]
    BY <2>1, AppendFacts
  <2> QED
    BY <1>1, <2>1, <2>2 DEF Register, TypeOK, KeyState, ItemState, Id
<1>2. ASSUME NEW s \in Key, NEW k \in Key, Approve(s, k)
      PROVE  TypeOK'
  <2> DEFINE c == Cardinality(RivalItems(k))
  <2>1. c \in Nat
    BY RivalItemsCount
  <2>2. Append(s, 2 + c)
    BY <1>2 DEF Approve
  <2> HIDE DEF c
  <2>3. head + 2 + c <= MaxHead /\ head' \in 0..MaxHead /\ by' \in [Id -> Key \cup {Server}]
    BY <2>1, <2>2, AppendFacts DEF TypeOK
  <2>4. head + 1 \in 0..MaxHead /\ head + 2 + c \in Id
    BY <2>1, <2>3 DEF TypeOK, Id
  <2>5. trust' = trust \cup {head + 2 + c}
        /\ revoked' = [j \in Key |-> IF j \in Replaced(k) THEN head + 2 + c ELSE revoked[j]]
    BY <1>2 DEF Approve, Revoking, c
  <2>6. head + 2 + c \in 0..MaxHead
    BY <2>4 DEF Id
  <2>7. trust' \in SUBSET Id
    BY <2>4, <2>5 DEF TypeOK
  <2>8. revoked' \in [Key -> 0..MaxHead]
    BY <2>5, <2>6 DEF TypeOK
  <2>9. state' \in [Key -> KeyState] /\ itemState' \in [Id -> ItemState]
    BY <1>2 DEF Approve, TypeOK, KeyState, ItemState
  <2>10. approved' \in [Key -> 0..MaxHead] /\ UNCHANGED <<name, item, queueOwner>>
    BY <1>2, <2>4 DEF Approve, TypeOK
  <2> QED
    BY <2>3, <2>7, <2>8, <2>9, <2>10 DEF TypeOK
<1>3. ASSUME NEW s \in Key, NEW k \in Key, Revoke(s, k)
      PROVE  TypeOK'
  <2>1. Append(s, 1) /\ head + 1 \in Id
    BY <1>3 DEF Revoke, Append, TypeOK, Id
  <2>2. head' \in 0..MaxHead /\ by' \in [Id -> Key \cup {Server}]
    BY <2>1, AppendFacts
  <2> QED
    BY <1>3, <2>1, <2>2 DEF Revoke, Revoking, TypeOK, KeyState, Id
<1>4. ASSUME NEW s \in Key, NEW i \in Id, Decline(s, i)
      PROVE  TypeOK'
  <2>1. Append(s, 1)
    BY <1>4 DEF Decline
  <2>2. head' \in 0..MaxHead /\ by' \in [Id -> Key \cup {Server}]
    BY <2>1, AppendFacts
  <2> QED
    BY <1>4, <2>2 DEF Decline, TypeOK, KeyState, ItemState
<1>5. ASSUME NEW k \in Key, NEW n \in Name, SetOwner(k, n)
      PROVE  TypeOK'
  <2>1. Append(Server, 1) /\ head + 1 \in Id
    BY <1>5 DEF SetOwner, Append, TypeOK, Id
  <2>2. head' \in 0..MaxHead /\ by' \in [Id -> Key \cup {Server}]
    BY <2>1, AppendFacts
  <2> QED
    BY <1>5, <2>1, <2>2 DEF SetOwner, HandQueue, Revoking, TypeOK, KeyState, Id
<1>6. ASSUME NEW s \in Key, Write(s)
      PROVE  TypeOK'
  <2>1. Append(s, 1)
    BY <1>6 DEF Write
  <2>2. head' \in 0..MaxHead /\ by' \in [Id -> Key \cup {Server}]
    BY <2>1, AppendFacts
  <2> QED
    BY <1>6, <2>2 DEF Write, TypeOK
<1>7. CASE UNCHANGED vars
  BY <1>7 DEF vars, TypeOK
<1> QED
  BY <1>1, <1>2, <1>3, <1>4, <1>5, <1>6, <1>7 DEF Next

\* Every column of every state of the board has a value of its kind.
THEOREM TypeCorrect == Spec => []TypeOK
  BY InitTypeOK, NextTypeOK, PTL DEF Spec

-----------------------------------------------------------------------------
(***************************************************************************)
(* The inductive invariant is the conjunction of the safety invariants.    *)
(* None of them is inductive alone: that a waiting key's item is its own   *)
(* and open, for one, keeps two keys from waiting on one item, and with it *)
(* an approval from leaving a registration open that nobody waits on.      *)
(***************************************************************************)
Inv ==
  /\ TypeOK
  /\ OneLiveKeyPerName
  /\ PendingWaitsOnItsItem
  /\ OpenItemHasItsKey
  /\ RevokedByTheTrustList
  /\ NothingAfterRevocation
  /\ TrustedWasApproved
  /\ ApprovedNamesApart
  /\ RegisterQueueIsTheOwners

\* The order of a trusted key's events: it registered, then it was approved.
LEMMA TrustedFacts ==
  ASSUME TypeOK, TrustedWasApproved, NEW j \in Key, state[j] = "trusted"
  PROVE  /\ item[j] \in Id /\ itemState[item[j]] = "answered" /\ by[item[j]] = j
         /\ approved[j] \in Id /\ by[approved[j]] \in Key \ {j}
         /\ state[by[approved[j]]] \in {"owner", "revoked"}
         /\ item[j] < approved[j] /\ approved[j] <= head
<1> DEFINE i == item[j]
           a == approved[j]
<1>1. /\ i \in Id /\ itemState[i] = "answered" /\ by[i] = j
      /\ a \in (i + 1)..head /\ by[a] \in Key \ {j}
      /\ state[by[a]] \in {"owner", "revoked"}
  BY DEF TrustedWasApproved
<1>2. head \in Nat /\ head <= MaxHead /\ MaxHead \in Nat
  BY KeysAssumption DEF TypeOK
<1> HIDE DEF i, a
<1>3. i \in Nat /\ i >= 1
  BY <1>1, <1>2 DEF Id
<1>4. a \in Id /\ i < a /\ a <= head
  BY <1>1, <1>2, <1>3 DEF Id
<1> QED
  BY <1>1, <1>4 DEF i, a

\* Those events stay as they are, so the key stays properly approved in a
\* state where it is trusted still and the one that approved it is not
\* anything but an owner, present or past.
LEMMA TrustedStays ==
  ASSUME TypeOK, TrustedWasApproved, head' \in Nat, head' >= head,
         \A e \in Id : e <= head => by'[e] = by[e],
         NEW j \in Key, state[j] = "trusted",
         item'[j] = item[j], approved'[j] = approved[j],
         itemState'[item[j]] = "answered",
         state'[by[approved[j]]] \in {"owner", "revoked"}
  PROVE  /\ item'[j] \in Id /\ itemState'[item'[j]] = "answered" /\ by'[item'[j]] = j
         /\ approved'[j] \in (item'[j] + 1)..head'
         /\ by'[approved'[j]] \in Key \ {j}
         /\ state'[by'[approved'[j]]] \in {"owner", "revoked"}
<1> DEFINE i == item[j]
           a == approved[j]
<1>1. i \in Id /\ by[i] = j /\ a \in Id /\ by[a] \in Key \ {j} /\ i < a /\ a <= head
  BY TrustedFacts
<1>2. head \in Nat /\ MaxHead \in Nat
  BY KeysAssumption DEF TypeOK
<1>3. item'[j] = i /\ approved'[j] = a /\ itemState'[i] = "answered" /\ state'[by[a]] \in {"owner", "revoked"}
  OBVIOUS
<1> HIDE DEF i, a
<1>4. i <= head /\ a \in (i + 1)..head'
  BY <1>1, <1>2 DEF Id
<1>5. by'[i] = by[i] /\ by'[a] = by[a]
  BY <1>1, <1>4
<1> QED
  BY <1>1, <1>3, <1>4, <1>5

\* A new board has no keys, items or trust list versions.
LEMMA InitInv == Init => Inv
<1> SUFFICES ASSUME Init PROVE Inv
  OBVIOUS
<1>1. TypeOK
  BY InitTypeOK
<1>2. Bound = {} /\ OpenItems = {} /\ OwnerNames = {}
  BY DEF Init, Bound, OpenItems, OwnerNames
<1> QED
  BY <1>1, <1>2 DEF Init, Inv, OneLiveKeyPerName, PendingWaitsOnItsItem, OpenItemHasItsKey,
     RevokedByTheTrustList, NothingAfterRevocation, TrustedWasApproved, ApprovedNamesApart,
     RegisterQueueIsTheOwners

\* Registering binds nothing: the key that waits was not bound, and its new
\* item is the last event.
LEMMA RegisterKeepsInv ==
  ASSUME Inv, TypeOK', NEW k \in Key, NEW n \in Name, Register(k, n)
  PROVE  Inv'
<1> USE KeysAssumption
<1> USE DEF Inv
<1>1. Append(k, 1) /\ head + 1 \in Id
  BY DEF Register, Append, TypeOK, Id
<1>2. /\ head' = head + 1
      /\ by'[head + 1] = k
      /\ \A e \in Id : e <= head => by'[e] = by[e]
  BY <1>1, AppendFacts DEF TypeOK
<1>3. /\ state' = [state EXCEPT ![k] = "pending"]
      /\ name' = [name EXCEPT ![k] = n]
      /\ item' = [item EXCEPT ![k] = head + 1]
      /\ itemState' = [itemState EXCEPT ![head + 1] = "open"]
      /\ UNCHANGED <<approved, revoked, trust, queueOwner>>
  BY DEF Register
<1>4. state[k] \in {"unknown", "declined"} /\ revoked[k] = 0
  BY DEF Register, MayRegister, RevokedByTheTrustList
<1>5. Bound' = Bound /\ k \notin Bound
  BY <1>3, <1>4 DEF Bound, TypeOK
<1>6. OneLiveKeyPerName'
  BY <1>3, <1>4, <1>5 DEF OneLiveKeyPerName, Bound, TypeOK
<1>7. PendingWaitsOnItsItem'
  BY <1>1, <1>2, <1>3 DEF PendingWaitsOnItsItem, OpenItemHasItsKey, OpenItems, TypeOK, Id
<1>8. OpenItemHasItsKey'
  <2> SUFFICES ASSUME NEW i \in OpenItems'
               PROVE  /\ i <= head' /\ by'[i] \in Key /\ item'[by'[i]] = i
                      /\ state'[by'[i]] \in {"pending", "owner", "revoked"}
    BY DEF OpenItemHasItsKey
  <2>1. i \in Id /\ (i = head + 1 \/ i \in OpenItems)
    BY <1>1, <1>3 DEF OpenItems, TypeOK
  <2>2. CASE i = head + 1
    BY <2>2, <1>2, <1>3 DEF TypeOK
  <2>3. CASE i \in OpenItems
    <3>1. i <= head /\ by[i] \in Key /\ item[by[i]] = i /\ state[by[i]] \in {"pending", "owner", "revoked"}
      BY <2>3 DEF OpenItemHasItsKey
    <3>2. by[i] # k /\ by'[i] = by[i]
      BY <3>1, <2>1, <1>2, <1>4
    <3> QED
      BY <3>1, <3>2, <1>2, <1>3 DEF TypeOK
  <2> QED
    BY <2>1, <2>2, <2>3
<1>9. RevokedByTheTrustList'
  BY <1>2, <1>3, <1>4 DEF RevokedByTheTrustList, TypeOK, Id
<1>10. NothingAfterRevocation'
  BY <1>2, <1>3, <1>4 DEF NothingAfterRevocation, TypeOK, Id
<1>11. TrustedWasApproved'
  <2> SUFFICES ASSUME NEW j \in Key, state'[j] = "trusted"
               PROVE  /\ item'[j] \in Id /\ itemState'[item'[j]] = "answered" /\ by'[item'[j]] = j
                      /\ approved'[j] \in (item'[j] + 1)..head'
                      /\ by'[approved'[j]] \in Key \ {j}
                      /\ state'[by'[approved'[j]]] \in {"owner", "revoked"}
    BY DEF TrustedWasApproved
  <2>1. state[j] = "trusted" /\ j # k /\ item'[j] = item[j] /\ approved'[j] = approved[j]
    BY <1>3 DEF TypeOK
  <2>2. /\ item[j] \in Id /\ itemState[item[j]] = "answered" /\ item[j] < approved[j] /\ approved[j] <= head
        /\ state[by[approved[j]]] \in {"owner", "revoked"} /\ by[approved[j]] \in Key
    BY <2>1, TrustedFacts
  <2>3. item[j] # head + 1
    BY <2>2, <1>1 DEF TypeOK, Id
  <2>4. itemState'[item[j]] = "answered" /\ state'[by[approved[j]]] \in {"owner", "revoked"}
    BY <2>2, <2>3, <1>3, <1>4 DEF TypeOK
  <2>5. head' \in Nat /\ head' >= head
    BY <1>2 DEF TypeOK
  <2> QED
    BY <2>1, <2>4, <2>5, <1>2, TrustedStays
<1>12. ApprovedNamesApart'
  BY <1>3 DEF ApprovedNamesApart, TypeOK
<1>13. OwnerNames' = OwnerNames
  BY <1>3, <1>4 DEF OwnerNames, TypeOK
<1>14. RegisterQueueIsTheOwners'
  BY <1>3, <1>13 DEF RegisterQueueIsTheOwners
<1> QED
  BY <1>6, <1>7, <1>8, <1>9, <1>10, <1>11, <1>12, <1>14

\* Approving binds the name to the waiting key and takes it from the one
\* that had it; the events of the write come after all those of the keys it
\* revokes.
LEMMA ApproveKeepsInv ==
  ASSUME Inv, TypeOK', NEW s \in Key, NEW k \in Key, Approve(s, k)
  PROVE  Inv'
<1> USE KeysAssumption
<1> USE DEF Inv
<1> DEFINE c == Cardinality(RivalItems(k))
           last == head + 2 + c
<1>1. c \in Nat
  BY RivalItemsCount
<1>2. /\ Append(s, 2 + c)
      /\ Revoking(Replaced(k), last)
      /\ itemState' = [i \in Id |-> IF i = item[k] THEN "answered"
                                    ELSE IF i \in RivalItems(k) THEN "declined" ELSE itemState[i]]
      /\ state' = [j \in Key |-> IF j = k THEN "trusted"
                                 ELSE IF j \in Rivals(k) THEN "declined"
                                 ELSE IF j \in Replaced(k) THEN "revoked" ELSE state[j]]
      /\ approved' = [approved EXCEPT ![k] = head + 1]
      /\ UNCHANGED <<name, item, queueOwner>>
  BY DEF Approve
<1> HIDE DEF c
<1>3. /\ head' = head + 2 + c /\ head' = last /\ head \in Nat /\ last \in Nat /\ head + 1 \in Id /\ last \in Id
      /\ \A e \in Id : e <= head => by'[e] = by[e]
      /\ \A e \in Id : head < e /\ e <= head' => by'[e] = s
  <2>1. /\ head' = head + (2 + c) /\ head + (2 + c) <= MaxHead
        /\ \A e \in Id : e <= head => by'[e] = by[e]
        /\ \A e \in Id : head < e /\ e <= head' => by'[e] = s
    BY <1>1, <1>2, AppendFacts
  <2> QED
    BY <2>1, <1>1 DEF TypeOK, Id
<1>4. /\ trust' = trust \cup {last}
      /\ revoked' = [j \in Key |-> IF j \in Replaced(k) THEN last ELSE revoked[j]]
  BY <1>2 DEF Revoking
<1> HIDE DEF last
<1>5. /\ state[s] = "owner" /\ state[k] = "pending" /\ s # k
      /\ item[k] \in OpenItems /\ by[item[k]] = k /\ item[k] \in Id /\ item[k] <= head
      /\ name[k] \notin OwnerNames /\ ~TooClose(name[k]) /\ name[k] \in Name
  BY DEF Approve, MayApprove, PendingWaitsOnItsItem, OpenItemHasItsKey, OneLiveKeyPerName, OpenItems
<1>6. /\ \A j \in Rivals(k) : j \in Key /\ state[j] = "pending" /\ name[j] = name[k] /\ j # k
      /\ \A j \in Replaced(k) : j \in Key /\ state[j] = "trusted" /\ name[j] = name[k]
  BY DEF Rivals, Replaced
<1>7. OneLiveKeyPerName'
  <2>1. \A j \in Key : state'[j] = "owner" <=> state[j] = "owner"
    BY <1>2, <1>5, <1>6 DEF TypeOK
  <2>2. \A j \in Bound' : j = k \/ (j \in Bound /\ j \notin Replaced(k))
    BY <1>2, <1>6 DEF Bound
  <2>3. \A j \in Bound' : j # k => name[j] # name[k]
    <3> SUFFICES ASSUME NEW j \in Bound', j # k, name[j] = name[k]
                 PROVE  FALSE
      OBVIOUS
    <3>1. j \in Key /\ state[j] \in {"owner", "trusted"} /\ j \notin Replaced(k)
      BY <2>2 DEF Bound
    <3>2. state[j] = "owner"
      BY <3>1 DEF Replaced
    <3> QED
      BY <3>1, <3>2, <1>5 DEF OwnerNames
  <2>4. \A i, j \in Bound' : name'[i] = name'[j] => i = j
    BY <2>2, <2>3, <1>2 DEF OneLiveKeyPerName
  <2>5. \A j \in Key : state'[j] # "unknown" => name'[j] \in Name
    BY <1>2, <1>5, <1>6 DEF OneLiveKeyPerName
  <2> QED
    BY <2>1, <2>4, <2>5 DEF OneLiveKeyPerName
<1>8. \A i \in OpenItems' : i \in OpenItems /\ i # item[k] /\ i \notin RivalItems(k)
  BY <1>2 DEF OpenItems
<1>9. PendingWaitsOnItsItem'
  <2> SUFFICES ASSUME NEW j \in Key, state'[j] = "pending"
               PROVE  item'[j] \in OpenItems' /\ by'[item'[j]] = j
    BY DEF PendingWaitsOnItsItem
  <2>1. state[j] = "pending" /\ j # k /\ j \notin Rivals(k)
    BY <1>2
  <2>2. item[j] \in OpenItems /\ by[item[j]] = j /\ item[j] \in Id /\ item[j] <= head
    BY <2>1 DEF PendingWaitsOnItsItem, OpenItemHasItsKey, OpenItems
  <2>3. item[j] # item[k]
    BY <2>1, <2>2, <1>5
  <2>4. item[j] \notin RivalItems(k)
    <3> SUFFICES ASSUME NEW r \in Rivals(k), item[r] = item[j]
                 PROVE  FALSE
      BY DEF RivalItems
    <3>1. by[item[r]] = r
      BY <1>6 DEF PendingWaitsOnItsItem
    <3> QED
      BY <3>1, <2>1, <2>2
  <2>5. itemState'[item[j]] = "open"
    BY <2>2, <2>3, <2>4, <1>2 DEF OpenItems
  <2> QED
    BY <2>2, <2>5, <1>2, <1>3 DEF OpenItems
<1>10. OpenItemHasItsKey'
  <2> SUFFICES ASSUME NEW i \in OpenItems'
               PROVE  /\ i <= head' /\ by'[i] \in Key /\ item'[by'[i]] = i
                      /\ state'[by'[i]] \in {"pending", "owner", "revoked"}
    BY DEF OpenItemHasItsKey
  <2>1. /\ i \in Id /\ i <= head /\ by[i] \in Key /\ item[by[i]] = i
        /\ state[by[i]] \in {"pending", "owner", "revoked"}
    BY <1>8 DEF OpenItemHasItsKey, OpenItems
  <2>2. by[i] # k /\ by[i] \notin Rivals(k) /\ by[i] \notin Replaced(k)
    BY <2>1, <1>6, <1>8 DEF RivalItems
  <2>3. state'[by[i]] = state[by[i]]
    BY <2>1, <2>2, <1>2
  <2> QED
    BY <2>1, <2>3, <1>1, <1>2, <1>3 DEF Id
<1>11. RevokedByTheTrustList'
  <2>1. \A e \in trust' : e <= head'
    <3>1. \A e \in trust : e \in Nat /\ e <= head
      BY DEF RevokedByTheTrustList, TypeOK, Id
    <3> QED
      BY <3>1, <1>1, <1>3, <1>4
  <2>2. last # 0
    BY <1>3 DEF Id
  <2>3. \A j \in Key : (state'[j] = "revoked") = (revoked'[j] # 0)
    BY <2>2, <1>2, <1>4, <1>5, <1>6 DEF RevokedByTheTrustList
  <2>4. \A j \in Key : revoked'[j] # 0 => revoked'[j] \in trust'
    BY <1>4 DEF RevokedByTheTrustList
  <2> QED
    BY <2>1, <2>3, <2>4 DEF RevokedByTheTrustList
<1>12. NothingAfterRevocation'
  <2> SUFFICES ASSUME NEW j \in Key, NEW e \in Id, revoked'[j] # 0, e <= head', by'[e] = j
               PROVE  e < revoked'[j]
    BY DEF NothingAfterRevocation
  <2>1. j # s
    BY <1>4, <1>5, <1>6 DEF RevokedByTheTrustList
  <2>2. e <= head /\ by[e] = j
    BY <2>1, <1>3 DEF Id
  <2>3. CASE j \in Replaced(k)
    BY <2>2, <2>3, <1>1, <1>3, <1>4 DEF Id
  <2>4. CASE j \notin Replaced(k)
    BY <2>2, <2>4, <1>4 DEF NothingAfterRevocation
  <2> QED
    BY <2>3, <2>4
<1>13. TrustedWasApproved'
  <2> SUFFICES ASSUME NEW j \in Key, state'[j] = "trusted"
               PROVE  /\ item'[j] \in Id /\ itemState'[item'[j]] = "answered" /\ by'[item'[j]] = j
                      /\ approved'[j] \in (item'[j] + 1)..head'
                      /\ by'[approved'[j]] \in Key \ {j}
                      /\ state'[by'[approved'[j]]] \in {"owner", "revoked"}
    BY DEF TrustedWasApproved
  <2>1. CASE j = k
    <3>1. itemState'[item[k]] = "answered" /\ by'[item[k]] = k
      BY <1>2, <1>3, <1>5
    <3>2. approved'[k] = head + 1 /\ head + 1 \in (item[k] + 1)..head'
      BY <1>1, <1>2, <1>3, <1>5 DEF TypeOK, Id
    <3>3. by'[head + 1] = s
      BY <1>1, <1>3
    <3>4. state'[s] = "owner"
      BY <1>2, <1>5, <1>6
    <3> QED
      BY <2>1, <3>1, <3>2, <3>3, <3>4, <1>2, <1>5
  <2>2. CASE j # k
    <3>1. state[j] = "trusted" /\ item'[j] = item[j] /\ approved'[j] = approved[j]
      BY <2>2, <1>2 DEF TypeOK
    <3>2. /\ item[j] \in Id /\ itemState[item[j]] = "answered" /\ by[item[j]] = j
          /\ by[approved[j]] \in Key /\ state[by[approved[j]]] \in {"owner", "revoked"}
      BY <3>1, TrustedFacts
    <3>3. itemState'[item[j]] = "answered"
      BY <3>2, <1>2 DEF RivalItems, OpenItems
    <3>4. state'[by[approved[j]]] \in {"owner", "revoked"}
      BY <3>2, <1>2, <1>5, <1>6
    <3>5. head' \in Nat /\ head' >= head
      BY <1>1, <1>3
    <3> QED
      BY <3>1, <3>3, <3>4, <3>5, <1>3, TrustedStays
  <2> QED
    BY <2>1, <2>2
<1>14. ApprovedNamesApart'
  <2> SUFFICES ASSUME NEW i \in Key, NEW j \in Key, state'[i] = "trusted", state'[j] = "trusted"
               PROVE  <<name[i], name[j]>> \notin Near
    BY <1>2 DEF ApprovedNamesApart
  <2>1. \A b \in Key : b # k /\ state'[b] = "trusted" => /\ state[b] = "trusted"
                                                         /\ name[b] \in Name
                                                         /\ <<name[b], name[k]>> \notin Near
    <3> SUFFICES ASSUME NEW b \in Key, b # k, state'[b] = "trusted"
                 PROVE  state[b] = "trusted" /\ name[b] \in Name /\ <<name[b], name[k]>> \notin Near
      OBVIOUS
    <3>1. state[b] = "trusted" /\ b \notin Replaced(k)
      BY <1>2
    <3>2. name[b] # name[k] /\ b \in Bound /\ name[b] \in Name
      BY <3>1 DEF Replaced, Bound, OneLiveKeyPerName
    <3> QED
      BY <3>1, <3>2, <1>5 DEF TooClose
  <2> QED
    BY <2>1, <1>5 DEF ApprovedNamesApart
<1>15. RegisterQueueIsTheOwners'
  <2>1. \A j \in Key : state'[j] = "owner" <=> state[j] = "owner"
    BY <1>2, <1>5, <1>6 DEF TypeOK
  <2>2. OwnerNames' = OwnerNames
    BY <2>1, <1>2 DEF OwnerNames
  <2> QED
    BY <2>2, <1>2 DEF RegisterQueueIsTheOwners
<1> QED
  BY <1>7, <1>9, <1>10, <1>11, <1>12, <1>13, <1>14, <1>15

\* Declining closes an item and takes the key that waits on it with it.
LEMMA DeclineKeepsInv ==
  ASSUME Inv, TypeOK', NEW s \in Key, NEW i \in Id, Decline(s, i)
  PROVE  Inv'
<1> USE KeysAssumption
<1> USE DEF Inv
<1>1. /\ Append(s, 1)
      /\ itemState' = [itemState EXCEPT ![i] = "declined"]
      /\ state' = [k \in Key |-> IF k \in WaitsOn(i) THEN "declined" ELSE state[k]]
      /\ UNCHANGED <<name, item, approved, revoked, trust, queueOwner>>
  BY DEF Decline
<1>2. /\ head' = head + 1 /\ head \in Nat
      /\ \A e \in Id : e <= head => by'[e] = by[e]
      /\ \A e \in Id : head < e /\ e <= head' => by'[e] = s
  BY <1>1, AppendFacts DEF TypeOK
<1>3. /\ s \in Bound /\ state[s] \in {"owner", "trusted"} /\ i \in OpenItems /\ itemState[i] = "open"
      /\ \A k \in WaitsOn(i) : k \in Key /\ state[k] = "pending" /\ item[k] = i
  BY DEF Decline, MayDecline, WaitsOn, Bound, OpenItems
<1>4. /\ \A k \in Key : state[k] \in {"owner", "trusted", "revoked"} => state'[k] = state[k]
      /\ \A k \in Key : state'[k] # "declined" => state'[k] = state[k]
      /\ Bound' = Bound
  BY <1>1, <1>3 DEF Bound
<1>5. OneLiveKeyPerName'
  BY <1>1, <1>3, <1>4 DEF OneLiveKeyPerName
<1>6. PendingWaitsOnItsItem'
  <2> SUFFICES ASSUME NEW j \in Key, state'[j] = "pending"
               PROVE  item'[j] \in OpenItems' /\ by'[item'[j]] = j
    BY DEF PendingWaitsOnItsItem
  <2>1. state[j] = "pending" /\ j \notin WaitsOn(i) /\ item[j] # i
    BY <1>1 DEF WaitsOn
  <2>2. item[j] \in OpenItems /\ by[item[j]] = j /\ item[j] \in Id /\ item[j] <= head
    BY <2>1 DEF PendingWaitsOnItsItem, OpenItemHasItsKey, OpenItems
  <2> QED
    BY <2>1, <2>2, <1>1, <1>2 DEF OpenItems, TypeOK
<1>7. OpenItemHasItsKey'
  <2> SUFFICES ASSUME NEW o \in OpenItems'
               PROVE  /\ o <= head' /\ by'[o] \in Key /\ item'[by'[o]] = o
                      /\ state'[by'[o]] \in {"pending", "owner", "revoked"}
    BY DEF OpenItemHasItsKey
  <2>1. o \in OpenItems /\ o # i /\ o \in Id
    BY <1>1 DEF OpenItems, TypeOK
  <2>2. o <= head /\ by[o] \in Key /\ item[by[o]] = o /\ state[by[o]] \in {"pending", "owner", "revoked"}
    BY <2>1 DEF OpenItemHasItsKey
  <2>3. state'[by[o]] = state[by[o]]
    BY <2>1, <2>2, <1>1, <1>3
  <2> QED
    BY <2>1, <2>2, <2>3, <1>1, <1>2 DEF Id
<1>8. RevokedByTheTrustList'
  BY <1>1, <1>2, <1>3 DEF RevokedByTheTrustList, TypeOK, Id
<1>9. NothingAfterRevocation'
  <2>1. revoked[s] = 0
    BY <1>3 DEF RevokedByTheTrustList
  <2> QED
    BY <2>1, <1>1, <1>2 DEF NothingAfterRevocation, Id
<1>10. TrustedWasApproved'
  <2> SUFFICES ASSUME NEW j \in Key, state'[j] = "trusted"
               PROVE  /\ item'[j] \in Id /\ itemState'[item'[j]] = "answered" /\ by'[item'[j]] = j
                      /\ approved'[j] \in (item'[j] + 1)..head'
                      /\ by'[approved'[j]] \in Key \ {j}
                      /\ state'[by'[approved'[j]]] \in {"owner", "revoked"}
    BY DEF TrustedWasApproved
  <2>1. state[j] = "trusted" /\ item'[j] = item[j] /\ approved'[j] = approved[j]
    BY <1>1
  <2>2. /\ item[j] \in Id /\ itemState[item[j]] = "answered"
        /\ by[approved[j]] \in Key /\ state[by[approved[j]]] \in {"owner", "revoked"}
    BY <2>1, TrustedFacts
  <2>3. itemState'[item[j]] = "answered" /\ state'[by[approved[j]]] \in {"owner", "revoked"}
    BY <2>2, <1>1, <1>3, <1>4 DEF TypeOK
  <2>4. head' \in Nat /\ head' >= head
    BY <1>2
  <2> QED
    BY <2>1, <2>3, <2>4, <1>2, TrustedStays
<1>11. ApprovedNamesApart'
  BY <1>1, <1>4 DEF ApprovedNamesApart
<1>12. RegisterQueueIsTheOwners'
  <2>1. OwnerNames' = OwnerNames
    BY <1>1, <1>3 DEF OwnerNames
  <2> QED
    BY <2>1, <1>1 DEF RegisterQueueIsTheOwners
<1> QED
  BY <1>5, <1>6, <1>7, <1>8, <1>9, <1>10, <1>11, <1>12

\* Revoking puts the event of its trust list version after every event of
\* the key, which cannot have signed that one: it is not the owner's.
LEMMA RevokeKeepsInv ==
  ASSUME Inv, TypeOK', NEW s \in Key, NEW k \in Key, Revoke(s, k)
  PROVE  Inv'
<1> USE KeysAssumption
<1> USE DEF Inv
<1>1. /\ Append(s, 1)
      /\ state' = [state EXCEPT ![k] = "revoked"]
      /\ trust' = trust \cup {head + 1}
      /\ revoked' = [j \in Key |-> IF j = k THEN head + 1 ELSE revoked[j]]
      /\ UNCHANGED <<name, item, approved, itemState, queueOwner>>
      /\ state[s] = "owner" /\ state[k] = "trusted" /\ s # k
  BY DEF Revoke, Revoking
<1>2. /\ head' = head + 1 /\ head \in Nat
      /\ \A e \in Id : e <= head => by'[e] = by[e]
      /\ \A e \in Id : head < e /\ e <= head' => by'[e] = s
  BY <1>1, AppendFacts DEF TypeOK
<1>3. /\ \A j \in Key : j # k => state'[j] = state[j]
      /\ state'[k] = "revoked"
      /\ OpenItems' = OpenItems
  BY <1>1 DEF OpenItems, TypeOK
<1>4. OneLiveKeyPerName'
  BY <1>1, <1>3 DEF OneLiveKeyPerName, Bound
<1>5. PendingWaitsOnItsItem'
  BY <1>1, <1>2, <1>3 DEF PendingWaitsOnItsItem, OpenItemHasItsKey, OpenItems
<1>6. OpenItemHasItsKey'
  BY <1>1, <1>2, <1>3 DEF OpenItemHasItsKey, OpenItems, Id
<1>7. RevokedByTheTrustList'
  BY <1>1, <1>2, <1>3 DEF RevokedByTheTrustList, TypeOK, Id
<1>8. NothingAfterRevocation'
  <2>1. revoked[s] = 0
    BY <1>1 DEF RevokedByTheTrustList
  <2> QED
    BY <2>1, <1>1, <1>2 DEF NothingAfterRevocation, Id
<1>9. TrustedWasApproved'
  <2> SUFFICES ASSUME NEW j \in Key, state'[j] = "trusted"
               PROVE  /\ item'[j] \in Id /\ itemState'[item'[j]] = "answered" /\ by'[item'[j]] = j
                      /\ approved'[j] \in (item'[j] + 1)..head'
                      /\ by'[approved'[j]] \in Key \ {j}
                      /\ state'[by'[approved'[j]]] \in {"owner", "revoked"}
    BY DEF TrustedWasApproved
  <2>1. state[j] = "trusted" /\ item'[j] = item[j] /\ approved'[j] = approved[j]
    BY <1>1, <1>3
  <2>2. /\ itemState[item[j]] = "answered" /\ by[approved[j]] \in Key
        /\ state[by[approved[j]]] \in {"owner", "revoked"}
    BY <2>1, TrustedFacts
  <2>3. itemState'[item[j]] = "answered" /\ state'[by[approved[j]]] \in {"owner", "revoked"}
    BY <2>2, <1>1, <1>3
  <2>4. head' \in Nat /\ head' >= head
    BY <1>2
  <2> QED
    BY <2>1, <2>3, <2>4, <1>2, TrustedStays
<1>10. ApprovedNamesApart'
  BY <1>1, <1>3 DEF ApprovedNamesApart
<1>11. RegisterQueueIsTheOwners'
  <2>1. OwnerNames' = OwnerNames
    BY <1>1, <1>3 DEF OwnerNames
  <2> QED
    BY <2>1, <1>1 DEF RegisterQueueIsTheOwners
<1> QED
  BY <1>4, <1>5, <1>6, <1>7, <1>8, <1>9, <1>10, <1>11

\* A configured owner ousts the other owner and the key that has its name;
\* no key signs the server's own event.
LEMMA SetOwnerKeepsInv ==
  ASSUME Inv, TypeOK', NEW k \in Key, NEW n \in Name, SetOwner(k, n)
  PROVE  Inv'
<1> USE KeysAssumption
<1> USE DEF Inv
<1>1. /\ Append(Server, 1)
      /\ trust' = trust \cup {head + 1}
      /\ revoked' = [j \in Key |-> IF j \in Ousted(k, n) THEN head + 1 ELSE revoked[j]]
      /\ state' = [j \in Key |-> IF j = k THEN "owner" ELSE IF j \in Ousted(k, n) THEN "revoked" ELSE state[j]]
      /\ name' = [name EXCEPT ![k] = n]
      /\ queueOwner' = n
      /\ UNCHANGED <<item, approved, itemState>>
      /\ revoked[k] = 0
  BY DEF SetOwner, Revoking, HandQueue
<1>2. /\ head' = head + 1 /\ head \in Nat
      /\ \A e \in Id : e <= head => by'[e] = by[e]
      /\ \A e \in Id : head < e /\ e <= head' => by'[e] = Server
  BY <1>1, AppendFacts DEF TypeOK
<1>3. /\ state[k] # "revoked"
      /\ \A j \in Ousted(k, n) : j \in Key /\ j # k /\ state[j] \in {"owner", "trusted"}
      /\ \A j \in Key : j # k /\ state'[j] \in {"owner", "trusted"} =>
           state'[j] = "trusted" /\ state[j] = "trusted" /\ name[j] # n
      /\ OpenItems' = OpenItems
  BY <1>1 DEF Ousted, RevokedByTheTrustList, OpenItems
<1>4. OneLiveKeyPerName'
  <2>1. \A j \in Key : state'[j] = "owner" => j = k
    BY <1>3
  <2>2. \A i, j \in Bound' : name'[i] = name'[j] => i = j
    BY <1>1, <1>3 DEF OneLiveKeyPerName, Bound, TypeOK
  <2>3. \A j \in Key : state'[j] # "unknown" => name'[j] \in Name
    BY <1>1, <1>3 DEF OneLiveKeyPerName, TypeOK
  <2> QED
    BY <2>1, <2>2, <2>3 DEF OneLiveKeyPerName
<1>5. PendingWaitsOnItsItem'
  BY <1>1, <1>2, <1>3 DEF PendingWaitsOnItsItem, OpenItemHasItsKey, OpenItems
<1>6. OpenItemHasItsKey'
  <2> SUFFICES ASSUME NEW i \in OpenItems'
               PROVE  /\ i <= head' /\ by'[i] \in Key /\ item'[by'[i]] = i
                      /\ state'[by'[i]] \in {"pending", "owner", "revoked"}
    BY DEF OpenItemHasItsKey
  <2>1. /\ i \in Id /\ i <= head /\ by[i] \in Key /\ item[by[i]] = i
        /\ state[by[i]] \in {"pending", "owner", "revoked"}
    BY <1>3 DEF OpenItemHasItsKey, OpenItems
  <2> QED
    BY <2>1, <1>1, <1>2 DEF Id
<1>7. RevokedByTheTrustList'
  BY <1>1, <1>2, <1>3 DEF RevokedByTheTrustList, TypeOK, Id
<1>8. NothingAfterRevocation'
  BY <1>1, <1>2, <1>3 DEF NothingAfterRevocation, Id
<1>9. TrustedWasApproved'
  <2> SUFFICES ASSUME NEW j \in Key, state'[j] = "trusted"
               PROVE  /\ item'[j] \in Id /\ itemState'[item'[j]] = "answered" /\ by'[item'[j]] = j
                      /\ approved'[j] \in (item'[j] + 1)..head'
                      /\ by'[approved'[j]] \in Key \ {j}
                      /\ state'[by'[approved'[j]]] \in {"owner", "revoked"}
    BY DEF TrustedWasApproved
  <2>1. state[j] = "trusted" /\ item'[j] = item[j] /\ approved'[j] = approved[j]
    BY <1>1, <1>3
  <2>2. /\ itemState[item[j]] = "answered" /\ by[approved[j]] \in Key
        /\ state[by[approved[j]]] \in {"owner", "revoked"}
    BY <2>1, TrustedFacts
  <2>3. itemState'[item[j]] = "answered" /\ state'[by[approved[j]]] \in {"owner", "revoked"}
    BY <2>2, <1>1, <1>3
  <2>4. head' \in Nat /\ head' >= head
    BY <1>2
  <2> QED
    BY <2>1, <2>3, <2>4, <1>2, TrustedStays
<1>10. ApprovedNamesApart'
  BY <1>1, <1>3 DEF ApprovedNamesApart
<1>11. OwnerNames' = {n}
  BY <1>1, <1>3 DEF OwnerNames, TypeOK
<1>12. RegisterQueueIsTheOwners'
  BY <1>1, <1>11 DEF RegisterQueueIsTheOwners
<1> QED
  BY <1>4, <1>5, <1>6, <1>7, <1>8, <1>9, <1>10, <1>12

\* Another write adds an event by a bound key, and a bound key is not revoked.
LEMMA WriteKeepsInv ==
  ASSUME Inv, TypeOK', NEW s \in Key, Write(s)
  PROVE  Inv'
<1> USE KeysAssumption
<1> USE DEF Inv
<1>1. /\ Append(s, 1)
      /\ UNCHANGED <<state, name, item, approved, revoked, itemState, trust, queueOwner>>
      /\ state[s] \in {"owner", "trusted"}
  BY DEF Write, Admitted, Bound
<1>2. /\ head' = head + 1 /\ head \in Nat
      /\ \A e \in Id : e <= head => by'[e] = by[e]
      /\ \A e \in Id : head < e /\ e <= head' => by'[e] = s
  BY <1>1, AppendFacts DEF TypeOK
<1>3. Bound' = Bound /\ OpenItems' = OpenItems /\ OwnerNames' = OwnerNames
  BY <1>1 DEF Bound, OpenItems, OwnerNames
<1>4. OneLiveKeyPerName' /\ ApprovedNamesApart' /\ RegisterQueueIsTheOwners'
  BY <1>1, <1>3 DEF OneLiveKeyPerName, ApprovedNamesApart, RegisterQueueIsTheOwners
<1>5. PendingWaitsOnItsItem'
  BY <1>1, <1>2, <1>3 DEF PendingWaitsOnItsItem, OpenItemHasItsKey, OpenItems
<1>6. OpenItemHasItsKey'
  BY <1>1, <1>2, <1>3 DEF OpenItemHasItsKey, OpenItems, Id
<1>7. RevokedByTheTrustList'
  BY <1>1, <1>2 DEF RevokedByTheTrustList, TypeOK, Id
<1>8. NothingAfterRevocation'
  <2>1. revoked[s] = 0
    BY <1>1 DEF RevokedByTheTrustList
  <2> QED
    BY <2>1, <1>1, <1>2 DEF NothingAfterRevocation, Id
<1>9. TrustedWasApproved'
  <2> SUFFICES ASSUME NEW j \in Key, state[j] = "trusted"
               PROVE  /\ item'[j] \in Id /\ itemState'[item'[j]] = "answered" /\ by'[item'[j]] = j
                      /\ approved'[j] \in (item'[j] + 1)..head'
                      /\ by'[approved'[j]] \in Key \ {j}
                      /\ state'[by'[approved'[j]]] \in {"owner", "revoked"}
    BY <1>1 DEF TrustedWasApproved
  <2>1. itemState[item[j]] = "answered" /\ state[by[approved[j]]] \in {"owner", "revoked"}
    BY TrustedFacts
  <2>2. head' \in Nat /\ head' >= head
    BY <1>2
  <2> QED
    BY <2>1, <2>2, <1>1, <1>2, TrustedStays
<1> QED
  BY <1>4, <1>5, <1>6, <1>7, <1>8, <1>9

\* Every write, and every start of the server, keeps the invariant.
LEMMA NextInv == Inv /\ [Next]_vars => Inv'
<1> SUFFICES ASSUME Inv, [Next]_vars
             PROVE  Inv'
  OBVIOUS
<1>1. TypeOK'
  BY NextTypeOK DEF Inv
<1>2. CASE Next
  BY <1>1, <1>2, RegisterKeepsInv, ApproveKeepsInv, DeclineKeepsInv, RevokeKeepsInv,
     SetOwnerKeepsInv, WriteKeepsInv DEF Next
<1>3. CASE UNCHANGED vars
  <2>1. UNCHANGED <<state, name, item, approved, revoked, itemState, by, trust, queueOwner, head>>
    BY <1>3 DEF vars
  <2>2. Bound' = Bound /\ OpenItems' = OpenItems /\ OwnerNames' = OwnerNames
    BY <2>1 DEF Bound, OpenItems, OwnerNames
  <2>3. OneLiveKeyPerName' /\ PendingWaitsOnItsItem' /\ OpenItemHasItsKey'
    BY <2>1, <2>2 DEF Inv, OneLiveKeyPerName, PendingWaitsOnItsItem, OpenItemHasItsKey
  <2>4. RevokedByTheTrustList' /\ NothingAfterRevocation'
    BY <2>1 DEF Inv, RevokedByTheTrustList, NothingAfterRevocation
  <2>5. TrustedWasApproved' /\ ApprovedNamesApart'
    BY <2>1 DEF Inv, TrustedWasApproved, ApprovedNamesApart
  <2>6. RegisterQueueIsTheOwners'
    BY <2>1, <2>2 DEF Inv, RegisterQueueIsTheOwners
  <2> QED
    BY <1>1, <2>3, <2>4, <2>5, <2>6 DEF Inv
<1> QED
  BY <1>2, <1>3

\* The inductive invariant holds in every state of the board.
THEOREM InvAlways == Spec => []Inv
  BY InitInv, NextInv, PTL DEF Spec

\* A name never has two live keys, nor the board two owners.
THEOREM NamesAreUnique == Spec => []OneLiveKeyPerName
<1>1. Inv => OneLiveKeyPerName
  BY DEF Inv
<1> QED
  BY <1>1, InvAlways, PTL

\* Nothing a revoked key signed comes after the event that revoked it, and
\* that event is a version of the trust list.
THEOREM RevocationIsFinalInTheLog == Spec => []RevokedInTheLog
<1>1. Inv => RevokedInTheLog
  BY DEF Inv, RevokedInTheLog
<1> QED
  BY <1>1, InvAlways, PTL

\* A trusted key registered and was then approved by another key, an owner's,
\* and no two such keys have names that look alike.
THEOREM TrustIsEarned == Spec => []TrustWasEarned
<1>1. Inv => TrustWasEarned
  BY DEF Inv, TrustWasEarned
<1> QED
  BY <1>1, InvAlways, PTL

\* Waiting keys and open registrations pair off, but for those of a key that
\* became the owner's while it waited.
THEOREM RegistrationsPairOff == Spec => []PendingPairsOff
<1>1. Inv => PendingPairsOff
  BY DEF Inv, PendingPairsOff
<1> QED
  BY <1>1, InvAlways, PTL

\* The register queue's owner is the name of the owner key.
THEOREM QueueFollowsTheOwner == Spec => []RegisterQueueIsTheOwners
<1>1. Inv => RegisterQueueIsTheOwners
  BY DEF Inv
<1> QED
  BY <1>1, InvAlways, PTL

-----------------------------------------------------------------------------
\* The state changes that an action leaves to the keys it names.
LEMMA RevokedStays ==
  ASSUME Inv, [Next]_vars, NEW k \in Key, state[k] = "revoked"
  PROVE  state'[k] = "revoked" /\ revoked'[k] = revoked[k] /\ name'[k] = name[k]
<1> USE KeysAssumption DEF Inv
<1>1. ASSUME NEW j \in Key, NEW n \in Name, Register(j, n)
      PROVE  state'[k] = "revoked" /\ revoked'[k] = revoked[k] /\ name'[k] = name[k]
  BY <1>1 DEF Register, MayRegister, TypeOK
<1>2. ASSUME NEW j \in Key, NEW n \in Name, SetOwner(j, n)
      PROVE  state'[k] = "revoked" /\ revoked'[k] = revoked[k] /\ name'[k] = name[k]
  BY <1>2 DEF SetOwner, Revoking, Ousted, TypeOK, RevokedByTheTrustList
<1>3. ASSUME NEW s \in Key, NEW j \in Key, Approve(s, j)
      PROVE  state'[k] = "revoked" /\ revoked'[k] = revoked[k] /\ name'[k] = name[k]
  BY <1>3 DEF Approve, MayApprove, Revoking, Rivals, Replaced, TypeOK
<1>4. ASSUME NEW s \in Key, NEW j \in Key, Revoke(s, j)
      PROVE  state'[k] = "revoked" /\ revoked'[k] = revoked[k] /\ name'[k] = name[k]
  BY <1>4 DEF Revoke, Revoking, TypeOK
<1>5. ASSUME NEW s \in Key, NEW i \in Id, Decline(s, i)
      PROVE  state'[k] = "revoked" /\ revoked'[k] = revoked[k] /\ name'[k] = name[k]
  BY <1>5 DEF Decline, WaitsOn, TypeOK
<1>6. ASSUME NEW s \in Key, Write(s)
      PROVE  state'[k] = "revoked" /\ revoked'[k] = revoked[k] /\ name'[k] = name[k]
  BY <1>6 DEF Write
<1>7. CASE UNCHANGED vars
  BY <1>7 DEF vars
<1> QED
  BY <1>1, <1>2, <1>3, <1>4, <1>5, <1>6, <1>7 DEF Next

\* A revoked key stays revoked, by the same event and under the same name.
THEOREM RevocationIsForGood == Spec => RevokedForGood
<1>1. Inv /\ [Next]_vars =>
        [\A k \in Key : state[k] = "revoked" =>
           /\ state'[k] = "revoked"
           /\ revoked'[k] = revoked[k]
           /\ name'[k] = name[k]]_vars
  BY RevokedStays
<1> QED
  BY <1>1, InvAlways, PTL DEF Spec, RevokedForGood

\* The key a registration is declined by, though resolve() asks for no more
\* than the name of the queue's owner, is the owner key.
LEMMA DeclinerIsTheOwner ==
  ASSUME Inv, NEW s \in Key, MayDecline(s)
  PROVE  state[s] = "owner"
<1> USE KeysAssumption DEF Inv
<1>1. CASE state[s] = "owner"
  BY <1>1
<1>2. CASE s \in Bound /\ name[s] = queueOwner
  <2>1. name[s] \in Name
    BY <1>2 DEF OneLiveKeyPerName, Bound
  <2>2. queueOwner \in OwnerNames
    BY <1>2, <2>1 DEF RegisterQueueIsTheOwners
  <2>3. PICK o \in Key : state[o] = "owner" /\ name[o] = name[s]
    BY <1>2, <2>2 DEF OwnerNames
  <2>4. o = s
    BY <1>2, <2>3 DEF OneLiveKeyPerName, Bound
  <2> QED
    BY <2>3, <2>4
<1> QED
  BY <1>1, <1>2 DEF MayDecline

\* The events of a write that closes a registration are all by one owner key.
LEMMA DecidedByTheOwner ==
  ASSUME Inv, [Next]_vars, NEW i \in OpenItems, itemState'[i] # "open"
  PROVE  \E s \in Key : state[s] = "owner" /\ \A e \in (head + 1)..head' : by'[e] = s
<1> USE KeysAssumption DEF Inv
<1>1. i \in Id /\ itemState[i] = "open"
  BY DEF OpenItems
<1>2. ASSUME NEW s \in Key, NEW n \in Nat, Append(s, n)
      PROVE  \A e \in (head + 1)..head' : by'[e] = s
  <2>1. /\ head \in Nat /\ head' \in 0..MaxHead
        /\ \A e \in Id : head < e /\ e <= head' => by'[e] = s
    BY <1>2, AppendFacts DEF TypeOK
  <2> QED
    BY <2>1 DEF Id
<1>3. ASSUME NEW s \in Key, NEW k \in Key, Approve(s, k)
      PROVE  state[s] = "owner" /\ \A e \in (head + 1)..head' : by'[e] = s
  <2> DEFINE c == Cardinality(RivalItems(k))
  <2>1. Append(s, 2 + c) /\ state[s] = "owner"
    BY <1>3 DEF Approve, MayApprove
  <2>2. 2 + c \in Nat
    BY RivalItemsCount
  <2> HIDE DEF c
  <2> QED
    BY <2>1, <2>2, <1>2
<1>4. ASSUME NEW s \in Key, NEW j \in Id, Decline(s, j)
      PROVE  state[s] = "owner" /\ \A e \in (head + 1)..head' : by'[e] = s
  <2>1. Append(s, 1) /\ MayDecline(s)
    BY <1>4 DEF Decline
  <2> QED
    BY <2>1, <1>2, DeclinerIsTheOwner
<1>5. ASSUME NEW k \in Key, NEW n \in Name, Register(k, n)
      PROVE  FALSE
  BY <1>1, <1>5 DEF Register, TypeOK
<1>6. ASSUME NEW k \in Key, NEW n \in Name, SetOwner(k, n)
      PROVE  FALSE
  BY <1>1, <1>6 DEF SetOwner
<1>7. ASSUME NEW s \in Key, NEW k \in Key, Revoke(s, k)
      PROVE  FALSE
  BY <1>1, <1>7 DEF Revoke
<1>8. ASSUME NEW s \in Key, Write(s)
      PROVE  FALSE
  BY <1>1, <1>8 DEF Write
<1>9. CASE UNCHANGED vars
  BY <1>1, <1>9 DEF vars
<1> QED
  BY <1>3, <1>4, <1>5, <1>6, <1>7, <1>8, <1>9 DEF Next

\* A registration leaves the queue by a write of the owner key alone.
THEOREM OwnerDecides == Spec => OnlyTheOwnerDecides
<1>1. Inv /\ [Next]_vars =>
        [\A i \in OpenItems : itemState'[i] # "open" =>
           \E s \in Key : /\ state[s] = "owner"
                          /\ \A e \in (head + 1)..head' : by'[e] = s]_vars
  BY DecidedByTheOwner
<1> QED
  BY <1>1, InvAlways, PTL DEF Spec, OnlyTheOwnerDecides

-----------------------------------------------------------------------------
(***************************************************************************)
(* Keys implements NameDirectory: registering, declining and the other     *)
(* writes are stuttering steps of the directory, approving is Grant,       *)
(* revoking Withdraw, and a start with another configured owner Appoint.   *)
(***************************************************************************)

\* With at most one owner key, the choice of one is no choice.
LEMMA BossIsTheOwner ==
  ASSUME OneLiveKeyPerName
  PROVE  /\ \A k \in Key : state[k] = "owner" => Boss = k
         /\ (\A k \in Key : state[k] # "owner") => Boss = Server
         /\ Boss \in Key => state[Boss] = "owner"
<1>1. ASSUME NEW k \in Key, state[k] = "owner"
      PROVE  Boss = k
  <2>1. OwnerKeys = {k}
    BY <1>1 DEF OneLiveKeyPerName, OwnerKeys
  <2> QED
    BY <2>1 DEF Boss
<1>2. ASSUME \A k \in Key : state[k] # "owner"
      PROVE  Boss = Server
  BY <1>2 DEF Boss, OwnerKeys
<1>3. ASSUME Boss \in Key
      PROVE  state[Boss] = "owner"
  BY <1>1, <1>2, <1>3, KeysAssumption
<1> QED
  BY <1>1, <1>2, <1>3

\* What the directory sees of a step that changes no bound or revoked key.
LEMMA DirectoryStutters ==
  ASSUME TypeOK, OneLiveKeyPerName, OneLiveKeyPerName',
         \A k \in Key : state[k] \in {"owner", "trusted"} => state'[k] = state[k] /\ name'[k] = name[k],
         \A k \in Key : state'[k] \in {"owner", "trusted"} => state'[k] = state[k],
         \A k \in Key : state'[k] = "revoked" <=> state[k] = "revoked"
  PROVE  UNCHANGED <<Holds, Dead, Boss>>
<1>1. Holds' = Holds
  BY DEF Holds, Bound
<1>2. Dead' = Dead
  BY DEF Dead
<1>3. OwnerKeys' = OwnerKeys
  BY DEF OwnerKeys
<1> QED
  BY <1>1, <1>2, <1>3 DEF Boss

\* An approval grants the name.
LEMMA ApproveGrants ==
  ASSUME Inv, Inv', NEW s \in Key, NEW k \in Key, Approve(s, k)
  PROVE  name[k] \in Name /\ Directory!Grant(k, name[k])
<1> USE KeysAssumption
<1>1. /\ state[s] = "owner" /\ state[k] = "pending" /\ name[k] \notin OwnerNames /\ name[k] \in Name
      /\ state' = [j \in Key |-> IF j = k THEN "trusted"
                                 ELSE IF j \in Rivals(k) THEN "declined"
                                 ELSE IF j \in Replaced(k) THEN "revoked" ELSE state[j]]
      /\ name' = name
      /\ \A j \in Rivals(k) : j \in Key /\ state[j] = "pending" /\ j # k
  BY DEF Approve, MayApprove, Inv, OneLiveKeyPerName, Rivals
<1>2. Boss = s /\ Boss' = s
  <2>1. state'[s] = "owner"
    BY <1>1 DEF Replaced
  <2> QED
    BY <1>1, <2>1, BossIsTheOwner DEF Inv, OneLiveKeyPerName, Boss, OwnerKeys
<1>3. \A j \in Key : Holds[j] = name[k] <=> j \in Replaced(k)
  BY <1>1 DEF Holds, Bound, Replaced, OwnerNames
<1>4. Holds' = [j \in Key |-> IF j = k THEN name[k] ELSE IF j \in {r \in Key : Holds[r] = name[k]} THEN NoName ELSE Holds[j]]
  <2>1. \A j \in Key : Holds'[j] = IF j = k THEN name[k] ELSE IF Holds[j] = name[k] THEN NoName ELSE Holds[j]
    BY <1>1, <1>3 DEF Holds, Bound
  <2> QED
    BY <2>1 DEF Holds
<1>5. Dead' = Dead \cup {r \in Key : Holds[r] = name[k]}
  <2>1. \A j \in Key : state'[j] = "revoked" <=> state[j] = "revoked" \/ Holds[j] = name[k]
    BY <1>1, <1>3 DEF Replaced
  <2> QED
    BY <2>1 DEF Dead
<1>6. k \notin Dead /\ Holds[k] = NoName /\ Holds[Boss] # name[k] /\ Boss # Server
  BY <1>1, <1>2, <1>3 DEF Dead, Holds, Bound, Replaced
<1> QED
  BY <1>1, <1>2, <1>4, <1>5, <1>6 DEF Directory!Grant, Directory!Rebind

\* A revocation withdraws it.
LEMMA RevokeWithdraws ==
  ASSUME Inv, Inv', NEW s \in Key, NEW k \in Key, Revoke(s, k)
  PROVE  Directory!Withdraw(k)
<1> USE KeysAssumption
<1>1. /\ state[s] = "owner" /\ state[k] = "trusted" /\ s # k /\ name[k] \in Name
      /\ state' = [state EXCEPT ![k] = "revoked"] /\ name' = name /\ state \in [Key -> KeyState]
  BY DEF Revoke, Inv, OneLiveKeyPerName, TypeOK
<1>2. Boss = s /\ Boss' = s
  BY <1>1, BossIsTheOwner DEF Inv, OneLiveKeyPerName, Boss, OwnerKeys
<1>3. Holds[k] # NoName /\ Holds' = [Holds EXCEPT ![k] = NoName]
  BY <1>1 DEF Holds, Bound
<1>4. Dead' = Dead \cup {k}
  BY <1>1 DEF Dead
<1> QED
  BY <1>1, <1>2, <1>3, <1>4 DEF Directory!Withdraw

\* A start with another owner, or another name for it, appoints it.
LEMMA SetOwnerAppoints ==
  ASSUME Inv, Inv', NEW k \in Key, NEW n \in Name, SetOwner(k, n)
  PROVE  Directory!Appoint(k, n)
<1> USE KeysAssumption
<1>1. /\ state[k] # "revoked" /\ state \in [Key -> KeyState] /\ name \in [Key -> Name \cup {NoName}]
      /\ state' = [j \in Key |-> IF j = k THEN "owner" ELSE IF j \in Ousted(k, n) THEN "revoked" ELSE state[j]]
      /\ name' = [name EXCEPT ![k] = n]
  BY DEF SetOwner, Inv, RevokedByTheTrustList, TypeOK
<1>2. Boss' = k
  <2>1. OwnerKeys' = {k}
    BY <1>1 DEF OwnerKeys, Ousted
  <2> QED
    BY <2>1 DEF Boss
<1>3. \A j \in Key : j \in Ousted(k, n) <=> j # k /\ (j = Boss \/ Holds[j] = n)
  <2>1. \A j \in Key : state[j] = "owner" <=> j = Boss
    BY BossIsTheOwner DEF Inv
  <2>2. \A j \in Key : Holds[j] = n <=> state[j] \in {"owner", "trusted"} /\ name[j] = n
    BY DEF Holds, Bound
  <2> QED
    BY <2>1, <2>2 DEF Ousted
<1> DEFINE Out == {r \in Key \ {k} : r = Boss \/ Holds[r] = n}
<1>4. Out = Ousted(k, n)
  BY <1>3 DEF Ousted
<1>5. Holds' = [j \in Key |-> IF j = k THEN n ELSE IF j \in Out THEN NoName ELSE Holds[j]]
  BY <1>1, <1>4 DEF Holds, Bound
<1>6. Dead' = Dead \cup Out /\ k \notin Dead
  BY <1>1, <1>4 DEF Dead, Ousted
<1> QED
  BY <1>2, <1>5, <1>6 DEF Directory!Appoint, Directory!Rebind

\* Every step of the keys is a step of the directory, or none.
LEMMA DirectoryStep ==
  ASSUME Inv, Inv', [Next]_vars
  PROVE  [Directory!Next]_(Directory!vars)
<1> USE DEF Inv
<1>1. ASSUME NEW k \in Key, NEW n \in Name, Register(k, n)
      PROVE  UNCHANGED <<Holds, Dead, Boss>>
  BY <1>1, DirectoryStutters DEF Register, MayRegister, TypeOK
<1>2. ASSUME NEW s \in Key, NEW i \in Id, Decline(s, i)
      PROVE  UNCHANGED <<Holds, Dead, Boss>>
  BY <1>2, DirectoryStutters DEF Decline, WaitsOn, TypeOK
<1>3. ASSUME NEW s \in Key, Write(s)
      PROVE  UNCHANGED <<Holds, Dead, Boss>>
  BY <1>3, DirectoryStutters DEF Write
<1>4. ASSUME UNCHANGED vars
      PROVE  UNCHANGED <<Holds, Dead, Boss>>
  BY <1>4, DirectoryStutters DEF vars
<1>5. ASSUME UNCHANGED <<Holds, Dead, Boss>>
      PROVE  UNCHANGED Directory!vars
  BY <1>5 DEF Directory!vars
<1>6. ASSUME NEW s \in Key, NEW k \in Key, Approve(s, k)
      PROVE  Directory!Next
  BY <1>6, ApproveGrants DEF Directory!Next
<1>7. ASSUME NEW s \in Key, NEW k \in Key, Revoke(s, k)
      PROVE  Directory!Next
  BY <1>7, RevokeWithdraws DEF Directory!Next
<1>8. ASSUME NEW k \in Key, NEW n \in Name, SetOwner(k, n)
      PROVE  Directory!Next
  BY <1>8, SetOwnerAppoints DEF Directory!Next
<1> QED
  BY <1>1, <1>2, <1>3, <1>4, <1>5, <1>6, <1>7, <1>8 DEF Next

\* The keys of the board keep the promise of the name directory.
THEOREM KeysImplementTheDirectory == Spec => NamesAreKept
<1>1. Init => Directory!Init
  <2> SUFFICES ASSUME Init PROVE Directory!Init
    OBVIOUS
  <2>1. Bound = {} /\ OwnerKeys = {} /\ Dead = {}
    BY DEF Init, Bound, OwnerKeys, Dead
  <2> QED
    BY <2>1 DEF Directory!Init, Holds, Boss
<1>2. Inv /\ Inv' /\ [Next]_vars => [Directory!Next]_(Directory!vars)
  BY DirectoryStep
<1> QED
  BY <1>1, <1>2, InvAlways, PTL DEF Spec, NamesAreKept, Directory!Spec

-----------------------------------------------------------------------------
(***************************************************************************)
(* The owner's commands (OwnerCommands.tla).                               *)
(***************************************************************************)

\* The command goes on from what it saw.  While the registration it picked waits, no
\* key is trusted with that name but one it saw: who is trusted with it meanwhile has
\* had the registration declined, and a key that registers again has another item.
SeenInv ==
  /\ seen \in {Nothing}
       \cup [to : {"approve"}, key : Key, name : Name, item : Id, replaces : SUBSET Key]
       \cup [to : {"revoke"}, key : Key, replaces : SUBSET Key]
  /\ seen.to = "revoke" => seen.key \in seen.replaces
  /\ seen.to = "approve" =>
       /\ seen.item <= head
       /\ state[seen.key] = "pending" /\ AsSigned =>
            \A r \in Replaced(seen.key) : r \in seen.replaces

LEMMA SeenKinds ==
  ASSUME NEW s, s \in {Nothing}
           \cup [to : {"approve"}, key : Key, name : Name, item : Id, replaces : SUBSET Key]
           \cup [to : {"revoke"}, key : Key, replaces : SUBSET Key]
  PROVE  /\ s.to = "approve" => /\ s.key \in Key /\ s.name \in Name /\ s.item \in Id
                                /\ s.replaces \subseteq Key
         /\ s.to = "revoke" => s.key \in Key
  BY DEF Nothing

LEMMA LookKeepsSeen ==
  ASSUME Inv, SeenInv, LookAtRegistrations \/ LookAtKeys
  PROVE  SeenInv'
<1>1. TypeOK /\ UNCHANGED vars
  BY DEF Inv, LookAtRegistrations, LookAtKeys
<1>2. CASE LookAtRegistrations
  <2>1. PICK r \in Registrations :
          seen' = [to |-> "approve", key |-> r.key, name |-> r.name, item |-> r.item,
                   replaces |-> r.replaces]
    BY <1>2 DEF LookAtRegistrations
  <2>2. PICK k \in Key : /\ state[k] = "pending"
                         /\ r = [key |-> k, name |-> name[k], item |-> item[k],
                                 replaces |-> {b \in Bound : name[b] = name[k]}]
    BY <2>1 DEF Registrations
  <2>3. PICK R : R = {b \in Bound : name[b] = name[k]}
    OBVIOUS
  <2>4. seen' = [to |-> "approve", key |-> k, name |-> name[k], item |-> item[k], replaces |-> R]
    BY <2>1, <2>2, <2>3
  <2>5. name[k] \in Name /\ item[k] \in Id /\ item[k] <= head
    BY <2>2 DEF Inv, OneLiveKeyPerName, PendingPairsOff, PendingWaitsOnItsItem, OpenItemHasItsKey, OpenItems
  <2>6. R \subseteq Key /\ Replaced(k) \subseteq R
    BY <2>3 DEF Bound, Replaced
  <2>7. seen' \in [to : {"approve"}, key : Key, name : Name, item : Id, replaces : SUBSET Key]
    BY <2>4, <2>5, <2>6
  <2>8. Replaced(k)' = Replaced(k) /\ head' = head
    BY <1>1 DEF vars, Replaced
  <2>9. seen'.to = "approve" /\ seen'.key = k /\ seen'.item = item[k] /\ seen'.replaces = R
    BY <2>4
  <2> QED
    BY <2>5, <2>6, <2>7, <2>8, <2>9 DEF SeenInv
<1>3. CASE LookAtKeys
  <2>1. PICK k \in Key : seen' = [to |-> "revoke", key |-> k, replaces |-> {k}]
    BY <1>3 DEF LookAtKeys, BoundKeys, Bound
  <2> QED
    BY <2>1 DEF SeenInv
<1> QED
  BY <1>2, <1>3

LEMMA NothingKeepsSeen ==
  ASSUME seen' = Nothing
  PROVE  SeenInv'
  BY DEF SeenInv, Nothing

\* Whatever others write, what the list showed covers who an approval would replace.
LEMMA OthersKeepSeen ==
  ASSUME Inv, SeenInv, [Next]_vars, seen' = seen
  PROVE  SeenInv'
<1>1. TypeOK /\ TypeOK' /\ head \in Nat /\ head <= head'
  <2>1. TypeOK /\ TypeOK'
    BY NextTypeOK DEF Inv
  <2>2. head \in Nat
    BY <2>1, KeysAssumption DEF TypeOK
  <2>3. head <= head'
    <3>1. ASSUME NEW s, NEW n \in Nat, Append(s, n) PROVE head <= head'
      BY <2>2, <3>1 DEF Append
    <3>2. ASSUME NEW s \in Key, NEW k \in Key, Approve(s, k) PROVE head <= head'
      <4>1. 2 + Cardinality(RivalItems(k)) \in Nat
        BY RivalItemsCount
      <4> QED
        BY <3>1, <3>2, <4>1 DEF Approve
    <3>3. UNCHANGED vars => head <= head'
      BY <2>2 DEF vars
    <3>4. ASSUME NEW s, Append(s, 1) PROVE head <= head'
      BY <3>1, <3>4
    <3>5. ASSUME NEW k \in Key, NEW n \in Name, Register(k, n) \/ SetOwner(k, n) PROVE head <= head'
      BY <3>4, <3>5 DEF Register, SetOwner
    <3>6. ASSUME NEW s \in Key, NEW k \in Key, Revoke(s, k) PROVE head <= head'
      BY <3>4, <3>6 DEF Revoke
    <3>7. ASSUME NEW s \in Key, NEW i \in Id, Decline(s, i) PROVE head <= head'
      BY <3>4, <3>7 DEF Decline
    <3>8. ASSUME NEW s \in Key, Write(s) PROVE head <= head'
      BY <3>4, <3>8 DEF Write
    <3> QED
      BY <3>2, <3>3, <3>5, <3>6, <3>7, <3>8 DEF Next
  <2> QED
    BY <2>1, <2>2, <2>3
<1> SUFFICES ASSUME seen.to = "approve" PROVE SeenInv'
  BY DEF SeenInv
<1>2. PICK k \in Key : k = seen.key
  BY SeenKinds DEF SeenInv
<1>3. seen.item \in Int /\ seen.item <= head /\ seen.item <= head'
  <2>1. seen.item \in Id /\ seen.item <= head
    BY SeenKinds DEF SeenInv
  <2>2. seen.item \in Int /\ head' \in Int
    BY <1>1, <2>1, KeysAssumption DEF Id, TypeOK
  <2> QED
    BY <1>1, <2>1, <2>2
<1> SUFFICES ASSUME state'[k] = "pending", item'[k] = seen.item, name'[k] = seen.name,
                    NEW r \in Key, state'[r] = "trusted", name'[r] = name'[k]
             PROVE  r \in seen.replaces
  BY <1>2, <1>3 DEF SeenInv, AsSigned, Replaced
<1>4. /\ state[k] = "pending" /\ item'[k] = item[k] /\ name'[k] = name[k]
      /\ state[r] = "trusted" /\ name'[r] = name[r]
  <2> DEFINE Before == /\ state[k] = "pending" /\ item'[k] = item[k] /\ name'[k] = name[k]
                       /\ state[r] = "trusted" /\ name'[r] = name[r]
  <2>1. ASSUME NEW j \in Key, NEW n \in Name, Register(j, n) PROVE Before
    <3>1. j # k
      BY <1>1, <1>3, <2>1 DEF Register, TypeOK
    <3> QED
      BY <1>1, <2>1, <3>1 DEF Register, TypeOK
  <2>2. ASSUME NEW j \in Key, NEW n \in Name, SetOwner(j, n) PROVE Before
    BY <1>1, <2>2 DEF SetOwner, TypeOK
  <2>3. ASSUME NEW s \in Key, NEW j \in Key, Approve(s, j) PROVE Before
    <3>1. /\ state' = [i \in Key |-> IF i = j THEN "trusted"
                                     ELSE IF i \in Rivals(j) THEN "declined"
                                     ELSE IF i \in Replaced(j) THEN "revoked" ELSE state[i]]
          /\ name' = name /\ item' = item
      BY <2>3 DEF Approve
    <3>2. k # j /\ k \notin Rivals(j) /\ state[k] = "pending"
      BY <3>1
    <3>3. r # j
      BY <3>1, <3>2 DEF Rivals
    <3> QED
      BY <3>1, <3>2, <3>3
  <2>4. ASSUME NEW s \in Key, NEW j \in Key, Revoke(s, j) PROVE Before
    BY <1>1, <2>4 DEF Revoke, TypeOK
  <2>5. ASSUME NEW s \in Key, NEW i \in Id, Decline(s, i) PROVE Before
    BY <1>1, <2>5 DEF Decline
  <2>6. ASSUME NEW s \in Key, Write(s) PROVE Before
    BY <2>6 DEF Write
  <2>7. CASE UNCHANGED vars
    BY <2>7 DEF vars
  <2> QED
    BY <2>1, <2>2, <2>3, <2>4, <2>5, <2>6, <2>7 DEF Next
<1> QED
  BY <1>2, <1>4 DEF SeenInv, AsSigned, Replaced

LEMMA CommandsTakeSteps ==
  ASSUME SeenInv, [CommandNext]_commandVars
  PROVE  [Next]_vars
<1>1. Approved \/ Revoked => [Next]_vars
  BY SeenKinds DEF SeenInv, Approved, Revoked, Next
<1> QED
  BY <1>1 DEF CommandNext, commandVars, LookAtRegistrations, LookAtKeys, Refused

LEMMA CommandsKeepSeen ==
  ASSUME Inv, SeenInv, [CommandNext]_commandVars
  PROVE  SeenInv'
<1>1. [Next]_vars
  BY CommandsTakeSteps
<1> QED
  BY <1>1, LookKeepsSeen, NothingKeepsSeen, OthersKeepSeen
  DEF CommandNext, commandVars, Approved, Revoked, Refused

\* The inductive invariant, with the commands among the writes.
THEOREM CommandInvAlways == CommandSpec => [](Inv /\ SeenInv)
<1>1. CommandInit => Inv /\ SeenInv
  BY InitInv DEF CommandInit, SeenInv, Nothing
<1>2. Inv /\ SeenInv /\ [CommandNext]_commandVars => (Inv /\ SeenInv)'
  BY CommandsTakeSteps, CommandsKeepSeen, NextInv
<1> QED
  BY <1>1, <1>2, PTL DEF CommandSpec

\* What the owner's commands do to the board is what Keys says, so that every theorem
\* of this module is about the board with them, too (Board::approve, Board::revoke).
THEOREM CommandsAreWrites == CommandSpec => Spec
<1>1. CommandInit => Init
  BY DEF CommandInit
<1>2. SeenInv /\ [CommandNext]_commandVars => [Next]_vars
  BY CommandsTakeSteps
<1> QED
  BY <1>1, <1>2, CommandInvAlways, PTL DEF CommandSpec, Spec

\* The picked registration and the list's columns have values of their kind.
THEOREM CommandTypeCorrect == CommandSpec => []CommandTypeOK
<1>1. Inv /\ SeenInv => CommandTypeOK
  BY DEF Inv, SeenInv, CommandTypeOK
<1> QED
  BY <1>1, CommandInvAlways, PTL

\* However other writes overtake the list: the owner's approval is of the registration
\* on the screen, and revokes no key that the screen did not show (write.rs approve).
THEOREM TheOwnerGetsWhatWasSeen == CommandSpec => OwnerGetsWhatWasSeen
<1> DEFINE Shown ==
      /\ Approved => by[seen.item] = seen.key /\ item[seen.key] = seen.item
      /\ Approved \/ Revoked =>
           \A k \in Key : state'[k] = "revoked" /\ state[k] # "revoked" => k \in seen.replaces
<1>1. ASSUME Inv, SeenInv PROVE Shown
  <2>1. ASSUME Approved
        PROVE  /\ by[seen.item] = seen.key /\ item[seen.key] = seen.item
               /\ \A k \in Key : state'[k] = "revoked" /\ state[k] # "revoked" => k \in seen.replaces
    <3>1. PICK s \in Key : Approve(s, seen.key)
      BY <2>1 DEF Approved
    <3>2. seen.to = "approve" /\ AsSigned /\ seen.key \in Key /\ state[seen.key] = "pending"
      BY <1>1, <2>1, <3>1, SeenKinds DEF Approved, SeenInv, Approve, MayApprove
    <3>3. by[item[seen.key]] = seen.key
      BY <1>1, <3>2 DEF Inv, PendingPairsOff, PendingWaitsOnItsItem
    <3>4. \A k \in Key : state'[k] = "revoked" /\ state[k] # "revoked" => k \in Replaced(seen.key)
      BY <3>1 DEF Approve
    <3> QED
      BY <1>1, <3>2, <3>3, <3>4 DEF AsSigned, SeenInv
  <2>2. ASSUME Revoked
        PROVE  \A k \in Key : state'[k] = "revoked" /\ state[k] # "revoked" => k \in seen.replaces
    <3>1. seen.to = "revoke" /\ seen.key \in seen.replaces
      BY <1>1, <2>2 DEF Revoked, SeenInv
    <3>2. \A k \in Key : state'[k] = "revoked" /\ state[k] # "revoked" => k = seen.key
      BY <1>1, <2>2 DEF Revoked, Revoke, vars, Inv, TypeOK
    <3> QED
      BY <3>1, <3>2
  <2> QED
    BY <2>1, <2>2
<1>2. Inv /\ SeenInv => [Shown]_commandVars
  BY <1>1
<1> HIDE DEF Shown
<1>3. CommandSpec => [][Shown]_commandVars
  BY <1>2, CommandInvAlways, PTL
<1> QED
  BY <1>3 DEF OwnerGetsWhatWasSeen, Shown
=============================================================================
