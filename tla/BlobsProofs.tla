----------------------------- MODULE BlobsProofs -----------------------------
(***************************************************************************)
(* The theorems of Blobs.tla, for any blobs, sizes, cap and grace and any  *)
(* number of uploads, deletes, downloads and holders: that pinned blobs    *)
(* keep their rows, that the cap holds, that promises are counted, and     *)
(* that only a delete takes the file of a row.  And those of Download.tla  *)
(* and Upload.tla, which carry a blob to the store and from it.            *)
(***************************************************************************)
EXTENDS Blobs, Upload, FiniteSetTheorems, SequenceTheorems, WellFoundedInduction, TLAPS

(***************************************************************************)
(* Sums over finite sets.                                                  *)
(***************************************************************************)

\* Induction over the subsets of a finite set: T has s if it has all smaller ones.
LEMMA SubsetInduction ==
  ASSUME NEW S, IsFiniteSet(S), NEW T,
         \A s \in SUBSET S : (\A r \in SUBSET s : r # s => r \in T) => s \in T
  PROVE  \A s \in SUBSET S : s \in T
<1> SUFFICES ASSUME (SUBSET S) \ T # {} PROVE FALSE
  OBVIOUS
<1>1. IsWellFoundedOn(StrictSubsetOrdering(S), SUBSET S)
  <2>1. FiniteSubsetsOf(S) = SUBSET S
    BY FS_FiniteSubsetsOfFinite
  <2>2. IsWellFoundedOn(StrictSubsetOrdering(S), FiniteSubsetsOf(S))
    BY FS_StrictSubsetOrderingWellFounded
  <2> QED
    BY <2>1, <2>2
<1>2. PICK s \in (SUBSET S) \ T : \A r \in (SUBSET S) \ T : <<r, s>> \notin StrictSubsetOrdering(S)
  <2> DEFINE U == (SUBSET S) \ T
  <2>1. U \subseteq SUBSET S /\ U # {}
    OBVIOUS
  <2>2. \E s \in U : \A r \in U : ~(<<r, s>> \in StrictSubsetOrdering(S))
    <3> HIDE DEF U
    <3> QED
      BY <1>1, <2>1, WFMin
  <2> QED
    BY <2>2
<1>3. \A r \in SUBSET s : r # s => r \in T
  BY <1>2 DEF StrictSubsetOrdering
<1> QED
  BY <1>2, <1>3

\* The element a sum takes first.
First(S) == CHOOSE x \in S : TRUE
Rest(S) == S \ {First(S)}

\* g gives the sum of each subset of S, as MapThenSumSet computes it.
Sums(f, S, g) == g = [s \in SUBSET S |-> IF s = {} THEN 0 ELSE f[First(s)] + g[Rest(s)]]
SumsOf(f, S) == CHOOSE g : Sums(f, S, g)

LEMMA TotalIs == \A f, S : Total(f, S) = SumsOf(f, S)[S]
  BY DEF Total, MapThenSumSet, MapThenFoldSet, SumsOf, Sums, First, Rest

LEMMA RestIs == \A S : S # {} => First(S) \in S /\ Rest(S) = S \ {First(S)} /\ Rest(S) # S
  BY DEF First, Rest

LEMMA SumsUnique ==
  ASSUME NEW f, NEW S, IsFiniteSet(S), NEW g, Sums(f, S, g), NEW h, Sums(f, S, h)
  PROVE  g = h
<1> DEFINE T == {s \in SUBSET S : g[s] = h[s]}
<1>0. /\ \A s \in SUBSET S : g[s] = IF s = {} THEN 0 ELSE f[First(s)] + g[Rest(s)]
      /\ \A s \in SUBSET S : h[s] = IF s = {} THEN 0 ELSE f[First(s)] + h[Rest(s)]
  BY DEF Sums
<1>1. ASSUME NEW s \in SUBSET S, \A r \in SUBSET s : r # s => r \in T
      PROVE  s \in T
  <2>1. CASE s = {}
    BY <1>0, <2>1
  <2>2. CASE s # {}
    <3>1. Rest(s) \in SUBSET s /\ Rest(s) # s
      BY <2>2, RestIs
    <3>2. g[Rest(s)] = h[Rest(s)]
      BY <1>1, <3>1
    <3> QED
      BY <1>0, <2>2, <3>2
  <2> QED
    BY <2>1, <2>2
<1>2. \A s \in SUBSET S : s \in T
  <2> HIDE DEF T
  <2> QED
    BY <1>1, SubsetInduction
<1>3. \A s \in SUBSET S : g[s] = h[s]
  BY <1>2
<1>4. g = [s \in SUBSET S |-> g[s]] /\ h = [s \in SUBSET S |-> h[s]]
  BY DEF Sums
<1> QED
  BY <1>3, <1>4

\* There are such sums, and those of a subset are those of the set.
LEMMA SumsExist ==
  ASSUME NEW f, NEW S, IsFiniteSet(S)
  PROVE  Sums(f, S, SumsOf(f, S))
<1> DEFINE T == {s \in SUBSET S : Sums(f, s, SumsOf(f, s))}
<1>1. ASSUME NEW s \in SUBSET S, Sums(f, s, SumsOf(f, s)), NEW r \in SUBSET s
      PROVE  SumsOf(f, r) = [q \in SUBSET r |-> SumsOf(f, s)[q]]
  <2> DEFINE g == SumsOf(f, s)
             h == [q \in SUBSET r |-> g[q]]
  <2>1. \A q \in SUBSET r : g[q] = IF q = {} THEN 0 ELSE f[First(q)] + g[Rest(q)]
    BY <1>1 DEF Sums
  <2>2. \A q \in SUBSET r : q # {} => Rest(q) \in SUBSET r
    BY RestIs
  <2>3. Sums(f, r, h)
    BY <2>1, <2>2 DEF Sums
  <2>4. Sums(f, r, SumsOf(f, r))
    BY <2>3 DEF SumsOf
  <2>5. IsFiniteSet(r)
    BY <1>1, FS_Subset
  <2> QED
    BY <2>3, <2>4, <2>5, SumsUnique
<1>2. ASSUME NEW s \in SUBSET S, \A r \in SUBSET s : r # s => r \in T
      PROVE  s \in T
  <2> DEFINE g == [r \in SUBSET s |-> IF r = {} THEN 0
                                      ELSE f[First(r)] + SumsOf(f, Rest(r))[Rest(r)]]
  <2>1. ASSUME NEW r \in SUBSET s, r # {}
        PROVE  g[Rest(r)] = SumsOf(f, Rest(r))[Rest(r)]
    <3> DEFINE q == Rest(r)
    <3>1. q \in SUBSET s /\ q # s /\ q \in SUBSET S
      BY <2>1, RestIs
    <3>2. Sums(f, q, SumsOf(f, q))
      BY <1>2, <3>1
    <3>3. SumsOf(f, q)[q] = IF q = {} THEN 0 ELSE f[First(q)] + SumsOf(f, q)[Rest(q)]
      BY <3>2 DEF Sums
    <3>4. q # {} => Rest(q) \in SUBSET q
      BY RestIs
    <3>5. q # {} => SumsOf(f, q)[Rest(q)] = SumsOf(f, Rest(q))[Rest(q)]
      <4> HIDE DEF q
      <4> SUFFICES ASSUME q # {} PROVE SumsOf(f, q)[Rest(q)] = SumsOf(f, Rest(q))[Rest(q)]
        OBVIOUS
      <4>1. SumsOf(f, Rest(q)) = [p \in SUBSET Rest(q) |-> SumsOf(f, q)[p]]
        BY <1>1, <3>1, <3>2, <3>4
      <4> QED
        BY <4>1
    <3> QED
      BY <3>1, <3>3, <3>5
  <2>2. Sums(f, s, g)
    BY <2>1 DEF Sums
  <2>3. Sums(f, s, SumsOf(f, s))
    BY <2>2 DEF SumsOf
  <2> QED
    BY <2>3
<1>3. S \in T
  <2>1. \A s \in SUBSET S : s \in T
    <3> HIDE DEF T
    <3> QED
      BY <1>2, SubsetInduction
  <2> QED
    BY <2>1
<1> QED
  BY <1>3

LEMMA TotalStep ==
  /\ \A f : Total(f, {}) = 0
  /\ \A f, S : IsFiniteSet(S) /\ S # {} => Total(f, S) = f[First(S)] + Total(f, Rest(S))
<1>1. ASSUME NEW f PROVE Total(f, {}) = 0
  <2>1. Sums(f, {}, SumsOf(f, {}))
    BY FS_EmptySet, SumsExist
  <2> QED
    BY <2>1, TotalIs DEF Sums
<1>2. ASSUME NEW f, NEW S, IsFiniteSet(S), S # {}
      PROVE  Total(f, S) = f[First(S)] + Total(f, Rest(S))
  <2> DEFINE g == SumsOf(f, S)
             R == Rest(S)
             h == [s \in SUBSET R |-> g[s]]
  <2>1. Sums(f, S, g) /\ R \in SUBSET S /\ IsFiniteSet(R) /\ S \in SUBSET S
    BY <1>2, SumsExist, RestIs, FS_Subset
  <2>2. \A s \in SUBSET S : g[s] = IF s = {} THEN 0 ELSE f[First(s)] + g[Rest(s)]
    BY <2>1 DEF Sums
  <2>3. \A s \in SUBSET R : s # {} => Rest(s) \in SUBSET R
    BY RestIs
  <2>4. Sums(f, R, h)
    BY <2>1, <2>2, <2>3 DEF Sums
  <2>5. SumsOf(f, R) = h
    BY <2>1, <2>4, SumsExist, SumsUnique
  <2>6. Total(f, R) = g[R]
    BY <2>5, TotalIs
  <2>7. Total(f, S) = f[First(S)] + g[R]
    BY <1>2, <2>1, <2>2, TotalIs
  <2> QED
    BY <2>6, <2>7
<1> QED
  BY <1>1, <1>2

\* f counts each element of S.
Counts(f, S) == IsFiniteSet(S) /\ \A x \in S : f[x] \in Nat

LEMMA CountsLess ==
  ASSUME NEW f, NEW S, Counts(f, S), NEW s \in SUBSET S
  PROVE  Counts(f, s)
  BY FS_Subset DEF Counts

LEMMA TotalIsNat ==
  ASSUME NEW f, NEW S, Counts(f, S)
  PROVE  Total(f, S) \in Nat
<1> DEFINE T == {s \in SUBSET S : Total(f, s) \in Nat}
<1>1. ASSUME NEW s \in SUBSET S, \A r \in SUBSET s : r # s => r \in T
      PROVE  s \in T
  <2>1. CASE s = {}
    BY <2>1, TotalStep
  <2>2. CASE s # {}
    <3>1. First(s) \in S /\ Rest(s) \in T /\ IsFiniteSet(s)
      BY <1>1, <2>2, RestIs, CountsLess DEF Counts
    <3>2. Total(f, s) = f[First(s)] + Total(f, Rest(s))
      BY <2>2, <3>1, TotalStep
    <3> QED
      BY <3>1, <3>2 DEF Counts
  <2> QED
    BY <2>1, <2>2
<1>2. S \in T
  <2> HIDE DEF T
  <2> QED
    BY <1>1, SubsetInduction DEF Counts
<1> QED
  BY <1>2

\* The order does not matter: any element may be taken first.
LEMMA TotalTake ==
  ASSUME NEW f, NEW S, Counts(f, S), NEW x \in S
  PROVE  Total(f, S) = f[x] + Total(f, S \ {x})
<1> DEFINE T == {s \in SUBSET S : \A y \in s : Total(f, s) = f[y] + Total(f, s \ {y})}
<1>1. ASSUME NEW s \in SUBSET S, \A r \in SUBSET s : r # s => r \in T
      PROVE  s \in T
  <2> SUFFICES ASSUME NEW y \in s PROVE Total(f, s) = f[y] + Total(f, s \ {y})
    OBVIOUS
  <2> DEFINE z == First(s)
  <2>1. /\ z \in s /\ Rest(s) = s \ {z} /\ s # {}
        /\ IsFiniteSet(s) /\ f[z] \in Nat /\ f[y] \in Nat
    BY RestIs, CountsLess DEF Counts
  <2> HIDE DEF z
  <2>2. Total(f, s) = f[z] + Total(f, s \ {z})
    BY <2>1, TotalStep DEF z
  <2>3. CASE y = z
    BY <2>2, <2>3
  <2>4. CASE y # z
    <3> DEFINE r == (s \ {z}) \ {y}
    <3>1. s \ {z} \in T /\ y \in s \ {z} /\ s \ {y} \in T /\ z \in s \ {y}
      <4>1. \A v \in s : s \ {v} \in SUBSET s /\ s \ {v} # s
        OBVIOUS
      <4> QED
        BY <1>1, <2>1, <2>4, <4>1
    <3>2. r = (s \ {y}) \ {z} /\ Counts(f, r)
      BY CountsLess
    <3>3. Total(f, s \ {z}) = f[y] + Total(f, r)
      BY <3>1
    <3>4. Total(f, s \ {y}) = f[z] + Total(f, r)
      BY <3>1, <3>2
    <3>5. Total(f, r) \in Nat
      BY <3>2, TotalIsNat
    <3> QED
      BY <2>1, <2>2, <3>3, <3>4, <3>5
  <2> QED
    BY <2>3, <2>4
<1>2. S \in T
  <2> HIDE DEF T
  <2> QED
    BY <1>1, SubsetInduction DEF Counts
<1> QED
  BY <1>2

LEMMA TotalAdd ==
  ASSUME NEW f, NEW S, Counts(f, S), NEW x, x \notin S, f[x] \in Nat
  PROVE  Total(f, S \cup {x}) = Total(f, S) + f[x] /\ Counts(f, S \cup {x})
<1>1. Counts(f, S \cup {x}) /\ (S \cup {x}) \ {x} = S
  BY FS_AddElement DEF Counts
<1> QED
  BY <1>1, TotalTake, TotalIsNat

\* What a sum depends on.
LEMMA TotalSame ==
  ASSUME NEW f, NEW g, NEW S, IsFiniteSet(S), \A x \in S : f[x] = g[x]
  PROVE  Total(f, S) = Total(g, S)
<1> DEFINE T == {s \in SUBSET S : Total(f, s) = Total(g, s)}
<1>1. ASSUME NEW s \in SUBSET S, \A r \in SUBSET s : r # s => r \in T
      PROVE  s \in T
  <2>1. CASE s = {}
    BY <2>1, TotalStep
  <2>2. CASE s # {}
    <3>1. First(s) \in S /\ Rest(s) \in T /\ IsFiniteSet(s)
      BY <1>1, <2>2, RestIs, FS_Subset
    <3>2. Total(f, s) = f[First(s)] + Total(f, Rest(s)) /\ Total(g, s) = g[First(s)] + Total(g, Rest(s))
      BY <2>2, <3>1, TotalStep
    <3> QED
      BY <3>1, <3>2
  <2> QED
    BY <2>1, <2>2
<1>2. S \in T
  <2> HIDE DEF T
  <2> QED
    BY <1>1, SubsetInduction
<1> QED
  BY <1>2

\* A sum is that of a part and that of the rest.
LEMMA TotalSplit ==
  ASSUME NEW f, NEW S, Counts(f, S), NEW V \in SUBSET S
  PROVE  Total(f, S) = Total(f, V) + Total(f, S \ V)
<1> DEFINE T == {s \in SUBSET V : Total(f, S) = Total(f, s) + Total(f, S \ s)}
<1>0. Total(f, S) \in Nat /\ IsFiniteSet(V)
  BY TotalIsNat, CountsLess DEF Counts
<1>1. ASSUME NEW s \in SUBSET V, \A r \in SUBSET s : r # s => r \in T
      PROVE  s \in T
  <2>1. CASE s = {}
    <3>1. S \ s = S /\ Total(f, s) = 0
      BY <2>1, TotalStep
    <3>2. Total(f, S) = Total(f, s) + Total(f, S \ s)
      BY <1>0, <3>1
    <3> QED
      BY <3>2
  <2>2. CASE s # {}
    <3> DEFINE x == First(s)
               r == Rest(s)
    <3>1. x \in s /\ r = s \ {x} /\ r \in T /\ IsFiniteSet(s)
      <4>1. x \in s /\ r = s \ {x} /\ r # s
        BY <2>2, RestIs
      <4>2. IsFiniteSet(s)
        BY <1>0, FS_Subset
      <4>3. r \in SUBSET s
        BY <4>1
      <4>4. r \in T
        BY <1>1, <4>1, <4>3
      <4> QED
        BY <4>1, <4>2, <4>4
    <3>2. Total(f, s) = f[x] + Total(f, r)
      BY <2>2, <3>1, TotalStep
    <3> HIDE DEF x, r
    <3>3. Counts(f, S \ r) /\ x \in S \ r /\ (S \ r) \ {x} = S \ s /\ Counts(f, r) /\ Counts(f, S \ s)
      <4>1. S \ r \in SUBSET S /\ r \in SUBSET S /\ S \ s \in SUBSET S
        BY <3>1
      <4> QED
        BY <3>1, <4>1, CountsLess
    <3>4. Total(f, S \ r) = f[x] + Total(f, S \ s)
      BY <3>3, TotalTake
    <3>5. Total(f, r) \in Nat /\ Total(f, S \ s) \in Nat /\ f[x] \in Nat
      BY <3>3, TotalIsNat DEF Counts
    <3>6. Total(f, S) = Total(f, r) + Total(f, S \ r)
      BY <3>1
    <3> QED
      BY <3>2, <3>4, <3>5, <3>6
  <2> QED
    BY <2>1, <2>2
<1>2. V \in T
  <2> HIDE DEF T
  <2> QED
    BY <1>0, <1>1, SubsetInduction
<1> QED
  BY <1>2

-----------------------------------------------------------------------------
(***************************************************************************)
(* The inductive invariant.                                                *)
(***************************************************************************)

Landing == {"survey", "evict", "unlink", "land"}

\* An upload in flight has a blob, it is the landing one if it has the lock, and
\* only the rows of what it evicts are gone already.
UploadFollows(u) ==
  /\ pc[u] # "idle" => hash[u] \in Blob
  /\ pc[u] \in Landing <=> commit = u
  /\ victims[u] # {} => pc[u] = "unlink" /\ victims[u] \cap Rows = {}

\* Once an upload has made its room, nobody takes it.
RoomIsMade(u) == pc[u] \in {"unlink", "land"} => Bytes(Rows) + Size[hash[u]] <= Cap

Inv ==
  /\ TypeOK
  /\ \A u \in Upload : UploadFollows(u) /\ RoomIsMade(u)
  /\ PinnedHasRow /\ WithinCap /\ PromisesAreCounted

-----------------------------------------------------------------------------
(***************************************************************************)
(* The bytes stored and the bytes promised.                                *)
(***************************************************************************)

LEMMA SizesCount ==
  /\ \A B \in SUBSET Blob : Counts(Size, B) /\ Bytes(B) \in Nat
  /\ Rows \subseteq Blob /\ Bytes(Rows) \in Nat
<1>1. \A B \in SUBSET Blob : Counts(Size, B)
  BY BlobsAssumption, FS_Subset DEF Counts
<1>2. \A B \in SUBSET Blob : Bytes(B) \in Nat
  BY <1>1, TotalIsNat DEF Bytes
<1> QED
  BY <1>1, <1>2 DEF Rows

\* A new row adds its bytes at most.
LEMMA BytesAdd ==
  ASSUME NEW B \in SUBSET Blob, NEW b \in Blob
  PROVE  Bytes(B \cup {b}) <= Bytes(B) + Size[b]
<1>1. Counts(Size, B) /\ Bytes(B) \in Nat /\ Size[b] \in Nat
  BY SizesCount, BlobsAssumption
<1>2. CASE b \in B
  <2>1. B \cup {b} = B
    BY <1>2
  <2>2. Bytes(B \cup {b}) = Bytes(B)
    BY <2>1
  <2> QED
    BY <1>1, <2>2
<1>3. CASE b \notin B
  <2>1. Bytes(B \cup {b}) = Bytes(B) + Size[b]
    BY <1>1, <1>3, TotalAdd DEF Bytes
  <2> QED
    BY <1>1, <2>1
<1> QED
  BY <1>2, <1>3

\* And the rows that go take theirs.
LEMMA BytesLess ==
  ASSUME NEW B \in SUBSET Blob, NEW V \in SUBSET B
  PROVE  Bytes(B \ V) = Bytes(B) - Bytes(V) /\ Bytes(B \ V) <= Bytes(B)
<1>1. Bytes(B) = Bytes(V) + Bytes(B \ V)
  BY SizesCount, TotalSplit DEF Bytes
<1>2. Bytes(V) \in Nat /\ Bytes(B \ V) \in Nat /\ Bytes(B) \in Nat
  <2>1. V \in SUBSET Blob /\ B \ V \in SUBSET Blob
    OBVIOUS
  <2> QED
    BY <2>1, SizesCount
<1> QED
  BY <1>1, <1>2

LEMMA PromisesCount ==
  ASSUME TypeOK, \A u \in Upload : UploadFollows(u)
  PROVE  Counts(Promised, InFlight) /\ InFlight \subseteq Upload /\ IsFiniteSet(InFlight)
<1>1. IsFiniteSet(InFlight) /\ InFlight \subseteq Upload
  BY BlobsAssumption, FS_Subset DEF InFlight
<1>2. \A u \in InFlight : Promised[u] \in Nat
  BY BlobsAssumption DEF InFlight, Promised, UploadFollows
<1> QED
  BY <1>1, <1>2 DEF Counts

\* A step of the uploads in flight, or of none.
LEMMA PromisesStay ==
  ASSUME PromisesAreCounted, InFlight' = InFlight, \A u \in InFlight : hash'[u] = hash[u],
         reserved' = reserved, slots' = slots
  PROVE  PromisesAreCounted'
<1>1. Promised' = Promised
  BY DEF Promised
<1> QED
  BY <1>1 DEF PromisesAreCounted

-----------------------------------------------------------------------------
(***************************************************************************)
(* Steps that leave the uploads alone.                                     *)
(***************************************************************************)

\* The rows after the row of one blob is written.
LEMMA RowsWritten ==
  ASSUME TypeOK, NEW b \in Blob, ts' = [ts EXCEPT ![b] = now]
  PROVE  Rows' = Rows \cup {b} /\ ts' \in [Blob -> 0..MaxTime]
<1>1. now \in 0..MaxTime /\ now # 0 /\ ts \in [Blob -> 0..MaxTime]
  BY BlobsAssumption DEF TypeOK
<1> QED
  BY <1>1 DEF Rows

LEMMA UploadsStay ==
  ASSUME Inv, UNCHANGED uploadVars, TypeOK', PinnedHasRow',
         Rows' = Rows \/ \E b \in Rows : Rows' = Rows \ {b}
  PROVE  Inv'
<1>1. UNCHANGED <<pc, hash, victims, others, commit, reserved, slots>>
  BY DEF uploadVars
<1>2. Rows' \subseteq Rows /\ Bytes(Rows') <= Bytes(Rows) /\ Bytes(Rows) \in Nat /\ Bytes(Rows') \in Nat
  <2>1. Rows \subseteq Blob /\ Bytes(Rows) \in Nat
    BY SizesCount
  <2>2. CASE Rows' = Rows
    BY <2>1, <2>2
  <2>3. ASSUME NEW b \in Rows, Rows' = Rows \ {b}
        PROVE  Rows' \subseteq Rows /\ Bytes(Rows') <= Bytes(Rows) /\ Bytes(Rows') \in Nat
    <3>1. {b} \in SUBSET Rows /\ Rows' \in SUBSET Blob
      BY <2>1, <2>3
    <3> QED
      BY <2>1, <2>3, <3>1, BytesLess, SizesCount
  <2> QED
    BY <2>1, <2>2, <2>3
<1>3. WithinCap'
  BY <1>2, BlobsAssumption DEF Inv, WithinCap, Bytes
<1>4. \A u \in Upload : UploadFollows(u)'
  BY <1>1, <1>2 DEF Inv, UploadFollows
<1>5. ASSUME NEW u \in Upload PROVE RoomIsMade(u)'
  <2> SUFFICES ASSUME pc[u] \in {"unlink", "land"} PROVE Bytes(Rows') + Size[hash[u]] <= Cap
    BY <1>1 DEF RoomIsMade, Bytes
  <2>1. Bytes(Rows) + Size[hash[u]] <= Cap /\ Size[hash[u]] \in Nat
    BY BlobsAssumption DEF Inv, RoomIsMade, UploadFollows
  <2> QED
    BY <1>2, <2>1, BlobsAssumption
<1>6. PromisesAreCounted'
  BY <1>1, PromisesStay DEF Inv, InFlight
<1> QED
  BY <1>3, <1>4, <1>5, <1>6 DEF Inv

\* The bodies: what is held is pinned only if it has a row.
LEMMA HolderInv ==
  ASSUME Inv,
         \/ \E h \in Holder : Archive(h) \/ Unarchive(h) \/ Retire(h) \/ \E b \in Blob : Hold(h, b)
         \/ \E old, h \in Holder, b \in Blob : Supersede(old, h, b)
  PROVE  Inv'
<1>1. TypeOK /\ PinnedHasRow /\ UNCHANGED <<ts, files, now, uploadVars, doomed, asked>>
  BY DEF Inv, Archive, Unarchive, Retire, Hold, Supersede
<1>2. Rows' = Rows
  BY <1>1 DEF Rows
<1>3. /\ holder' \in [Holder -> {"none", "live", "archived", "over"}]
      /\ refs' \in [Holder -> Blob \cup {NoBlob}]
      /\ PinnedHasRow'
  <2>1. CASE \E h \in Holder : Archive(h) \/ Unarchive(h) \/ Retire(h)
    BY <1>1, <1>2, <2>1 DEF Archive, Unarchive, CanUnarchive, Retire, TypeOK, PinnedHasRow
  <2>2. CASE \E h \in Holder, b \in Blob : Hold(h, b)
    BY <1>1, <1>2, <2>2 DEF Hold, TypeOK, PinnedHasRow
  <2>3. CASE \E old, h \in Holder, b \in Blob : Supersede(old, h, b)
    BY <1>1, <1>2, <2>3 DEF Supersede, TypeOK, PinnedHasRow
  <2> QED
    BY <2>1, <2>2, <2>3
<1>4. TypeOK'
  BY <1>1, <1>3 DEF TypeOK, uploadVars
<1> QED
  BY <1>1, <1>2, <1>3, <1>4, UploadsStay

\* Deletes, downloads and the clock; an upload of what is there already.
LEMMA OthersInv ==
  ASSUME Inv,
         \/ \E d \in Deleter : DeleteFile(d) \/ \E b \in Blob : DeleteRow(d, b)
         \/ \E r \in Reader : OpenFile(r) \/ FindMissing(r) \/ \E b \in Blob : ReadRow(r, b)
         \/ \E u \in Upload, b \in Blob : BeginExisted(u, b)
         \/ Tick
  PROVE  Inv'
<1>1. /\ TypeOK /\ PinnedHasRow /\ now \in 1..MaxTime /\ MaxTime \in Nat
      /\ UNCHANGED <<refs, holder, uploadVars>>
  BY BlobsAssumption
     DEF Inv, TypeOK, DeleteFile, DeleteRow, OpenFile, FindMissing, ReadRow, BeginExisted, Tick, durable
<1>2. CASE \E d \in Deleter, b \in Blob : DeleteRow(d, b)
  <2>1. PICK d \in Deleter, b \in Blob : DeleteRow(d, b)
    BY <1>2
  <2>2. /\ b \in Rows /\ ~Pinned(b) /\ ts' = [ts EXCEPT ![b] = 0]
        /\ doomed' = [doomed EXCEPT ![d] = b] /\ UNCHANGED <<files, now, asked>>
    BY <2>1 DEF DeleteRow, StateOf, Forget
  <2>3. Rows' = Rows \ {b}
    BY <1>1, <2>2 DEF Rows, TypeOK
  <2>4. TypeOK'
    BY <1>1, <2>2 DEF TypeOK, uploadVars
  <2>5. PinnedHasRow'
    BY <1>1, <2>2, <2>3 DEF PinnedHasRow, Pinned
  <2> QED
    BY <1>1, <2>2, <2>3, <2>4, <2>5, UploadsStay
<1>3. CASE \E u \in Upload, b \in Blob : BeginExisted(u, b)
  <2>1. PICK u \in Upload, b \in Blob : BeginExisted(u, b)
    BY <1>3
  <2>2. b \in Rows /\ ts' = [ts EXCEPT ![b] = now] /\ UNCHANGED <<files, now, doomed, asked>>
    BY <2>1 DEF BeginExisted
  <2>3. Rows' = Rows /\ ts' \in [Blob -> 0..MaxTime]
    BY <1>1, <2>2, RowsWritten
  <2>4. TypeOK' /\ PinnedHasRow'
    BY <1>1, <2>2, <2>3 DEF TypeOK, PinnedHasRow, uploadVars
  <2> QED
    BY <1>1, <2>3, <2>4, UploadsStay
<1>4. CASE \/ \E d \in Deleter : DeleteFile(d)
           \/ \E r \in Reader : OpenFile(r) \/ FindMissing(r) \/ \E b \in Blob : ReadRow(r, b)
           \/ Tick
  <2>1. /\ ts' = ts /\ files' \subseteq files
        /\ doomed' \in [Deleter -> Blob \cup {NoBlob}] /\ asked' \in [Reader -> Blob \cup {NoBlob}]
        /\ now' \in 1..MaxTime
    <3>1. CASE \E d \in Deleter : DeleteFile(d)
      BY <1>1, <3>1 DEF DeleteFile, TypeOK
    <3>2. CASE \E r \in Reader : OpenFile(r) \/ FindMissing(r) \/ \E b \in Blob : ReadRow(r, b)
      BY <1>1, <3>2 DEF OpenFile, FindMissing, ReadRow, TypeOK, durable
    <3>3. CASE Tick
      BY <1>1, <3>3 DEF Tick, TypeOK, durable
    <3> QED
      BY <1>4, <3>1, <3>2, <3>3
  <2>2. Rows' = Rows
    BY <2>1 DEF Rows
  <2>3. TypeOK' /\ PinnedHasRow'
    BY <1>1, <2>1, <2>2 DEF TypeOK, PinnedHasRow, uploadVars
  <2> QED
    BY <1>1, <2>2, <2>3, UploadsStay
<1> QED
  BY <1>2, <1>3, <1>4

-----------------------------------------------------------------------------
(***************************************************************************)
(* The steps of an upload.                                                 *)
(***************************************************************************)

LEMMA RowsLess ==
  ASSUME Rows' \subseteq Rows
  PROVE  Bytes(Rows') <= Bytes(Rows) /\ Bytes(Rows') \in Nat /\ Bytes(Rows) \in Nat
<1>1. Rows \in SUBSET Blob /\ Rows' \in SUBSET Blob /\ Rows \ Rows' \in SUBSET Rows
  BY SizesCount
<1>2. Rows \ (Rows \ Rows') = Rows'
  OBVIOUS
<1>3. Bytes(Rows \ (Rows \ Rows')) <= Bytes(Rows)
  BY <1>1, BytesLess
<1>4. Bytes(Rows') <= Bytes(Rows)
  BY <1>2, <1>3
<1> QED
  BY <1>1, <1>4, SizesCount

\* Upload u takes a step; a row comes only if it has the lock.
LEMMA UploadStepInv ==
  ASSUME Inv, NEW u \in Upload, TypeOK', PinnedHasRow', PromisesAreCounted', WithinCap',
         UploadFollows(u)', RoomIsMade(u)',
         \A v \in Upload \ {u} : pc'[v] = pc[v] /\ hash'[v] = hash[v] /\ victims'[v] = victims[v],
         commit' = commit \/ {commit, commit'} \subseteq {u, NoUpload},
         Rows' \subseteq Rows \/ commit = u
  PROVE  Inv'
<1>1. ASSUME NEW v \in Upload \ {u} PROVE UploadFollows(v)' /\ RoomIsMade(v)'
  <2>1. /\ pc'[v] = pc[v] /\ hash'[v] = hash[v] /\ victims'[v] = victims[v]
        /\ commit' = v <=> commit = v
    BY BlobsAssumption
  <2>2. UploadFollows(v) /\ RoomIsMade(v)
    BY DEF Inv
  <2>3. CASE commit = u
    <3>1. pc[v] \notin Landing /\ victims[v] = {}
      BY <2>2, <2>3 DEF UploadFollows, Landing
    <3> QED
      BY <2>1, <2>2, <3>1 DEF UploadFollows, RoomIsMade, Landing
  <2>4. CASE Rows' \subseteq Rows
    <3>1. UploadFollows(v)'
      BY <2>1, <2>2, <2>4 DEF UploadFollows
    <3>2. ASSUME pc[v] \in {"unlink", "land"} PROVE Bytes(Rows') + Size[hash[v]] <= Cap
      <4>1. Bytes(Rows) + Size[hash[v]] <= Cap /\ Size[hash[v]] \in Nat
        BY <2>2, <3>2, BlobsAssumption DEF RoomIsMade, UploadFollows
      <4> QED
        BY <2>4, <4>1, RowsLess, BlobsAssumption
    <3> QED
      BY <2>1, <3>1, <3>2 DEF RoomIsMade, Bytes
  <2> QED
    BY <2>3, <2>4
<1> QED
  BY <1>1 DEF Inv

\* A step that ends no upload and begins none, and leaves the promises.
LEMMA GoOn ==
  ASSUME Inv, NEW u \in Upload, pc[u] # "idle", NEW place \in PC \ {"idle"}, Goto(u, place),
         hash' = hash, reserved' = reserved, slots' = slots
  PROVE  /\ PromisesAreCounted' /\ pc' \in [Upload -> PC] /\ pc'[u] = place
         /\ \A v \in Upload \ {u} : pc'[v] = pc[v]
<1>1. pc' = [pc EXCEPT ![u] = place] /\ pc \in [Upload -> PC]
  BY DEF Goto, Inv, TypeOK
<1>2. InFlight' = InFlight
  BY <1>1 DEF InFlight
<1> QED
  BY <1>1, <1>2, PromisesStay DEF Inv

LEMMA WaitInv ==
  ASSUME Inv, NEW u \in Upload, Receive(u) \/ ReceiveFails(u) \/ Survey(u)
  PROVE  Inv'
<1>1. /\ pc[u] \in {"receive", "survey"} /\ hash' = hash /\ reserved' = reserved /\ slots' = slots
      /\ UNCHANGED <<durable, now, victims, commit, doomed, asked>>
      /\ TypeOK /\ UploadFollows(u) /\ RoomIsMade(u)
  BY DEF Inv, Receive, ReceiveFails, Survey
<1>2. PICK place \in {"received", "over", "evict"} :
        Goto(u, place) /\ (place = "evict" <=> pc[u] = "survey")
  BY DEF Receive, ReceiveFails, Survey
<1>3. /\ PromisesAreCounted' /\ pc' \in [Upload -> PC] /\ pc'[u] = place
      /\ \A v \in Upload \ {u} : pc'[v] = pc[v]
  BY <1>1, <1>2, GoOn DEF PC
\* What the others were promised is what is left of the promises without its own.
<1>4. others' \in [Upload -> Nat]
  <2>1. CASE others' = others
    BY <1>1, <2>1 DEF TypeOK
  <2>2. CASE Survey(u)
    <3>1. Counts(Promised, InFlight) /\ u \in InFlight /\ reserved = Total(Promised, InFlight)
      BY <1>1, PromisesCount DEF Inv, InFlight, PromisesAreCounted
    <3>2. reserved = Promised[u] + Total(Promised, InFlight \ {u})
      BY <3>1, TotalTake
    <3>3. Total(Promised, InFlight \ {u}) \in Nat /\ Promised[u] = Size[hash[u]] /\ Promised[u] \in Nat
      BY <3>1, TotalIsNat, CountsLess DEF Promised, Counts
    <3>4. reserved - Size[hash[u]] \in Nat
      BY <3>2, <3>3
    <3> QED
      BY <1>1, <2>2, <3>4 DEF Survey, TypeOK
  <2> QED
    BY <2>1, <2>2 DEF Receive, ReceiveFails
<1>5. TypeOK'
  BY <1>1, <1>3, <1>4 DEF TypeOK, durable
<1>6. Rows' = Rows /\ PinnedHasRow' /\ WithinCap'
  BY <1>1 DEF Rows, durable, Inv, PinnedHasRow, WithinCap, Bytes
<1>7. UploadFollows(u)' /\ RoomIsMade(u)'
  BY <1>1, <1>2, <1>3, <1>6 DEF UploadFollows, RoomIsMade, Landing
<1> QED
  BY <1>1, <1>3, <1>5, <1>6, <1>7, UploadStepInv

LEMMA BeginInv ==
  ASSUME Inv, NEW u \in Upload, NEW b \in Blob, Begin(u, b)
  PROVE  Inv'
<1>1. /\ TypeOK /\ UploadFollows(u) /\ pc[u] = "idle" /\ pc' = [pc EXCEPT ![u] = "receive"]
      /\ hash' = [hash EXCEPT ![u] = b]
      /\ reserved' = reserved + Size[b] /\ slots' = slots + 1
      /\ UNCHANGED <<durable, now, victims, others, commit, doomed, asked>>
  BY DEF Inv, Begin, Goto
<1>2. Size[b] \in Nat
  BY BlobsAssumption
<1>3. TypeOK'
  <2>1. pc' \in [Upload -> PC] /\ hash' \in [Upload -> Blob \cup {NoBlob}]
    BY <1>1 DEF TypeOK, PC
  <2>2. reserved' \in Nat /\ slots' \in Nat
    BY <1>1, <1>2 DEF TypeOK
  <2> QED
    BY <1>1, <2>1, <2>2 DEF TypeOK, durable
<1>4. /\ pc'[u] = "receive" /\ hash'[u] = b
      /\ \A v \in Upload \ {u} : pc'[v] = pc[v] /\ hash'[v] = hash[v]
  BY <1>1 DEF TypeOK
<1>5. PromisesAreCounted'
  <2>1. InFlight' = InFlight \cup {u} /\ u \notin InFlight
    BY <1>1, <1>4 DEF InFlight
  <2>2. \A v \in InFlight : Promised'[v] = Promised[v]
    BY <1>4, <2>1 DEF Promised, InFlight
  <2>3. Promised'[u] = Size[b]
    BY <1>4, <2>1 DEF Promised
  <2>4. Counts(Promised, InFlight) /\ IsFiniteSet(InFlight)
    BY <1>1, PromisesCount DEF Inv
  <2>5. Total(Promised', InFlight) = Total(Promised, InFlight) /\ Counts(Promised', InFlight)
    <3>1. \A v \in InFlight : Promised'[v] \in Nat
      BY <2>2, <2>4 DEF Counts
    <3> QED
      BY <2>2, <2>4, <3>1, TotalSame DEF Counts
  <2>6. Total(Promised', InFlight \cup {u}) = Total(Promised', InFlight) + Size[b]
    BY <1>2, <2>1, <2>3, <2>5, TotalAdd
  <2>7. Cardinality(InFlight \cup {u}) = Cardinality(InFlight) + 1
    BY <2>1, <2>4, FS_AddElement
  <2>8. reserved' = Total(Promised', InFlight') /\ slots' = Cardinality(InFlight')
    BY <1>1, <2>1, <2>5, <2>6, <2>7 DEF Inv, PromisesAreCounted
  <2> QED
    BY <2>8 DEF PromisesAreCounted
<1>6. Rows' = Rows /\ PinnedHasRow' /\ WithinCap'
  BY <1>1 DEF Rows, durable, Inv, PinnedHasRow, WithinCap, Bytes
<1>7. UploadFollows(u)' /\ RoomIsMade(u)'
  BY <1>1, <1>4, <1>6 DEF UploadFollows, RoomIsMade, Landing
<1> QED
  BY <1>1, <1>3, <1>4, <1>5, <1>6, <1>7, UploadStepInv

LEMMA LockInv ==
  ASSUME Inv, NEW u \in Upload, Lock(u)
  PROVE  Inv'
<1>1. /\ TypeOK /\ UploadFollows(u) /\ pc[u] = "received" /\ commit = NoUpload /\ hash[u] \in Blob
      /\ UNCHANGED <<files, refs, holder, now, hash, victims, others, reserved, slots, doomed, asked>>
  BY DEF Inv, Lock, UploadFollows
<1>2. \/ /\ hash[u] \in Rows /\ ts' = [ts EXCEPT ![hash[u]] = now] /\ Goto(u, "over") /\ commit' = commit
      \/ /\ commit' = u /\ Goto(u, "survey") /\ ts' = ts
  BY DEF Lock
<1>3. Rows' = Rows /\ ts' \in [Blob -> 0..MaxTime]
  <2>1. CASE hash[u] \in Rows /\ ts' = [ts EXCEPT ![hash[u]] = now]
    BY <1>1, <2>1, RowsWritten
  <2>2. CASE ts' = ts
    BY <1>1, <2>2 DEF Rows, TypeOK
  <2> QED
    BY <1>2, <2>1, <2>2
<1>4. PICK place \in {"over", "survey"} : Goto(u, place) /\ commit' = IF place = "survey" THEN u ELSE commit
  BY <1>2
<1>5. /\ PromisesAreCounted' /\ pc' \in [Upload -> PC] /\ pc'[u] = place
      /\ \A v \in Upload \ {u} : pc'[v] = pc[v]
  BY <1>1, <1>4, GoOn DEF PC
<1>6. TypeOK'
  BY <1>1, <1>3, <1>4, <1>5 DEF TypeOK
<1>7. PinnedHasRow' /\ WithinCap'
  BY <1>1, <1>3 DEF Inv, PinnedHasRow, WithinCap, Bytes
<1>8. UploadFollows(u)' /\ RoomIsMade(u)'
  BY <1>1, <1>3, <1>4, <1>5, BlobsAssumption DEF UploadFollows, RoomIsMade, Landing
<1> QED
  BY <1>1, <1>3, <1>4, <1>5, <1>6, <1>7, <1>8, UploadStepInv

\* An eviction takes only rows that nothing pins, and makes the room that is needed.
LEMMA MakeRoomInv ==
  ASSUME Inv, NEW u \in Upload, MakeRoom(u)
  PROVE  Inv'
<1>1. /\ TypeOK /\ UploadFollows(u) /\ pc[u] = "evict" /\ commit = u /\ hash[u] \in Blob
      /\ Goto(u, "unlink")
      /\ UNCHANGED <<files, refs, holder, now, hash, others, commit, reserved, slots, doomed, asked>>
  BY DEF Inv, MakeRoom, UploadFollows, Landing
<1>2. PICK V \in Victims(others[u], Size[hash[u]]) :
        ts' = Without(V) /\ victims' = [victims EXCEPT ![u] = V]
  BY DEF MakeRoom
<1>3. /\ V \subseteq Rows /\ V \subseteq Blob /\ \A b \in V : ~Pinned(b)
      /\ Bytes(V) >= Over(others[u], Size[hash[u]])
  BY <1>2 DEF Victims, Candidates, StateOf, Rows
<1>4. Rows' = Rows \ V /\ ts' \in [Blob -> 0..MaxTime]
  BY <1>1, <1>2, BlobsAssumption DEF Rows, Without, TypeOK
<1>5. /\ PromisesAreCounted' /\ pc' \in [Upload -> PC] /\ pc'[u] = "unlink"
      /\ \A v \in Upload \ {u} : pc'[v] = pc[v]
  BY <1>1, GoOn DEF PC
<1>6. /\ victims' \in [Upload -> SUBSET Blob] /\ victims'[u] = V
      /\ \A v \in Upload \ {u} : victims'[v] = victims[v]
  BY <1>1, <1>2, <1>3 DEF TypeOK
<1>7. TypeOK'
  BY <1>1, <1>4, <1>5, <1>6 DEF TypeOK
<1>8. PinnedHasRow'
  BY <1>1, <1>3, <1>4 DEF Inv, PinnedHasRow, Pinned
<1>9. Bytes(Rows') = Bytes(Rows) - Bytes(V) /\ Bytes(Rows') <= Bytes(Rows)
  <2>1. Rows \in SUBSET Blob
    BY SizesCount
  <2>2. Bytes(Rows \ V) = Bytes(Rows) - Bytes(V) /\ Bytes(Rows \ V) <= Bytes(Rows)
    BY <1>3, <2>1, BytesLess
  <2> QED
    BY <1>4, <2>2
<1>10. Bytes(Rows) \in Nat /\ Bytes(V) \in Nat /\ others[u] \in Nat /\ Size[hash[u]] \in Nat /\ Cap \in Nat
       /\ Bytes(Rows)' = Bytes(Rows')
  BY <1>1, <1>3, SizesCount, BlobsAssumption DEF TypeOK, Bytes
<1>11. Bytes(Rows') + Size[hash[u]] <= Cap
  BY <1>3, <1>9, <1>10 DEF Over
<1>12. WithinCap'
  BY <1>9, <1>10 DEF Inv, WithinCap
<1>13. UploadFollows(u)' /\ RoomIsMade(u)'
  BY <1>1, <1>4, <1>5, <1>6, <1>10, <1>11 DEF UploadFollows, RoomIsMade, Landing
<1> QED
  BY <1>1, <1>4, <1>5, <1>6, <1>7, <1>8, <1>12, <1>13, UploadStepInv

LEMMA UnlinkInv ==
  ASSUME Inv, NEW u \in Upload, Unlink(u)
  PROVE  Inv'
<1>1. /\ TypeOK /\ UploadFollows(u) /\ RoomIsMade(u) /\ pc[u] = "unlink"
      /\ UNCHANGED <<ts, refs, holder, now, pc, hash, others, commit, reserved, slots, doomed, asked>>
  BY DEF Inv, Unlink
<1>2. PICK v \in victims[u] : victims' = [victims EXCEPT ![u] = @ \ {v}] /\ files' \in {files, files \ {v}}
  BY DEF Unlink
<1>3. /\ victims' \in [Upload -> SUBSET Blob] /\ victims'[u] = victims[u] \ {v}
      /\ \A w \in Upload \ {u} : victims'[w] = victims[w]
  BY <1>1, <1>2 DEF TypeOK
<1>4. TypeOK'
  BY <1>1, <1>2, <1>3 DEF TypeOK
<1>5. Rows' = Rows /\ PinnedHasRow' /\ WithinCap'
  BY <1>1 DEF Rows, Inv, PinnedHasRow, WithinCap, Bytes
<1>6. PromisesAreCounted'
  BY <1>1, PromisesStay DEF Inv, InFlight
<1>7. UploadFollows(u)' /\ RoomIsMade(u)'
  BY <1>1, <1>3, <1>5 DEF UploadFollows, RoomIsMade, Bytes
<1> QED
  BY <1>1, <1>3, <1>4, <1>5, <1>6, <1>7, UploadStepInv

LEMMA PlaceInv ==
  ASSUME Inv, NEW u \in Upload, Place(u)
  PROVE  Inv'
<1>1. /\ TypeOK /\ UploadFollows(u) /\ RoomIsMade(u) /\ pc[u] = "unlink" /\ victims[u] = {}
      /\ files' = files \cup {hash[u]} /\ hash[u] \in Blob /\ Goto(u, "land")
      /\ UNCHANGED <<ts, refs, holder, now, hash, victims, others, commit, reserved, slots, doomed, asked>>
  BY DEF Inv, Place, UploadFollows
<1>2. /\ PromisesAreCounted' /\ pc' \in [Upload -> PC] /\ pc'[u] = "land"
      /\ \A v \in Upload \ {u} : pc'[v] = pc[v]
  BY <1>1, GoOn DEF PC
<1>3. TypeOK'
  BY <1>1, <1>2 DEF TypeOK
<1>4. Rows' = Rows /\ PinnedHasRow' /\ WithinCap'
  BY <1>1 DEF Rows, Inv, PinnedHasRow, WithinCap, Bytes
<1>5. UploadFollows(u)' /\ RoomIsMade(u)'
  BY <1>1, <1>2, <1>4 DEF UploadFollows, RoomIsMade, Bytes, Landing
<1> QED
  BY <1>1, <1>2, <1>3, <1>4, <1>5, UploadStepInv

\* The row is in the room that was made for it.
LEMMA LandInv ==
  ASSUME Inv, NEW u \in Upload, Land(u)
  PROVE  Inv'
<1>1. /\ TypeOK /\ UploadFollows(u) /\ RoomIsMade(u) /\ pc[u] = "land" /\ commit = u /\ commit' = NoUpload
      /\ hash[u] \in Blob /\ victims[u] = {} /\ ts' = [ts EXCEPT ![hash[u]] = now] /\ Goto(u, "over")
      /\ UNCHANGED <<files, refs, holder, now, hash, victims, others, reserved, slots, doomed, asked>>
  BY DEF Inv, Land, UploadFollows, Landing
<1>2. /\ PromisesAreCounted' /\ pc' \in [Upload -> PC] /\ pc'[u] = "over"
      /\ \A v \in Upload \ {u} : pc'[v] = pc[v]
  BY <1>1, GoOn DEF PC
<1>3. Rows' = Rows \cup {hash[u]} /\ ts' \in [Blob -> 0..MaxTime]
  BY <1>1, RowsWritten
<1>4. TypeOK'
  BY <1>1, <1>2, <1>3 DEF TypeOK
<1>5. PinnedHasRow'
  BY <1>1, <1>3 DEF Inv, PinnedHasRow
<1>6. WithinCap'
  <2>1. Bytes(Rows \cup {hash[u]}) <= Bytes(Rows) + Size[hash[u]] /\ Rows \in SUBSET Blob
    BY <1>1, SizesCount, BytesAdd
  <2>2. Bytes(Rows) + Size[hash[u]] <= Cap
    BY <1>1 DEF RoomIsMade
  <2>3. Bytes(Rows)' = Bytes(Rows \cup {hash[u]})
    BY <1>3 DEF Bytes
  <2>4. Rows \cup {hash[u]} \in SUBSET Blob
    BY <1>1, <2>1
  <2>5. Bytes(Rows \cup {hash[u]}) \in Nat /\ Bytes(Rows) \in Nat /\ Size[hash[u]] \in Nat /\ Cap \in Nat
    BY <1>1, <2>4, SizesCount, BlobsAssumption
  <2> QED
    BY <2>1, <2>2, <2>3, <2>5 DEF WithinCap
<1>7. UploadFollows(u)' /\ RoomIsMade(u)'
  BY <1>1, <1>2, <1>3, BlobsAssumption DEF UploadFollows, RoomIsMade, Landing
<1> QED
  BY <1>1, <1>2, <1>3, <1>4, <1>5, <1>6, <1>7, UploadStepInv

LEMMA FailInv ==
  ASSUME Inv, NEW u \in Upload, LandingFails(u)
  PROVE  Inv'
<1>1. /\ TypeOK /\ UploadFollows(u) /\ pc[u] \in {"received", "evict", "land", "unlink"} /\ victims[u] = {}
      /\ hash[u] \in Blob /\ files' \in {files, files \cup {hash[u]}} /\ Goto(u, "over")
      /\ commit' = IF commit = u THEN NoUpload ELSE commit
      /\ UNCHANGED <<ts, refs, holder, now, hash, victims, others, reserved, slots, doomed, asked>>
  BY DEF Inv, LandingFails, FailedLock, UploadFollows
<1>2. /\ PromisesAreCounted' /\ pc' \in [Upload -> PC] /\ pc'[u] = "over"
      /\ \A v \in Upload \ {u} : pc'[v] = pc[v]
  BY <1>1, GoOn DEF PC
<1>3. TypeOK'
  BY <1>1, <1>2 DEF TypeOK
<1>4. Rows' = Rows /\ PinnedHasRow' /\ WithinCap'
  BY <1>1 DEF Rows, Inv, PinnedHasRow, WithinCap, Bytes
<1>5. UploadFollows(u)' /\ RoomIsMade(u)'
  BY <1>1, <1>2, <1>4, BlobsAssumption DEF UploadFollows, RoomIsMade, Landing
<1> QED
  BY <1>1, <1>2, <1>3, <1>4, <1>5, UploadStepInv

\* What was promised is given back.
LEMMA DropInv ==
  ASSUME Inv, NEW u \in Upload, Drop(u)
  PROVE  Inv'
<1>1. /\ TypeOK /\ UploadFollows(u) /\ pc[u] = "over" /\ hash[u] \in Blob /\ victims[u] = {}
      /\ pc' = [pc EXCEPT ![u] = "idle"] /\ hash' = [hash EXCEPT ![u] = NoBlob]
      /\ others' = [others EXCEPT ![u] = 0]
      /\ slots' = slots - 1 /\ reserved' = reserved - Size[hash[u]]
      /\ UNCHANGED <<durable, now, victims, commit, doomed, asked>>
  BY DEF Inv, Drop, GiveBack, Goto, UploadFollows
<1>2. /\ pc'[u] = "idle" /\ hash'[u] = NoBlob
      /\ \A v \in Upload \ {u} : pc'[v] = pc[v] /\ hash'[v] = hash[v]
  BY <1>1 DEF TypeOK
<1>3. PromisesAreCounted' /\ reserved' \in Nat /\ slots' \in Nat
  <2>1. InFlight' = InFlight \ {u} /\ u \in InFlight
    BY <1>1, <1>2 DEF InFlight
  <2>2. \A v \in InFlight \ {u} : Promised'[v] = Promised[v]
    BY <1>2, <2>1 DEF Promised, InFlight
  <2>3. /\ Counts(Promised, InFlight) /\ IsFiniteSet(InFlight) /\ IsFiniteSet(InFlight \ {u})
        /\ Counts(Promised, InFlight \ {u})
    BY <1>1, PromisesCount, CountsLess DEF Inv, Counts
  <2>4. Total(Promised', InFlight \ {u}) = Total(Promised, InFlight \ {u})
    BY <2>2, <2>3, TotalSame
  <2>5. Promised[u] = Size[hash[u]] /\ Size[hash[u]] \in Nat
    BY <1>1, <2>1, BlobsAssumption DEF Promised
  <2>6. /\ Total(Promised, InFlight) = Size[hash[u]] + Total(Promised, InFlight \ {u})
        /\ Total(Promised, InFlight \ {u}) \in Nat
    BY <2>1, <2>3, <2>5, TotalTake, TotalIsNat
  <2>7. /\ Cardinality(InFlight \ {u}) = Cardinality(InFlight) - 1
        /\ Cardinality(InFlight \ {u}) \in Nat
    BY <2>1, <2>3, FS_RemoveElement, FS_CardinalityType
  <2>8. reserved = Total(Promised, InFlight) /\ slots = Cardinality(InFlight)
    BY DEF Inv, PromisesAreCounted
  <2>9. reserved' = Total(Promised, InFlight \ {u})
    BY <1>1, <2>5, <2>6, <2>8
  <2>10. slots' = Cardinality(InFlight \ {u})
    BY <1>1, <2>7, <2>8
  <2> QED
    BY <2>1, <2>4, <2>6, <2>7, <2>9, <2>10 DEF PromisesAreCounted
<1>4. TypeOK'
  <2>1. pc' \in [Upload -> PC] /\ hash' \in [Upload -> Blob \cup {NoBlob}] /\ others' \in [Upload -> Nat]
    BY <1>1 DEF TypeOK, PC
  <2> QED
    BY <1>1, <1>3, <2>1 DEF TypeOK, durable
<1>5. Rows' = Rows /\ PinnedHasRow' /\ WithinCap'
  BY <1>1 DEF Rows, durable, Inv, PinnedHasRow, WithinCap, Bytes
<1>6. UploadFollows(u)' /\ RoomIsMade(u)'
  BY <1>1, <1>2, <1>5 DEF UploadFollows, RoomIsMade, Landing
<1> QED
  BY <1>1, <1>2, <1>3, <1>4, <1>5, <1>6, UploadStepInv

-----------------------------------------------------------------------------
(***************************************************************************)
(* The theorems.                                                           *)
(***************************************************************************)

\* A process that starts has no upload and no promise, and no file of this is durable.
LEMMA IdleFollows ==
  ASSUME Idle, PinnedHasRow, WithinCap, ts \in [Blob -> 0..MaxTime], files \subseteq Blob,
         refs \in [Holder -> Blob \cup {NoBlob}],
         holder \in [Holder -> {"none", "live", "archived", "over"}], now \in 1..MaxTime
  PROVE  Inv
<1>1. TypeOK
  BY DEF Idle, TypeOK, PC
<1>2. \A u \in Upload : UploadFollows(u) /\ RoomIsMade(u)
  BY BlobsAssumption DEF Idle, UploadFollows, RoomIsMade, Landing
<1>3. PromisesAreCounted
  <2>1. InFlight = {}
    BY DEF Idle, InFlight
  <2>2. Total(Promised, {}) = 0 /\ Cardinality({}) = 0
    BY TotalStep, FS_EmptySet
  <2> QED
    BY <2>1, <2>2 DEF Idle, PromisesAreCounted
<1> QED
  BY <1>1, <1>2, <1>3 DEF Inv

LEMMA InitInv == Init => Inv
<1> SUFFICES ASSUME Init PROVE Inv
  OBVIOUS
<1>1. Rows = {}
  BY DEF Init, Rows
<1>2. Bytes(Rows) = 0
  BY <1>1, TotalStep DEF Bytes
<1>3. PinnedHasRow /\ WithinCap
  BY <1>2, BlobsAssumption DEF Init, PinnedHasRow, WithinCap
<1> QED
  BY <1>3, IdleFollows, BlobsAssumption DEF Init

LEMMA CrashInv ==
  ASSUME Inv, Crash
  PROVE  Inv'
<1>1. /\ pc' = [u \in Upload |-> "idle"] /\ hash' = [u \in Upload |-> NoBlob]
      /\ victims' = [u \in Upload |-> {}] /\ others' = [u \in Upload |-> 0]
      /\ commit' = NoUpload /\ reserved' = 0 /\ slots' = 0
      /\ doomed' = [d \in Deleter |-> NoBlob] /\ asked' = [r \in Reader |-> NoBlob]
      /\ UNCHANGED <<ts, files, refs, holder, now>> /\ TypeOK
  BY DEF Crash, durable, Inv
<1>2. TypeOK'
  BY <1>1 DEF TypeOK, PC
<1>3. Rows' = Rows /\ PinnedHasRow' /\ WithinCap'
  BY <1>1 DEF Rows, Inv, PinnedHasRow, WithinCap, Bytes
<1>4. \A u \in Upload : UploadFollows(u)' /\ RoomIsMade(u)'
  BY <1>1, BlobsAssumption DEF UploadFollows, RoomIsMade, Landing
<1>5. PromisesAreCounted'
  <2>1. InFlight' = {}
    BY <1>1 DEF InFlight
  <2>2. Total(Promised', {}) = 0 /\ Cardinality({}) = 0
    BY TotalStep, FS_EmptySet
  <2> QED
    BY <1>1, <2>1, <2>2 DEF PromisesAreCounted
<1> QED
  BY <1>2, <1>3, <1>4, <1>5 DEF Inv

LEMMA NextInv == Inv /\ [Next]_vars => Inv'
<1> SUFFICES ASSUME Inv, [Next]_vars PROVE Inv'
  OBVIOUS
<1>1. ASSUME NEW u \in Upload, UploadStep(u) PROVE Inv'
  BY <1>1, WaitInv, LockInv, MakeRoomInv, UnlinkInv, PlaceInv, LandInv, FailInv, DropInv DEF UploadStep
<1>2. ASSUME NEW u \in Upload, NEW b \in Blob, Begin(u, b) PROVE Inv'
  BY <1>2, BeginInv
<1>3. ASSUME \/ \E h \in Holder : Archive(h) \/ Unarchive(h) \/ Retire(h) \/ \E b \in Blob : Hold(h, b)
             \/ \E old, h \in Holder, b \in Blob : Supersede(old, h, b)
      PROVE  Inv'
  BY <1>3, HolderInv
<1>4. ASSUME \/ \E d \in Deleter : DeleteFile(d) \/ \E b \in Blob : DeleteRow(d, b)
             \/ \E r \in Reader : OpenFile(r) \/ FindMissing(r) \/ \E b \in Blob : ReadRow(r, b)
             \/ \E u \in Upload, b \in Blob : BeginExisted(u, b)
             \/ Tick
      PROVE  Inv'
  BY <1>4, OthersInv
<1>5. CASE Crash
  BY <1>5, CrashInv
<1>6. CASE UNCHANGED vars
  <2>1. /\ UNCHANGED uploadVars /\ UNCHANGED <<ts, files, refs, holder, now, doomed, asked>> /\ TypeOK
    BY <1>6 DEF vars, uploadVars, Inv
  <2>2. Rows' = Rows /\ TypeOK' /\ PinnedHasRow'
    BY <2>1 DEF Rows, TypeOK, PinnedHasRow, Inv, uploadVars
  <2> QED
    BY <2>1, <2>2, UploadsStay
<1>7. CASE Next
  <2>1. CASE \E u \in Upload : UploadStep(u) \/ \E b \in Blob : BeginExisted(u, b) \/ Begin(u, b)
    BY <1>1, <1>2, <1>4, <2>1
  <2> QED
    BY <1>3, <1>4, <1>5, <1>7, <2>1 DEF Next
<1> QED
  BY <1>6, <1>7

\* The inductive invariant holds throughout.
THEOREM InvAlways == Spec => []Inv
  BY InitInv, NextInv, PTL DEF Spec

\* Each variable has values of its kind; no promise is ever negative (bin/board-server/blobs.rs).
THEOREM TypeCorrect == Spec => []TypeOK
<1>1. Inv => TypeOK
  BY DEF Inv
<1> QED
  BY <1>1, InvAlways, PTL

\* Whatever eviction, deletes and unarchiving do meanwhile, what pins a blob keeps its row
\* (store/blobs.rs).
THEOREM PinsHold == Spec => []PinnedHasRow
<1>1. Inv => PinnedHasRow
  BY DEF Inv
<1> QED
  BY <1>1, InvAlways, PTL

\* The bytes stored never exceed the cap, however many uploads were promised room
\* (store/blobs.rs blob_make_room, bin/board-server/blobs.rs land).
THEOREM TheCapHolds == Spec => []WithinCap
<1>1. Inv => WithinCap
  BY DEF Inv
<1> QED
  BY <1>1, InvAlways, PTL

\* No way an upload can end leaks the bytes or the slot it was promised (Place::drop).
THEOREM NothingLeaks == Spec => []PromisesAreCounted
<1>1. Inv => PromisesAreCounted
  BY DEF Inv
<1> QED
  BY <1>1, InvAlways, PTL

\* No step takes the file of a row, or of an upload that is about to get one, but the
\* second half of a delete (bin/board-server/blobs.rs put, delete).
THEOREM OnlyDeletesTakeFiles == Spec => RowKeepsFile
<1> DEFINE Keeps(b) == b \in Owed' /\ b \notin files' =>
                         \/ b \in Owed /\ b \notin files
                         \/ \E d \in Deleter : doomed[d] = b /\ doomed'[d] = NoBlob
<1>1. ASSUME Inv, [Next]_vars, NEW b \in Blob PROVE Keeps(b)
  <2>1. TypeOK /\ \A u \in Upload : UploadFollows(u)
    BY <1>1 DEF Inv
  \* Enough of a step: nothing is owed anew, and no file goes.
  <2>2. ASSUME Owed' \subseteq Owed, files \subseteq files' PROVE Keeps(b)
    BY <2>2
  <2>3. ASSUME Rows' \subseteq Rows, \A u \in Upload : pc'[u] = "land" => pc[u] = "land" /\ hash'[u] = hash[u]
        PROVE  Owed' \subseteq Owed
    BY <2>3 DEF Owed
  <2>4. ASSUME NEW u \in Upload, UploadStep(u) PROVE Keeps(b)
    <3>1. pc[u] # "idle" => hash[u] \in Blob
      BY <2>1 DEF UploadFollows
    <3>2. CASE Receive(u) \/ ReceiveFails(u) \/ Survey(u) \/ Drop(u)
      <4>1. Rows' \subseteq Rows /\ files' = files
        BY <3>2 DEF Receive, ReceiveFails, Survey, Drop, durable, Rows
      <4>2. \A v \in Upload : pc'[v] = "land" => pc[v] = "land" /\ hash'[v] = hash[v]
        BY <2>1, <3>2 DEF Receive, ReceiveFails, Survey, Drop, Goto, TypeOK
      <4> QED
        BY <2>2, <2>3, <4>1, <4>2
    <3>3. CASE Lock(u)
      <4>1. Rows' \subseteq Rows /\ files' = files
        <5>1. hash[u] \in Rows => hash[u] \in Blob
          BY DEF Rows
        <5>2. CASE ts' = ts
          BY <3>3, <5>2 DEF Lock, Rows
        <5>3. CASE hash[u] \in Rows /\ ts' = [ts EXCEPT ![hash[u]] = now]
          BY <2>1, <3>3, <5>1, <5>3, RowsWritten DEF Lock
        <5> QED
          BY <3>3, <5>2, <5>3 DEF Lock
      <4>2. \A v \in Upload : pc'[v] = "land" => pc[v] = "land" /\ hash'[v] = hash[v]
        BY <2>1, <3>3 DEF Lock, Goto, TypeOK
      <4> QED
        BY <2>2, <2>3, <4>1, <4>2
    <3>4. CASE MakeRoom(u)
      <4>1. Rows' \subseteq Rows /\ files' = files
        BY <2>1, <3>4 DEF MakeRoom, Without, Rows, TypeOK
      <4>2. \A v \in Upload : pc'[v] = "land" => pc[v] = "land" /\ hash'[v] = hash[v]
        BY <2>1, <3>4 DEF MakeRoom, Goto, TypeOK
      <4> QED
        BY <2>2, <2>3, <4>1, <4>2
    \* A victim has no row any more, and nothing else can be landing.
    <3>5. CASE Unlink(u)
      <4>1. PICK v \in victims[u] : files' \in {files, files \ {v}}
        BY <3>5 DEF Unlink
      <4>2. pc[u] = "unlink" /\ UNCHANGED <<ts, pc, hash>> /\ victims[u] \cap Rows = {}
        BY <2>1, <3>5 DEF Unlink, UploadFollows
      <4>3. \A w \in Upload : pc[w] # "land"
        BY <2>1, <4>2 DEF UploadFollows, Landing
      <4>4. Owed' = Owed /\ v \notin Owed
        BY <4>2, <4>3 DEF Owed, Rows
      <4> QED
        BY <4>1, <4>4
    <3>6. CASE Place(u)
      <4>1. files' = files \cup {hash[u]} /\ UNCHANGED <<ts, hash>> /\ pc' = [pc EXCEPT ![u] = "land"]
        BY <3>6 DEF Place, Goto
      <4>2. Owed' \subseteq Owed \cup {hash[u]}
        BY <2>1, <4>1 DEF Owed, Rows, TypeOK
      <4> QED
        BY <4>1, <4>2
    <3>7. CASE Land(u)
      <4>1. /\ pc[u] = "land" /\ hash[u] \in Blob /\ ts' = [ts EXCEPT ![hash[u]] = now]
            /\ pc' = [pc EXCEPT ![u] = "over"] /\ UNCHANGED <<files, hash>>
        BY <3>1, <3>7 DEF Land, Goto
      <4>2. Rows' = Rows \cup {hash[u]}
        BY <2>1, <4>1, RowsWritten
      <4>3. Owed' \subseteq Owed
        BY <2>1, <4>1, <4>2 DEF Owed, TypeOK
      <4> QED
        BY <2>2, <4>1, <4>3
    <3>8. CASE LandingFails(u)
      <4>1. Rows' \subseteq Rows /\ files \subseteq files'
        BY <3>8 DEF LandingFails, Rows
      <4>2. \A v \in Upload : pc'[v] = "land" => pc[v] = "land" /\ hash'[v] = hash[v]
        BY <2>1, <3>8 DEF LandingFails, Goto, TypeOK
      <4> QED
        BY <2>2, <2>3, <4>1, <4>2
    <3> QED
      BY <2>4, <3>2, <3>3, <3>4, <3>5, <3>6, <3>7, <3>8 DEF UploadStep
  <2>5. ASSUME NEW u \in Upload, NEW c \in Blob, BeginExisted(u, c) \/ Begin(u, c) PROVE Keeps(b)
    <3>1. CASE BeginExisted(u, c)
      <4>1. Rows' \subseteq Rows
        BY <2>1, <3>1, RowsWritten DEF BeginExisted
      <4>2. files' = files /\ pc' = pc /\ hash' = hash
        BY <3>1 DEF BeginExisted, uploadVars
      <4> QED
        BY <2>2, <2>3, <4>1, <4>2
    <3>2. CASE Begin(u, c)
      <4>1. Rows' \subseteq Rows /\ files' = files
        BY <3>2 DEF Begin, durable, Rows
      <4>2. \A v \in Upload : pc'[v] = "land" => pc[v] = "land" /\ hash'[v] = hash[v]
        BY <2>1, <3>2 DEF Begin, Goto, TypeOK
      <4> QED
        BY <2>2, <2>3, <4>1, <4>2
    <3> QED
      BY <2>5, <3>1, <3>2
  <2>6. ASSUME UNCHANGED <<pc, hash, files>>, Rows' \subseteq Rows PROVE Keeps(b)
    BY <2>2, <2>3, <2>6
  <2>7. CASE \/ \E h \in Holder : Archive(h) \/ Unarchive(h) \/ Retire(h) \/ \E c \in Blob : Hold(h, c)
             \/ \E old, h \in Holder, c \in Blob : Supersede(old, h, c)
             \/ \E r \in Reader : OpenFile(r) \/ FindMissing(r) \/ \E c \in Blob : ReadRow(r, c)
             \/ Tick
             \/ UNCHANGED vars
    <3>1. UNCHANGED <<pc, hash, files, ts>>
      BY <2>7 DEF Archive, Unarchive, Retire, Hold, Supersede, OpenFile, FindMissing, ReadRow, Tick,
                  uploadVars, durable, vars
    <3>2. Rows' \subseteq Rows
      BY <3>1 DEF Rows
    <3> QED
      BY <2>6, <3>1, <3>2
  <2>8. ASSUME NEW d \in Deleter, DeleteFile(d) \/ \E c \in Blob : DeleteRow(d, c) PROVE Keeps(b)
    <3>1. CASE \E c \in Blob : DeleteRow(d, c)
      <4>1. UNCHANGED <<pc, hash, files>> /\ Rows' \subseteq Rows
        BY <2>1, <3>1 DEF DeleteRow, Forget, uploadVars, Rows, TypeOK
      <4> QED
        BY <2>6, <4>1
    <3>2. CASE DeleteFile(d)
      <4>1. UNCHANGED <<pc, hash, ts>> /\ files' \in {files, files \ {doomed[d]}} /\ doomed'[d] = NoBlob
        BY <2>1, <3>2 DEF DeleteFile, uploadVars, TypeOK
      <4>2. Owed' = Owed
        BY <4>1 DEF Owed, Rows
      <4> QED
        BY <4>1, <4>2
    <3> QED
      BY <2>8, <3>1, <3>2
  <2>9. CASE Crash
    <3>1. Rows' \subseteq Rows /\ files' = files /\ \A u \in Upload : pc'[u] = "idle"
      BY <2>9 DEF Crash, durable, Rows
    <3> QED
      BY <2>2, <2>3, <3>1
  <2> HIDE DEF Keeps
  <2>10. CASE Next
    BY <2>4, <2>5, <2>7, <2>8, <2>9, <2>10 DEF Next
  <2> QED
    BY <1>1, <2>7, <2>10
<1>2. Inv /\ [Next]_vars => [\A b \in Blob : Keeps(b)]_vars
  BY <1>1
<1> QED
  BY <1>2, InvAlways, PTL DEF Spec, RowKeepsFile

-----------------------------------------------------------------------------
(***************************************************************************)
(* The transfers to the store and from it: Upload.tla, which has           *)
(* Download.tla's state and steps too.                                     *)
(***************************************************************************)

(***************************************************************************)
(* A download's file.  That it is the blob is not inductive: the rename    *)
(* takes the part, of which the command only compared what it hashed.      *)
(***************************************************************************)

\* The file is on the disk once it is there, and what the command has hashed is
\* what lies in the part.
PartIsHashed ==
  /\ "file" \in synced
  /\ step = "checking" => "part" \in synced
  /\ step \in {"asking", "copying", "checking"} => hashed = part
  /\ step = "opening" => hashed \in {None, part}

FileInv == FileIsTheBlob /\ PartIsHashed

\* A download begins with no file.
LEMMA FileInvInit == TransferInit => FileInv
  BY DEF TransferInit, DownloadInit, FileInv, PartIsHashed, FileIsTheBlob

\* Every step of the download keeps it, and the upload does not touch it.
LEMMA FileInvNext ==
  ASSUME FileInv, [TransferNext]_transferVars
  PROVE  FileInv'
<1> USE DEF FileInv, PartIsHashed, FileIsTheBlob
<1> SUFFICES ASSUME Download \/ (\E r \in BOOLEAN : BeginGet(r)) \/ UNCHANGED downloadVars
             PROVE  FileInv'
  BY DEF TransferNext, Get, transferVars, Digest, Put, ReadNonce, Send, ReceiveReply, Resend, Serve,
     Check, ReceiveBody, LandBody, Lose, Edit, Write, Evict
<1>1. CASE UNCHANGED downloadVars
  BY <1>1 DEF downloadVars, disk, command
<1>2. ASSUME NEW r \in BOOLEAN, BeginGet(r) PROVE FileInv'
  BY <1>2 DEF BeginGet, Kept, disk
<1>3. CASE AskSize
  BY <1>3, DownloadAssumption DEF AskSize, StartOver, disk
<1>4. CASE Open
  BY <1>4 DEF Open, Satisfiable
<1>5. CASE Refused \/ Break \/ Kill
  BY <1>5 DEF Refused, Break, Kill, End, disk
<1>6. CASE Copy
  BY <1>6 DEF Copy
<1>7. CASE Sync
  BY <1>7 DEF Sync
<1>8. CASE Mismatch
  BY <1>8 DEF Mismatch, End
<1>9. CASE Rename
  BY <1>9 DEF Rename, End
<1>10. CASE PowerFails
  BY <1>10 DEF PowerFails, End
<1>11. CASE Damage
  BY <1>11 DEF Damage, command
<1> QED
  BY <1>1, <1>2, <1>3, <1>4, <1>5, <1>6, <1>7, <1>8, <1>9, <1>10, <1>11 DEF Download

\* FILE is never there but whole and the blob, however often `get` is broken off,
\* resumed, killed, or loses power, and whatever damages FILE.part before it is
\* read and the bytes on their way (bin/board/blobs.rs, get).
THEOREM FileIsTheBlobAlways ==
  TransferSpec => []FileIsTheBlob
<1>1. TransferInit => FileInv
  BY FileInvInit
<1>2. FileInv /\ [TransferNext]_transferVars => FileInv'
  BY FileInvNext
<1>3. FileInv => FileIsTheBlob
  BY DEF FileInv
<1> QED
  BY <1>1, <1>2, <1>3, PTL DEF TransferSpec

(***************************************************************************)
(* The types of a transfer: what lies in a file, or travels, is a text.    *)
(***************************************************************************)

\* Some pieces, right or wrong.
Texts == Seq(0..Pieces)

\* A blob is a text of all its pieces.
LEMMA ContentIs ==
  /\ None \in Texts
         /\ \A c \in Content : c \in Texts /\ Len(c) = Pieces
<1>1. None \in Texts
  BY DEF None, Texts
<1>2. \A c \in Content : c \in [1..Pieces -> 0..Pieces]
  BY DownloadAssumption DEF Content, TheBlob, Other, Bad
<1>3. ASSUME NEW c \in [1..Pieces -> 0..Pieces] PROVE c \in Texts /\ Len(c) = Pieces
  BY SeqDef, DownloadAssumption DEF Texts
<1> QED
  BY <1>1, <1>2, <1>3

\* A damaged text is one of the same length.
LEMMA DamagedIs ==
  ASSUME NEW s \in Texts, NEW t \in Damaged(s)
  PROVE  t \in Texts /\ Len(t) = Len(s)
  BY ExceptSeq, DownloadAssumption DEF Damaged, Bad, Texts

\* A stretch of a text is one.
LEMMA PartOfText ==
  ASSUME NEW s \in Texts, NEW m \in Nat \ {0}, NEW n \in 0..Len(s)
  PROVE  SubSeq(s, m, n) \in Texts
<1>1. \A i \in m .. n : s[i] \in 0..Pieces
  <2> SUFFICES ASSUME NEW i \in m .. n PROVE s[i] \in 0..Pieces
    OBVIOUS
  <2>1. Len(s) \in Nat
    BY LenProperties DEF Texts
  <2>2. i \in 1 .. Len(s)
    BY <2>1
  <2> QED
    BY <2>2, ElementOfSeq DEF Texts
<1>2. m \in Int /\ n \in Int
  OBVIOUS
<1> QED
  BY <1>1, <1>2, SubSeqProperties DEF Texts

\* What a power failure leaves of a text is one.
LEMMA LosesIs ==
  ASSUME NEW s \in Texts
  PROVE  Loses(s) \subseteq Texts
<1>1. \A n \in 0..Len(s) : SubSeq(s, 1, n) \in Texts
  BY PartOfText
<1> QED
  BY <1>1, DamagedIs DEF Loses

\* An upload on its way has hashed its file, and may find its signature stale.
TriesLeft == put \in {"head", "send", "wait"} => signed \in Content /\ stale < NonceTries

TypeInv == TransferTypeOK /\ TriesLeft

\* Nothing is begun yet.
LEMMA TypeInvInit == TransferInit => TypeInv
<1> SUFFICES ASSUME TransferInit PROVE TypeInv
  OBVIOUS
<1>1. {stored, None} \subseteq Texts /\ stored \in Content \cup {None} /\ TheBlob \in Content
  BY ContentIs DEF TransferInit, DownloadInit, Content
<1>2. DownloadTypeOK
  <2>1. resume \in BOOLEAN /\ moved \in BOOLEAN
    BY DEF TransferInit, DownloadInit
  <2>2. {stored, file, part, hashed, coming} \subseteq Seq(0..Pieces)
    BY <1>1 DEF TransferInit, DownloadInit, Texts
  <2> QED
    BY <2>1, <2>2, DownloadAssumption DEF TransferInit, DownloadInit, DownloadTypeOK, GetPlace
<1>3. /\ nonce \in 0..head /\ head \in 0..MaxHead /\ stale \in 0..NonceTries /\ dropped \in 0..Retries
      /\ puts \in 0..MaxPuts /\ edits \in 0..MaxEdits
  BY UploadAssumption DEF TransferInit
<1>4. landed \subseteq Content
  BY <1>1 DEF TransferInit
<1> QED
  BY <1>1, <1>2, <1>3, <1>4 DEF TransferInit, TypeInv, TriesLeft, TransferTypeOK, Ended

\* A step of a download.
LEMMA DownloadTypes ==
  ASSUME TransferTypeOK,
         Download \/ (\E r \in BOOLEAN : BeginGet(r))
  PROVE  DownloadTypeOK'
<1> USE DEF DownloadTypeOK, GetPlace
<1>0. /\ DownloadTypeOK /\ stored \in Content \cup {None}
      /\ {stored, file, part, hashed, coming} \subseteq Texts /\ None \in Texts
  BY ContentIs DEF TransferTypeOK, Texts
<1>1. ASSUME NEW r \in BOOLEAN, BeginGet(r) PROVE DownloadTypeOK'
  BY <1>0, <1>1 DEF BeginGet, Kept, disk, board, Texts
<1>2. CASE AskSize
  BY <1>0, <1>2 DEF AskSize, disk, board, Texts
<1>3. CASE Open
  <2>1. PICK whole \in BOOLEAN, sent \in {stored} \cup Damaged(stored) :
          /\ coming' = IF whole THEN sent ELSE SubSeq(sent, Len(hashed) + 1, Pieces)
          /\ hashed' = (IF whole THEN None ELSE hashed)
          /\ part' = (IF whole THEN None ELSE part)
          /\ synced' = (IF whole THEN synced \ {"part"} ELSE synced)
          /\ faults' = faults \/ Fault
    BY <1>3 DEF Open
  <2>2. stored \in Content
    BY <1>0, <1>3 DEF Open
  <2>3. sent \in Texts /\ Len(sent) = Pieces
    BY <1>0, <2>2, ContentIs, DamagedIs
  <2>4. coming' \in Texts
    <3>1. Len(hashed) + 1 \in Nat \ {0} /\ Pieces \in 0..Len(sent)
      BY <1>0, <2>3, DownloadAssumption DEF Texts
    <3> QED
      BY <2>1, <2>3, <3>1, PartOfText
  <2>5. faults' \in 0..MaxFaults
    BY <1>0, <2>1, DownloadAssumption DEF Fault
  <2> QED
    BY <1>0, <1>3, <2>1, <2>4, <2>5 DEF Open, board, Texts
<1>4. CASE Refused \/ Break \/ Mismatch \/ Rename
  BY <1>0, <1>4 DEF Refused, Break, Mismatch, Rename, End, disk, board, Texts
<1>5. CASE Kill
  BY <1>0, <1>5, DownloadAssumption DEF Kill, Fault, End, disk, board, Texts
<1>6. CASE Copy
  <2>1. Head(coming) \in 0..Pieces /\ Tail(coming) \in Texts
    BY <1>0, <1>6, HeadTailProperties DEF Copy, None, Texts
  <2>2. Append(part, Head(coming)) \in Texts /\ Append(hashed, Head(coming)) \in Texts
    BY <1>0, <2>1 DEF Texts
  <2> QED
    BY <1>0, <1>6, <2>1, <2>2 DEF Copy, board, Texts
<1>7. CASE Sync
  BY <1>0, <1>7 DEF Sync, board, Texts
<1>8. CASE PowerFails
  <2>1. {part', file'} \subseteq Texts
    BY <1>0, <1>8, LosesIs DEF PowerFails
  <2> QED
    BY <1>0, <1>8, <2>1, DownloadAssumption DEF PowerFails, Fault, End, board, Texts
<1>9. CASE Damage
  <2>1. 0 \in 0..Pieces /\ Append(part, 0) \in Texts
    BY <1>0, DownloadAssumption DEF Texts
  <2>2. [i \in 1..Pieces + 1 |-> 0] \in Texts
    <3>1. [i \in 1..Pieces + 1 |-> 0] \in [1..Pieces + 1 -> 0..Pieces] /\ Pieces + 1 \in Nat
      BY <2>1, DownloadAssumption
    <3> QED
      BY <3>1, SeqDef DEF Texts
  <2>3. part' \in Texts
    BY <1>0, <1>9, <2>1, <2>2, DamagedIs DEF Damage, Bad
  <2> QED
    BY <1>0, <1>9, <2>3, DownloadAssumption DEF Damage, Fault, command, board, Texts
<1> QED
  BY <1>1, <1>2, <1>3, <1>4, <1>5, <1>6, <1>7, <1>8, <1>9 DEF Download


\* The requests a request of the board's turns into.
LEMMA GoneOn ==
  ASSUME TransferTypeOK, NEW q \in requests, NEW place \in {"body", "landing"},
         NEW body \in Content \cup {None}, CarryOn(q, place, body)
  PROVE  requests' \subseteq Request /\ reply' = reply
<1>1. [q EXCEPT !.at = place, !.got = body] \in Request
  BY DEF TransferTypeOK, Request
<1> QED
  BY <1>1 DEF TransferTypeOK, CarryOn

\* A step of the board at request q.
LEMMA ServeTypes ==
  ASSUME TransferTypeOK, Serve
  PROVE  /\ UNCHANGED <<downloadVars, sender, head>>
         /\ stored' \in Content \cup {None}
         /\ landed' \subseteq Content
         /\ requests' \subseteq Request
         /\ reply' \in {"none", "stored", "stale-nonce", "refused"}
<1>1. PICK q \in requests : Check(q) \/ ReceiveBody(q) \/ LandBody(q) \/ Lose(q)
  BY DEF Serve
<1>2. q \in Request /\ requests \subseteq Request /\ source \in Content
  BY DEF TransferTypeOK
<1>3. ASSUME NEW a \in {"none", "stored", "stale-nonce", "refused"}, Answer(q, a)
      PROVE  /\ requests' \subseteq Request
             /\ reply' \in {"none", "stored", "stale-nonce", "refused"}
  BY <1>2, <1>3 DEF Answer, TransferTypeOK
<1>4. CASE Check(q)
  <2>1. ASSUME CarryOn(q, "body", None) PROVE requests' \subseteq Request /\ reply' = reply
    BY <2>1, GoneOn
  <2> QED
    BY <1>3, <1>4, <2>1 DEF Check, TransferTypeOK
<1>5. CASE ReceiveBody(q)
  <2>1. ASSUME CarryOn(q, "landing", source) PROVE requests' \subseteq Request /\ reply' = reply
    BY <1>2, <2>1, GoneOn
  <2> QED
    BY <1>3, <1>5, <2>1 DEF ReceiveBody, TransferTypeOK
<1>6. CASE LandBody(q)
  <2>1. q.sum \in Content /\ q.got \in Content \cup {None}
    BY <1>2 DEF Request
  <2> QED
    BY <1>3, <1>6, <2>1 DEF LandBody, TransferTypeOK
<1>7. CASE Lose(q)
  BY <1>3, <1>7 DEF Lose, TransferTypeOK
<1> QED
  BY <1>1, <1>4, <1>5, <1>6, <1>7

\* Every step of a transfer keeps the types.
LEMMA TypeInvNext ==
  ASSUME TypeInv, [TransferNext]_transferVars
  PROVE  TypeInv'
<1> USE DEF TypeInv
<1>a. /\ NonceTries \in Nat \ {0} /\ Retries \in Nat /\ MaxPuts \in Nat /\ MaxEdits \in Nat /\ MaxHead \in Nat
      /\ nonce \in 0..head /\ head \in 0..MaxHead /\ stale \in 0..NonceTries /\ dropped \in 0..Retries
      /\ puts \in 0..MaxPuts /\ edits \in 0..MaxEdits
  BY UploadAssumption DEF TransferTypeOK
<1>b. TheBlob \in Content
  BY DEF Content
<1>1. CASE Digest
  <2>1. DownloadTypeOK' /\ puts' \in 0..MaxPuts /\ stale' \in 0..NonceTries /\ dropped' \in 0..Retries
    BY <1>1, <1>a DEF Digest, downloadVars, disk, command, TransferTypeOK, DownloadTypeOK
  <2> QED
    BY <1>1, <1>a, <2>1 DEF Digest, TransferTypeOK, TriesLeft
<1>2. ASSUME Put PROVE TypeInv'
  <2>0. UNCHANGED <<downloadVars, stored, head, landed, source, signed, puts, edits>> /\ DownloadTypeOK'
    BY <1>2 DEF Put, ReadNonce, Send, ReceiveReply, Resend, server, downloadVars, disk, command,
       TransferTypeOK, DownloadTypeOK
  <2>1. CASE ReadNonce
    BY <1>a, <2>0, <2>1 DEF ReadNonce, server, TransferTypeOK, Ended, TriesLeft
  <2>2. CASE Send
    <3> DEFINE q == [run |-> puts, try |-> stale + dropped, nonce |-> nonce,
                     sum |-> signed, at |-> "head", got |-> None]
    <3>1. puts \in Nat /\ stale + dropped \in Nat /\ nonce \in Nat
      BY <1>a
    <3>2. signed \in Content
      BY <2>2 DEF Send, TriesLeft
    <3>3. requests' \subseteq Request
      BY <2>2, <3>1, <3>2 DEF Send, Request, TransferTypeOK
    <3> QED
      BY <2>0, <2>2, <3>3 DEF Send, TransferTypeOK, TriesLeft
  <2>3. CASE ReceiveReply
    BY <1>a, <2>0, <2>3 DEF ReceiveReply, TransferTypeOK, Ended, TriesLeft
  <2>4. CASE Resend
    BY <1>a, <2>0, <2>4 DEF Resend, TransferTypeOK, Ended, TriesLeft
  <2> QED
    BY <1>2, <2>1, <2>2, <2>3, <2>4 DEF Put
<1>3. CASE Serve
  <2>1. DownloadTypeOK'
    BY <1>3, ServeTypes, ContentIs DEF downloadVars, disk, command, TransferTypeOK, DownloadTypeOK, Texts
  <2> QED
    BY <1>3, <2>1, ServeTypes DEF sender, TransferTypeOK, TriesLeft
<1>4. CASE Edit
  <2>1. DownloadTypeOK' /\ edits' \in 0..MaxEdits
    BY <1>4, <1>a DEF Edit, downloadVars, disk, command, server, TransferTypeOK, DownloadTypeOK
  <2> QED
    BY <1>4, <2>1 DEF Edit, server, TransferTypeOK, TriesLeft
<1>5. CASE Write
  <2>1. DownloadTypeOK' /\ head' \in 0..MaxHead /\ nonce' \in 0..head'
    BY <1>5, <1>a DEF Write, downloadVars, disk, command, sender, TransferTypeOK, DownloadTypeOK
  <2> QED
    BY <1>5, <2>1 DEF Write, sender, TransferTypeOK, TriesLeft
<1>6. CASE Evict
  <2>1. DownloadTypeOK' /\ stored' \in Content \cup {None} /\ landed' \subseteq Content
    BY <1>6, <1>b, ContentIs DEF Evict, downloadVars, disk, command, TransferTypeOK, DownloadTypeOK, Texts
  <2> QED
    BY <1>6, <2>1 DEF Evict, sender, TransferTypeOK, TriesLeft
<1>7. CASE Get \/ (Download /\ UNCHANGED <<sender, server>>)
  <2>1. DownloadTypeOK' /\ UNCHANGED <<sender, server>>
    BY <1>7, DownloadTypes DEF Get
  <2> QED
    BY <2>1 DEF sender, server, TransferTypeOK, TriesLeft
<1>8. CASE UNCHANGED transferVars
  <2>1. DownloadTypeOK'
    BY <1>8 DEF transferVars, downloadVars, disk, command, server, TransferTypeOK, DownloadTypeOK
  <2> QED
    BY <1>8, <2>1 DEF transferVars, sender, server, TransferTypeOK, TriesLeft
<1> QED
  BY <1>1, <1>2, <1>3, <1>4, <1>5, <1>6, <1>7, <1>8 DEF TransferNext

\* The variables of a transfer have values of their kinds.
THEOREM TransferTypes ==
  TransferSpec => []TransferTypeOK
<1>1. TransferInit => TypeInv
  BY TypeInvInit
<1>2. TypeInv /\ [TransferNext]_transferVars => TypeInv'
  BY TypeInvNext
<1>3. TypeInv => TransferTypeOK
  BY DEF TypeInv
<1> QED
  BY <1>1, <1>2, <1>3, PTL DEF TransferSpec

(***************************************************************************)
(* What is stored.  That an upload stores what it signed is not inductive: *)
(* several of its requests may be on their way, older uploads' among them. *)
(***************************************************************************)

\* Of the requests, those of the upload that runs have the hash it signed, and
\* what is about to land has the hash it was sent under.
RequestsAgree ==
  \A q \in requests :
    /\ q.run <= puts
    /\ q.run = puts => q.sum = signed
    /\ q.at = "landing" => q.got = q.sum

\* An answer is for who waits, and says "stored" of what has landed.
RepliesAreTrue ==
  /\ stored # None => TheBlob \in landed
  /\ reply # "none" => put = "wait"
  /\ reply = "stored" => signed \in landed

StoreInv == TypeInv /\ StoredUnderItsHash /\ RequestsAgree /\ RepliesAreTrue

\* No request is on its way yet.
LEMMA StoreInvInit == TransferInit => StoreInv
  BY TypeInvInit DEF StoreInv, StoredUnderItsHash, RequestsAgree, RepliesAreTrue, TransferInit, DownloadInit

\* A step of the board leaves the requests true to their uploads.
LEMMA ServeRequests ==
  ASSUME StoreInv, NEW q \in requests, UNCHANGED sender,
         \/ \E a \in {"none", "stored", "stale-nonce", "refused"} : Answer(q, a)
         \/ CarryOn(q, "body", None)
         \/ CarryOn(q, "landing", q.sum)
  PROVE  RequestsAgree'
<1>0. q \in Request
  BY DEF StoreInv, TypeInv, TransferTypeOK
<1>1. ASSUME NEW place \in {"body", "landing"}, NEW body, place = "landing" => body = q.sum
      PROVE  LET r == [q EXCEPT !.at = place, !.got = body] IN
             r.run = q.run /\ r.sum = q.sum /\ (r.at = "landing" => r.got = r.sum)
  BY <1>0, <1>1 DEF Request
<1>2. puts' = puts /\ signed' = signed
  BY DEF sender
<1>3. ASSUME NEW a, Answer(q, a) PROVE RequestsAgree'
  BY <1>2, <1>3 DEF StoreInv, RequestsAgree, Answer
<1>4. ASSUME NEW place \in {"body", "landing"}, NEW body, place = "landing" => body = q.sum, CarryOn(q, place, body)
      PROVE  RequestsAgree'
  <2> DEFINE r == [q EXCEPT !.at = place, !.got = body]
  <2>1. requests' = (requests \ {q}) \cup {r}
    BY <1>4 DEF CarryOn
  <2>2. r.run = q.run /\ r.sum = q.sum /\ (r.at = "landing" => r.got = r.sum)
    BY <1>1, <1>4
  <2> HIDE DEF r
  <2> QED
    BY <1>2, <2>1, <2>2 DEF StoreInv, RequestsAgree
<1>5. ASSUME CarryOn(q, "landing", q.sum) PROVE RequestsAgree'
  BY <1>4, <1>5
<1>6. ASSUME CarryOn(q, "body", None) PROVE RequestsAgree'
  BY <1>4, <1>6
<1> QED
  BY <1>3, <1>5, <1>6

\* Every step of the sender and of the board keeps what is stored under its hash.
LEMMA StoreInvNext ==
  ASSUME StoreInv, [TransferNext]_transferVars
  PROVE  StoreInv'
<1>t. TypeInv'
  BY TypeInvNext DEF StoreInv
<1> SUFFICES StoredUnderItsHash' /\ RequestsAgree' /\ RepliesAreTrue'
  BY <1>t DEF StoreInv
<1> USE DEF StoredUnderItsHash, RepliesAreTrue
<1>a. /\ puts \in Nat /\ requests \subseteq Request
      /\ \A q \in requests : q.run \in Nat
  BY DEF StoreInv, TypeInv, TransferTypeOK, Request
<1>1. CASE Digest
  BY <1>1, <1>a DEF Digest, StoreInv, RequestsAgree
<1>2. CASE ReadNonce
  BY <1>2 DEF ReadNonce, server, StoreInv, RequestsAgree
<1>3. CASE Send
  BY <1>3, <1>a DEF Send, StoreInv, RequestsAgree
<1>4. CASE ReceiveReply
  BY <1>4 DEF ReceiveReply, StoreInv, RequestsAgree
<1>5. CASE Resend
  BY <1>5 DEF Resend, StoreInv, RequestsAgree
<1>6. ASSUME NEW q \in requests, Check(q) \/ ReceiveBody(q) \/ Lose(q) \/ LandBody(q)
      PROVE  StoredUnderItsHash' /\ RequestsAgree' /\ RepliesAreTrue'
  <2>0. UNCHANGED sender /\ UNCHANGED <<put, signed, puts>>
    BY <1>6 DEF Check, ReceiveBody, Lose, LandBody, sender
  <2>1. RequestsAgree'
    BY <1>6, <2>0, ServeRequests DEF Check, ReceiveBody, Lose, LandBody, Verified
  <2>2. Waits(q) => q.sum = signed /\ put = "wait"
    BY DEF Waits, StoreInv, RequestsAgree
  <2>3. CASE Check(q)
    BY <2>0, <2>1, <2>2, <2>3 DEF Check, Answer, CarryOn, Existed, StoreInv
  <2>4. CASE ReceiveBody(q) \/ Lose(q)
    BY <2>0, <2>1, <2>2, <2>4 DEF ReceiveBody, Lose, Answer, CarryOn, StoreInv
  <2>5. CASE LandBody(q)
    <3>1. q.got = q.sum
      BY <2>5 DEF LandBody, StoreInv, RequestsAgree
    <3> QED
      BY <2>0, <2>1, <2>2, <2>5, <3>1 DEF LandBody, Answer, StoreInv
  <2> QED
    BY <1>6, <2>3, <2>4, <2>5
<1>7. CASE Edit
  BY <1>7 DEF Edit, server, StoreInv, RequestsAgree
<1>8. CASE Write
  BY <1>8 DEF Write, sender, StoreInv, RequestsAgree
<1>9. CASE Evict
  BY <1>9 DEF Evict, sender, StoreInv, RequestsAgree
<1>10. CASE UNCHANGED <<sender, server>>
  BY <1>10 DEF sender, server, StoreInv, RequestsAgree
<1> QED
  BY <1>1, <1>2, <1>3, <1>4, <1>5, <1>6, <1>7, <1>8, <1>9, <1>10 DEF TransferNext, Put, Serve, Get, transferVars

\* What the board has under a hash has that hash, and what `put` printed a
\* reference to was stored, however the file is edited and tries overlap.
THEOREM StoredUnderItsHashAlways ==
  TransferSpec => []StoredUnderItsHash
<1>1. TransferInit => StoreInv
  BY StoreInvInit
<1>2. StoreInv /\ [TransferNext]_transferVars => StoreInv'
  BY StoreInvNext
<1>3. StoreInv => StoredUnderItsHash
  BY DEF StoreInv
<1> QED
  BY <1>1, <1>2, <1>3, PTL DEF TransferSpec
=============================================================================
