-------------------------- MODULE ConnectionProofs --------------------------
(***************************************************************************)
(* The theorems of Connection.tla, for any clients and requests, however   *)
(* long and however many, and for any limits: that the server reads as     *)
(* requests what was sent as requests, that connections and slots pair     *)
(* off, and that an upload's early answer is not destroyed.                *)
(***************************************************************************)
EXTENDS Connection, FiniteSetTheorems, SequenceTheorems, TLAPS

(***************************************************************************)
(* The inductive invariant.                                                *)
(***************************************************************************)

\* The pieces of a request's body.
BodyOf(r) == IF r.fault = "cut" THEN 0 ELSE r.length

\* Where the wire is read for the next piece of a request.
Reading == {"none", "waiting", "idle", "body", "handle", "stream", "poll"}

\* What is on a wire w is the rest of what the client sends of the requests s, all
\* but its last t pieces: l pieces of the body of request n, and then the
\* requests after it, each its head and its body.  S says at which place of the
\* wire, or of what is still to be sent on it, each of those starts.
Rest(n, s, w, l, t, S) ==
  /\ S \in [(n + 1)..(Len(s) + 1) -> Int]
  /\ S[n + 1] = l + 1
  /\ S[Len(s) + 1] = Len(w) + t + 1
  /\ \A j \in (n + 1)..Len(s) : S[j + 1] = S[j] + 1 + BodyOf(s[j])
  /\ \A i, j \in (n + 1)..(Len(s) + 1) : i < j => S[i] < S[j]
  /\ \A i \in 1..Len(w) : i <= l => w[i] = [of |-> n, is |-> "body"]
  /\ \A j \in (n + 1)..Len(s) : \A i \in 1..Len(w) :
       /\ i = S[j] => w[i] = [of |-> j, is |-> "head"]
       /\ S[j] < i /\ i < S[j + 1] => w[i] = [of |-> j, is |-> "body"]

WireFollows(k) ==
  at[k] \in Reading => \E S : Rest(Len(taken[k]), sent[k], wire[k], left[k], toSend[k], S)

\* A client sends one body at a time.
BodiesAreSent(k) ==
  /\ sent[k] = <<>> => toSend[k] = 0
  /\ sent[k] # <<>> => toSend[k] <= BodyOf(sent[k][Len(sent[k])])

\* How far each is.
CountsFollow(k) ==
  /\ client[k] = "away" <=> at[k] = "none"
  /\ Len(taken[k]) <= Len(sent[k])
  /\ read[k] <= Len(answers[k])
  /\ at[k] \in {"none", "waiting"} => taken[k] = <<>> /\ answers[k] = <<>>
  /\ at[k] = "idle" => Len(taken[k]) = Len(answers[k])
  /\ at[k] \in {"head", "body", "handle", "stream", "poll"} => Len(taken[k]) = Len(answers[k]) + 1

\* A request that is answered has had its body read, unless it is an upload.
LeftFollows(k) ==
  /\ at[k] \in {"none", "waiting", "idle", "poll"} => left[k] = 0
  /\ at[k] = "handle" /\ Current(k).kind # "put" => left[k] = 0
  /\ at[k] = "stream" => Current(k).kind = "put"

\* After an answer that left a body unread, the server lingers; and if its client
\* has not left by then, that was cut short.
EarlyAnswersLinger(k) ==
  /\ reset[k] => at[k] = "over"
  /\ (\E i \in 1..Len(answers[k]) : answers[k][i].closing) =>
       \/ at[k] = "linger"
       \/ at[k] = "over" /\ (cut[k] \/ (client[k] = "left" /\ ~reset[k]))

TakenInOrder(k) == taken[k] = [i \in 1..Len(taken[k]) |-> [of |-> i, is |-> "head"]]
AnsweredInOrder(k) ==
  \A i \in 1..Len(answers[k]) :
    answers[k][i].to = i \/ (answers[k][i].status = "full" /\ taken[k] = <<>>)

\* What holds of each connection.
ConnectionInv(k) ==
  /\ WireFollows(k) /\ BodiesAreSent(k) /\ CountsFollow(k) /\ LeftFollows(k)
  /\ EarlyAnswersLinger(k)
  /\ TakenInOrder(k) /\ AnsweredInOrder(k)

Held == {k \in Client : at[k] \in Serving}

Inv ==
  /\ TypeOK
  /\ IsFiniteSet(Held) /\ SlotsAreHeld
  /\ \A k \in Client : ConnectionInv(k)

-----------------------------------------------------------------------------
(***************************************************************************)
(* The rest of a wire, as pieces are put on it and taken from it.          *)
(***************************************************************************)

LEMMA BodyOfType == \A r \in RequestType : BodyOf(r) \in Nat
  BY DEF BodyOf, RequestType

\* When the body of the last request taken is read, the next piece is the head of the
\* request after it.
LEMMA TakeAHead ==
  ASSUME NEW s \in Seq(RequestType), NEW n \in 0..Len(s), NEW w \in Seq(Piece), w # <<>>,
         NEW t \in Nat, NEW S, Rest(n, s, w, 0, t, S)
  PROVE  /\ n + 1 \in 1..Len(s)
         /\ Head(w) = [of |-> n + 1, is |-> "head"]
         /\ \E R : Rest(n + 1, s, Tail(w), BodyOf(s[n + 1]), t, R)
<1> DEFINE m == Len(s)
           R == [j \in (n + 2)..(m + 1) |-> S[j] - 1]
<1>11. S \in [(n + 1)..(m + 1) -> Int]
  BY DEF Rest
<1>12. \A j \in (n + 1)..m : S[j + 1] = S[j] + 1 + BodyOf(s[j])
  BY DEF Rest
<1>13. \A i, j \in (n + 1)..(m + 1) : i < j => S[i] < S[j]
  BY DEF Rest
<1>14. \A j \in (n + 1)..m : \A i \in 1..Len(w) :
        /\ i = S[j] => w[i] = [of |-> j, is |-> "head"]
        /\ S[j] < i /\ i < S[j + 1] => w[i] = [of |-> j, is |-> "body"]
  BY DEF Rest
<1>1. Len(w) \in Nat \ {0} /\ m \in Nat /\ Head(w) = w[1]
  BY DEF Rest
<1>2. n < m
  BY <1>1 DEF Rest
<1>3. S[n + 1] = 1 /\ n + 1 \in (n + 1)..m /\ 1 \in 1..Len(w)
  BY <1>1, <1>2 DEF Rest
<1>4. Head(w) = [of |-> n + 1, is |-> "head"]
  BY <1>1, <1>3 DEF Rest
<1>5. BodyOf(s[n + 1]) \in Nat /\ S[n + 2] = 2 + BodyOf(s[n + 1])
  <2>1. s[n + 1] \in RequestType
    BY <1>1, <1>2
  <2>2. BodyOf(s[n + 1]) \in Nat
    BY <2>1, BodyOfType
  <2>3. S[(n + 1) + 1] = S[n + 1] + 1 + BodyOf(s[n + 1])
    BY <1>3 DEF Rest
  <2> QED
    BY <1>3, <2>2, <2>3
<1>6. Len(Tail(w)) = Len(w) - 1 /\ \A i \in 1..Len(Tail(w)) : Tail(w)[i] = w[i + 1] /\ i + 1 \in 1..Len(w)
  BY <1>1
<1>15. \A j \in (n + 1 + 1)..m :
        /\ j \in (n + 1)..m /\ j \in (n + 1)..(m + 1) /\ j + 1 \in (n + 1)..(m + 1)
        /\ j \in (n + 2)..(m + 1) /\ j + 1 \in (n + 2)..(m + 1)
  BY <1>1, <1>2
<1>16. \A j \in (n + 1 + 1)..m :
        S[j] \in Int /\ S[j + 1] \in Int /\ R[j] = S[j] - 1 /\ R[j + 1] = S[j + 1] - 1
  BY <1>11, <1>15
<1>7. Rest(n + 1, s, Tail(w), BodyOf(s[n + 1]), t, R)
  <2>1. R \in [(n + 1 + 1)..(m + 1) -> Int] /\ R[n + 1 + 1] = BodyOf(s[n + 1]) + 1
    BY <1>1, <1>2, <1>5 DEF Rest
  <2>2. R[m + 1] = Len(Tail(w)) + t + 1
    BY <1>1, <1>2, <1>6 DEF Rest
  <2>3. \A j \in (n + 1 + 1)..m : R[j + 1] = R[j] + 1 + BodyOf(s[j])
    <3> SUFFICES ASSUME NEW j \in (n + 1 + 1)..m
                 PROVE  R[j + 1] = R[j] + 1 + BodyOf(s[j])
      OBVIOUS
    <3>1. s[j] \in RequestType
      BY <1>1
    <3>2. BodyOf(s[j]) \in Nat
      BY <3>1, BodyOfType
    <3>3. S[j + 1] = S[j] + 1 + BodyOf(s[j]) /\ S[j] \in Int /\ S[j + 1] \in Int
      BY <1>12, <1>15, <1>16
    <3>4. R[j] = S[j] - 1 /\ R[j + 1] = S[j + 1] - 1
      BY <1>16
    <3> HIDE DEF R
    <3> QED
      BY <3>2, <3>3, <3>4
  <2>4. \A i, j \in (n + 1 + 1)..(m + 1) : i < j => R[i] < R[j]
    BY SMTT(30), <1>1, <1>11, <1>13
  <2>5. \A i \in 1..Len(Tail(w)) : i <= BodyOf(s[n + 1]) => Tail(w)[i] = [of |-> n + 1, is |-> "body"]
    BY <1>1, <1>3, <1>5, <1>6 DEF Rest
  <2>6. \A j \in (n + 1 + 1)..m : \A i \in 1..Len(Tail(w)) :
          /\ i = R[j] => Tail(w)[i] = [of |-> j, is |-> "head"]
          /\ R[j] < i /\ i < R[j + 1] => Tail(w)[i] = [of |-> j, is |-> "body"]
    <3> SUFFICES ASSUME NEW j \in (n + 1 + 1)..m, NEW i \in 1..Len(Tail(w))
                 PROVE  /\ i = R[j] => Tail(w)[i] = [of |-> j, is |-> "head"]
                        /\ R[j] < i /\ i < R[j + 1] => Tail(w)[i] = [of |-> j, is |-> "body"]
      OBVIOUS
    <3>1. j \in (n + 1)..m /\ i + 1 \in 1..Len(w) /\ Tail(w)[i] = w[i + 1]
      BY <1>1, <1>6
    <3>2. R[j] = S[j] - 1 /\ R[j + 1] = S[j + 1] - 1 /\ S[j] \in Int /\ S[j + 1] \in Int
      BY <1>16
    <3>3. /\ i + 1 = S[j] => w[i + 1] = [of |-> j, is |-> "head"]
          /\ S[j] < i + 1 /\ i + 1 < S[j + 1] => w[i + 1] = [of |-> j, is |-> "body"]
      BY <1>14, <3>1
    <3> HIDE DEF R
    <3> QED
      BY SMTT(30), <3>1, <3>2, <3>3
  <2> QED
    BY <2>1, <2>2, <2>3, <2>4, <2>5, <2>6 DEF Rest
<1> QED
  BY <1>1, <1>2, <1>4, <1>7

\* While it is not, the next piece is one of that body.
LEMMA TakeABody ==
  ASSUME NEW s \in Seq(RequestType), NEW n \in 0..Len(s), NEW w \in Seq(Piece), w # <<>>,
         NEW l \in Nat \ {0}, NEW t \in Nat, NEW S, Rest(n, s, w, l, t, S)
  PROVE  \E R : Rest(n, s, Tail(w), l - 1, t, R)
<1> DEFINE m == Len(s)
           R == [j \in (n + 1)..(m + 1) |-> S[j] - 1]
<1>11. S \in [(n + 1)..(m + 1) -> Int]
  BY DEF Rest
<1>12. \A j \in (n + 1)..m : S[j + 1] = S[j] + 1 + BodyOf(s[j])
  BY DEF Rest
<1>13. \A i, j \in (n + 1)..(m + 1) : i < j => S[i] < S[j]
  BY DEF Rest
<1>14. \A j \in (n + 1)..m : \A i \in 1..Len(w) :
        /\ i = S[j] => w[i] = [of |-> j, is |-> "head"]
        /\ S[j] < i /\ i < S[j + 1] => w[i] = [of |-> j, is |-> "body"]
  BY DEF Rest
<1>1. Len(w) \in Nat \ {0} /\ m \in Nat
  OBVIOUS
<1>2. Len(Tail(w)) = Len(w) - 1 /\ \A i \in 1..Len(Tail(w)) : Tail(w)[i] = w[i + 1] /\ i + 1 \in 1..Len(w)
  BY <1>1
<1>15. \A j \in (n + 1)..m : j \in (n + 1)..(m + 1) /\ j + 1 \in (n + 1)..(m + 1)
  BY <1>1
<1>16. \A j \in (n + 1)..m :
        S[j] \in Int /\ S[j + 1] \in Int /\ R[j] = S[j] - 1 /\ R[j + 1] = S[j + 1] - 1
  BY <1>11, <1>15
<1>3. R \in [(n + 1)..(m + 1) -> Int] /\ R[n + 1] = l - 1 + 1 /\ R[m + 1] = Len(Tail(w)) + t + 1
  BY <1>1, <1>2 DEF Rest
<1>4. \A j \in (n + 1)..m : R[j + 1] = R[j] + 1 + BodyOf(s[j])
  <2> SUFFICES ASSUME NEW j \in (n + 1)..m
               PROVE  R[j + 1] = R[j] + 1 + BodyOf(s[j])
    OBVIOUS
  <2>1. s[j] \in RequestType
    BY <1>1
  <2>2. BodyOf(s[j]) \in Nat
    BY <2>1, BodyOfType
  <2>3. S[j + 1] = S[j] + 1 + BodyOf(s[j]) /\ S[j] \in Int /\ S[j + 1] \in Int
    BY <1>12, <1>16
  <2>4. R[j] = S[j] - 1 /\ R[j + 1] = S[j + 1] - 1
    BY <1>16
  <2> HIDE DEF R
  <2> QED
    BY <2>2, <2>3, <2>4
<1>5. \A i, j \in (n + 1)..(m + 1) : i < j => R[i] < R[j]
  BY SMTT(30), <1>1, <1>11, <1>13
<1>6. \A i \in 1..Len(Tail(w)) : i <= l - 1 => Tail(w)[i] = [of |-> n, is |-> "body"]
  BY <1>1, <1>2 DEF Rest
<1>7. \A j \in (n + 1)..m : \A i \in 1..Len(Tail(w)) :
        /\ i = R[j] => Tail(w)[i] = [of |-> j, is |-> "head"]
        /\ R[j] < i /\ i < R[j + 1] => Tail(w)[i] = [of |-> j, is |-> "body"]
  <2> SUFFICES ASSUME NEW j \in (n + 1)..m, NEW i \in 1..Len(Tail(w))
               PROVE  /\ i = R[j] => Tail(w)[i] = [of |-> j, is |-> "head"]
                      /\ R[j] < i /\ i < R[j + 1] => Tail(w)[i] = [of |-> j, is |-> "body"]
    OBVIOUS
  <2>1. i + 1 \in 1..Len(w) /\ Tail(w)[i] = w[i + 1]
    BY <1>2
  <2>2. R[j] = S[j] - 1 /\ R[j + 1] = S[j + 1] - 1 /\ S[j] \in Int /\ S[j + 1] \in Int
    BY <1>16
  <2>3. /\ i + 1 = S[j] => w[i + 1] = [of |-> j, is |-> "head"]
        /\ S[j] < i + 1 /\ i + 1 < S[j + 1] => w[i + 1] = [of |-> j, is |-> "body"]
    BY <1>14, <2>1
  <2> HIDE DEF R
  <2> QED
    BY SMTT(30), <2>1, <2>2, <2>3
<1>8. Rest(n, s, Tail(w), l - 1, t, R)
  BY <1>3, <1>4, <1>5, <1>6, <1>7 DEF Rest
<1> QED
  BY <1>8

\* A client sends the next head once it has sent the body before,
LEMMA PutAHead ==
  ASSUME NEW s \in Seq(RequestType), NEW n \in 0..Len(s), NEW w \in Seq(Piece), NEW l \in Nat,
         NEW S, Rest(n, s, w, l, 0, S), NEW r \in RequestType
  PROVE  \E R : Rest(n, Append(s, r), Append(w, [of |-> Len(s) + 1, is |-> "head"]), l, BodyOf(r), R)
<1> DEFINE m == Len(s)
           p == [of |-> m + 1, is |-> "head"]
           s2 == Append(s, r)
           w2 == Append(w, p)
           R == [j \in (n + 1)..(m + 2) |-> IF j = m + 2 THEN Len(w) + 2 + BodyOf(r) ELSE S[j]]
<1>1. S \in [(n + 1)..(m + 1) -> Int] /\ S[n + 1] = l + 1 /\ S[m + 1] = Len(w) + 1
  BY DEF Rest
<1>2. \A j \in (n + 1)..m : S[j + 1] = S[j] + 1 + BodyOf(s[j])
  BY DEF Rest
<1>3. \A i, j \in (n + 1)..(m + 1) : i < j => S[i] < S[j]
  BY DEF Rest
<1>4. \A j \in (n + 1)..m : \A i \in 1..Len(w) :
        /\ i = S[j] => w[i] = [of |-> j, is |-> "head"]
        /\ S[j] < i /\ i < S[j + 1] => w[i] = [of |-> j, is |-> "body"]
  BY DEF Rest
<1>5. \A i \in 1..Len(w) : i <= l => w[i] = [of |-> n, is |-> "body"]
  BY DEF Rest
<1>6. /\ Len(w) \in Nat /\ m \in Nat /\ BodyOf(r) \in Nat
      /\ Len(s2) = m + 1 /\ Len(w2) = Len(w) + 1
      /\ s2[m + 1] = r /\ w2[Len(w) + 1] = p
      /\ \A j \in 1..m : s2[j] = s[j]
      /\ \A i \in 1..Len(w) : w2[i] = w[i]
  BY BodyOfType
<1> HIDE DEF p, s2, w2
<1>13. \A j \in (n + 1)..(m + 1) : S[j] \in Int /\ R[j] = S[j]
  <2>1. \A j \in (n + 1)..(m + 1) : j \in (n + 1)..(m + 2) /\ j # m + 2
    BY <1>6
  <2> QED
    BY <1>1, <2>1
<1>14. R[m + 2] = Len(w) + 2 + BodyOf(r)
  BY <1>6
<1>15. \A j \in (n + 1)..m : j \in (n + 1)..(m + 1) /\ j + 1 \in (n + 1)..(m + 1)
  BY <1>6
<1>16. m + 1 \in (n + 1)..(m + 1) /\ n + 1 \in (n + 1)..(m + 1)
  BY <1>6
<1>7. R \in [(n + 1)..(m + 2) -> Int] /\ R[n + 1] = l + 1 /\ R[m + 2] = Len(w2) + BodyOf(r) + 1
  <2>1. ASSUME NEW j \in (n + 1)..(m + 2)
        PROVE  (IF j = m + 2 THEN Len(w) + 2 + BodyOf(r) ELSE S[j]) \in Int
    <3>1. j = m + 2 \/ j \in (n + 1)..(m + 1)
      BY <1>6
    <3> HIDE DEF R
    <3> QED
      BY <1>1, <1>6, <3>1
  <2>2. R \in [(n + 1)..(m + 2) -> Int]
    BY <2>1
  <2>3. R[n + 1] = l + 1
    BY <1>1, <1>13, <1>16
  <2>4. R[m + 2] = Len(w2) + BodyOf(r) + 1
    <3> HIDE DEF R
    <3> QED
      BY <1>6, <1>14
  <2> QED
    BY <2>2, <2>3, <2>4
<1>8. ASSUME NEW j \in (n + 1)..(m + 1)
      PROVE  R[j + 1] = R[j] + 1 + BodyOf(s2[j])
  <2> HIDE DEF R
  <2>1. CASE j = m + 1
    <3>1. R[m + 1] = Len(w) + 1 /\ m + 1 + 1 = m + 2
      BY <1>1, <1>6, <1>13, <1>16
    <3> QED
      BY <1>6, <1>14, <2>1, <3>1
  <2>2. CASE j \in (n + 1)..m
    <3>1. j + 1 \in (n + 1)..(m + 1) /\ j \in 1..m
      BY <1>6, <2>2
    <3>2. R[j] = S[j] /\ R[j + 1] = S[j + 1] /\ s2[j] = s[j]
      BY <1>6, <1>13, <3>1
    <3> QED
      BY <1>2, <2>2, <3>2
  <2> QED
    BY <1>6, <2>1, <2>2
<1>9. \A i, j \in (n + 1)..(m + 2) : i < j => R[i] < R[j]
  <2> SUFFICES ASSUME NEW i \in (n + 1)..(m + 2), NEW j \in (n + 1)..(m + 2), i < j
               PROVE  R[i] < R[j]
    OBVIOUS
  <2>1. i \in (n + 1)..(m + 1) /\ R[i] = S[i] /\ S[i] \in Int
    <3>1. i \in (n + 1)..(m + 1)
      BY <1>6
    <3> QED
      BY <1>13, <3>1
  <2>2. S[i] <= Len(w) + 1
    BY <1>1, <1>3, <1>6, <2>1
  <2>3. CASE j = m + 2
    BY <1>6, <1>14, <2>1, <2>2, <2>3
  <2>4. CASE j # m + 2
    <3>1. j \in (n + 1)..(m + 1)
      BY <1>6, <2>4
    <3> QED
      BY <1>3, <1>13, <2>1, <3>1
  <2> QED
    BY <2>3, <2>4
<1>10. \A i \in 1..Len(w2) : i <= l => w2[i] = [of |-> n, is |-> "body"]
  <2>1. l <= Len(w)
    <3> HIDE DEF R
    <3>1. CASE n = m
      BY <1>1, <1>6, <3>1
    <3>2. CASE n # m
      <4>1. n + 1 < m + 1
        BY <1>6, <3>2
      <4>2. S[n + 1] < S[m + 1]
        BY <1>3, <1>16, <4>1
      <4> QED
        BY <1>1, <1>6, <4>2
    <3> QED
      BY <3>1, <3>2
  <2> QED
    BY <1>5, <1>6, <2>1
<1>11. ASSUME NEW j \in (n + 1)..(m + 1), NEW i \in 1..Len(w2)
       PROVE  /\ i = R[j] => w2[i] = [of |-> j, is |-> "head"]
              /\ R[j] < i /\ i < R[j + 1] => w2[i] = [of |-> j, is |-> "body"]
  <2>1. R[j] = S[j] /\ S[j] \in Int
    BY <1>13
  <2>2. CASE j = m + 1
    BY <1>1, <1>6, <1>14, <2>1, <2>2 DEF p
  <2>3. CASE j \in (n + 1)..m
    <3>1. R[j + 1] = S[j + 1] /\ S[j + 1] \in Int /\ S[j + 1] <= Len(w) + 1 /\ S[j] <= Len(w)
      <4> HIDE DEF R
      <4>3. j \in (n + 1)..(m + 1) /\ j + 1 \in (n + 1)..(m + 1) /\ j < m + 1
        BY <1>6, <2>3
      <4>1. R[j + 1] = S[j + 1] /\ S[j + 1] \in Int /\ S[j] < S[m + 1]
        BY <1>3, <1>13, <1>16, <4>3
      <4>4. j + 1 < m + 1 \/ j + 1 = m + 1
        BY <1>6, <4>3
      <4>2. S[j + 1] < S[m + 1] \/ j + 1 = m + 1
        BY <1>3, <1>16, <4>3, <4>4
      <4> QED
        BY SMTT(30), <1>1, <1>6, <2>1, <4>1, <4>2
    <3>2. CASE i \in 1..Len(w)
      <4> HIDE DEF R
      <4>1. /\ i = S[j] => w[i] = [of |-> j, is |-> "head"]
            /\ S[j] < i /\ i < S[j + 1] => w[i] = [of |-> j, is |-> "body"]
        BY <1>4, <2>3, <3>2
      <4>2. w2[i] = w[i]
        BY <1>6, <3>2
      <4> QED
        BY <2>1, <3>1, <4>1, <4>2
    <3>3. CASE i = Len(w) + 1
      BY <1>6, <2>1, <3>1, <3>3
    <3> QED
      BY <1>6, <3>2, <3>3
  <2> QED
    BY <1>6, <2>2, <2>3
<1>12. Rest(n, s2, w2, l, BodyOf(r), R)
  <2>1. Len(s2) = m + 1 /\ m + 1 + 1 = m + 2
    BY <1>6
  <2> HIDE DEF R
  <2> QED
    BY <1>7, <1>8, <1>9, <1>10, <1>11, <2>1 DEF Rest
<1> QED
  BY <1>12 DEF s2, w2, p

\* and otherwise the next piece of that body.
LEMMA PutABody ==
  ASSUME NEW s \in Seq(RequestType), NEW n \in 0..Len(s), NEW w \in Seq(Piece), NEW l \in Nat,
         NEW t \in Nat \ {0}, NEW S, Rest(n, s, w, l, t, S), s # <<>>, t <= BodyOf(s[Len(s)])
  PROVE  Rest(n, s, Append(w, [of |-> Len(s), is |-> "body"]), l, t - 1, S)
<1> DEFINE m == Len(s)
           p == [of |-> m, is |-> "body"]
           w2 == Append(w, p)
<1>1. S \in [(n + 1)..(m + 1) -> Int] /\ S[n + 1] = l + 1 /\ S[m + 1] = Len(w) + t + 1
  BY DEF Rest
<1>2. \A j \in (n + 1)..m : S[j + 1] = S[j] + 1 + BodyOf(s[j])
  BY DEF Rest
<1>3. \A i, j \in (n + 1)..(m + 1) : i < j => S[i] < S[j]
  BY DEF Rest
<1>4. \A j \in (n + 1)..m : \A i \in 1..Len(w) :
        /\ i = S[j] => w[i] = [of |-> j, is |-> "head"]
        /\ S[j] < i /\ i < S[j + 1] => w[i] = [of |-> j, is |-> "body"]
  BY DEF Rest
<1>5. \A i \in 1..Len(w) : i <= l => w[i] = [of |-> n, is |-> "body"]
  BY DEF Rest
<1>6. /\ Len(w) \in Nat /\ m \in Nat \ {0}
      /\ Len(w2) = Len(w) + 1
      /\ w2[Len(w) + 1] = p
      /\ \A i \in 1..Len(w) : w2[i] = w[i]
  OBVIOUS
<1> HIDE DEF p, w2
<1>7. S[m + 1] = Len(w2) + (t - 1) + 1
  BY <1>1, <1>6
<1>8. CASE n = m
  <2>1. \A i \in 1..Len(w2) : i <= l => w2[i] = [of |-> n, is |-> "body"]
    BY <1>5, <1>6, <1>8 DEF p
  <2>2. (n + 1)..m = {}
    BY <1>6, <1>8
  <2> QED
    BY <1>1, <1>2, <1>3, <1>7, <2>1, <2>2 DEF Rest, w2, p
<1>9. CASE n < m
  <2>1. BodyOf(s[m]) \in Nat
    BY <1>6, BodyOfType
  <2>2. S[m] \in Int /\ S[m] <= Len(w)
    BY SMTT(30), <1>1, <1>2, <1>6, <1>9, <2>1
  <2>3. l <= Len(w)
    <3>1. n + 1 = m \/ S[n + 1] < S[m]
      BY <1>3, <1>6, <1>9
    <3> QED
      BY <1>1, <1>6, <2>2, <3>1
  <2>4. \A i \in 1..Len(w2) : i <= l => w2[i] = [of |-> n, is |-> "body"]
    BY <1>5, <1>6, <2>3
  <2>5. ASSUME NEW j \in (n + 1)..m, NEW i \in 1..Len(w2)
        PROVE  /\ i = S[j] => w2[i] = [of |-> j, is |-> "head"]
               /\ S[j] < i /\ i < S[j + 1] => w2[i] = [of |-> j, is |-> "body"]
    <3>1. S[j] \in Int /\ S[j + 1] \in Int /\ S[j] <= Len(w) /\ (j # m => S[j + 1] <= Len(w))
      <4>1. j \in (n + 1)..(m + 1) /\ j + 1 \in (n + 1)..(m + 1) /\ m \in (n + 1)..(m + 1)
        BY <1>6, <1>9
      <4>2. S[j] \in Int /\ S[j + 1] \in Int
        BY <1>1, <4>1
      <4>3. (j = m \/ S[j] < S[m]) /\ (j # m => j + 1 = m \/ S[j + 1] < S[m])
        BY <1>3, <1>6, <4>1
      <4> QED
        BY <1>6, <2>2, <4>2, <4>3
    <3>2. CASE i \in 1..Len(w)
      BY <1>4, <1>6, <3>2
    <3>3. CASE i = Len(w) + 1
      BY <1>6, <3>1, <3>3 DEF p
    <3> QED
      BY <1>6, <3>2, <3>3
  <2> QED
    BY <1>1, <1>2, <1>3, <1>7, <2>4, <2>5 DEF Rest, w2, p
<1> QED
  BY <1>6, <1>8, <1>9

-----------------------------------------------------------------------------
(***************************************************************************)
(* What the steps have in common.                                          *)
(***************************************************************************)

AnyRequest == UNION {Request[k] : k \in Client}

LEMMA RequestsAreTyped == AnyRequest \subseteq RequestType
  BY ConnectionAssumption DEF AnyRequest

LEMMA SentIsTyped ==
  ASSUME TypeOK, NEW k \in Client
  PROVE  sent[k] \in Seq(AnyRequest) /\ sent[k] \in Seq(RequestType) /\ Len(sent[k]) \in Nat
<1>1. sent[k] \in Seq(AnyRequest)
  BY DEF TypeOK, AnyRequest
<1>2. sent[k] \in Seq(RequestType)
  BY <1>1, RequestsAreTyped, SeqMonotonic
<1> QED
  BY <1>1, <1>2

\* A step of k's is none of another connection's.
Elsewhere(k) ==
  \A j \in Client \ {k} :
    /\ client'[j] = client[j] /\ sent'[j] = sent[j] /\ toSend'[j] = toSend[j] /\ read'[j] = read[j]
    /\ wire'[j] = wire[j] /\ answers'[j] = answers[j] /\ reset'[j] = reset[j]
    /\ at'[j] = at[j] /\ taken'[j] = taken[j] /\ left'[j] = left[j] /\ cut'[j] = cut[j]

\* It takes a slot with the connection it begins to serve, and gives it back with the
\* one it ceases to.
SlotStep(k) ==
  \/ slots' = slots /\ (at'[k] \in Serving <=> at[k] \in Serving)
  \/ slots' = slots + 1 /\ slots < MaxConnections /\ at[k] \notin Serving /\ at'[k] \in Serving
  \/ slots' = slots - 1 /\ at[k] \in Serving /\ at'[k] \notin Serving

LEMMA ASlotIsHeld ==
  ASSUME Inv, NEW k \in Client, at[k] \in Serving
  PROVE  slots \in Nat \ {0} /\ slots - 1 \in Nat
<1>1. k \in Held /\ IsFiniteSet(Held) /\ slots = Cardinality(Held) /\ slots \in Nat
  BY DEF Held, Inv, SlotsAreHeld, TypeOK
<1>2. slots # 0
  BY <1>1, FS_EmptySet
<1> QED
  BY <1>1, <1>2

LEMMA SlotsFollow ==
  ASSUME Inv, NEW k \in Client, Elsewhere(k), SlotStep(k)
  PROVE  (IsFiniteSet(Held) /\ SlotsAreHeld)'
<1>1. /\ IsFiniteSet(Held) /\ slots = Cardinality(Held) /\ slots \in Nat
      /\ slots <= MaxConnections /\ MaxConnections \in Nat
  BY ConnectionAssumption DEF Held, Inv, SlotsAreHeld, TypeOK
<1>2. CASE slots' = slots /\ (at'[k] \in Serving <=> at[k] \in Serving)
  <2>1. Held' = Held
    BY <1>2 DEF Held, Elsewhere
  <2> QED
    BY <1>1, <1>2, <2>1 DEF SlotsAreHeld, Held
<1>3. CASE slots' = slots + 1 /\ slots < MaxConnections /\ at[k] \notin Serving /\ at'[k] \in Serving
  <2>1. Held' = Held \cup {k} /\ k \notin Held
    BY <1>3 DEF Held, Elsewhere
  <2>2. IsFiniteSet(Held') /\ Cardinality(Held') = Cardinality(Held) + 1
    BY <1>1, <2>1, FS_AddElement
  <2> QED
    BY <1>1, <1>3, <2>2 DEF SlotsAreHeld, Held
<1>4. CASE slots' = slots - 1 /\ at[k] \in Serving /\ at'[k] \notin Serving
  <2>1. Held' = Held \ {k} /\ k \in Held
    BY <1>4 DEF Held, Elsewhere
  <2>2. IsFiniteSet(Held') /\ Cardinality(Held') = Cardinality(Held) - 1
    BY <1>1, <2>1, FS_RemoveElement
  <2> QED
    BY <1>1, <1>4, <2>2 DEF SlotsAreHeld, Held
<1> QED
  BY <1>2, <1>3, <1>4 DEF SlotStep

LEMMA OthersFollow ==
  ASSUME NEW k, NEW j \in Client \ {k}, Elsewhere(k), ConnectionInv(j)
  PROVE  ConnectionInv(j)'
<1>1. /\ client'[j] = client[j] /\ sent'[j] = sent[j] /\ toSend'[j] = toSend[j] /\ read'[j] = read[j]
      /\ wire'[j] = wire[j] /\ answers'[j] = answers[j] /\ reset'[j] = reset[j]
      /\ at'[j] = at[j] /\ taken'[j] = taken[j] /\ left'[j] = left[j] /\ cut'[j] = cut[j]
  BY DEF Elsewhere
<1>2. WireFollows(j)'
  BY <1>1 DEF ConnectionInv, WireFollows
<1>3. BodiesAreSent(j)' /\ CountsFollow(j)'
  BY <1>1 DEF ConnectionInv, BodiesAreSent, CountsFollow
<1>4. LeftFollows(j)'
  BY <1>1 DEF ConnectionInv, LeftFollows, Current
<1>5. EarlyAnswersLinger(j)' /\ TakenInOrder(j)' /\ AnsweredInOrder(j)'
  BY <1>1 DEF ConnectionInv, EarlyAnswersLinger, TakenInOrder, AnsweredInOrder
<1> QED
  BY <1>2, <1>3, <1>4, <1>5 DEF ConnectionInv

\* So what a step has to show.
LEMMA Whole ==
  ASSUME Inv, NEW k \in Client, Elsewhere(k), SlotStep(k), TypeOK', ConnectionInv(k)'
  PROVE  Inv'
<1>1. (IsFiniteSet(Held) /\ SlotsAreHeld)'
  BY SlotsFollow
<1>2. ASSUME NEW j \in Client PROVE ConnectionInv(j)'
  BY OthersFollow DEF Inv
<1> QED
  BY <1>1, <1>2 DEF Inv

-----------------------------------------------------------------------------
(***************************************************************************)
(* The client's steps.                                                     *)
(***************************************************************************)

LEMMA ConnectInv ==
  ASSUME Inv, NEW k \in Client, Connect(k)
  PROVE  Inv'
<1> USE DEF Connect
<1>1. TypeOK /\ ConnectionInv(k) /\ at[k] = "none"
  BY DEF Inv, ConnectionInv, CountsFollow
<1>2. TypeOK'
  BY <1>1 DEF TypeOK, Place
<1>3. at'[k] = "waiting" /\ client'[k] = "here"
  BY <1>1 DEF TypeOK
<1>4. Elsewhere(k) /\ SlotStep(k)
  BY <1>1, <1>3 DEF TypeOK, Elsewhere, SlotStep, Serving
<1>5. WireFollows(k)'
  BY <1>1, <1>3 DEF ConnectionInv, WireFollows, Reading
<1>6. (CountsFollow(k) /\ LeftFollows(k) /\ EarlyAnswersLinger(k))'
  BY <1>1, <1>3 DEF ConnectionInv, CountsFollow, LeftFollows, EarlyAnswersLinger
<1>7. (BodiesAreSent(k) /\ TakenInOrder(k) /\ AnsweredInOrder(k))'
  BY <1>1 DEF ConnectionInv, BodiesAreSent, TakenInOrder, AnsweredInOrder
<1> QED
  BY <1>2, <1>4, <1>5, <1>6, <1>7, Whole DEF ConnectionInv

\* What Put leaves, when the client is here: a wire, or a reset of what is over.
LEMMA PutInv ==
  ASSUME Inv, NEW k \in Client, client[k] = "here", ~reset[k], NEW piece \in Piece, Put(k, piece),
         UNCHANGED <<client, answers, at, cut>>
  PROVE  /\ wire' \in [Client -> Seq(Piece)] /\ reset' \in [Client -> BOOLEAN]
         /\ \A j \in Client \ {k} : wire'[j] = wire[j] /\ reset'[j] = reset[j]
         /\ at[k] # "over" => wire'[k] = Append(wire[k], piece)
         /\ EarlyAnswersLinger(k)'
<1>1. TypeOK /\ EarlyAnswersLinger(k)
  BY DEF Inv, ConnectionInv
<1>2. CASE at[k] = "over"
  <2>1. wire' = wire /\ reset' = [reset EXCEPT ![k] = TRUE]
    BY <1>2 DEF Put
  <2> QED
    BY <1>1, <1>2, <2>1 DEF TypeOK, EarlyAnswersLinger
<1>3. CASE at[k] # "over"
  <2>1. reset' = reset /\ wire' = [wire EXCEPT ![k] = Append(@, piece)]
    BY <1>3 DEF Put
  <2> QED
    BY <1>1, <1>3, <2>1 DEF TypeOK, EarlyAnswersLinger
<1> QED
  BY <1>2, <1>3

LEMMA SendHeadInv ==
  ASSUME Inv, NEW k \in Client, NEW r \in Request[k], SendHead(k, r)
  PROVE  Inv'
<1> DEFINE p == [of |-> Len(sent[k]) + 1, is |-> "head"]
<1>1. TypeOK /\ ConnectionInv(k) /\ r \in AnyRequest /\ r \in RequestType
  BY ConnectionAssumption DEF Inv, AnyRequest
<1>2. /\ client[k] = "here" /\ ~reset[k] /\ toSend[k] = 0
      /\ sent' = [sent EXCEPT ![k] = Append(@, r)]
      /\ toSend' = [toSend EXCEPT ![k] = BodyOf(r)]
      /\ Put(k, p)
      /\ UNCHANGED <<client, read, answers, slots, at, taken, left, cut>>
  BY DEF SendHead, BodyOf
<1>3. p \in Piece /\ Len(sent[k]) \in Nat /\ sent[k] \in Seq(RequestType) /\ BodyOf(r) \in Nat
  BY <1>1, SentIsTyped, BodyOfType DEF Piece
<1> HIDE DEF p
<1>4. /\ wire' \in [Client -> Seq(Piece)] /\ reset' \in [Client -> BOOLEAN]
      /\ \A j \in Client \ {k} : wire'[j] = wire[j] /\ reset'[j] = reset[j]
      /\ at[k] # "over" => wire'[k] = Append(wire[k], p)
      /\ EarlyAnswersLinger(k)'
  BY <1>2, <1>3, PutInv
<1>5. sent'[k] = Append(sent[k], r) /\ toSend'[k] = BodyOf(r)
  BY <1>1, <1>2 DEF TypeOK
<1>6. TypeOK'
  <2>1. sent' \in [Client -> Seq(AnyRequest)]
    <3>1. Append(sent[k], r) \in Seq(AnyRequest)
      BY <1>1, SentIsTyped, AppendProperties
    <3> QED
      BY <1>1, <1>2, <3>1 DEF TypeOK, AnyRequest
  <2>2. toSend' \in [Client -> Nat]
    BY <1>1, <1>2, <1>3 DEF TypeOK
  <2> QED
    BY <1>1, <1>2, <1>4, <2>1, <2>2 DEF TypeOK, AnyRequest
<1>7. Elsewhere(k) /\ SlotStep(k)
  BY <1>1, <1>2, <1>4 DEF TypeOK, Elsewhere, SlotStep
<1>8. WireFollows(k)'
  <2> SUFFICES ASSUME at[k] \in Reading
               PROVE  \E R : Rest(Len(taken[k]), sent'[k], wire'[k], left[k], toSend'[k], R)
    BY <1>2 DEF WireFollows
  <2>1. PICK S : Rest(Len(taken[k]), sent[k], wire[k], left[k], 0, S)
    BY <1>1, <1>2 DEF ConnectionInv, WireFollows
  <2>2. /\ Len(taken[k]) \in 0..Len(sent[k]) /\ wire[k] \in Seq(Piece) /\ left[k] \in Nat
    BY <1>1 DEF TypeOK, ConnectionInv, CountsFollow
  <2>3. at[k] # "over"
    BY DEF Reading
  <2>4. \E R : Rest(Len(taken[k]), Append(sent[k], r), Append(wire[k], p), left[k], BodyOf(r), R)
    BY <1>1, <1>3, <2>1, <2>2, PutAHead DEF p
  <2> QED
    BY <1>4, <1>5, <2>3, <2>4
<1>9. BodiesAreSent(k)'
  <2>1. sent'[k] # <<>> /\ sent'[k][Len(sent'[k])] = r
    BY <1>1, <1>3, <1>5
  <2> QED
    BY <1>3, <1>5, <2>1 DEF BodiesAreSent
<1>10. CountsFollow(k)'
  BY <1>1, <1>2, <1>3, <1>5 DEF ConnectionInv, CountsFollow, TypeOK
<1>11. LeftFollows(k)'
  <2>1. at[k] \in {"handle", "stream"} => Current(k)' = Current(k)
    <3> SUFFICES ASSUME at[k] \in {"handle", "stream"} PROVE Current(k)' = Current(k)
      OBVIOUS
    <3>1. Len(taken[k]) \in 1..Len(sent[k])
      BY <1>1 DEF ConnectionInv, CountsFollow, TypeOK
    <3>2. taken[k][Len(taken[k])].of = Len(taken[k])
      BY <1>1, <3>1 DEF ConnectionInv, TakenInOrder
    <3> QED
      BY <1>2, <1>3, <1>5, <3>1, <3>2 DEF Current
  <2> QED
    BY <1>1, <1>2, <2>1 DEF ConnectionInv, LeftFollows
<1>12. (TakenInOrder(k) /\ AnsweredInOrder(k))'
  BY <1>1, <1>2 DEF ConnectionInv, TakenInOrder, AnsweredInOrder
<1> QED
  BY <1>4, <1>6, <1>7, <1>8, <1>9, <1>10, <1>11, <1>12, Whole DEF ConnectionInv

LEMMA SendBodyInv ==
  ASSUME Inv, NEW k \in Client, SendBody(k)
  PROVE  Inv'
<1> DEFINE p == [of |-> Len(sent[k]), is |-> "body"]
<1>1. TypeOK /\ ConnectionInv(k)
  BY DEF Inv
<1>2. /\ client[k] = "here" /\ ~reset[k] /\ toSend[k] \in Nat \ {0}
      /\ toSend' = [toSend EXCEPT ![k] = @ - 1]
      /\ Put(k, p)
      /\ UNCHANGED <<client, sent, read, answers, slots, at, taken, left, cut>>
  BY <1>1 DEF SendBody, TypeOK
<1>3. p \in Piece /\ Len(sent[k]) \in Nat /\ sent[k] \in Seq(RequestType)
  BY <1>1, SentIsTyped DEF Piece
<1> HIDE DEF p
<1>4. /\ wire' \in [Client -> Seq(Piece)] /\ reset' \in [Client -> BOOLEAN]
      /\ \A j \in Client \ {k} : wire'[j] = wire[j] /\ reset'[j] = reset[j]
      /\ at[k] # "over" => wire'[k] = Append(wire[k], p)
      /\ EarlyAnswersLinger(k)'
  BY <1>2, <1>3, PutInv
<1>5. toSend'[k] = toSend[k] - 1 /\ toSend' \in [Client -> Nat]
  BY <1>1, <1>2 DEF TypeOK
<1>6. TypeOK'
  BY <1>1, <1>2, <1>4, <1>5 DEF TypeOK
<1>7. Elsewhere(k) /\ SlotStep(k)
  BY <1>1, <1>2, <1>4 DEF TypeOK, Elsewhere, SlotStep
<1>8. sent[k] # <<>> /\ toSend[k] <= BodyOf(sent[k][Len(sent[k])]) /\ BodyOf(sent[k][Len(sent[k])]) \in Nat
  <2>1. sent[k] # <<>> /\ toSend[k] <= BodyOf(sent[k][Len(sent[k])])
    BY <1>1, <1>2 DEF ConnectionInv, BodiesAreSent
  <2>2. sent[k][Len(sent[k])] \in RequestType
    BY <1>3, <2>1
  <2> QED
    BY <2>1, <2>2, BodyOfType
<1>9. WireFollows(k)'
  <2> SUFFICES ASSUME at[k] \in Reading
               PROVE  \E R : Rest(Len(taken[k]), sent[k], wire'[k], left[k], toSend'[k], R)
    BY <1>2 DEF WireFollows
  <2>1. PICK S : Rest(Len(taken[k]), sent[k], wire[k], left[k], toSend[k], S)
    BY <1>1, <1>2 DEF ConnectionInv, WireFollows
  <2>2. /\ Len(taken[k]) \in 0..Len(sent[k]) /\ wire[k] \in Seq(Piece) /\ left[k] \in Nat
    BY <1>1 DEF TypeOK, ConnectionInv, CountsFollow
  <2>3. at[k] # "over"
    BY DEF Reading
  <2>4. Rest(Len(taken[k]), sent[k], Append(wire[k], p), left[k], toSend[k] - 1, S)
    BY <1>2, <1>3, <1>8, <2>1, <2>2, PutABody DEF p
  <2> QED
    BY <1>4, <1>5, <2>3, <2>4
<1>10. BodiesAreSent(k)'
  BY <1>2, <1>5, <1>8 DEF BodiesAreSent
<1>11. (CountsFollow(k) /\ LeftFollows(k) /\ TakenInOrder(k) /\ AnsweredInOrder(k))'
  BY <1>1, <1>2 DEF ConnectionInv, CountsFollow, LeftFollows, Current, TakenInOrder, AnsweredInOrder
<1> QED
  BY <1>4, <1>6, <1>7, <1>9, <1>10, <1>11, Whole DEF ConnectionInv

\* It keeps a body only when the server is done with the connection: else the
\* answer it has read is not to its last request.
LEMMA KeepBodyInv ==
  ASSUME Inv, NEW k \in Client, KeepBody(k)
  PROVE  Inv'
<1>1. TypeOK /\ ConnectionInv(k)
  BY DEF Inv
<1>2. /\ toSend[k] \in Nat \ {0} /\ read[k] = Len(sent[k])
      /\ toSend' = [toSend EXCEPT ![k] = 0]
      /\ UNCHANGED <<client, sent, read, wire, answers, reset, slots, at, taken, left, cut>>
  BY <1>1 DEF KeepBody, TypeOK
<1>3. sent[k] \in Seq(RequestType) /\ sent[k] # <<>>
  BY <1>1, <1>2, SentIsTyped DEF ConnectionInv, BodiesAreSent
<1>4. toSend'[k] = 0 /\ TypeOK'
  BY <1>1, <1>2 DEF TypeOK
<1>5. Elsewhere(k) /\ SlotStep(k)
  BY <1>1, <1>2 DEF TypeOK, Elsewhere, SlotStep
<1>6. at[k] \notin Reading
  <2> SUFFICES ASSUME at[k] \in Reading PROVE FALSE
    OBVIOUS
  <2>1. /\ Len(sent[k]) \in Nat \ {0} /\ Len(taken[k]) \in Nat /\ Len(answers[k]) \in Nat
        /\ Len(sent[k]) <= Len(answers[k]) /\ Len(taken[k]) <= Len(sent[k])
    BY <1>1, <1>2, <1>3 DEF TypeOK, ConnectionInv, CountsFollow
  <2>2. at[k] = "idle" /\ Len(taken[k]) = Len(sent[k])
    <3>1. at[k] \notin {"none", "waiting"}
      BY <1>1, <2>1 DEF ConnectionInv, CountsFollow
    <3>2. at[k] \notin {"body", "handle", "stream", "poll"}
      BY <1>1, <2>1 DEF ConnectionInv, CountsFollow
    <3>3. at[k] = "idle"
      BY <3>1, <3>2 DEF Reading
    <3> QED
      BY <1>1, <2>1, <3>3 DEF ConnectionInv, CountsFollow
  <2>3. left[k] = 0
    BY <1>1, <2>2 DEF ConnectionInv, LeftFollows
  <2>4. PICK S : Rest(Len(sent[k]), sent[k], wire[k], 0, toSend[k], S)
    BY <1>1, <2>2, <2>3 DEF ConnectionInv, WireFollows
  <2>5. S[Len(sent[k]) + 1] = 0 + 1 /\ S[Len(sent[k]) + 1] = Len(wire[k]) + toSend[k] + 1
    BY <2>4 DEF Rest
  <2>6. Len(wire[k]) \in Nat
    BY <1>1 DEF TypeOK
  <2> QED
    BY <1>2, <2>5, <2>6
<1>7. BodiesAreSent(k)'
  <2>1. sent[k][Len(sent[k])] \in RequestType
    BY <1>3
  <2>2. BodyOf(sent[k][Len(sent[k])]) \in Nat
    BY <2>1, BodyOfType
  <2> QED
    BY <1>2, <1>3, <1>4, <2>2 DEF BodiesAreSent
<1>8. WireFollows(k)'
  BY <1>2, <1>6 DEF WireFollows
<1>9. (CountsFollow(k) /\ LeftFollows(k) /\ EarlyAnswersLinger(k) /\ TakenInOrder(k) /\ AnsweredInOrder(k))'
  BY <1>1, <1>2 DEF ConnectionInv, CountsFollow, LeftFollows, Current, EarlyAnswersLinger, TakenInOrder, AnsweredInOrder
<1> QED
  BY <1>4, <1>5, <1>7, <1>8, <1>9, Whole DEF ConnectionInv

LEMMA ReadAnswerInv ==
  ASSUME Inv, NEW k \in Client, ReadAnswer(k)
  PROVE  Inv'
<1>1. TypeOK /\ ConnectionInv(k)
  BY DEF Inv
<1>2. /\ read[k] < Len(answers[k])
      /\ read' = [read EXCEPT ![k] = @ + 1]
      /\ UNCHANGED <<client, sent, toSend, wire, answers, reset, slots, at, taken, left, cut>>
  BY DEF ReadAnswer
<1>3. read'[k] = read[k] + 1 /\ read[k] \in Nat /\ Len(answers[k]) \in Nat
  BY <1>1, <1>2 DEF TypeOK
<1>4. TypeOK' /\ Elsewhere(k) /\ SlotStep(k)
  <2>1. read' \in [Client -> Nat] /\ \A j \in Client \ {k} : read'[j] = read[j]
    BY <1>1, <1>2, <1>3 DEF TypeOK
  <2> QED
    BY <1>1, <1>2, <2>1 DEF TypeOK, Elsewhere, SlotStep
<1>5. CountsFollow(k)'
  BY <1>1, <1>2, <1>3 DEF ConnectionInv, CountsFollow
<1>6. (WireFollows(k) /\ BodiesAreSent(k) /\ LeftFollows(k))'
  BY <1>1, <1>2 DEF ConnectionInv, WireFollows, BodiesAreSent, LeftFollows, Current
<1>7. (EarlyAnswersLinger(k) /\ TakenInOrder(k) /\ AnsweredInOrder(k))'
  BY <1>1, <1>2 DEF ConnectionInv, EarlyAnswersLinger, TakenInOrder, AnsweredInOrder
<1> QED
  BY <1>4, <1>5, <1>6, <1>7, Whole DEF ConnectionInv

LEMMA LeaveInv ==
  ASSUME Inv, NEW k \in Client, Leave(k)
  PROVE  Inv'
<1>1. TypeOK /\ ConnectionInv(k)
  BY DEF Inv
<1>2. /\ client[k] = "here" /\ at[k] # "over"
      /\ client' = [client EXCEPT ![k] = "left"]
      /\ UNCHANGED <<sent, toSend, read, wire, answers, reset, slots, at, taken, left, cut>>
  BY DEF Leave
<1>3. client'[k] = "left" /\ TypeOK' /\ Elsewhere(k) /\ SlotStep(k)
  BY <1>1, <1>2 DEF TypeOK, Elsewhere, SlotStep
<1>4. (CountsFollow(k) /\ EarlyAnswersLinger(k))'
  BY <1>1, <1>2, <1>3 DEF ConnectionInv, CountsFollow, EarlyAnswersLinger
<1>5. (WireFollows(k) /\ BodiesAreSent(k) /\ LeftFollows(k))'
  BY <1>1, <1>2 DEF ConnectionInv, WireFollows, BodiesAreSent, LeftFollows, Current
<1>6. (TakenInOrder(k) /\ AnsweredInOrder(k))'
  BY <1>1, <1>2 DEF ConnectionInv, TakenInOrder, AnsweredInOrder
<1> QED
  BY <1>3, <1>4, <1>5, <1>6, Whole DEF ConnectionInv

-----------------------------------------------------------------------------
(***************************************************************************)
(* The server's steps.                                                     *)
(***************************************************************************)

\* What is sent is an answer to the request that was taken last.
LEMMA Sent ==
  ASSUME TypeOK, NEW k \in Client, ConnectionInv(k), NEW status \in Status, NEW closing \in BOOLEAN,
         at[k] \in {"idle", "head", "body", "handle", "stream", "poll"},
         taken'[k] \in Seq(Piece), Len(taken'[k]) = Len(answers[k]) + 1,
         Send(k, status, closing)
  PROVE  /\ answers' \in [Client -> Seq(Answer)]
         /\ \A j \in Client \ {k} : answers'[j] = answers[j]
         /\ Len(answers'[k]) = Len(answers[k]) + 1
         /\ AnsweredInOrder(k)'
         /\ ~closing => \A i \in 1..Len(answers'[k]) :
              ~answers'[k][i].closing
<1> DEFINE a == [to |-> Len(taken'[k]), status |-> status, closing |-> closing]
<1>1. answers[k] \in Seq(Answer) /\ taken[k] \in Seq(Piece) /\ Len(answers[k]) \in Nat /\ Len(taken[k]) \in Nat
  BY DEF TypeOK
<1>2. a \in Answer /\ a.to = Len(answers[k]) + 1 /\ a.closing = closing
  BY <1>1 DEF Answer
<1>3. answers' = [answers EXCEPT ![k] = Append(answers[k], a)]
  BY DEF Send
<1> HIDE DEF a
<1>4. /\ answers' \in [Client -> Seq(Answer)] /\ answers'[k] = Append(answers[k], a)
      /\ \A j \in Client \ {k} : answers'[j] = answers[j]
  BY <1>2, <1>3 DEF TypeOK
<1>5. /\ Len(answers'[k]) = Len(answers[k]) + 1
      /\ answers'[k][Len(answers[k]) + 1] = a
      /\ \A i \in 1..Len(answers[k]) : answers'[k][i] = answers[k][i]
  BY <1>1, <1>2, <1>4
<1>6. \A i \in 1..Len(answers[k]) :
        answers[k][i].to = i /\ ~answers[k][i].closing
  <2>1. Len(answers[k]) <= Len(taken[k])
    BY <1>1 DEF ConnectionInv, CountsFollow
  <2>2. \A i \in 1..Len(answers[k]) : answers[k][i].to = i
    BY <1>1, <2>1 DEF ConnectionInv, AnsweredInOrder
  <2> QED
    BY <1>1, <2>1, <2>2 DEF ConnectionInv, EarlyAnswersLinger
<1>7. \A i \in 1..Len(answers'[k]) : i \in 1..Len(answers[k]) \/ i = Len(answers[k]) + 1
  BY <1>1, <1>5
<1>8. AnsweredInOrder(k)'
  BY <1>2, <1>5, <1>6, <1>7 DEF AnsweredInOrder
<1> QED
  BY <1>2, <1>4, <1>5, <1>6, <1>7, <1>8

\* The connection ends, and what it answered before it did stands.
LEMMA EndInv ==
  ASSUME Inv, NEW k \in Client, at[k] \in Serving, NEW u \in Seq(Piece), End(k, u),
         UNCHANGED clientVars,
         answers' \in [Client -> Seq(Answer)], taken' \in [Client -> Seq(Piece)],
         cut' \in [Client -> BOOLEAN],
         \A j \in Client \ {k} : answers'[j] = answers[j] /\ taken'[j] = taken[j] /\ cut'[j] = cut[j],
         Len(taken'[k]) <= Len(sent[k]), read[k] <= Len(answers'[k]),
         TakenInOrder(k)', AnsweredInOrder(k)',
         \/ \A i \in 1..Len(answers'[k]) : ~answers'[k][i].closing
         \/ cut'[k] \/ (client[k] = "left" /\ u = <<>>)
  PROVE  Inv'
<1>1. TypeOK /\ ConnectionInv(k) /\ slots \in Nat /\ slots - 1 \in Nat
  BY ASlotIsHeld DEF Inv
<1>2. /\ at' = [at EXCEPT ![k] = "over"] /\ slots' = slots - 1
      /\ reset' = [reset EXCEPT ![k] = (u # <<>>)]
      /\ wire' = [wire EXCEPT ![k] = <<>>]
      /\ left' = [left EXCEPT ![k] = 0]
      /\ UNCHANGED <<client, sent, toSend, read>>
  BY DEF End, Goto, clientVars
<1>3. /\ at'[k] = "over" /\ reset'[k] = (u # <<>>)
      /\ \A j \in Client \ {k} : at'[j] = at[j] /\ reset'[j] = reset[j] /\ wire'[j] = wire[j] /\ left'[j] = left[j]
  BY <1>1, <1>2 DEF TypeOK
<1>4. TypeOK'
  <2>1. at' \in [Client -> Place]
    BY <1>1, <1>2 DEF TypeOK, Place
  <2>2. reset' \in [Client -> BOOLEAN]
    BY <1>1, <1>2 DEF TypeOK
  <2>3. wire' \in [Client -> Seq(Piece)] /\ left' \in [Client -> Nat]
    BY <1>1, <1>2 DEF TypeOK
  <2> QED
    BY <1>1, <1>2, <2>1, <2>2, <2>3 DEF TypeOK
<1>5. Elsewhere(k)
  BY <1>2, <1>3 DEF Elsewhere
<1>6. SlotStep(k)
  BY <1>2, <1>3 DEF SlotStep, Serving
<1>7. (WireFollows(k) /\ LeftFollows(k))'
  BY <1>3 DEF WireFollows, Reading, LeftFollows
<1>8. (BodiesAreSent(k) /\ CountsFollow(k))'
  <2>1. at[k] # "none"
    BY DEF Serving
  <2> QED
    BY <1>1, <1>2, <1>3, <2>1 DEF ConnectionInv, BodiesAreSent, CountsFollow
<1>9. EarlyAnswersLinger(k)'
  BY <1>2, <1>3 DEF EarlyAnswersLinger
<1> QED
  BY <1>4, <1>5, <1>6, <1>7, <1>8, <1>9, Whole DEF ConnectionInv

\* The same when nothing more is answered: before it lingers, a connection has not
\* answered early.
LEMMA QuietEndInv ==
  ASSUME Inv, NEW k \in Client, at[k] \in Serving \ {"linger"}, NEW u \in Seq(Piece), End(k, u),
         UNCHANGED <<clientVars, answers, taken, cut>>
  PROVE  Inv'
<1>1. TypeOK /\ ConnectionInv(k)
  BY DEF Inv
<1>2. \A i \in 1..Len(answers[k]) : ~answers[k][i].closing
  BY <1>1 DEF ConnectionInv, EarlyAnswersLinger, Serving
<1>3. Len(taken[k]) <= Len(sent[k]) /\ read[k] <= Len(answers[k])
  BY <1>1 DEF ConnectionInv, CountsFollow
<1>4. (TakenInOrder(k) /\ AnsweredInOrder(k))'
  BY <1>1 DEF ConnectionInv, TakenInOrder, AnsweredInOrder
<1>5. answers \in [Client -> Seq(Answer)] /\ taken \in [Client -> Seq(Piece)] /\ cut \in [Client -> BOOLEAN]
  BY <1>1 DEF TypeOK
<1> QED
  BY <1>2, <1>3, <1>4, <1>5, EndInv

\* The same when it is answered last.
LEMMA AnsweredEndInv ==
  ASSUME Inv, NEW k \in Client, NEW status \in Status,
         at[k] \in {"idle", "head", "body", "handle", "stream", "poll"},
         taken' \in [Client -> Seq(Piece)], \A j \in Client \ {k} : taken'[j] = taken[j],
         Len(taken'[k]) = Len(answers[k]) + 1, Len(taken'[k]) <= Len(sent[k]), TakenInOrder(k)',
         Send(k, status, FALSE), NEW u \in Seq(Piece), End(k, u),
         UNCHANGED <<clientVars, cut>>
  PROVE  Inv'
<1>1. TypeOK /\ ConnectionInv(k) /\ at[k] \in Serving
  BY DEF Inv, Serving
<1>2. /\ answers' \in [Client -> Seq(Answer)]
      /\ \A j \in Client \ {k} : answers'[j] = answers[j]
      /\ Len(answers'[k]) = Len(answers[k]) + 1
      /\ AnsweredInOrder(k)'
      /\ \A i \in 1..Len(answers'[k]) : ~answers'[k][i].closing
  BY <1>1, Sent
<1>3. read[k] <= Len(answers'[k])
  BY <1>1, <1>2 DEF TypeOK, ConnectionInv, CountsFollow
<1>4. cut \in [Client -> BOOLEAN]
  BY <1>1 DEF TypeOK
<1> QED
  BY <1>1, <1>2, <1>3, <1>4, EndInv

LEMMA CloseIdleInv ==
  ASSUME Inv, NEW k \in Client, CloseIdle(k) \/ Truncated(k) \/ Gone(k) \/ WriteFails(k)
  PROVE  Inv'
<1>1. wire[k] \in Seq(Piece) /\ <<>> \in Seq(Piece)
  BY DEF Inv, TypeOK
<1>2. CASE CloseIdle(k)
  BY <1>1, <1>2, QuietEndInv DEF CloseIdle, Serving
<1>3. CASE Truncated(k)
  BY <1>1, <1>3, QuietEndInv DEF Truncated, Serving
<1>4. CASE Gone(k)
  BY <1>1, <1>4, QuietEndInv DEF Gone, Serving
<1>5. CASE WriteFails(k)
  BY <1>1, <1>5, QuietEndInv DEF WriteFails, Serving
<1> QED
  BY <1>2, <1>3, <1>4, <1>5

LEMMA TimeOutInv ==
  ASSUME Inv, NEW k \in Client, TimeOut(k)
  PROVE  Inv'
<1>1. /\ TypeOK /\ ConnectionInv(k) /\ at[k] \in {"head", "body"} /\ wire[k] \in Seq(Piece)
      /\ taken' = taken /\ taken \in [Client -> Seq(Piece)]
      /\ Send(k, "protocol", FALSE) /\ End(k, wire[k]) /\ UNCHANGED <<clientVars, cut>>
      /\ "protocol" \in Status
  BY DEF Inv, TypeOK, TimeOut, Timed, Protest, Status
<1>2. Len(taken'[k]) = Len(answers[k]) + 1 /\ Len(taken'[k]) <= Len(sent[k])
  BY <1>1 DEF ConnectionInv, CountsFollow
<1>3. TakenInOrder(k)'
  BY <1>1 DEF ConnectionInv, TakenInOrder
<1> QED
  BY <1>1, <1>2, <1>3, AnsweredEndInv

LEMMA LingerOutInv ==
  ASSUME Inv, NEW k \in Client, LingerOut(k)
  PROVE  Inv'
<1>1. /\ TypeOK /\ ConnectionInv(k) /\ at[k] \in Serving /\ wire[k] \in Seq(Piece)
      /\ End(k, wire[k]) /\ UNCHANGED <<clientVars, answers, taken>>
      /\ cut' = [cut EXCEPT ![k] = ~(client[k] = "left" /\ wire[k] = <<>>)]
  BY DEF Inv, TypeOK, LingerOut, Serving
<1>2. /\ cut' \in [Client -> BOOLEAN] /\ (cut'[k] \/ (client[k] = "left" /\ wire[k] = <<>>))
      /\ \A j \in Client \ {k} : cut'[j] = cut[j]
  BY <1>1 DEF TypeOK
<1>3. Len(taken[k]) <= Len(sent[k]) /\ read[k] <= Len(answers[k])
  BY <1>1 DEF ConnectionInv, CountsFollow
<1>4. (TakenInOrder(k) /\ AnsweredInOrder(k))'
  BY <1>1 DEF ConnectionInv, TakenInOrder, AnsweredInOrder
<1>5. answers \in [Client -> Seq(Answer)] /\ taken \in [Client -> Seq(Piece)]
  BY <1>1 DEF TypeOK
<1> QED
  BY <1>1, <1>2, <1>3, <1>4, <1>5, EndInv

LEMMA LingerOnInv ==
  ASSUME Inv, NEW k \in Client, LingerOn(k)
  PROVE  Inv'
<1>1. /\ TypeOK /\ ConnectionInv(k) /\ at[k] = "linger"
      /\ left[k] > 0 /\ wire[k] # <<>>
      /\ wire' = [wire EXCEPT ![k] = Tail(@)]
      /\ left' = [left EXCEPT ![k] = @ - 1]
      /\ UNCHANGED <<client, sent, toSend, read, answers, reset, slots, at, taken, cut>>
  BY DEF Inv, LingerOn, clientVars
<1>2. left' \in [Client -> Nat] /\ \A j \in Client \ {k} : left'[j] = left[j]
  BY <1>1 DEF TypeOK
<1>3. wire' \in [Client -> Seq(Piece)] /\ \A j \in Client \ {k} : wire'[j] = wire[j]
  BY <1>1 DEF TypeOK
<1>4. TypeOK' /\ Elsewhere(k) /\ SlotStep(k)
  BY <1>1, <1>2, <1>3 DEF TypeOK, Elsewhere, SlotStep
<1>5. (WireFollows(k) /\ LeftFollows(k))'
  BY <1>1 DEF WireFollows, Reading, LeftFollows
<1>6. (BodiesAreSent(k) /\ CountsFollow(k) /\ EarlyAnswersLinger(k))'
  BY <1>1 DEF ConnectionInv, BodiesAreSent, CountsFollow, EarlyAnswersLinger
<1>7. (TakenInOrder(k) /\ AnsweredInOrder(k))'
  BY <1>1 DEF ConnectionInv, TakenInOrder, AnsweredInOrder
<1> QED
  BY <1>4, <1>5, <1>6, <1>7, Whole DEF ConnectionInv

LEMMA AcceptInv ==
  ASSUME Inv, NEW k \in Client, Accept(k)
  PROVE  Inv'
<1>1. /\ TypeOK /\ ConnectionInv(k) /\ at[k] = "waiting" /\ slots < MaxConnections
      /\ slots' = slots + 1 /\ at' = [at EXCEPT ![k] = "idle"]
      /\ UNCHANGED <<client, sent, toSend, read, wire, answers, reset, taken, left, cut>>
  BY DEF Inv, Accept, Goto, clientVars
<1>2. at'[k] = "idle" /\ at' \in [Client -> Place] /\ \A j \in Client \ {k} : at'[j] = at[j]
  BY <1>1 DEF TypeOK, Place, Serving
<1>3. TypeOK'
  <2>1. slots' \in Nat
    BY <1>1 DEF TypeOK
  <2> QED
    BY <1>1, <1>2, <2>1 DEF TypeOK
<1>4. Elsewhere(k) /\ SlotStep(k)
  BY <1>1, <1>2 DEF Elsewhere, SlotStep, Serving
<1>5. WireFollows(k)'
  BY <1>1, <1>2 DEF ConnectionInv, WireFollows, Reading
<1>6. (BodiesAreSent(k) /\ CountsFollow(k) /\ LeftFollows(k) /\ EarlyAnswersLinger(k))'
  BY <1>1, <1>2 DEF ConnectionInv, BodiesAreSent, CountsFollow, LeftFollows, EarlyAnswersLinger
<1>7. (TakenInOrder(k) /\ AnsweredInOrder(k))'
  BY <1>1 DEF ConnectionInv, TakenInOrder, AnsweredInOrder
<1> QED
  BY <1>3, <1>4, <1>5, <1>6, <1>7, Whole DEF ConnectionInv

\* A connection that gets no slot was asked nothing, and 503 is all it is answered.
LEMMA TurnedAwayInv ==
  ASSUME Inv, NEW k \in Client, AcceptFails(k) \/ Refuse(k)
  PROVE  Inv'
<1>1. /\ TypeOK /\ ConnectionInv(k) /\ at[k] = "waiting"
      /\ at' = [at EXCEPT ![k] = "over"]
      /\ reset' = [reset EXCEPT ![k] = (wire[k] # <<>>)]
      /\ wire' = [wire EXCEPT ![k] = <<>>]
      /\ UNCHANGED <<client, sent, toSend, read, slots, taken, left, cut>>
  BY DEF Inv, AcceptFails, Refuse, Goto, clientVars
<1>2. taken[k] = <<>> /\ answers[k] = <<>> /\ read[k] = 0 /\ client[k] # "away"
  BY <1>1 DEF ConnectionInv, CountsFollow, TypeOK
<1>3. /\ answers' \in [Client -> Seq(Answer)] /\ \A j \in Client \ {k} : answers'[j] = answers[j]
      /\ Len(answers'[k]) \in Nat
      /\ \A i \in 1..Len(answers'[k]) : answers'[k][i].status = "full" /\ ~answers'[k][i].closing
  <2> DEFINE a == [to |-> 0, status |-> "full", closing |-> FALSE]
  <2>1. CASE answers' = answers
    BY <1>1, <1>2, <2>1 DEF TypeOK
  <2>2. CASE answers' = [answers EXCEPT ![k] = Append(@, a)]
    <3>1. a \in Answer /\ a.status = "full" /\ ~a.closing
      BY DEF Answer, Status
    <3> HIDE DEF a
    <3>2. answers' \in [Client -> Seq(Answer)] /\ answers'[k] = <<a>> /\ \A j \in Client \ {k} : answers'[j] = answers[j]
      BY <1>1, <1>2, <2>2, <3>1 DEF TypeOK
    <3> QED
      BY <3>1, <3>2
  <2>3. Len(taken'[k]) = 0
    BY <1>1, <1>2
  <2> QED
    BY <2>1, <2>2, <2>3 DEF AcceptFails, Refuse, Send
<1>4. /\ at'[k] = "over" /\ at' \in [Client -> Place]
      /\ \A j \in Client \ {k} : at'[j] = at[j] /\ reset'[j] = reset[j] /\ wire'[j] = wire[j]
  BY <1>1 DEF TypeOK, Place
<1>5. TypeOK'
  <2>1. reset' \in [Client -> BOOLEAN]
    BY <1>1 DEF TypeOK
  <2>2. wire' \in [Client -> Seq(Piece)]
    BY <1>1 DEF TypeOK
  <2> QED
    BY <1>1, <1>3, <1>4, <2>1, <2>2 DEF TypeOK
<1>6. Elsewhere(k) /\ SlotStep(k)
  BY <1>1, <1>3, <1>4 DEF Elsewhere, SlotStep, Serving
<1>7. (WireFollows(k) /\ LeftFollows(k))'
  BY <1>4 DEF WireFollows, Reading, LeftFollows
<1>8. (BodiesAreSent(k) /\ CountsFollow(k))'
  BY <1>1, <1>2, <1>3, <1>4 DEF ConnectionInv, BodiesAreSent, CountsFollow
<1>9. (EarlyAnswersLinger(k) /\ TakenInOrder(k) /\ AnsweredInOrder(k))'
  BY <1>1, <1>2, <1>3, <1>4 DEF ConnectionInv, EarlyAnswersLinger, TakenInOrder, AnsweredInOrder
<1> QED
  BY <1>5, <1>6, <1>7, <1>8, <1>9, Whole DEF ConnectionInv

\* What is taken for a head is the head of the next request.
LEMMA TakeHeadInv ==
  ASSUME Inv, NEW k \in Client, TakeHead(k)
  PROVE  Inv'
<1> DEFINE n == Len(taken[k])
           r == sent[k][Head(wire[k]).of]
           p == Head(wire[k])
           rest == Tail(wire[k])
<1>1. /\ TypeOK /\ ConnectionInv(k) /\ at[k] = "idle" /\ left[k] = 0 /\ n = Len(answers[k])
      /\ wire[k] # <<>> /\ wire[k] \in Seq(Piece) /\ rest \in Seq(Piece) /\ p \in Piece
      /\ n \in 0..Len(sent[k]) /\ toSend[k] \in Nat
      /\ taken[k] \in Seq(Piece) /\ n \in Nat
      /\ sent[k] \in Seq(RequestType)
  <2>1. TypeOK /\ ConnectionInv(k) /\ at[k] = "idle" /\ wire[k] # <<>>
    BY DEF Inv, TakeHead
  <2>2. wire[k] \in Seq(Piece) /\ toSend[k] \in Nat /\ taken[k] \in Seq(Piece) /\ n \in Nat
    BY <2>1 DEF TypeOK
  <2>3. rest \in Seq(Piece) /\ p \in Piece
    BY <2>1, <2>2, HeadTailProperties
  <2>4. sent[k] \in Seq(RequestType) /\ Len(sent[k]) \in Nat
    BY <2>1, SentIsTyped
  <2>5. left[k] = 0 /\ n = Len(answers[k]) /\ n <= Len(sent[k])
    BY <2>1 DEF ConnectionInv, CountsFollow, LeftFollows
  <2>6. n \in 0..Len(sent[k])
    BY <2>2, <2>4, <2>5
  <2> QED
    BY <2>1, <2>2, <2>3, <2>4, <2>5, <2>6
<1>2. /\ taken' = [taken EXCEPT ![k] = Append(@, p)]
      /\ UNCHANGED <<client, sent, toSend, read, cut>> /\ UNCHANGED clientVars
  BY DEF TakeHead, clientVars
<1>3. PICK S : Rest(n, sent[k], wire[k], 0, toSend[k], S)
  BY <1>1 DEF ConnectionInv, WireFollows, Reading
<1>4. /\ n + 1 \in 1..Len(sent[k])
      /\ p = [of |-> n + 1, is |-> "head"]
      /\ \E R : Rest(n + 1, sent[k], rest, BodyOf(sent[k][n + 1]), toSend[k], R)
  BY <1>1, <1>3, TakeAHead
<1>5. r = sent[k][n + 1] /\ r \in RequestType /\ r.length \in Nat
  <2>1. r = sent[k][n + 1]
    BY <1>4
  <2>2. r \in RequestType
    BY <1>1, <1>4, <2>1, ElementOfSeq
  <2> QED
    BY <2>1, <2>2 DEF RequestType
<1>6. /\ taken' \in [Client -> Seq(Piece)] /\ taken'[k] = Append(taken[k], p)
      /\ \A j \in Client \ {k} : taken'[j] = taken[j]
  BY <1>1, <1>2 DEF TypeOK
<1>7. Len(taken'[k]) = n + 1 /\ taken'[k][n + 1] = p /\ \A i \in 1..n : taken'[k][i] = taken[k][i]
  BY <1>1, <1>6
<1>8. TakenInOrder(k)'
  <2>1. taken'[k] \in Seq(Piece)
    BY <1>6
  <2>2. taken'[k] = [i \in 1..(n + 1) |-> taken'[k][i]]
    BY <1>7, <2>1
  <2>3. \A i \in 1..(n + 1) : taken'[k][i] = [of |-> i, is |-> "head"]
    BY <1>1, <1>4, <1>7 DEF ConnectionInv, TakenInOrder
  <2> QED
    BY <1>7, <2>2, <2>3 DEF TakenInOrder
<1>9. CASE Protest(k, rest)
  <2>1. Send(k, "protocol", FALSE) /\ End(k, rest) /\ "protocol" \in Status
    BY <1>9 DEF Protest, Status
  <2>2. Len(taken'[k]) = Len(answers[k]) + 1 /\ Len(taken'[k]) <= Len(sent[k])
    BY <1>1, <1>4, <1>7
  <2> HIDE DEF rest
  <2> QED
    BY <1>1, <1>2, <1>6, <1>8, <2>1, <2>2, AnsweredEndInv
<1>10. CASE /\ wire' = [wire EXCEPT ![k] = rest] /\ UNCHANGED <<answers, slots, reset>>
            /\ \E place \in {"head", "handle", "body"} : Goto(k, place)
            /\ \/ Goto(k, "head") /\ UNCHANGED left
               \/ /\ left' = [left EXCEPT ![k] = r.length] /\ r.fault = "none"
                  /\ Goto(k, "handle") => r.kind = "put" \/ r.length = 0
  <2>1. PICK place \in {"head", "handle", "body"} : at' = [at EXCEPT ![k] = place]
    BY <1>10 DEF Goto
  <2>2. /\ at' \in [Client -> Place] /\ at'[k] = place /\ \A j \in Client \ {k} : at'[j] = at[j]
    BY <1>1, <2>1 DEF TypeOK, Place, Serving
  <2>3. /\ wire' \in [Client -> Seq(Piece)] /\ wire'[k] = rest /\ \A j \in Client \ {k} : wire'[j] = wire[j]
    BY <1>1, <1>10 DEF TypeOK
  <2>4. /\ left' \in [Client -> Nat] /\ \A j \in Client \ {k} : left'[j] = left[j]
        /\ place # "head" => left'[k] = r.length /\ r.fault = "none"
        /\ place = "handle" => r.kind = "put" \/ left'[k] = 0
    <3>1. CASE Goto(k, "head") /\ UNCHANGED left
      <4>1. place = "head"
        BY <1>1, <2>2, <3>1 DEF Goto, TypeOK
      <4> QED
        BY <1>1, <3>1, <4>1 DEF TypeOK
    <3>2. CASE /\ left' = [left EXCEPT ![k] = r.length] /\ r.fault = "none"
               /\ Goto(k, "handle") => r.kind = "put" \/ r.length = 0
      <4>1. /\ left' \in [Client -> Nat] /\ left'[k] = r.length
            /\ \A j \in Client \ {k} : left'[j] = left[j]
        BY <1>1, <1>5, <3>2 DEF TypeOK
      <4>2. place = "handle" => Goto(k, "handle")
        BY <2>1 DEF Goto
      <4> HIDE DEF r
      <4> QED
        BY <3>2, <4>1, <4>2
    <3> QED
      BY <1>10, <3>1, <3>2
  <2>5. TypeOK'
    BY <1>1, <1>2, <1>6, <1>10, <2>2, <2>3, <2>4 DEF TypeOK
  <2>6. Elsewhere(k) /\ SlotStep(k)
    BY <1>1, <1>2, <1>6, <1>10, <2>2, <2>3, <2>4 DEF Elsewhere, SlotStep, Serving
  <2>7. WireFollows(k)'
    <3> SUFFICES ASSUME place # "head"
                 PROVE  \E R : Rest(n + 1, sent[k], rest, r.length, toSend[k], R)
      BY <1>2, <1>7, <2>2, <2>3, <2>4 DEF WireFollows, Reading
    <3>1. BodyOf(r) = r.length
      BY <2>4 DEF BodyOf
    <3> QED
      BY <1>4, <1>5, <3>1
  <2>8. LeftFollows(k)'
    <3>1. Current(k)' = r
      <4>1. Current(k)' = sent[k][p.of] /\ p.of = n + 1
        BY <1>2, <1>4, <1>7 DEF Current
      <4> QED
        BY <1>5, <4>1
    <3> HIDE DEF r
    <3> QED
      BY <2>2, <2>4, <3>1 DEF LeftFollows
  <2>9. CountsFollow(k)'
    <3>1. UNCHANGED <<client, sent, read, answers>>
      BY <1>2, <1>10
    <3>2. /\ client[k] # "away" /\ read[k] <= Len(answers[k])
          /\ Len(taken'[k]) <= Len(sent[k]) /\ Len(taken'[k]) = Len(answers[k]) + 1
      BY <1>1, <1>4, <1>7 DEF ConnectionInv, CountsFollow
    <3>3. at'[k] \in {"head", "handle", "body"}
      BY <2>2
    <3> HIDE DEF r, rest
    <3> QED
      BY <3>1, <3>2, <3>3 DEF CountsFollow
  <2>10. (BodiesAreSent(k) /\ EarlyAnswersLinger(k))'
    BY <1>1, <1>2, <1>10, <2>2 DEF ConnectionInv, BodiesAreSent, EarlyAnswersLinger
  <2>11. AnsweredInOrder(k)'
    <3>1. \A i \in 1..Len(answers[k]) : answers[k][i].to = i
      BY <1>1 DEF ConnectionInv, AnsweredInOrder
    <3> QED
      BY <1>10, <3>1 DEF AnsweredInOrder
  <2> QED
    BY <1>8, <2>5, <2>6, <2>7, <2>8, <2>9, <2>10, <2>11, Whole DEF ConnectionInv
<1>11. \/ r.fault = "cut" /\ Goto(k, "head") /\ UNCHANGED left
       \/ Protest(k, rest)
       \/ r.fault = "none" /\ r.kind = "put" /\ Goto(k, "handle") /\ left' = [left EXCEPT ![k] = r.length]
       \/ /\ r.fault = "none" /\ Goto(k, IF r.length = 0 THEN "handle" ELSE "body")
          /\ left' = [left EXCEPT ![k] = r.length]
  BY DEF TakeHead
<1>12. Protest(k, rest) \/ (wire' = [wire EXCEPT ![k] = rest] /\ UNCHANGED <<answers, slots, reset>>)
  BY DEF TakeHead, Stay
<1> QED
  <2>1. CASE r.fault = "cut" /\ Goto(k, "head") /\ UNCHANGED left
    BY <1>9, <1>10, <1>12, <2>1
  <2>2. CASE r.fault = "none" /\ r.kind = "put" /\ Goto(k, "handle") /\ left' = [left EXCEPT ![k] = r.length]
    BY <1>9, <1>10, <1>12, <2>2
  <2>3. CASE /\ r.fault = "none" /\ Goto(k, IF r.length = 0 THEN "handle" ELSE "body")
             /\ left' = [left EXCEPT ![k] = r.length]
    <3>1. Goto(k, "handle") => r.length = 0
      <4>1. CASE r.length = 0
        BY <4>1
      <4>2. CASE r.length # 0
        <5>1. at'[k] = "body"
          BY <1>1, <2>3, <4>2 DEF Goto, TypeOK
        <5> QED
          BY <1>1, <5>1 DEF Goto, TypeOK
      <4> QED
        BY <4>1, <4>2
    <3>2. \E place \in {"head", "handle", "body"} : Goto(k, place)
      BY <2>3
    <3> QED
      BY <1>9, <1>10, <1>12, <2>3, <3>1, <3>2
  <2> QED
    BY <1>9, <1>11, <2>1, <2>2, <2>3

\* While a body is read, what comes is of that body.
LEMMA TakeBodyInv ==
  ASSUME Inv, NEW k \in Client, TakeBody(k)
  PROVE  Inv'
<1> DEFINE place == IF at[k] = "body" /\ left[k] = 1 THEN "handle" ELSE at[k]
<1>1. /\ TypeOK /\ ConnectionInv(k) /\ at[k] \in {"body", "stream"}
      /\ wire[k] # <<>> /\ wire[k] \in Seq(Piece) /\ left[k] \in Nat \ {0}
      /\ Len(taken[k]) \in 0..Len(sent[k]) /\ toSend[k] \in Nat
  <2>1. TypeOK /\ ConnectionInv(k) /\ at[k] \in {"body", "stream"} /\ wire[k] # <<>> /\ left[k] > 0
    BY DEF Inv, TakeBody
  <2>2. wire[k] \in Seq(Piece) /\ left[k] \in Nat /\ toSend[k] \in Nat /\ Len(taken[k]) \in Nat
    BY <2>1 DEF TypeOK
  <2>3. Len(sent[k]) \in Nat /\ Len(taken[k]) <= Len(sent[k])
    BY <2>1, SentIsTyped DEF ConnectionInv, CountsFollow
  <2> QED
    BY <2>1, <2>2, <2>3
<1>2. /\ wire' = [wire EXCEPT ![k] = Tail(@)]
      /\ left' = [left EXCEPT ![k] = @ - 1]
      /\ at' = [at EXCEPT ![k] = place]
      /\ UNCHANGED <<client, sent, toSend, read, answers, taken, cut, slots, reset>>
  BY DEF TakeBody, Goto, Stay, clientVars
<1>3. /\ left' \in [Client -> Nat] /\ left'[k] = left[k] - 1 /\ \A j \in Client \ {k} : left'[j] = left[j]
  BY <1>1, <1>2 DEF TypeOK
<1>4. /\ wire' \in [Client -> Seq(Piece)] /\ wire'[k] = Tail(wire[k])
      /\ \A j \in Client \ {k} : wire'[j] = wire[j]
  BY <1>1, <1>2 DEF TypeOK
<1>5. at' \in [Client -> Place] /\ at'[k] = place /\ \A j \in Client \ {k} : at'[j] = at[j]
  BY <1>1, <1>2 DEF TypeOK, Place, Serving
<1>6. place \in {"body", "stream", "handle"} /\ (place = "handle" => left'[k] = 0) /\ (place = "stream" => at[k] = "stream")
  BY <1>1, <1>3
<1> HIDE DEF place
<1>7. TypeOK' /\ Elsewhere(k) /\ SlotStep(k)
  BY <1>1, <1>2, <1>3, <1>4, <1>5, <1>6 DEF TypeOK, Elsewhere, SlotStep, Serving
<1>8. WireFollows(k)'
  <2>1. PICK S : Rest(Len(taken[k]), sent[k], wire[k], left[k], toSend[k], S)
    BY <1>1 DEF ConnectionInv, WireFollows, Reading
  <2>2. sent[k] \in Seq(RequestType)
    BY <1>1, SentIsTyped
  <2>3. \E R : Rest(Len(taken[k]), sent[k], Tail(wire[k]), left[k] - 1, toSend[k], R)
    BY <1>1, <2>1, <2>2, TakeABody
  <2> QED
    BY <1>2, <1>3, <1>4, <2>3 DEF WireFollows
<1>9. LeftFollows(k)'
  BY <1>1, <1>2, <1>5, <1>6 DEF ConnectionInv, LeftFollows, Current
<1>10. (BodiesAreSent(k) /\ CountsFollow(k) /\ EarlyAnswersLinger(k))'
  BY <1>1, <1>2, <1>5, <1>6 DEF ConnectionInv, BodiesAreSent, CountsFollow, EarlyAnswersLinger
<1>11. (TakenInOrder(k) /\ AnsweredInOrder(k))'
  BY <1>1, <1>2 DEF ConnectionInv, TakenInOrder, AnsweredInOrder
<1> QED
  BY <1>7, <1>8, <1>9, <1>10, <1>11, Whole DEF ConnectionInv

LEMMA BeginInv ==
  ASSUME Inv, NEW k \in Client, Begin(k)
  PROVE  Inv'
<1>1. /\ TypeOK /\ ConnectionInv(k) /\ at[k] = "handle"
      /\ UNCHANGED <<client, sent, toSend, read, wire, answers, taken, left, cut, slots, reset>>
  BY DEF Inv, Begin, Stay, clientVars
<1>2. PICK place \in {"poll", "stream"} :
        /\ at' = [at EXCEPT ![k] = place]
        /\ place = "poll" => Current(k).kind = "poll"
        /\ place = "stream" => Current(k).kind = "put"
  BY DEF Begin, Goto
<1>3. at' \in [Client -> Place] /\ at'[k] = place /\ \A j \in Client \ {k} : at'[j] = at[j]
  BY <1>1, <1>2 DEF TypeOK, Place, Serving
<1>4. TypeOK' /\ Elsewhere(k) /\ SlotStep(k)
  BY <1>1, <1>3 DEF TypeOK, Elsewhere, SlotStep, Serving
<1>5. WireFollows(k)'
  BY <1>1, <1>3 DEF ConnectionInv, WireFollows, Reading
<1>6. LeftFollows(k)'
  BY <1>1, <1>2, <1>3 DEF ConnectionInv, LeftFollows, Current
<1>7. (BodiesAreSent(k) /\ CountsFollow(k) /\ EarlyAnswersLinger(k))'
  BY <1>1, <1>3 DEF ConnectionInv, BodiesAreSent, CountsFollow, EarlyAnswersLinger
<1>8. (TakenInOrder(k) /\ AnsweredInOrder(k))'
  BY <1>1 DEF ConnectionInv, TakenInOrder, AnsweredInOrder
<1> QED
  BY <1>4, <1>5, <1>6, <1>7, <1>8, Whole DEF ConnectionInv

\* After an answer the next request is read, unless this one's body is unread, or it
\* was the last.
LEMMA ReplyInv ==
  ASSUME Inv, NEW k \in Client, at[k] \in {"handle", "poll", "stream"},
         NEW status \in {"ok", "refused"}, Reply(k, status)
  PROVE  Inv'
<1>1. /\ TypeOK /\ ConnectionInv(k) /\ wire[k] \in Seq(Piece)
      /\ taken' = taken /\ taken[k] \in Seq(Piece) /\ taken \in [Client -> Seq(Piece)]
      /\ Send(k, status, Unread(k)) /\ AfterAnswer(k)
      /\ UNCHANGED <<client, sent, toSend, read, cut>> /\ UNCHANGED clientVars
      /\ status \in Status /\ Unread(k) \in BOOLEAN
  BY DEF Inv, TypeOK, Reply, clientVars, Status, Unread
<1>2. Len(taken'[k]) = Len(answers[k]) + 1 /\ Len(taken'[k]) <= Len(sent[k]) /\ Len(answers[k]) \in Nat
  BY <1>1 DEF ConnectionInv, CountsFollow, TypeOK
<1>3. TakenInOrder(k)'
  BY <1>1 DEF ConnectionInv, TakenInOrder
<1>4. /\ answers' \in [Client -> Seq(Answer)]
      /\ \A j \in Client \ {k} : answers'[j] = answers[j]
      /\ Len(answers'[k]) = Len(answers[k]) + 1
      /\ AnsweredInOrder(k)'
      /\ ~Unread(k) => \A i \in 1..Len(answers'[k]) :
           ~answers'[k][i].closing
  BY <1>1, <1>2, Sent
<1>5. CASE ~Unread(k) /\ Current(k).close
  <2>1. End(k, wire[k]) /\ Send(k, status, FALSE)
    BY <1>1, <1>5 DEF AfterAnswer, GoOn
  <2> QED
    BY <1>1, <1>2, <1>3, <2>1, AnsweredEndInv
<1>6. CASE Unread(k) \/ ~Current(k).close
  <2>1. PICK place \in {"linger", "idle"}, u \in Nat :
          /\ at' = [at EXCEPT ![k] = place] /\ left' = [left EXCEPT ![k] = u]
          /\ place = "idle" => u = 0 /\ ~Unread(k)
          /\ UNCHANGED <<wire, slots, reset>>
    <3>1. CASE Unread(k)
      BY <1>1, <3>1, ConnectionAssumption DEF AfterAnswer, Goto, Stay
    <3>2. CASE ~Unread(k)
      BY <1>1, <1>6, <3>2 DEF AfterAnswer, GoOn, Goto, Stay
    <3> QED
      BY <3>1, <3>2
  <2>2. /\ at' \in [Client -> Place] /\ at'[k] = place /\ \A j \in Client \ {k} : at'[j] = at[j]
    BY <1>1, <2>1 DEF TypeOK, Place, Serving
  <2>3. /\ left' \in [Client -> Nat] /\ left'[k] = u /\ \A j \in Client \ {k} : left'[j] = left[j]
    BY <1>1, <2>1 DEF TypeOK
  <2>4. TypeOK' /\ Elsewhere(k) /\ SlotStep(k)
    BY <1>1, <1>4, <2>1, <2>2, <2>3 DEF TypeOK, Elsewhere, SlotStep, Serving
  <2>5. WireFollows(k)'
    <3> SUFFICES ASSUME place = "idle" PROVE WireFollows(k)'
      BY <2>2 DEF WireFollows, Reading
    <3>1. left[k] = 0 /\ left'[k] = 0
      BY <1>1, <2>1, <2>3 DEF ConnectionInv, LeftFollows, Unread, TypeOK
    <3> QED
      BY <1>1, <2>1, <3>1 DEF ConnectionInv, WireFollows, Reading
  <2>6. LeftFollows(k)'
    BY <2>1, <2>2, <2>3 DEF LeftFollows
  <2>7. CountsFollow(k)'
    BY <1>1, <1>2, <1>4, <2>2 DEF ConnectionInv, CountsFollow, TypeOK
  <2>8. EarlyAnswersLinger(k)'
    BY <1>1, <1>4, <2>1, <2>2 DEF ConnectionInv, EarlyAnswersLinger
  <2>9. BodiesAreSent(k)'
    BY <1>1 DEF ConnectionInv, BodiesAreSent
  <2> QED
    BY <1>3, <1>4, <2>4, <2>5, <2>6, <2>7, <2>8, <2>9, Whole DEF ConnectionInv
<1> QED
  BY <1>5, <1>6

-----------------------------------------------------------------------------
(***************************************************************************)
(* The theorems.                                                           *)
(***************************************************************************)

LEMMA InitInv == Init => Inv
<1> SUFFICES ASSUME Init PROVE Inv
  OBVIOUS
<1> USE DEF Init
<1>1. TypeOK
  BY ConnectionAssumption DEF TypeOK, Place
<1>2. IsFiniteSet(Held) /\ SlotsAreHeld
  <2>1. Held = {}
    BY DEF Held, Serving
  <2>2. IsFiniteSet(Held) /\ Cardinality(Held) = 0
    BY <2>1, FS_EmptySet
  <2>3. SlotsAreHeld
    BY <2>2, ConnectionAssumption DEF SlotsAreHeld, Held
  <2> QED
    BY <2>2, <2>3
<1>3. ASSUME NEW k \in Client PROVE ConnectionInv(k)
  <2>1. WireFollows(k)
    <3> DEFINE S == [j \in 1..1 |-> 1]
    <3>1. Rest(0, <<>>, <<>>, 0, 0, S)
      BY DEF Rest
    <3> QED
      BY <3>1 DEF WireFollows
  <2>2. BodiesAreSent(k) /\ CountsFollow(k) /\ LeftFollows(k) /\ EarlyAnswersLinger(k)
    BY DEF BodiesAreSent, CountsFollow, LeftFollows, EarlyAnswersLinger
  <2>3. TakenInOrder(k) /\ AnsweredInOrder(k)
    BY DEF TakenInOrder, AnsweredInOrder
  <2> QED
    BY <2>1, <2>2, <2>3 DEF ConnectionInv
<1> QED
  BY <1>1, <1>2, <1>3 DEF Inv

LEMMA NextInv == Inv /\ [Next]_vars => Inv'
<1> SUFFICES ASSUME Inv, [Next]_vars PROVE Inv'
  OBVIOUS
<1>1. ASSUME NEW k \in Client, ClientStep(k) PROVE Inv'
  BY <1>1, ConnectInv, SendHeadInv, SendBodyInv, KeepBodyInv, ReadAnswerInv, LeaveInv DEF ClientStep
<1>2. ASSUME NEW k \in Client, ServerStep(k) PROVE Inv'
  <2>1. CASE Accept(k) \/ AcceptFails(k) \/ Refuse(k)
    BY <2>1, AcceptInv, TurnedAwayInv
  <2>2. CASE TakeHead(k) \/ TakeBody(k) \/ TimeOut(k)
    BY <2>2, TakeHeadInv, TakeBodyInv, TimeOutInv
  <2>3. CASE CloseIdle(k) \/ Truncated(k) \/ Gone(k) \/ WriteFails(k)
    BY <2>3, CloseIdleInv
  <2>4. CASE Begin(k)
    BY <2>4, BeginInv
  <2>5. CASE Handle(k) \/ AnswerPoll(k) \/ AnswerPut(k)
    BY <2>5, ReplyInv DEF Handle, AnswerPoll, AnswerPut
  <2>6. CASE LingerOn(k) \/ LingerOut(k)
    BY <2>6, LingerOnInv, LingerOutInv
  <2> QED
    BY <1>2, <2>1, <2>2, <2>3, <2>4, <2>5, <2>6 DEF ServerStep
<1>3. CASE UNCHANGED vars
  <2>1. ASSUME NEW k \in Client PROVE ConnectionInv(k)'
    <3>1. ConnectionInv(k)
      BY DEF Inv
    <3> QED
      BY <1>3, <3>1 DEF vars, ConnectionInv, WireFollows, BodiesAreSent, CountsFollow, LeftFollows,
         Current, EarlyAnswersLinger, TakenInOrder, AnsweredInOrder
  <2> QED
    BY <1>3, <2>1 DEF Inv, vars, TypeOK, SlotsAreHeld, Held
<1> QED
  BY <1>1, <1>2, <1>3 DEF Next

\* The inductive invariant holds always.
THEOREM InvAlways == Spec => []Inv
  BY InitInv, NextInv, PTL DEF Spec

\* Each variable has values of its kind.
THEOREM TypeCorrect == Spec => []TypeOK
<1>1. Inv => TypeOK
  BY DEF Inv
<1> QED
  BY <1>1, InvAlways, PTL

\* Whatever its clients pipeline, leave unsent or break off, and whatever it refuses or
\* leaves unread: what the server takes for requests are the requests that were
\* sent, in order and each once, and its answers are to them, in that order (connection
\* in main.rs, read_request in http.rs).
THEOREM RequestsAreServedInOrder == Spec => []OnlyRequestsAreServed
<1>1. Inv => OnlyRequestsAreServed
  BY DEF Inv, ConnectionInv, TakenInOrder, AnsweredInOrder, OnlyRequestsAreServed
<1> QED
  BY <1>1, InvAlways, PTL

\* However many connect, the connections that are served hold a slot each, and nobody
\* else does; so there are never more than MAX_CONNECTIONS of them, and no slot is lost
\* (Connections and Slot in main.rs).
THEOREM NoSlotIsLost == Spec => []SlotsAreHeld
<1>1. Inv => SlotsAreHeld
  BY DEF Inv
<1> QED
  BY <1>1, InvAlways, PTL

\* The early answer to an upload is destroyed by nothing but its client's going on
\* sending after linger() has given up (linger in main.rs).
THEOREM EarlyAnswersAreNotDestroyed == Spec => []EarlyAnswersArrive
<1>1. Inv => EarlyAnswersArrive
  <2> SUFFICES ASSUME Inv, NEW k \in Client, \E a \in Lost(k) : a.closing
               PROVE  cut[k]
    BY DEF EarlyAnswersArrive
  <2>1. TypeOK /\ EarlyAnswersLinger(k)
    BY DEF Inv, ConnectionInv
  <2>2. reset[k] /\ \E i \in (read[k] + 1)..Len(answers[k]) :
          answers[k][i].closing
    BY DEF Lost
  <2>3. \A i \in (read[k] + 1)..Len(answers[k]) : i \in 1..Len(answers[k])
    BY <2>1 DEF TypeOK
  <2> QED
    BY <2>1, <2>2, <2>3 DEF EarlyAnswersLinger
<1> QED
  BY <1>1, InvAlways, PTL
=============================================================================
