-------------------------------- MODULE Names --------------------------------
(***************************************************************************)
(* Which names the board lets a key ask for, and which look alike          *)
(* (check_name, check_reserved, looks_alike and distance in store.rs).  A  *)
(* name is the sequence of its letters' codes.  Keys.tla takes names as    *)
(* opaque and this relation as a constant.                                 *)
(***************************************************************************)
LOCAL INSTANCE Naturals
LOCAL INSTANCE Sequences
LOCAL INSTANCE FiniteSetsExt

NameMax == 64      \* NAME_MAX
MinDistance == 3   \* MIN_DISTANCE

Upper == 65 .. 90
Digit == 48 .. 57
Hyphen == 45
Underscore == 95

Lower(a) == [i \in DOMAIN a |-> IF a[i] \in Upper THEN a[i] + 32 ELSE a[i]]

\* NAME_RULE: 1 to 64 letters, digits, hyphens and underscores, the first a
\* letter or a digit.
IsName(a) ==
  /\ Len(a) \in 1 .. NameMax
  /\ \A i \in DOMAIN a : Lower(a)[i] \in (97 .. 122) \cup Digit \cup {Hyphen, Underscore}
  /\ a[1] \notin {Hyphen, Underscore}

\* The distances of the first i letters of a from each start of b, from those
\* of the first i - 1.
Row(previous, a, b, i) ==
  LET row[j \in 0 .. Len(b)] ==
        IF j = 0 THEN i
        ELSE Min({previous[j] + 1, row[j - 1] + 1,
                  previous[j - 1] + (IF a[i] = b[j] THEN 0 ELSE 1)})
  IN row

\* The fewest insertions, deletions and substitutions that turn a into b.
Distance(a, b) ==
  LET rows[i \in 0 .. Len(a)] ==
        IF i = 0 THEN [j \in 0 .. Len(b) |-> j] ELSE Row(rows[i - 1], a, b, i)
  IN rows[Len(a)][Len(b)]

LooksAlike(a, b) == Distance(Lower(a), Lower(b)) < MinDistance

Board == <<98, 111, 97, 114, 100>>

IsReserved(a) == LooksAlike(a, Board)

-----------------------------------------------------------------------------
\* What distance() promises, put another way: the words one edit from a, over
\* an alphabet and no longer than n.
OneEdit(a, letters, n) ==
  LET without(i) == [k \in 1 .. (Len(a) - 1) |-> IF k < i THEN a[k] ELSE a[k + 1]]
      with(i, c) == [k \in 1 .. (Len(a) + 1) |-> IF k < i THEN a[k] ELSE IF k = i THEN c ELSE a[k - 1]]
  IN {without(i) : i \in DOMAIN a}
       \cup {[a EXCEPT ![i] = c] : i \in DOMAIN a, c \in letters}
       \cup (IF Len(a) < n THEN {with(i, c) : i \in 1 .. (Len(a) + 1), c \in letters} ELSE {})

\* The words within d edits of a.
Within(a, letters, n, d) ==
  LET within[e \in 0 .. d] ==
        IF e = 0 THEN {a}
        ELSE within[e - 1] \cup UNION {OneEdit(w, letters, n) : w \in within[e - 1]}
  IN within[d]

\* The distance is the least number of edits, between all words of up to n of
\* the letters.
DistanceIsFewestEdits(letters, n) ==
  LET words == UNION {[1 .. k -> letters] : k \in 0 .. n}
  IN \A a \in words : \A d \in 0 .. n :
       {b \in words : Distance(a, b) <= d} = Within(a, letters, n, d)
=============================================================================
