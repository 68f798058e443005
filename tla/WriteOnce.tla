------------------------------ MODULE WriteOnce ------------------------------
(***************************************************************************)
(* What the message board promises the maker of a signed write             *)
(* (bin/board/write.rs and the documentation of store.rs): it is made at   *)
(* most once however often it is sent; a success is reported of a write    *)
(* that was made; and a refusal is final, but for one: a write that wants  *)
(* for a file may be made yet.  SignedWrite.tla implements it.             *)
(***************************************************************************)

CONSTANTS Writer,   \* the commands, each with one write to make
          Same      \* for each, the commands whose write stands for its own

VARIABLES made,     \* how often each write was made: 0 or 1
          told      \* what its maker knows: "nothing", "yes", "no", "not yet"

vars == <<made, told>>

Init ==
  /\ made = [w \in Writer |-> 0]
  /\ told = [w \in Writer |-> "nothing"]

\* A write is made once, and not after a refusal that is final.  It may be
\* made when its maker has given up without an answer.
Make(w) ==
  /\ made[w] = 0
  /\ told[w] \in {"nothing", "not yet"}
  /\ made' = [made EXCEPT ![w] = 1]
  /\ UNCHANGED told

TellYes(w) ==
  /\ told[w] = "nothing"
  /\ \E v \in Same[w] : made[v] = 1
  /\ told' = [told EXCEPT ![w] = "yes"]
  /\ UNCHANGED made

TellNo(w) ==
  /\ told[w] = "nothing"
  /\ made[w] = 0
  /\ told' = [told EXCEPT ![w] = "no"]
  /\ UNCHANGED made

\* It was not made when that was found; it may be by when that is told.
TellNotYet(w) ==
  /\ told[w] = "nothing"
  /\ told' = [told EXCEPT ![w] = "not yet"]
  /\ UNCHANGED made

Next == \E w \in Writer : Make(w) \/ TellYes(w) \/ TellNo(w) \/ TellNotYet(w)

\* Whatever changes is one of these.
Spec == Init /\ [][vars' # vars => Next]_vars
=============================================================================
