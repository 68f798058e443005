------------------------------ MODULE Download ------------------------------
(***************************************************************************)
(* `board get HASH -o FILE [--resume]` (bin/board/blobs.rs get, client.rs  *)
(* open) against the board's downloads (bin/board-server/blobs.rs          *)
(* download, span): a download goes to FILE.part, stays there when it      *)
(* breaks off, is resumed with a Range, hashed as it goes and renamed to   *)
(* FILE once the hash is right.  What it prints then is left out.          *)
(*                                                                         *)
(* A user runs it again and again, one at a time, while the blob is        *)
(* evicted and stored again, the transfer breaks off, the program is       *)
(* killed, the power fails, and what lies in FILE.part is damaged.  The    *)
(* blob is a sequence of pieces; Bad is a piece of something else.         *)
(* Upload.tla has how the blob comes to the board, and the specification.  *)
(* Neither uses a name of Blobs.tla, so that one module can extend both.   *)
(***************************************************************************)
EXTENDS Naturals, Sequences

CONSTANTS Pieces,    \* of the blob
          MaxFaults  \* bound: kills, power failures, damage, answers with the whole blob

ASSUME DownloadAssumption == Pieces \in Nat \ {0} /\ MaxFaults \in Nat

VARIABLES
  stored,  \* what the board has under the hash of the blob, or None
  file,    \* FILE
  part,    \* FILE.part; one that is empty is as one that is not there
  synced,  \* what of them is on the disk: "part", "file"
  step,    \* where the command is
  resume,  \* whether it was told to resume
  hashed,  \* what its hasher has seen
  coming,  \* what of the answer's body is still to come
  moved,   \* whether any of it has come
  faults

board == <<stored>>
disk == <<file, part, synced>>
command == <<step, resume, hashed, coming, moved>>
downloadVars == <<disk, command, faults>>

Bad == 0
None == <<>>
TheBlob == [i \in 1..Pieces |-> i]

GetPlace == {"away", "asking", "opening", "copying", "checking", "renaming"}

\* Each variable has values of its kind.
DownloadTypeOK ==
  /\ resume \in BOOLEAN /\ moved \in BOOLEAN
  /\ {stored, file, part, hashed, coming} \subseteq Seq(0..Pieces)
  /\ synced \subseteq {"part", "file"}
  /\ step \in GetPlace
  /\ faults \in 0..MaxFaults

DownloadInit ==
  /\ stored \in {None, TheBlob}
  /\ file = None /\ part = None /\ synced = {"part", "file"}
  /\ step = "away" /\ resume = FALSE
  /\ hashed = None /\ coming = None /\ moved = FALSE
  /\ faults = 0

Fault == faults < MaxFaults /\ faults' = faults + 1

\* The command ends.
End == step' = "away" /\ hashed' = None /\ coming' = None /\ UNCHANGED <<resume, moved>>

----------------------------------------------------------------------------
(* The command. *)

\* kept(): what an earlier download left is hashed again.
Kept == part

\* It starts; only a part that is there needs the blob's size.
BeginGet(r) ==
  /\ step = "away"
  /\ resume' = r
  /\ hashed' = IF r THEN Kept ELSE None
  /\ step' = IF hashed' # None THEN "asking" ELSE "opening"
  /\ coming' = None /\ moved' = FALSE
  /\ UNCHANGED <<board, disk, faults>>

\* Mutant: a part that is too long is kept.
StartOver_Never == FALSE

\* A part longer than the blob is no start of it.
StartOver == stored # None /\ Len(hashed) > Pieces

\* /blobs/<hash>: the blob's size, or nothing of it.
AskSize ==
  /\ step = "asking"
  /\ hashed' = IF StartOver THEN None ELSE hashed
  /\ step' = IF stored # None /\ Len(hashed) = Pieces THEN "copying" ELSE "opening"
  /\ UNCHANGED <<board, disk, resume, coming, moved, faults>>

\* Damaged(s): s, with one piece of it something else.
Damaged(s) == {[s EXCEPT ![i] = Bad] : i \in DOMAIN s}

\* span() of `bytes=<from>-`: nothing lies past the end.
Satisfiable(from) == from < Pieces

\* The board answers with the rest, or with all of it; what it has on its disk
\* may be damaged.  A part that is not gone on with is emptied.
Open ==
  /\ step = "opening"
  /\ stored # None
  /\ hashed = None \/ Satisfiable(Len(hashed))
  /\ \E whole \in BOOLEAN, sent \in {stored} \cup Damaged(stored) :
       /\ hashed = None => whole
       /\ IF sent # stored \/ (whole /\ hashed # None) THEN Fault ELSE UNCHANGED faults
       /\ coming' = IF whole THEN sent ELSE SubSeq(sent, Len(hashed) + 1, Pieces)
       /\ hashed' = IF whole THEN None ELSE hashed
       /\ part' = IF whole THEN None ELSE part
       /\ synced' = IF whole THEN synced \ {"part"} ELSE synced
  /\ step' = "copying"
  /\ UNCHANGED <<board, file, resume, moved>>

\* It has no such blob, or the part asks for what lies past its end.
Refused ==
  /\ step = "opening"
  /\ stored = None \/ (hashed # None /\ ~Satisfiable(Len(hashed)))
  /\ End
  /\ UNCHANGED <<board, disk, faults>>

\* copy_hashed(): a chunk is hashed and appended to the part.
Copy ==
  /\ step = "copying" /\ coming # None
  /\ part' = Append(part, Head(coming))
  /\ hashed' = Append(hashed, Head(coming))
  /\ coming' = Tail(coming)
  /\ synced' = synced \ {"part"}
  /\ moved' = TRUE
  /\ UNCHANGED <<board, file, step, resume, faults>>

\* The transfer breaks off, or stands still for DOWNLOAD_TIMEOUT; the part stays.
\* One that never brings anything is not modelled.
Break ==
  /\ step = "copying" /\ coming # None
  /\ moved
  /\ End
  /\ UNCHANGED <<board, disk, faults>>

\* Mutant: the part is not synced.
Sync_Not ==
  /\ step = "copying" /\ coming = None
  /\ step' = "checking"
  /\ UNCHANGED <<board, disk, resume, hashed, coming, moved, faults>>

\* All has come, and is synced.
Sync ==
  /\ step = "copying" /\ coming = None
  /\ synced' = synced \cup {"part"}
  /\ step' = "checking"
  /\ UNCHANGED <<board, file, part, resume, hashed, coming, moved, faults>>

\* Bytes that hash to something else are deleted,
Mismatch ==
  /\ step = "checking" /\ hashed # TheBlob
  /\ part' = None
  /\ End
  /\ UNCHANGED <<board, file, synced, faults>>

\* and the others are moved to FILE.
Rename ==
  /\ step = "checking" /\ hashed = TheBlob
  /\ file' = part /\ part' = None
  /\ synced' = IF "part" \in synced THEN {"part", "file"} ELSE {"part"}
  /\ End
  /\ UNCHANGED <<board, faults>>

Step == AskSize \/ Open \/ Refused \/ Copy \/ Sync \/ Mismatch \/ Rename

----------------------------------------------------------------------------
(* What befalls it. *)

Kill ==
  /\ step # "away"
  /\ Fault
  /\ End
  /\ UNCHANGED <<board, disk>>

\* Loses(s): what a power failure may leave of what was not synced.
Loses(s) == {s} \cup Damaged(s) \cup {SubSeq(s, 1, n) : n \in 0..Len(s)}

\* What was not synced is lost or damaged; a rename may be undone.
PowerFails ==
  /\ Fault
  /\ \/ /\ part' \in IF "part" \in synced THEN {part} ELSE Loses(part)
        /\ file' \in IF "file" \in synced THEN {file} ELSE Loses(file)
     \/ /\ file # None /\ part = None
        /\ part' = file /\ file' = None
  /\ synced' = {"part", "file"}
  /\ End
  /\ UNCHANGED board

\* Between two runs FILE.part is damaged, or is another file altogether.
Damage ==
  /\ step = "away"
  /\ Fault
  /\ part' \in Damaged(part) \cup {Append(part, Bad)} \cup {[i \in 1..Pieces + 1 |-> Bad]}
  /\ UNCHANGED <<board, file, synced, command>>

\* A run of the command, and what befalls it and its files.
Download ==
  \/ AskSize \/ Open \/ Refused \/ Copy \/ Break \/ Sync \/ Mismatch \/ Rename
  \/ Kill \/ PowerFails \/ Damage

----------------------------------------------------------------------------
(* What a download promises. *)

\* FILE never holds anything but the whole blob: not what an earlier run left
\* damaged, not half of it after a power failure.
FileIsTheBlob == file \in {None, TheBlob}

\* Whoever keeps resuming gets there, however often the transfer breaks off and
\* whatever lay in FILE.part, once the blob stays on the board.
ResumedDownloadsArrive == <>[](stored # None /\ resume) => <>(file = TheBlob)
=============================================================================
