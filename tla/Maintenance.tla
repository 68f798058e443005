----------------------------- MODULE Maintenance -----------------------------
(***************************************************************************)
(* board-admin beside the message-board service (bin/board-admin/main.rs,  *)
(* service.rs, tui.rs, app.rs, audit.rs): sessions that stop the service,  *)
(* delete from the database and start it again, and the repair             *)
(* `fsck --deep --quarantine` (fsck.rs), which refuses while it is served. *)
(* Both work on the blob store: its rows, and its files.                   *)
(*                                                                         *)
(* The service is Service.tla's, which Server.tla implements; its uploads  *)
(* and deletes are single steps here (Blobs.tla has theirs).  Deletions of *)
(* messages and branches are Tree.tla's; a session's deletion is a blob's. *)
(* A session that is killed outright (SIGKILL) is not modelled: it says    *)
(* that nothing of it is promised.                                         *)
(***************************************************************************)
EXTENDS Naturals

CONSTANTS Session,    \* the sessions
          Fsck,       \* the repair, run one after another
          Blob,       \* the blobs, by their hashes
          MaxRuns,    \* bound: how often a session or the repair is run
          MaxFaults   \* bound: of the server, systemctl, the audit log, the repair

Program == Session \cup {Fsck}

ASSUME MaintenanceAssumption ==
  /\ Fsck \notin Session
  /\ MaxRuns \in Nat /\ MaxFaults \in Nat

VARIABLES
  unit, server, usable, \* the service; its file is a board's here
  pc,        \* where each program is
  stopped,   \* the sessions that stopped the unit (stopped, main.rs)
  between,   \* the programs that asked when the unit was between two servers (history)
  met,       \* the programs at work while there was a server (history)
  signalled, \* the sessions that were told to end
  terminal,  \* the sessions whose terminal is still there
  warned,    \* the sessions that said the unit was not started
  shown,     \* the blob on a session's screen
  row,       \* the blobs in the index
  file,      \* what each blob's file holds
  index, present, \* the repair's looks at the rows and the files
  report,    \* the blobs it found bad, still to be repaired
  done,      \* those it repaired, still to be recorded (done, fsck.rs)
  deleted,   \* the blobs sessions deleted (history)
  runs, faults

serviceVars == <<unit, server, usable>>
sessionVars == <<stopped, signalled, terminal, warned, shown, deleted>>
repairVars == <<index, present, report, done, runs>>
store == <<row, file>>
vars == <<serviceVars, pc, between, met, sessionVars, store, repairVars, faults>>

Svc == INSTANCE Service

File == {"none", "good", "bad", "cut"}

SessionPlace ==
  {"away", "asked", "stopping", "waiting", "probing", "freeing", "browsing", "confirming",
   "deleted", "recorded", "closing", "noting", "starting", "over"}
FsckPlace ==
  {"away", "asked", "probing", "index", "walk", "look", "move", "forget", "audit", "over"}

\* Each variable has values of its kind.
TypeOK ==
  /\ Svc!TypeOK
  /\ \A p \in Program : pc[p] \in IF p = Fsck THEN FsckPlace ELSE SessionPlace
  /\ stopped \subseteq Session /\ signalled \subseteq Session
  /\ terminal \subseteq Session /\ warned \subseteq Session
  /\ between \subseteq Program /\ met \subseteq Program
  /\ shown \in [Session -> Blob \cup {"none"}]
  /\ row \subseteq Blob /\ deleted \subseteq Blob
  /\ file \in [Blob -> File]
  /\ index \subseteq Blob /\ present \subseteq Blob
  /\ report \subseteq Blob /\ done \subseteq Blob
  /\ runs \in 0..MaxRuns /\ faults \in 0..MaxFaults

\* The board is served, and every blob is stored; the disk has lost some files,
\* or some of them.
Init ==
  /\ unit = "active" /\ server = "up" /\ usable = TRUE
  /\ pc = [p \in Program |-> "away"]
  /\ stopped = {} /\ signalled = {} /\ terminal = Session /\ warned = {}
  /\ between = {} /\ met = {}
  /\ shown = [s \in Session |-> "none"]
  /\ row = Blob /\ file \in [Blob -> File]
  /\ index = {} /\ present = {} /\ report = {}
  /\ done = {} /\ deleted = {}
  /\ runs = 0 /\ faults = 0

Fault == faults < MaxFaults /\ faults' = faults + 1

Go(p, from, to) == pc[p] = from /\ pc' = [pc EXCEPT ![p] = to]

\* What has the database open to write it.
AtWork(p) ==
  pc[p] \in {"browsing", "confirming", "deleted", "recorded",
             "index", "walk", "look", "move", "forget"}

\* What is remembered of a program until it is run again: that the unit was
\* between two servers when it asked, and that there was one while it worked.
Remember ==
  /\ between' = {p \in Program :
                   /\ \/ p \in between
                      \/ pc[p] = "asked" /\ pc'[p] = "probing" /\ unit \in {"restarting", "stopping"}
                   /\ pc'[p] # "asked"}
  /\ met' = {p \in Program :
               /\ p \in met \/ (AtWork(p)' /\ server' # "down")
               /\ pc'[p] # "asked"}

----------------------------------------------------------------------------
(* The service. *)

\* systemd restarts the unit, and its server opens the board.
ServerStarts ==
  /\ \/ unit = "restarting" /\ Svc!Start
     \/ Svc!Ready
  /\ UNCHANGED <<pc, sessionVars, store, repairVars, faults>>
  /\ Remember

\* The server of a stopped unit ends, and `systemctl stop` returns.
ServerStops ==
  /\ unit = "stopping"
  /\ Svc!Exit
  /\ pc' = [p \in Program |-> IF pc[p] = "waiting" THEN "freeing" ELSE pc[p]]
  /\ UNCHANGED <<sessionVars, store, repairVars, faults>>
  /\ Remember

\* It fails: with its board closed, or at once.
ServerFails ==
  /\ unit = "active"
  /\ Fault
  /\ Svc!Exit \/ Svc!Close
  /\ UNCHANGED <<pc, sessionVars, store, repairVars>>
  /\ Remember

ServerEnds ==
  /\ server = "closing" /\ unit = "active"
  /\ Svc!Exit
  /\ UNCHANGED <<pc, sessionVars, store, repairVars, faults>>
  /\ Remember

\* It stores a blob that has no row, or deletes or evicts one.
ServerWrites(b) ==
  /\ server = "up"
  /\ IF b \in row
       THEN row' = row \ {b} /\ file' = [file EXCEPT ![b] = "none"]
       ELSE row' = row \cup {b} /\ file' = [file EXCEPT ![b] = "good"]
  /\ UNCHANGED <<serviceVars, pc, sessionVars, repairVars, faults>>
  /\ Remember

----------------------------------------------------------------------------
(* Asking systemd and the port. *)

\* Whether something answers at the board's address: only a refused connection
\* counts as nothing there.
IsLive == server \in {"up", "closing"}

\* The database is checked and opened, and the first question is systemd's.
Begin(p) ==
  /\ pc[p] = "away" \/ (p = Fsck /\ pc[p] = "over")
  /\ pc' = [pc EXCEPT ![p] = "asked"]
  /\ runs < MaxRuns
  /\ runs' = runs + 1
  /\ UNCHANGED <<serviceVars, sessionVars, store, index, present, report, done,
                 faults>>
  /\ Remember

\* Where a program goes that has asked.  The session says that it stops the unit;
\* one whose terminal is gone fails there.
Asked(p, active) ==
  IF ~active THEN "probing"
  ELSE IF p = Fsck THEN "over"
  ELSE IF p \in terminal THEN "stopping" ELSE "closing"

\* Mutant: the repair only asks the port.
IsActive_PortOnly(p) ==
  /\ pc[p] = "asked"
  /\ pc' = [pc EXCEPT ![p] = Asked(p, unit = "active" /\ p # Fsck)]
  /\ stopped' = IF pc'[p] = "stopping" THEN stopped \cup {p} ELSE stopped
  /\ UNCHANGED <<serviceVars, signalled, terminal, warned, shown, deleted, store, repairVars,
                 faults>>
  /\ Remember

\* is_active(): a unit that is stopping, or waits to be restarted, is not.  That
\* the session stopped it is noted before it does.
IsActive(p) ==
  /\ pc[p] = "asked"
  /\ pc' = [pc EXCEPT ![p] = Asked(p, unit = "active")]
  /\ stopped' = IF pc'[p] = "stopping" THEN stopped \cup {p} ELSE stopped
  /\ UNCHANGED <<serviceVars, signalled, terminal, warned, shown, deleted, store, repairVars,
                 faults>>
  /\ Remember

\* Not active, but something answers: not ours to stop.
Probe(p) ==
  /\ pc[p] = "probing"
  /\ pc' = [pc EXCEPT ![p] = IF IsLive THEN IF p = Fsck THEN "over" ELSE "closing"
                             ELSE IF p = Fsck THEN "index"
                             ELSE IF p \in signalled THEN "closing" ELSE "browsing"]
  /\ UNCHANGED <<serviceVars, sessionVars, store, repairVars, faults>>
  /\ Remember

----------------------------------------------------------------------------
(* A session. *)

NoRepair == UNCHANGED repairVars

\* `systemctl stop`: it waits for the unit's server to end.
StopUnit(s) ==
  /\ IF unit \in {"active", "restarting"} THEN Svc!Stop ELSE UNCHANGED serviceVars
  /\ Go(s, "stopping", IF unit \in {"active", "stopping"} THEN "waiting" ELSE "freeing")
  /\ NoRepair
  /\ UNCHANGED <<sessionVars, store, faults>>
  /\ Remember

\* Mutant: the session returns at once when systemctl has failed.
StopFails_Returns(s) ==
  /\ pc[s] \in {"stopping", "waiting"}
  /\ Fault
  /\ pc' = [pc EXCEPT ![s] = "over"]
  /\ NoRepair
  /\ UNCHANGED <<serviceVars, sessionVars, store>>
  /\ Remember

\* systemctl fails, before systemd has begun the stop or after.
StopFails(s) ==
  /\ pc[s] \in {"stopping", "waiting"}
  /\ Fault
  /\ pc' = [pc EXCEPT ![s] = "closing"]
  /\ NoRepair
  /\ UNCHANGED <<serviceVars, sessionVars, store>>
  /\ Remember

\* The port is free, or is not after a while, or the session is told to end.
Free(s) ==
  /\ \/ s \in signalled /\ Go(s, "freeing", "closing")
     \/ ~IsLive /\ Go(s, "freeing", IF s \in signalled THEN "closing" ELSE "browsing")
     \/ IsLive /\ Go(s, "freeing", "closing")
  /\ NoRepair
  /\ UNCHANGED <<serviceVars, sessionVars, store, faults>>
  /\ Remember

\* The list of blobs, one of them, and its deletion's confirmation.  A session
\* that was told to end takes no further key; one it takes as the signal comes is
\* as one it took before.
Show(s, b) ==
  /\ b \in row
  /\ s \notin signalled
  /\ Go(s, "browsing", "confirming")
  /\ shown' = [shown EXCEPT ![s] = b]
  /\ NoRepair
  /\ UNCHANGED <<serviceVars, stopped, signalled, terminal, warned, deleted, store, faults>>
  /\ Remember

Cancel(s) ==
  /\ s \notin signalled
  /\ Go(s, "confirming", "browsing")
  /\ shown' = [shown EXCEPT ![s] = "none"]
  /\ NoRepair
  /\ UNCHANGED <<serviceVars, stopped, signalled, terminal, warned, deleted, store, faults>>
  /\ Remember

\* Mutant: the file goes first, whatever the store says then.
Delete_FileFirst(s) ==
  /\ s \notin signalled
  /\ \/ /\ shown[s] \in row
        /\ Go(s, "confirming", "deleted")
        /\ row' = row \ {shown[s]}
        /\ deleted' = deleted \cup {shown[s]}
     \/ /\ Go(s, "confirming", "browsing")
        /\ UNCHANGED <<row, deleted>>
  /\ file' = [file EXCEPT ![shown[s]] = "none"]
  /\ NoRepair
  /\ UNCHANGED <<serviceVars, stopped, signalled, terminal, warned, shown, faults>>
  /\ Remember

\* Confirmed: its row is deleted, or the store refuses (it is gone, or pinned).
Delete(s) ==
  /\ s \notin signalled
  /\ \/ /\ shown[s] \in row
        /\ Go(s, "confirming", "deleted")
        /\ row' = row \ {shown[s]}
        /\ deleted' = deleted \cup {shown[s]}
     \/ /\ Go(s, "confirming", "browsing")
        /\ UNCHANGED <<row, deleted>>
  /\ NoRepair
  /\ UNCHANGED <<serviceVars, stopped, signalled, terminal, warned, shown, file, faults>>
  /\ Remember

\* Audit::record(): a change that cannot be recorded ends the session.
Record(s) ==
  /\ \/ /\ Go(s, "deleted", "recorded")
        /\ UNCHANGED faults
     \/ /\ Go(s, "deleted", "closing")
        /\ Fault
  /\ NoRepair
  /\ UNCHANGED <<serviceVars, sessionVars, store>>
  /\ Remember

\* Then its file is removed.
Unlink(s) ==
  /\ Go(s, "recorded", "browsing")
  /\ file' = [file EXCEPT ![shown[s]] = "none"]
  /\ NoRepair
  /\ UNCHANGED <<serviceVars, sessionVars, row, faults>>
  /\ Remember

\* A key, a signal or a lost terminal ends it, between two keys.
Quit(s) ==
  /\ \/ Go(s, "browsing", "closing")
     \/ s \in signalled /\ Go(s, "confirming", "closing")
  /\ NoRepair
  /\ UNCHANGED <<serviceVars, sessionVars, store, faults>>
  /\ Remember

\* The database is closed, and a unit that was stopped is to be started.
Close(s) ==
  /\ Go(s, "closing", IF s \in stopped THEN "noting" ELSE "over")
  /\ NoRepair
  /\ UNCHANGED <<serviceVars, sessionVars, store, faults>>
  /\ Remember

\* The user is told first; a line that cannot be written ends the session.
Restarting(s) ==
  /\ Go(s, "noting", IF s \in terminal THEN "starting" ELSE "over")
  /\ NoRepair
  /\ UNCHANGED <<serviceVars, sessionVars, store, faults>>
  /\ Remember

\* `systemctl start`: a unit that is stopping is started after that; a failure
\* is a warning.
StartUnit(s) ==
  /\ unit # "stopping"
  /\ Go(s, "starting", "over")
  /\ \/ /\ IF unit = "active" THEN UNCHANGED serviceVars ELSE Svc!Start
        /\ UNCHANGED <<warned, faults>>
     \/ /\ Fault
        /\ warned' = warned \cup ({s} \cap terminal)
        /\ UNCHANGED serviceVars
  /\ NoRepair
  /\ UNCHANGED <<stopped, signalled, terminal, shown, deleted, store>>
  /\ Remember

\* A session is told to end by a signal, or because its terminal closes.
Signal(s) ==
  /\ s \notin signalled
  /\ pc[s] \notin {"away", "over"}
  /\ signalled' = signalled \cup {s}
  /\ UNCHANGED terminal
  /\ NoRepair
  /\ UNCHANGED <<serviceVars, pc, stopped, warned, shown, deleted, store, faults>>
  /\ Remember

HangUp(s) ==
  /\ s \in terminal
  /\ pc[s] \notin {"away", "over"}
  /\ signalled' = signalled \cup {s}
  /\ terminal' = terminal \ {s}
  /\ NoRepair
  /\ UNCHANGED <<serviceVars, pc, stopped, warned, shown, deleted, store, faults>>
  /\ Remember

SessionGoesOn(s) ==
  \/ IsActive(s) \/ Probe(s) \/ StopUnit(s) \/ Free(s) \/ Record(s) \/ Unlink(s)
  \/ s \in signalled /\ Quit(s)
  \/ Close(s) \/ Restarting(s) \/ StartUnit(s)

SessionStep(s) ==
  \/ Begin(s) \/ SessionGoesOn(s) \/ StopFails(s) \/ Signal(s) \/ HangUp(s)
  \/ \E b \in Blob : Show(s, b)
  \/ Cancel(s) \/ Delete(s) \/ Quit(s)

----------------------------------------------------------------------------
(* The repair: fsck --deep --quarantine. *)

Repairs == UNCHANGED <<serviceVars, sessionVars>>

ReadIndex ==
  /\ Go(Fsck, "index", "walk")
  /\ index' = row
  /\ Repairs
  /\ UNCHANGED <<store, present, report, done, runs, faults>>
  /\ Remember

Walk ==
  /\ Go(Fsck, "walk", "look")
  /\ present' = {b \in Blob : file[b] # "none"}
  /\ Repairs
  /\ UNCHANGED <<store, index, report, done, runs, faults>>
  /\ Remember

\* A row without a file is looked at again; a file is measured and hashed.  (A
\* file that goes away meanwhile is skipped here: the code's check fails.)
Missing == {b \in index \ present : b \in row}
Wrong == {b \in index \cap present : file[b] \in {"cut", "bad"}}

Look ==
  /\ Go(Fsck, "look", "move")
  /\ report' = Missing \cup Wrong
  /\ Repairs
  /\ UNCHANGED <<store, index, present, done, runs, faults>>
  /\ Remember

\* Mutant: the row is dropped first.
Move_RowFirst(b) ==
  /\ b \in report
  /\ Go(Fsck, "move", "forget")
  /\ row' = row \ {b}
  /\ done' = done \cup {b}
  /\ Repairs
  /\ UNCHANGED <<file, index, present, report, runs, faults>>
  /\ Remember

\* quarantine(), one finding after another: a file that is there is moved aside,
Move(b) ==
  /\ b \in report
  /\ Go(Fsck, "move", "forget")
  /\ IF file[b] = "none"
       THEN UNCHANGED file
       ELSE file' = [file EXCEPT ![b] = "none"]
  /\ done' = done \cup {b}
  /\ Repairs
  /\ UNCHANGED <<row, index, present, report, runs, faults>>
  /\ Remember

\* and its row is dropped.
Forget(b) ==
  /\ b \in report \cap done
  /\ Go(Fsck, "forget", "move")
  /\ row' = row \ {b}
  /\ report' = report \ {b}
  /\ Repairs
  /\ UNCHANGED <<file, index, present, done, runs, faults>>
  /\ Remember

\* All are dealt with, and the store is checked again.
Recheck ==
  /\ report = {}
  /\ Go(Fsck, "move", "audit")
  /\ Repairs
  /\ UNCHANGED <<store, repairVars, faults>>
  /\ Remember

RecordRepair(b) ==
  /\ b \in done
  /\ Go(Fsck, "audit", "audit")
  /\ done' = done \ {b}
  /\ Repairs
  /\ UNCHANGED <<store, index, present, report, runs, faults>>
  /\ Remember

EndRepair ==
  /\ done = {}
  /\ Go(Fsck, "audit", "over")
  /\ Repairs
  /\ UNCHANGED <<store, repairVars, faults>>
  /\ Remember

\* A step fails, or the repair is killed: what was done is not undone, and not
\* recorded either.
RepairFails ==
  /\ AtWork(Fsck) \/ pc[Fsck] = "audit"
  /\ Fault
  /\ pc' = [pc EXCEPT ![Fsck] = "over"]
  /\ done' = {} /\ report' = {}
  /\ Repairs
  /\ UNCHANGED <<store, index, present, runs>>
  /\ Remember

FsckStep ==
  \/ Begin(Fsck) \/ IsActive(Fsck) \/ Probe(Fsck)
  \/ ReadIndex \/ Walk \/ Look \/ Recheck \/ EndRepair \/ RepairFails
  \/ \E b \in Blob : Move(b) \/ Forget(b) \/ RecordRepair(b)

----------------------------------------------------------------------------
Services ==
  \/ ServerStarts \/ ServerStops \/ ServerFails \/ ServerEnds
  \/ \E b \in Blob : ServerWrites(b)

Next == Services \/ FsckStep \/ \E s \in Session : SessionStep(s)

\* systemd starts and stops what it is told to, and a session goes on, but for
\* its user.
Fairness ==
  /\ WF_vars(ServerStarts) /\ WF_vars(ServerStops) /\ WF_vars(ServerEnds)
  /\ \A s \in Session : WF_vars(SessionGoesOn(s))

Spec == Init /\ [][Next]_vars /\ Fairness

----------------------------------------------------------------------------
(* What the maintenance of a board keeps. *)

\* A session that stopped the unit has been told to end, or ends.
Stopping(s) ==
  s \in stopped /\ pc[s] # "over" /\ (s \in signalled \/ pc[s] = "closing")

Comes(s) == unit # "inactive" \/ s \in warned

\* However a session ends after it stopped the unit, it starts it again or says
\* that it could not: a quit, an error, Ctrl-C, a kill or the terminal closing.
\* The code breaks this: the line before the start is written to a terminal
\* that is gone.
BoardComesBack ==
  \A s \in Session :
    Stopping(s)
      ~> (pc[s] = "over" /\ Comes(s))

\* It does so whenever its terminal is still there.
BoardComesBackOnATerminal ==
  \A s \in Session :
    Stopping(s)
      ~> (s \notin terminal \/ (pc[s] = "over" /\ Comes(s)))

\* A server is there while a program works on the database only in the ways
\* that neither is_active() nor is_live() can see: the unit was between two of
\* its servers, or was being stopped by someone else, when the program asked; or
\* a session of someone else's, that stopped the unit, starts it again.
ServerMeetsOnlyThus ==
  \A p \in met :
    \/ p \in between
    \/ stopped \ {p} # {}

\* No program takes a good file from a blob that keeps its row, unless it met
\* the server.
GoodBytesStay ==
  [][\A b \in Blob :
       /\ b \in row /\ b \in row'
       /\ file[b] = "good" /\ file'[b] # "good"
       => met # {}]_vars

\* A repair that could do its work leaves no row without its good file; and a
\* bad file stays under its row until it is moved aside, so that a repair that
\* was cut short is made good by the next one.
RepairFindsAll ==
  /\ pc[Fsck] = "audit" /\ met = {} => \A b \in row : file[b] = "good"
  /\ \A b \in Blob : file[b] \in {"bad", "cut"} => b \in row \cup deleted
=============================================================================
