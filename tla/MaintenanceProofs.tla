-------------------------- MODULE MaintenanceProofs --------------------------
(***************************************************************************)
(* The theorems of Maintenance.tla, for every set of sessions and of blobs *)
(* and every bound: its type invariant, its safety invariants, and that no *)
(* good file is lost while the server is away.                             *)
(*                                                                         *)
(* The invariant is about three things.  A program that has asked and gone *)
(* on has a unit that is down, unless it was between two servers then or   *)
(* another session may start it (QuietWhileAtWork).  What a session has    *)
(* deleted stays deleted until its file is removed (TheDeletedStayDeleted).*)
(* And what the repair has seen is as it saw it, or better, as long as no  *)
(* program met the server (TheRepairIsRight).                              *)
(***************************************************************************)
EXTENDS Maintenance, TLAPS

----------------------------------------------------------------------------
(* The inductive invariant. *)

\* The unit's state tells of its server's; a session waits only for a unit that
\* is stopping, and starts only one that it stopped.
UnitAndServer ==
  /\ server = "down" <=> unit \in {"inactive", "restarting"}
  /\ \A s \in Session : pc[s] = "waiting" => unit = "stopping"
  /\ \A s \in Session : pc[s] \in {"noting", "starting"} => s \in stopped

\* Where a program takes the unit for stopped.
GoneOn ==
  {"probing", "freeing", "browsing", "confirming", "deleted", "recorded",
   "index", "walk", "look", "move", "forget"}

\* The two ways in which it may be wrong.
Thus(p) == p \in between \/ stopped \ {p} # {}

\* A program that goes on has a unit that is down, but for those.
QuietWhileAtWork ==
  \A p \in Program : pc[p] \in GoneOn => Thus(p) \/ unit = "inactive"

\* Whoever met the server did so thus, and has worked since it asked.
MetAtWork ==
  \A p \in met : p \in Program /\ pc[p] \notin {"away", "asked"} /\ Thus(p)

\* The blob a session has deleted has no row again before its file is removed,
\* unless the session met the server.
TheDeletedStayDeleted ==
  \A s \in Session :
    pc[s] \in {"deleted", "recorded"} /\ s \notin met => shown[s] \notin row

\* A broken file has its row, or a session deleted it; what the repair has dealt
\* with is not broken.
BrokenFilesAreKnown ==
  /\ \A b \in Blob : file[b] \in {"bad", "cut"} => b \in row \cup deleted
  /\ \A b \in done : file[b] \notin {"bad", "cut"}

\* The repair's looks and findings, after each of its steps.
TheRepairIsRight ==
  met = {} =>
    /\ pc[Fsck] \in {"walk", "look"} => row \subseteq index
    /\ pc[Fsck] = "look" => \A b \in row : b \in present <=> file[b] # "none"
    /\ pc[Fsck] \in {"move", "forget"} =>
         \A b \in row : file[b] = "good" <=> b \notin report
    /\ pc[Fsck] = "audit" => \A b \in row : file[b] = "good"

Inv ==
  /\ TypeOK
  /\ pc \in [Program -> SessionPlace \cup FsckPlace]
  /\ UnitAndServer /\ QuietWhileAtWork /\ MetAtWork
  /\ TheDeletedStayDeleted /\ BrokenFilesAreKnown /\ TheRepairIsRight

----------------------------------------------------------------------------
(* What a step of each kind may do. *)

\* The service: it ends or starts its server, and writes to the store while it
\* is up.
LEMMA ServicesMay ==
  ASSUME Inv, Services
  PROVE  /\ Remember
         /\ \A p \in Program :
              \/ pc'[p] = pc[p]
              \/ pc[p] = "waiting" /\ pc'[p] = "freeing" /\ unit' = "inactive"
         /\ \A s \in Session : pc'[s] = "waiting" => unit' = "stopping"
         /\ UNCHANGED sessionVars /\ UNCHANGED repairVars
         /\ server' = "down" <=> unit' \in {"inactive", "restarting"}
         /\ unit = "inactive" => unit' = "inactive"
         /\ UNCHANGED store \/ server' = "up"
         /\ \A b \in Blob : \/ file'[b] = file[b] /\ (b \in row' <=> b \in row)
                            \/ file'[b] = "none" /\ b \notin row'
                            \/ file'[b] = "good" /\ b \notin row
<1> USE DEF Inv, TypeOK, Program, UnitAndServer, Svc!TypeOK, Svc!UnitState, Svc!ServerState
<1>1. CASE ServerStarts
  BY <1>1 DEF ServerStarts, Svc!Start, Svc!Ready, store
<1>2. CASE ServerStops
  BY <1>2 DEF ServerStops, Svc!Exit, store
<1>3. CASE ServerFails
  BY <1>3 DEF ServerFails, Svc!Exit, Svc!Close, store
<1>4. CASE ServerEnds
  BY <1>4 DEF ServerEnds, Svc!Exit, store
<1>5. ASSUME NEW b \in Blob, ServerWrites(b)
      PROVE  /\ Remember /\ pc' = pc /\ UNCHANGED sessionVars /\ UNCHANGED repairVars
             /\ UNCHANGED serviceVars /\ server' = "up"
             /\ \A c \in Blob : \/ file'[c] = file[c] /\ (c \in row' <=> c \in row)
                                \/ file'[c] = "none" /\ c \notin row'
                                \/ file'[c] = "good" /\ c \notin row
  BY <1>5 DEF ServerWrites, serviceVars
<1>6. CASE \E b \in Blob : ServerWrites(b)
  BY <1>5, <1>6 DEF serviceVars
<1> QED
  BY <1>1, <1>2, <1>3, <1>4, <1>6 DEF Services

\* A session: it moves on by itself, leaves the repair alone, stops the unit, or
\* starts it at its end, and takes rows and the files of what it has deleted.
LEMMA SessionsMay ==
  ASSUME Inv, NEW s \in Session, SessionStep(s)
  PROVE  /\ Remember
         /\ \A p \in Program \ {s} : pc'[p] = pc[p]
         /\ pc'[s] \in {"away", "asked"} => pc[s] \in {"away", "asked"}
         /\ pc'[s] \in GoneOn => pc[s] \in GoneOn \/ s \in between' \/ unit' = "inactive"
         /\ pc'[s] = "waiting" => unit' = "stopping"
         /\ pc'[s] \in {"noting", "starting"} => s \in stopped
         /\ UNCHANGED <<index, present, report, done>>
         /\ server' = "down" <=> unit' \in {"inactive", "restarting"}
         /\ unit = "stopping" => unit' = "stopping"
         /\ unit = "inactive" /\ unit' # "inactive" => s \in stopped /\ pc'[s] = "over"
         /\ stopped \subseteq stopped' /\ deleted \subseteq deleted'
         /\ row' \subseteq row /\ row \subseteq row' \cup deleted'
         /\ \A t \in Session \ {s} : shown'[t] = shown[t]
         /\ pc'[s] \in {"deleted", "recorded"} =>
              \/ shown'[s] \notin row'
              \/ pc[s] \in {"deleted", "recorded"} /\ shown'[s] = shown[s]
         /\ \A b \in Blob : \/ file'[b] = file[b]
                            \/ pc[s] = "recorded" /\ shown[s] = b /\ file'[b] = "none"
<1> USE DEF Inv, TypeOK, Program, UnitAndServer, GoneOn, SessionPlace,
            Svc!TypeOK, Svc!UnitState, Svc!ServerState,
            NoRepair, repairVars, serviceVars, sessionVars, store
<1>1. CASE Begin(s)
  BY <1>1, MaintenanceAssumption DEF Begin
<1>2. CASE IsActive(s)
  BY <1>2, MaintenanceAssumption DEF IsActive, Asked, Remember
<1>3. CASE Probe(s)
  BY <1>3, MaintenanceAssumption DEF Probe, IsLive
<1>4. CASE StopUnit(s)
  BY <1>4, MaintenanceAssumption DEF StopUnit, Svc!Stop, Go
<1>5. CASE StopFails(s)
  BY <1>5, MaintenanceAssumption DEF StopFails
<1>6. CASE Free(s)
  BY <1>6, MaintenanceAssumption DEF Free, Go
<1>7. CASE Record(s)
  BY <1>7, MaintenanceAssumption DEF Record, Go
<1>8. CASE Unlink(s)
  BY <1>8, MaintenanceAssumption DEF Unlink, Go
<1>9. CASE Quit(s)
  BY <1>9, MaintenanceAssumption DEF Quit, Go
<1>10. CASE Close(s)
  BY <1>10, MaintenanceAssumption DEF Close, Go
<1>11. CASE Restarting(s)
  BY <1>11, MaintenanceAssumption DEF Restarting, Go
<1>12. CASE StartUnit(s)
  BY <1>12, MaintenanceAssumption DEF StartUnit, Svc!Start, Go
<1>13. CASE Signal(s)
  BY <1>13, MaintenanceAssumption DEF Signal
<1>14. CASE HangUp(s)
  BY <1>14, MaintenanceAssumption DEF HangUp
<1>15. CASE Cancel(s)
  BY <1>15, MaintenanceAssumption DEF Cancel, Go
<1>16. CASE Delete(s)
  BY <1>16, MaintenanceAssumption DEF Delete, Go
<1>17. CASE \E b \in Blob : Show(s, b)
  BY <1>17, MaintenanceAssumption DEF Show, Go
<1> QED
  BY <1>1, <1>2, <1>3, <1>4, <1>5, <1>6, <1>7, <1>8, <1>9, <1>10, <1>11, <1>12, <1>13, <1>14, <1>15, <1>16, <1>17 DEF SessionStep, SessionGoesOn

\* The repair: it leaves the sessions and the service alone, moves aside files it
\* has reported, and drops the rows of those it has dealt with.
LEMMA RepairsMay ==
  ASSUME Inv, FsckStep
  PROVE  /\ Remember
         /\ \A s \in Session : pc'[s] = pc[s]
         /\ UNCHANGED serviceVars /\ UNCHANGED sessionVars
         /\ pc'[Fsck] # "away"
         /\ pc'[Fsck] \in GoneOn => pc[Fsck] \in GoneOn \/ Fsck \in between' \/ unit' = "inactive"
         /\ row' \subseteq row /\ row \subseteq row' \cup done
         /\ \A b \in done' : b \in done \/ file'[b] = "none"
         /\ \A b \in Blob : \/ file'[b] = file[b]
                            \/ pc[Fsck] = "move" /\ b \in report /\ file'[b] = "none"
<1> USE DEF Inv, TypeOK, Program, UnitAndServer, GoneOn, FsckPlace,
            Svc!TypeOK, Svc!UnitState, Svc!ServerState,
            Repairs, repairVars, serviceVars, sessionVars, store
<1>1. CASE Begin(Fsck)
  BY <1>1, MaintenanceAssumption DEF Begin
<1>2. CASE IsActive(Fsck)
  BY <1>2, MaintenanceAssumption DEF IsActive, Asked, Remember
<1>3. CASE Probe(Fsck)
  BY <1>3, MaintenanceAssumption DEF Probe, IsLive
<1>4. CASE ReadIndex
  BY <1>4, MaintenanceAssumption DEF ReadIndex, Go
<1>5. CASE Walk
  BY <1>5, MaintenanceAssumption DEF Walk, Go
<1>6. CASE Look
  BY <1>6, MaintenanceAssumption DEF Look, Go
<1>7. CASE Recheck
  BY <1>7, MaintenanceAssumption DEF Recheck, Go
<1>8. CASE EndRepair
  BY <1>8, MaintenanceAssumption DEF EndRepair, Go
<1>9. CASE RepairFails
  BY <1>9, MaintenanceAssumption DEF RepairFails, AtWork
<1>10. CASE \E b \in Blob : Move(b)
  BY <1>10, MaintenanceAssumption DEF Move, Go
<1>11. CASE \E b \in Blob : Forget(b)
  BY <1>11, MaintenanceAssumption DEF Forget, Go
<1>12. CASE \E b \in Blob : RecordRepair(b)
  BY <1>12, MaintenanceAssumption DEF RecordRepair, Go
<1> QED
  BY <1>1, <1>2, <1>3, <1>4, <1>5, <1>6, <1>7, <1>8, <1>9, <1>10, <1>11, <1>12 DEF FsckStep

----------------------------------------------------------------------------
(* The type invariant. *)

LEMMA InitTypeOK == Init => TypeOK /\ pc \in [Program -> SessionPlace \cup FsckPlace]
  BY MaintenanceAssumption
     DEF Init, TypeOK, Program, SessionPlace, FsckPlace, File,
         Svc!TypeOK, Svc!UnitState, Svc!ServerState

\* The history is of programs.
LEMMA RememberTypeOK ==
  ASSUME Remember
  PROVE  between' \subseteq Program /\ met' \subseteq Program
  BY DEF Remember

LEMMA NextTypeOK ==
  ASSUME Inv, Next
  PROVE  TypeOK' /\ pc' \in [Program -> SessionPlace \cup FsckPlace]
<1> USE MaintenanceAssumption, RememberTypeOK
    DEF Inv, TypeOK, Program, SessionPlace, FsckPlace, File,
        Svc!TypeOK, Svc!UnitState, Svc!ServerState,
        NoRepair, Repairs, repairVars, serviceVars, sessionVars, store
<1>1. CASE Services
  <2>1. CASE ServerStarts
    BY <2>1 DEF ServerStarts, Svc!Start, Svc!Ready
  <2>2. CASE ServerStops
    BY <2>2 DEF ServerStops, Svc!Exit
  <2>3. CASE ServerFails
    BY <2>3 DEF ServerFails, Fault, Svc!Exit, Svc!Close
  <2>4. CASE ServerEnds
    BY <2>4 DEF ServerEnds, Svc!Exit
  <2>5. CASE \E b \in Blob : ServerWrites(b)
    BY <2>5 DEF ServerWrites
  <2> QED
    BY <1>1, <2>1, <2>2, <2>3, <2>4, <2>5 DEF Services
<1>2. CASE FsckStep
  <2>1. CASE Begin(Fsck)
    BY <2>1 DEF Begin
  <2>2. CASE IsActive(Fsck)
    BY <2>2 DEF IsActive, Asked
  <2>3. CASE Probe(Fsck)
    BY <2>3 DEF Probe, IsLive
  <2>4. CASE ReadIndex
    BY <2>4 DEF ReadIndex, Go
  <2>5. CASE Walk
    BY <2>5 DEF Walk, Go
  <2>6. CASE Look
    BY <2>6 DEF Look, Missing, Wrong, Go
  <2>7. CASE Recheck
    BY <2>7 DEF Recheck, Go
  <2>8. CASE EndRepair
    BY <2>8 DEF EndRepair, Go
  <2>9. CASE RepairFails
    BY <2>9 DEF RepairFails, Fault
  <2>10. CASE \E b \in Blob : Move(b)
    BY <2>10 DEF Move, Go
  <2>11. CASE \E b \in Blob : Forget(b)
    BY <2>11 DEF Forget, Go
  <2>12. CASE \E b \in Blob : RecordRepair(b)
    BY <2>12 DEF RecordRepair, Go
  <2> QED
    BY <1>2, <2>1, <2>2, <2>3, <2>4, <2>5, <2>6, <2>7, <2>8, <2>9, <2>10, <2>11, <2>12 DEF FsckStep
<1>3. ASSUME NEW s \in Session, SessionStep(s)
      PROVE  TypeOK' /\ pc' \in [Program -> SessionPlace \cup FsckPlace]
  <2>1. CASE Begin(s)
    BY <2>1 DEF Begin
  <2>2. CASE IsActive(s)
    BY <2>2 DEF IsActive, Asked
  <2>3. CASE Probe(s)
    BY <2>3 DEF Probe, IsLive
  <2>4. CASE StopUnit(s)
    BY <2>4 DEF StopUnit, Svc!Stop, Go
  <2>5. CASE StopFails(s)
    BY <2>5 DEF StopFails, Fault
  <2>6. CASE Free(s)
    BY <2>6 DEF Free, Go
  <2>7. CASE Record(s)
    BY <2>7 DEF Record, Fault, Go
  <2>8. CASE Unlink(s)
    BY <2>8 DEF Unlink, Go
  <2>9. CASE Quit(s)
    BY <2>9 DEF Quit, Go
  <2>10. CASE Close(s)
    BY <2>10 DEF Close, Go
  <2>11. CASE Restarting(s)
    BY <2>11 DEF Restarting, Go
  <2>12. CASE StartUnit(s)
    BY <2>12 DEF StartUnit, Fault, Svc!Start, Go
  <2>13. CASE Signal(s)
    BY <2>13 DEF Signal
  <2>14. CASE HangUp(s)
    BY <2>14 DEF HangUp
  <2>15. CASE Cancel(s)
    BY <2>15 DEF Cancel, Go
  <2>16. CASE Delete(s)
    BY <2>16 DEF Delete, Go
  <2>17. CASE \E b \in Blob : Show(s, b)
    BY <2>17 DEF Show, Go
  <2> QED
    BY <1>3, <2>1, <2>2, <2>3, <2>4, <2>5, <2>6, <2>7, <2>8, <2>9, <2>10, <2>11, <2>12, <2>13, <2>14, <2>15, <2>16, <2>17 DEF SessionStep, SessionGoesOn
<1> QED
  BY <1>1, <1>2, <1>3 DEF Next

----------------------------------------------------------------------------
(* The service, and who meets it. *)

LEMMA UnitAndServerStays == ASSUME Inv, Next PROVE UnitAndServer'
<1> USE DEF UnitAndServer, Program, sessionVars, serviceVars
<1>1. CASE Services
  BY <1>1, ServicesMay DEF Inv
<1>2. CASE FsckStep
  BY <1>2, RepairsMay DEF Inv
<1>3. ASSUME NEW s \in Session, SessionStep(s)
      PROVE  UnitAndServer'
  BY <1>3, SessionsMay DEF Inv
<1> QED
  BY <1>1, <1>2, <1>3 DEF Next

\* Whatever a program is excused by stays until it asks again.
LEMMA ThusStays ==
  ASSUME Inv, Next, NEW p \in Program, Thus(p), pc'[p] # "asked"
  PROVE  Thus(p)'
<1>1. Remember /\ stopped \subseteq stopped'
  BY ServicesMay, RepairsMay, SessionsMay DEF Next, sessionVars
<1> QED
  BY <1>1 DEF Thus, Remember

LEMMA QuietStays == ASSUME Inv, Next PROVE QuietWhileAtWork'
<1> SUFFICES ASSUME NEW p \in Program, pc'[p] \in GoneOn
             PROVE  Thus(p)' \/ unit' = "inactive"
  BY DEF QuietWhileAtWork, Program
<1>1. CASE Thus(p)
  BY <1>1, ThusStays DEF GoneOn
<1>2. ASSUME pc[p] \in GoneOn, ~Thus(p)
      PROVE  unit = "inactive"
  BY <1>2 DEF Inv, QuietWhileAtWork
<1>3. CASE Services /\ ~Thus(p)
  BY <1>2, <1>3, ServicesMay
<1>4. CASE FsckStep /\ ~Thus(p)
  BY <1>2, <1>4, RepairsMay DEF Thus, serviceVars, Program
<1>5. ASSUME NEW s \in Session, SessionStep(s), ~Thus(p), p = s
      PROVE  Thus(p)' \/ unit' = "inactive"
  BY <1>2, <1>5, SessionsMay DEF Thus, GoneOn
\* The unit is started only by a session that stopped it.
<1>6. ASSUME NEW s \in Session, SessionStep(s), ~Thus(p), p # s
      PROVE  Thus(p)' \/ unit' = "inactive"
  <2>1. pc'[p] = pc[p] /\ stopped \subseteq stopped'
    BY <1>6, SessionsMay
  <2>2. unit = "inactive"
    BY <1>2, <1>6, <2>1
  <2> QED
    BY <1>6, <2>1, <2>2, SessionsMay DEF Thus
<1> QED
  BY <1>1, <1>3, <1>4, <1>5, <1>6 DEF Next

LEMMA MetStays == ASSUME Inv, Next PROVE MetAtWork'
<1> SUFFICES ASSUME NEW p \in met'
             PROVE  p \in Program /\ pc'[p] \notin {"away", "asked"} /\ Thus(p)'
  BY DEF MetAtWork
<1>1. Remember
  BY ServicesMay, RepairsMay, SessionsMay DEF Next
<1>2. /\ p \in Program
      /\ p \in met \/ (AtWork(p)' /\ server' # "down")
      /\ pc'[p] # "asked"
  BY <1>1 DEF Remember
<1>3. CASE p \in met
  <2>1. Thus(p) /\ pc[p] \notin {"away", "asked"}
    BY <1>3 DEF Inv, MetAtWork
  <2>2. pc'[p] # "away"
    <3>1. CASE Services
      BY <1>2, <2>1, <3>1, ServicesMay
    <3>2. CASE FsckStep
      BY <1>2, <2>1, <3>2, RepairsMay DEF Program
    <3>3. ASSUME NEW s \in Session, SessionStep(s)
          PROVE  pc'[p] # "away"
      BY <1>2, <2>1, <3>3, SessionsMay
    <3> QED
      BY <3>1, <3>2, <3>3 DEF Next
  <2> QED
    BY <1>2, <2>1, <2>2, ThusStays
<1>4. CASE AtWork(p)' /\ server' # "down"
  <2>1. pc'[p] \in GoneOn /\ pc'[p] # "away"
    BY <1>4 DEF AtWork, GoneOn
  <2>2. unit' # "inactive"
    BY <1>4, UnitAndServerStays DEF UnitAndServer
  <2> QED
    BY <1>2, <2>1, <2>2, QuietStays DEF QuietWhileAtWork
<1> QED
  BY <1>2, <1>3, <1>4

----------------------------------------------------------------------------
(* The store. *)

\* Who works while the server is there meets it.
LEMMA TheyMeet ==
  ASSUME Remember, NEW p \in Program, AtWork(p)', server' # "down"
  PROVE  p \in met'
  BY DEF Remember, AtWork

\* Who met it is forgotten only when it asks again.
LEMMA MetUntilAsked ==
  ASSUME Remember, NEW p \in Program, p \in met, pc'[p] # "asked"
  PROVE  p \in met'
  BY DEF Remember

LEMMA TheDeletedStay == ASSUME Inv, Next PROVE TheDeletedStayDeleted'
<1> SUFFICES ASSUME NEW s \in Session, pc'[s] \in {"deleted", "recorded"}, s \notin met'
             PROVE  shown'[s] \notin row'
  BY DEF TheDeletedStayDeleted
<1>1. Remember
  BY ServicesMay, RepairsMay, SessionsMay DEF Next
<1>2. s \notin met
  BY <1>1, MetUntilAsked DEF Program
<1>3. ASSUME pc[s] \in {"deleted", "recorded"}
      PROVE  shown[s] \notin row
  BY <1>2, <1>3 DEF Inv, TheDeletedStayDeleted
<1>4. CASE Services
  <2>1. server' # "up"
    BY <1>1, TheyMeet DEF AtWork, Program
  <2> QED
    BY <1>3, <1>4, <2>1, ServicesMay DEF store, sessionVars, Program
<1>5. CASE FsckStep
  BY <1>3, <1>5, RepairsMay DEF sessionVars
<1>6. ASSUME NEW t \in Session, SessionStep(t)
      PROVE  shown'[s] \notin row'
  BY <1>3, <1>6, SessionsMay DEF Program
<1> QED
  BY <1>4, <1>5, <1>6 DEF Next

LEMMA BrokenStays == ASSUME Inv, Next PROVE BrokenFilesAreKnown'
<1> USE DEF Inv, TypeOK, BrokenFilesAreKnown
<1>1. CASE Services
  BY <1>1, ServicesMay DEF sessionVars, repairVars
<1>2. CASE FsckStep
  BY <1>2, RepairsMay DEF sessionVars
<1>3. ASSUME NEW s \in Session, SessionStep(s)
      PROVE  BrokenFilesAreKnown'
  BY <1>3, SessionsMay
<1> QED
  BY <1>1, <1>2, <1>3 DEF Next

\* If nobody has met the server, nobody had, or the repair begins.
LEMMA NobodyMet ==
  ASSUME Inv, Next, met' = {}
  PROVE  met = {} \/ pc'[Fsck] = "asked"
<1>1. Remember
  BY ServicesMay, RepairsMay, SessionsMay DEF Next
<1>2. ASSUME NEW s \in Session, s \in met
      PROVE  pc'[s] # "asked"
  <2>1. pc[s] \notin {"away", "asked"}
    BY <1>2 DEF Inv, MetAtWork
  <2> QED
    BY <2>1, ServicesMay, RepairsMay, SessionsMay DEF Next, Program
<1>3. met \subseteq Program
  BY DEF Inv, TypeOK
<1> QED
  BY <1>1, <1>2, <1>3, MetUntilAsked DEF Program

\* Beside a repair at work, rows only go, and with them files, unless someone
\* meets the server.
LEMMA BesideTheRepair ==
  ASSUME Inv, Services \/ \E s \in Session : SessionStep(s), met' = {}, met = {}
  PROVE  /\ pc'[Fsck] = pc[Fsck] /\ UNCHANGED <<index, present, report, done>>
         /\ AtWork(Fsck) => row' \subseteq row
         /\ \A b \in row' : file'[b] = file[b] \/ (file'[b] = "good" /\ ~AtWork(Fsck))
         /\ \A b \in row' \ row : file'[b] = "good"
<1> USE MaintenanceAssumption DEF Program
<1>1. CASE Services
  <2>1. pc'[Fsck] = pc[Fsck]
    BY <1>1, ServicesMay DEF Inv, TypeOK, FsckPlace
  <2>2. ASSUME AtWork(Fsck)
        PROVE  server' # "up"
    BY <1>1, <2>1, <2>2, ServicesMay, TheyMeet DEF AtWork
  <2>3. row' \subseteq Blob
    BY <1>1, NextTypeOK DEF Next, TypeOK
  <2> QED
    BY <1>1, <2>1, <2>2, <2>3, ServicesMay DEF store, repairVars
<1>2. ASSUME NEW s \in Session, SessionStep(s)
      PROVE  /\ pc'[Fsck] = pc[Fsck] /\ UNCHANGED <<index, present, report, done>>
             /\ row' \subseteq row
             /\ \A b \in row' : file'[b] = file[b]
  <2>1. pc[s] = "recorded" => shown[s] \notin row
    BY DEF Inv, TheDeletedStayDeleted
  <2>2. row \subseteq Blob
    BY DEF Inv, TypeOK
  <2> QED
    BY <1>2, <2>1, <2>2, SessionsMay
<1> QED
  BY <1>1, <1>2
LEMMA RightStays == ASSUME Inv, Next PROVE TheRepairIsRight'
<1> SUFFICES ASSUME met' = {} PROVE TheRepairIsRight'
  BY DEF TheRepairIsRight
<1>1. CASE pc'[Fsck] = "asked"
  BY <1>1 DEF TheRepairIsRight
<1>2. CASE met = {} /\ FsckStep
  <2> USE <1>2 DEF TheRepairIsRight, Inv, TypeOK, File, Program, Repairs, store, repairVars
  <2>1. CASE Begin(Fsck)
    BY <2>1 DEF Begin
  <2>2. CASE IsActive(Fsck)
    BY <2>2 DEF IsActive, Asked
  <2>3. CASE Probe(Fsck)
    BY <2>3 DEF Probe
  <2>4. CASE ReadIndex
    BY <2>4 DEF ReadIndex, Go
  <2>5. CASE Walk
    BY <2>5 DEF Walk, Go
  <2>6. CASE Look
    BY <2>6 DEF Look, Missing, Wrong, Go
  <2>7. CASE Recheck
    BY <2>7 DEF Recheck, Go
  <2>8. CASE EndRepair
    BY <2>8 DEF EndRepair, Go
  <2>9. CASE RepairFails
    BY <2>9 DEF RepairFails
  <2>10. CASE \E b \in Blob : Move(b)
    BY <2>10 DEF Move, Go
  <2>11. CASE \E b \in Blob : Forget(b)
    BY <2>11 DEF Forget, Go
  <2>12. CASE \E b \in Blob : RecordRepair(b)
    BY <2>12 DEF RecordRepair, Go
  <2> QED
    BY <2>1, <2>2, <2>3, <2>4, <2>5, <2>6, <2>7, <2>8, <2>9, <2>10, <2>11, <2>12 DEF FsckStep
<1>3. CASE met = {} /\ (Services \/ \E s \in Session : SessionStep(s))
  <2> USE <1>3 DEF TheRepairIsRight, Inv
  <2>1. /\ pc'[Fsck] = pc[Fsck] /\ UNCHANGED <<index, present, report, done>>
        /\ \A b \in row' \ row : file'[b] = "good"
    BY BesideTheRepair
  <2>2. CASE AtWork(Fsck)
    <3>1. row' \subseteq row /\ \A b \in row' : file'[b] = file[b]
      BY <2>2, BesideTheRepair
    <3> QED
      BY <2>1, <3>1
  <2>3. CASE ~AtWork(Fsck)
    <3>1. \A b \in row' : file'[b] = file[b] \/ file'[b] = "good"
      BY <2>3, BesideTheRepair
    <3> QED
      BY <2>1, <2>3, <3>1 DEF AtWork
  <2> QED
    BY <2>2, <2>3
<1> QED
  BY <1>1, <1>2, <1>3, NobodyMet DEF Next

----------------------------------------------------------------------------
(* The theorems. *)

LEMMA InitInv == Init => Inv
<1> SUFFICES ASSUME Init PROVE Inv
  OBVIOUS
<1>1. UnitAndServer /\ QuietWhileAtWork /\ MetAtWork /\ TheDeletedStayDeleted
  BY MaintenanceAssumption
     DEF Init, UnitAndServer, QuietWhileAtWork, GoneOn, MetAtWork, TheDeletedStayDeleted, Program
<1>2. BrokenFilesAreKnown /\ TheRepairIsRight
  BY MaintenanceAssumption DEF Init, BrokenFilesAreKnown, TheRepairIsRight, Program
<1> QED
  BY <1>1, <1>2, InitTypeOK DEF Inv

LEMMA NextInv == Inv /\ [Next]_vars => Inv'
<1> SUFFICES ASSUME Inv, [Next]_vars PROVE Inv'
  OBVIOUS
<1>1. CASE Next
  BY <1>1, NextTypeOK, UnitAndServerStays, QuietStays, MetStays, TheDeletedStay, BrokenStays,
     RightStays DEF Inv
<1>2. CASE UNCHANGED vars
  <2> USE <1>2 DEF Inv, vars, serviceVars, sessionVars, store, repairVars
  <2>1. TypeOK' /\ (pc \in [Program -> SessionPlace \cup FsckPlace])'
    BY DEF TypeOK, Svc!TypeOK
  <2>2. UnitAndServer' /\ QuietWhileAtWork' /\ MetAtWork'
    BY DEF UnitAndServer, QuietWhileAtWork, MetAtWork, Thus
  <2>3. TheDeletedStayDeleted' /\ BrokenFilesAreKnown' /\ TheRepairIsRight'
    BY DEF TheDeletedStayDeleted, BrokenFilesAreKnown, TheRepairIsRight
  <2> QED
    BY <2>1, <2>2, <2>3
<1> QED
  BY <1>1, <1>2

\* The inductive invariant holds in every reachable state: while a program works on
\* the board the unit is down, or one of two things has happened; what a session
\* deleted and what the repair found stays so while they work on it.
THEOREM InvAlways == Spec => []Inv
  BY InitInv, NextInv, PTL DEF Spec

\* Every variable keeps to its values, whatever the sessions, the repair, systemd
\* and the server do, and in whatever order.
THEOREM TypeCorrect == Spec => []TypeOK
  BY InvAlways, PTL DEF Inv

\* A program that has the database open meets a server only because the unit was
\* between two servers, or being stopped, when the program asked, or because another
\* session stopped the unit and may start it again (is_active, is_live, service.rs).
THEOREM ServerIsMetOnlyThus == Spec => []ServerMeetsOnlyThus
<1>1. Inv => ServerMeetsOnlyThus
  BY DEF Inv, MetAtWork, ServerMeetsOnlyThus, Thus
<1> QED
  BY <1>1, InvAlways, PTL

\* A repair that met no server leaves no row without its good file; and one that was
\* cut short leaves every broken file under its row for the next (quarantine, fsck.rs).
THEOREM RepairsFindAll == Spec => []RepairFindsAll
<1>1. Inv => RepairFindsAll
  BY DEF Inv, TheRepairIsRight, BrokenFilesAreKnown, RepairFindsAll
<1> QED
  BY <1>1, InvAlways, PTL

\* Neither a session's deletion, whose file goes last, nor the repair takes a good
\* file from a blob that keeps its row, unless a server was met (app.rs, fsck.rs).
THEOREM NoGoodFileIsLost == Spec => GoodBytesStay
<1>1. ASSUME Inv, Next,
             NEW b \in Blob, b \in row, b \in row', file[b] = "good", file'[b] # "good"
      PROVE  met # {}
  <2>1. CASE Services
    BY <1>1, <2>1, ServicesMay
  <2>2. CASE FsckStep
    BY <1>1, <2>2, RepairsMay DEF Inv, TheRepairIsRight
  <2>3. CASE \E s \in Session : SessionStep(s)
    BY <1>1, <2>3, SessionsMay DEF Inv, TheDeletedStayDeleted
  <2> QED
    BY <1>1, <2>1, <2>2, <2>3 DEF Next
<1>2. Inv /\ [Next]_vars =>
        [\A b \in Blob :
           /\ b \in row /\ b \in row'
           /\ file[b] = "good" /\ file'[b] # "good"
           => met # {}]_vars
  BY <1>1
<1> QED
  BY <1>2, InvAlways, PTL DEF Spec, GoodBytesStay

\* A session that stopped the unit and ends with its terminal there has started the
\* unit, or found it started, or said that it could not.
EndsStarted ==
  \A s \in Session :
    s \in stopped /\ pc[s] # "over" /\ pc'[s] = "over" /\ s \in terminal
      => unit' # "inactive" \/ s \in warned'

\* Any way out of a session that stopped the unit leads through the start of it, but
\* for a terminal that is gone: a failed stop, a failed deletion, a signal, a quit
\* (main.rs).  It is the safety that is in BoardComesBackOnATerminal.
THEOREM SessionsEndStarted == Spec => [][EndsStarted]_vars
<1>1. ASSUME Inv, Next, NEW s \in Session,
             s \in stopped, pc[s] # "over", pc'[s] = "over", s \in terminal
      PROVE  unit' # "inactive" \/ s \in warned'
  <2> USE <1>1, MaintenanceAssumption DEF Inv, TypeOK, Program
  <2>1. CASE Services
    BY <2>1, ServicesMay
  <2>2. CASE FsckStep
    BY <2>2, RepairsMay
  <2>3. CASE SessionStep(s)
    <3>1. CASE StartUnit(s)
      BY <3>1 DEF StartUnit, Svc!Start, serviceVars
    <3>2. CASE Close(s) \/ Restarting(s)
      BY <3>2 DEF Close, Restarting, Go
    <3>3. CASE IsActive(s) \/ Probe(s) \/ StopUnit(s) \/ StopFails(s) \/ Free(s)
      BY <3>3 DEF IsActive, Asked, Probe, StopUnit, StopFails, Free, Go
    <3>4. CASE Record(s) \/ Unlink(s) \/ Quit(s) \/ Cancel(s) \/ Delete(s) \/ \E b \in Blob : Show(s, b)
      BY <3>4 DEF Record, Unlink, Quit, Cancel, Delete, Show, Go
    <3>5. CASE Begin(s) \/ Signal(s) \/ HangUp(s)
      BY <3>5 DEF Begin, Signal, HangUp
    <3> QED
      BY <2>3, <3>1, <3>2, <3>3, <3>4, <3>5 DEF SessionStep, SessionGoesOn
  <2>4. ASSUME NEW t \in Session, t # s, SessionStep(t)
        PROVE  FALSE
    BY <2>4, SessionsMay
  <2> QED
    BY <2>1, <2>2, <2>3, <2>4 DEF Next
<1>2. Inv /\ [Next]_vars => [EndsStarted]_vars
  BY <1>1 DEF EndsStarted
<1> QED
  BY <1>2, InvAlways, PTL DEF Spec
=============================================================================
