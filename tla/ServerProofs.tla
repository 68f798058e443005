---------------------------- MODULE ServerProofs ----------------------------
(***************************************************************************)
(* The theorems of Server.tla, for every set of requests, every schema     *)
(* version, every file a board can have left and every bound: its type     *)
(* invariant, its safety invariants, and that each of its steps is one     *)
(* that Service.tla allows.                                                *)
(***************************************************************************)
EXTENDS Server, TLAPS

\* The initial state has a value of its kind in each variable.
LEMMA InitTypeOK == Init => TypeOK
<1> SUFFICES ASSUME Init PROVE TypeOK
  OBVIOUS
<1>1. file \in FileType
  BY ServerAssumption DEF Init
<1>2. faults \in 0..MaxFaults /\ holds \in 0..MaxHeld /\ stops \in 0..MaxStops
  BY ServerAssumption DEF Init
<1> QED
  BY <1>1, <1>2 DEF Init, TypeOK, Stage, Told

\* The end of the process leaves one.
LEMMA EndedTypeOK ==
  ASSUME TypeOK, Ended
  PROVE  /\ at' \in Stage /\ setting' = NoOwner /\ signal' \in BOOLEAN /\ conn' \in {"none", "open", "closed"}
         /\ lock' \in Request \cup {"free"} /\ held' \in {"none", "server", "other"}
         /\ told' \in [Request -> Told]
         /\ pc' \in [Request -> {"away", "asked", "locked", "transaction", "committed",
                                 "fatal", "parked", "over"}]
         /\ unit' \in {"inactive", "active", "stopping", "restarting"}
         /\ file' = file /\ fresh' = fresh /\ written' = written
  BY DEF TypeOK, Ended, Stage, Told

\* So do the steps of run(),
LEMMA StartingTypeOK == TypeOK /\ Starting => TypeOK'
<1> SUFFICES ASSUME TypeOK, Starting
             PROVE  TypeOK'
  OBVIOUS
<1> USE ServerAssumption
<1>1. CASE Open
  BY <1>1 DEF Open, StartUp, TypeOK, Stage, bounds
<1>2. CASE NotABoard
  BY <1>2, EndedTypeOK DEF NotABoard, Refused, TypeOK, bounds
<1>3. CASE Stamp
  BY <1>3 DEF Stamp, StartUp, TypeOK, Stage, FileType, bounds
<1>4. CASE Migrate
  BY <1>4 DEF Migrate, StartUp, TypeOK, Stage, FileType, bounds
<1>5. CASE NoMigration
  BY <1>5, EndedTypeOK DEF NoMigration, Refused, TypeOK, bounds
<1>6. CASE Seed
  BY <1>6 DEF Seed, StartUp, TypeOK, Stage, FileType, bounds, Unseeded
<1>7. CASE BindOwner
  BY <1>7 DEF BindOwner, StartUp, TypeOK, Stage, FileType, bounds
<1>8. CASE Serve
  BY <1>8 DEF Serve, StartUp, TypeOK, Stage, bounds
<1>9. CASE StartBusy
  BY <1>9, EndedTypeOK DEF StartBusy, TypeOK, bounds
<1> QED
  BY <1>1, <1>2, <1>3, <1>4, <1>5, <1>6, <1>7, <1>8, <1>9 DEF Starting

\* and of a request.
LEMMA HandleTypeOK ==
  ASSUME TypeOK, NEW r \in Request, Ask(r) \/ Handle(r)
  PROVE  TypeOK'
<1> USE ServerAssumption DEF Step, Move, Tell
<1>1. CASE Ask(r)
  BY <1>1 DEF Ask, TypeOK
<1>2. CASE FindClosed(r)
  BY <1>2 DEF FindClosed, TypeOK, Told
<1>3. CASE Read(r)
  BY <1>3 DEF Read, Look, TypeOK, Told
<1>4. CASE Poll(r)
  BY <1>4 DEF Poll, TypeOK, Told
<1>5. CASE Wake(r)
  BY <1>5 DEF Wake, TypeOK
<1>6. CASE Expire(r)
  BY <1>6 DEF Expire, TypeOK, Told
<1>7. CASE Lock(r)
  BY <1>7 DEF Lock, TypeOK
<1>8. CASE Begin(r)
  BY <1>8 DEF Begin, TypeOK
<1>9. CASE Busy(r)
  BY <1>9 DEF Busy, TypeOK, Told
<1>10. CASE Refuse(r)
  BY <1>10 DEF Refuse, TypeOK, Told
<1>11. CASE Fail(r)
  BY <1>11 DEF Fail, TypeOK, Told
<1>12. CASE RollbackFails(r)
  BY <1>12 DEF RollbackFails, TypeOK, Told
<1>13. CASE Note(r)
  BY <1>13, EndedTypeOK DEF Note, TypeOK, bounds
<1>14. CASE Commit(r)
  BY <1>14 DEF Commit, TypeOK
<1>15. CASE Reply(r)
  BY <1>15 DEF Reply, TypeOK, Told
<1>16. CASE Render(r)
  BY <1>16 DEF Render, Look, TypeOK, Told
<1> QED
  BY <1>1, <1>2, <1>3, <1>4, <1>5, <1>6, <1>7, <1>8, <1>9, <1>10, <1>11, <1>12, <1>13,
     <1>14, <1>15, <1>16 DEF Handle

\* Every step leaves a value of its kind in each variable.
LEMMA NextTypeOK == TypeOK /\ [Next]_vars => TypeOK'
<1> SUFFICES ASSUME TypeOK, [Next]_vars
             PROVE  TypeOK'
  OBVIOUS
<1> USE ServerAssumption
<1>1. CASE Start
  BY <1>1 DEF Start, TypeOK, Stage, bounds
<1>2. CASE Stop
  <2>1. stops' \in 0..MaxStops
    BY <1>2 DEF Stop, TypeOK
  <2> QED
    BY <1>2, <2>1 DEF Stop, TypeOK
<1>3. CASE Crash
  BY <1>3, EndedTypeOK DEF Crash, TypeOK
<1>4. CASE HoldFile \/ LetGo
  BY <1>4 DEF HoldFile, LetGo, TypeOK, processVars, bounds
<1>5. CASE StopStarting \/ StopServing
  BY <1>5, EndedTypeOK DEF StopStarting, StopServing, TypeOK, bounds
<1>6. CASE CloseBoard
  BY <1>6 DEF CloseBoard, TypeOK, bounds
<1>7. CASE UNCHANGED vars
  BY <1>7 DEF vars, bounds, TypeOK
<1> QED
  BY <1>1, <1>2, <1>3, <1>4, <1>5, <1>6, <1>7, StartingTypeOK, HandleTypeOK DEF Next, Stopping

\* Every state the server reaches is well typed.
THEOREM TypeCorrect == Spec => []TypeOK
<1> QED
  BY InitTypeOK, NextTypeOK, PTL DEF Spec
-----------------------------------------------------------------------------
(***************************************************************************)
(* The inductive invariant.                                                *)
(***************************************************************************)

\* A request holds the mutex from Lock to the end of its transaction, on an open
\* connection, and the file while it is in the transaction.
LocksAreHeld ==
  /\ \A r \in Request : pc[r] \in {"locked", "transaction"} <=> lock = r
  /\ \A r \in Request : pc[r] = "transaction" => held = "server"
  /\ lock # "free" => conn = "open"

\* Only writes take it, only polls are parked, what was written is known, and
\* nobody is told before the end.
WritesFollow ==
  \A r \in Request :
    /\ pc[r] \in {"locked", "transaction", "committed", "fatal"} => Kind[r] \in {"write", "form"}
    /\ pc[r] = "parked" => Kind[r] = "poll"
    /\ pc[r] = "committed" => r \in written
    /\ r \in written => pc[r] \in {"committed", "over"}
    /\ pc[r] # "over" => told[r] = "nothing"

\* The process, its unit and its connection go together, and requests are under
\* way only while it serves.
LifeFollows ==
  /\ at = "down" <=> unit \in {"inactive", "restarting"}
  /\ at \in {"down", "starting"} => conn = "none"
  /\ at \in {"opened", "migrated", "seeded", "bound"} => conn = "open"
  /\ at = "serving" => conn # "none"
  /\ at # "serving" => \A r \in Request : pc[r] \in {"away", "over"}

\* What run() has seen to of the file, at each stage.
StagesFollow ==
  /\ Left(file)
  /\ at \notin {"down", "starting"} => file.schema # "other"
  /\ at = "opened" => fresh = (file.tables = 0)
  /\ at \in {"migrated", "seeded", "bound", "serving"} =>
       file.tables = Version /\ file.version = Version
  /\ at \in {"seeded", "bound", "serving"} => file.seeded
  /\ at \in {"bound", "serving"} => (setting \in Owner => file.owner = setting)

\* None of the safety properties is inductive alone; together with these they
\* are.
Inv ==
  /\ TypeOK
  /\ LocksAreHeld /\ WritesFollow /\ LifeFollows /\ StagesFollow
  /\ AnswersAreTrue /\ FileIsLetGo

-----------------------------------------------------------------------------
\* It holds at first.
LEMMA InitInv == Init => Inv
<1> SUFFICES ASSUME Init PROVE Inv
  OBVIOUS
<1> USE ServerAssumption
<1>1. TypeOK
  BY InitTypeOK
<1>2. LocksAreHeld /\ WritesFollow
  BY DEF Init, LocksAreHeld, WritesFollow
<1>3. LifeFollows /\ StagesFollow
  BY DEF Init, LifeFollows, StagesFollow
<1>4. AnswersAreTrue /\ FileIsLetGo
  BY DEF Init, AnswersAreTrue, FileIsLetGo
<1> QED
  BY <1>1, <1>2, <1>3, <1>4 DEF Inv

\* When the process ends every lock is let go, and what was answered stays so.
LEMMA EndedKeepsInv ==
  ASSUME Inv, TypeOK', Ended
  PROVE  Inv'
<1> USE ServerAssumption DEF Inv
<1>1. /\ at' = "down" /\ conn' = "none" /\ lock' = "free" /\ held' # "server"
      /\ unit' \in {"inactive", "restarting"}
      /\ file' = file /\ fresh' = fresh /\ written' = written
  BY DEF Ended, TypeOK
<1>2. \A r \in Request :
        /\ pc'[r] \in {"away", "over"}
        /\ pc[r] = "over" => told'[r] = told[r]
        /\ pc[r] # "over" => told'[r] \in {"nothing", "lost"}
        /\ pc'[r] = "away" <=> pc[r] = "away"
        /\ pc[r] = "away" => told'[r] = told[r]
  BY DEF Ended, WritesFollow, TypeOK
<1>3. LocksAreHeld'
  BY <1>1, <1>2 DEF LocksAreHeld
<1>4. WritesFollow'
  BY <1>1, <1>2 DEF WritesFollow
<1>5. LifeFollows'
  BY <1>1, <1>2 DEF LifeFollows
<1>6. StagesFollow'
  BY <1>1 DEF StagesFollow
<1>7. AnswersAreTrue'
  BY <1>1, <1>2 DEF AnswersAreTrue
<1>8. FileIsLetGo'
  BY <1>1 DEF FileIsLetGo
<1> QED
  BY <1>3, <1>4, <1>5, <1>6, <1>7, <1>8

\* A stage of run() does one thing to the file, and holds nothing.
LEMMA StartingKeepsInv ==
  ASSUME Inv, TypeOK', Starting
  PROVE  Inv'
<1> USE ServerAssumption DEF Inv
<1>1. ASSUME NEW from \in Stage \ {"down", "serving"}, NEW to \in Stage \ {"down"},
             StartUp(from, to), LifeFollows', StagesFollow'
      PROVE  Inv'
  <2>1. UNCHANGED <<lock, held, written, pc, told>> /\ at = from
    BY <1>1 DEF StartUp
  <2>2. LocksAreHeld'
    BY <1>1, <2>1 DEF LocksAreHeld, LifeFollows, TypeOK
  <2> QED
    BY <1>1, <2>1, <2>2 DEF WritesFollow, AnswersAreTrue, FileIsLetGo
<1> USE DEF StartUp, Stage, bounds
<1>2. CASE Open
  <2>1. LifeFollows' /\ StagesFollow'
    BY <1>2 DEF Open, LifeFollows, StagesFollow, Left
  <2> QED
    BY <1>1, <1>2, <2>1 DEF Open
<1>3. CASE Stamp
  <2>1. LifeFollows' /\ StagesFollow'
    BY <1>3 DEF Stamp, LifeFollows, StagesFollow, Left, TypeOK, FileType
  <2> QED
    BY <1>1, <1>3, <2>1 DEF Stamp
<1>4. CASE Migrate
  <2>1. LifeFollows' /\ StagesFollow'
    BY <1>4 DEF Migrate, LifeFollows, StagesFollow, Left, TypeOK, FileType
  <2> QED
    BY <1>1, <1>4, <2>1 DEF Migrate
<1>5. CASE Seed
  <2>1. LifeFollows' /\ StagesFollow'
    BY <1>5 DEF Seed, Unseeded, LifeFollows, StagesFollow, Left, TypeOK, FileType
  <2> QED
    BY <1>1, <1>5, <2>1 DEF Seed
<1>6. CASE BindOwner
  <2>1. LifeFollows' /\ StagesFollow'
    BY <1>6 DEF BindOwner, LifeFollows, StagesFollow, Left, TypeOK, FileType
  <2> QED
    BY <1>1, <1>6, <2>1 DEF BindOwner
<1>7. CASE Serve
  <2>1. LifeFollows' /\ StagesFollow'
    BY <1>7 DEF Serve, LifeFollows, StagesFollow
  <2> QED
    BY <1>1, <1>7, <2>1 DEF Serve
<1>8. CASE NotABoard \/ NoMigration \/ StartBusy
  BY <1>8, EndedKeepsInv DEF NotABoard, NoMigration, StartBusy, Refused
<1> QED
  BY <1>2, <1>3, <1>4, <1>5, <1>6, <1>7, <1>8 DEF Starting

\* A request's step moves that request alone.
LEMMA HandleKeepsInv ==
  ASSUME Inv, TypeOK', NEW r \in Request, Ask(r) \/ Handle(r)
  PROVE  Inv'
<1> USE ServerAssumption DEF Inv, Step, Move, Tell, Writes
<1>1. ASSUME NEW from, Step(r, from), from # "away" \/ at = "serving", from # "over",
             conn' # "none" \/ conn' = conn
      PROVE  LifeFollows' /\ StagesFollow'
  BY <1>1 DEF LifeFollows, StagesFollow, Left
<1> DEFINE Safe == LocksAreHeld /\ WritesFollow /\ AnswersAreTrue /\ FileIsLetGo
<1> USE DEF LocksAreHeld, WritesFollow, AnswersAreTrue, FileIsLetGo, TypeOK
<1>2. CASE Ask(r)
  <2>1. Safe'
    BY <1>2 DEF Ask
  <2> QED
    BY <1>1, <1>2, <2>1 DEF Ask
<1>3. CASE FindClosed(r) \/ Read(r) \/ Poll(r) \/ Expire(r)
  <2>1. ASSUME FindClosed(r) PROVE Safe'
    <3>1. LocksAreHeld' /\ FileIsLetGo'
      BY <2>1 DEF FindClosed
    <3>2. WritesFollow' /\ AnswersAreTrue'
      BY <2>1 DEF FindClosed
    <3> QED
      BY <3>1, <3>2
  <2>2. ASSUME Read(r) PROVE Safe'
    BY <2>2 DEF Read, Look
  <2>3. ASSUME Poll(r) PROVE Safe'
    BY <2>3 DEF Poll
  <2>4. ASSUME Expire(r) PROVE Safe'
    BY <2>4 DEF Expire
  <2>5. Safe'
    BY <1>3, <2>1, <2>2, <2>3, <2>4
  <2> QED
    BY <1>1, <1>3, <2>5 DEF FindClosed, Read, Poll, Expire
<1>4. CASE Wake(r)
  <2>1. Safe'
    BY <1>4 DEF Wake
  <2> QED
    BY <1>1, <1>4, <2>1 DEF Wake
<1>5. CASE Lock(r)
  <2>1. Safe'
    BY <1>5 DEF Lock
  <2> QED
    BY <1>1, <1>5, <2>1 DEF Lock
<1>6. CASE Begin(r)
  <2>1. Safe'
    BY <1>6 DEF Begin
  <2> QED
    BY <1>1, <1>6, <2>1 DEF Begin
<1>7. CASE Busy(r)
  <2>1. LocksAreHeld' /\ FileIsLetGo'
    <3>1. pc' = [pc EXCEPT ![r] = "over"] /\ lock = r /\ lock' = "free"
      BY <1>7 DEF Busy
    <3>2. held' = held /\ conn' = conn
      BY <1>7 DEF Busy
    <3>3. LocksAreHeld'
      BY <3>1, <3>2
    <3> QED
      BY <3>1, <3>2, <3>3, <1>7 DEF Busy
  <2>2. WritesFollow' /\ AnswersAreTrue'
    BY <1>7 DEF Busy
  <2> QED
    BY <1>1, <1>7, <2>1, <2>2 DEF Busy
<1>8. CASE Refuse(r) \/ Fail(r)
  <2>1. Safe'
    BY <1>8 DEF Refuse, Fail
  <2> QED
    BY <1>1, <1>8, <2>1 DEF Refuse, Fail
<1>9. CASE RollbackFails(r)
  <2>1. Safe'
    BY <1>9 DEF RollbackFails
  <2> QED
    BY <1>1, <1>9, <2>1 DEF RollbackFails
<1>10. CASE Note(r)
  BY <1>10, EndedKeepsInv DEF Note
<1>11. CASE Commit(r)
  <2>1. LocksAreHeld' /\ FileIsLetGo'
    <3>1. pc' = [pc EXCEPT ![r] = "committed"] /\ lock = r /\ lock' = "free"
      BY <1>11 DEF Commit
    <3>2. held' = "none" /\ conn' = conn
      BY <1>11 DEF Commit
    <3> QED
      BY <3>1, <3>2
  <2>2. WritesFollow' /\ AnswersAreTrue'
    BY <1>11 DEF Commit
  <2> QED
    BY <1>1, <1>11, <2>1, <2>2 DEF Commit
<1>12. CASE Reply(r)
  <2>1. Safe'
    BY <1>12 DEF Reply
  <2> QED
    BY <1>1, <1>12, <2>1 DEF Reply
<1>13. CASE Render(r)
  <2>1. LocksAreHeld' /\ FileIsLetGo'
    BY <1>13 DEF Render, Look
  <2>2. WritesFollow' /\ AnswersAreTrue'
    BY <1>13 DEF Render, Look
  <2> QED
    BY <1>1, <1>13, <2>1, <2>2 DEF Render
<1> QED
  BY <1>2, <1>3, <1>4, <1>5, <1>6, <1>7, <1>8, <1>9, <1>10, <1>11, <1>12, <1>13 DEF Handle

\* Every step keeps it.
LEMMA NextInv == Inv /\ [Next]_vars => Inv'
<1> SUFFICES ASSUME Inv, [Next]_vars
             PROVE  Inv'
  OBVIOUS
<1>1. TypeOK'
  BY NextTypeOK DEF Inv
<1> USE DEF Inv
<1>2. CASE Start
  BY <1>1, <1>2 DEF Start, LocksAreHeld, WritesFollow, LifeFollows, StagesFollow, Left,
     AnswersAreTrue, FileIsLetGo
<1>3. CASE Stop
  BY <1>1, <1>3 DEF Stop, LocksAreHeld, WritesFollow, LifeFollows, StagesFollow, Left,
     AnswersAreTrue, FileIsLetGo
<1>4. CASE HoldFile \/ LetGo
  BY <1>1, <1>4 DEF HoldFile, LetGo, processVars, LocksAreHeld, WritesFollow, LifeFollows,
     StagesFollow, Left, AnswersAreTrue, FileIsLetGo
<1>5. CASE Crash \/ StopStarting \/ StopServing
  BY <1>1, <1>5, EndedKeepsInv DEF Crash, StopStarting, StopServing
<1>6. CASE CloseBoard
  BY <1>1, <1>6 DEF CloseBoard, LocksAreHeld, WritesFollow, LifeFollows, StagesFollow, Left,
     AnswersAreTrue, FileIsLetGo
<1>7. CASE UNCHANGED vars
  BY <1>1, <1>7 DEF vars, LocksAreHeld, WritesFollow, LifeFollows, StagesFollow, Left,
     AnswersAreTrue, FileIsLetGo
<1> QED
  BY <1>1, <1>2, <1>3, <1>4, <1>5, <1>6, <1>7, StartingKeepsInv, HandleKeepsInv
     DEF Next, Stopping

\* The inductive invariant holds in every state the server reaches.
THEOREM InvAlways == Spec => []Inv
<1> QED
  BY InitInv, NextInv, PTL DEF Spec

\* What a client is told of its write is so, and stays so, whatever fails, closes
\* or restarts; but a form's write may stand when its answer is a fault.
THEOREM AnswersStayTrue == Spec => []AnswersAreTrue
<1>1. Inv => AnswersAreTrue
  BY DEF Inv
<1> QED
  BY <1>1, InvAlways, PTL

\* Only a request in its transaction keeps other programs from the file.
THEOREM TheFileIsLetGo == Spec => []FileIsLetGo
<1>1. Inv => FileIsLetGo
  BY DEF Inv
<1> QED
  BY <1>1, InvAlways, PTL

\* The board that is served is whole, whatever start it is, and has the owner its
\* settings give it, if they give one.
THEOREM TheBoardIsWhole == Spec => []BoardIsWhole
<1>1. Inv => BoardIsWhole
  BY DEF Inv, StagesFollow, BoardIsWhole
<1> QED
  BY <1>1, InvAlways, PTL

-----------------------------------------------------------------------------
\* Only the stages of run() write to the file itself.
LEMMA FileChanges ==
  ASSUME [Next]_vars, file' # file
  PROVE  Stamp \/ Migrate \/ Seed \/ BindOwner
<1>1. ASSUME NEW r \in Request, Handle(r)
      PROVE  FALSE
  BY <1>1 DEF Handle, FindClosed, Read, Poll, Wake, Expire, Lock, Begin, Busy, Refuse, Fail,
     RollbackFails, Note, Commit, Reply, Render, Step, Ended
<1>2. ASSUME NEW r \in Request, Ask(r)
      PROVE  FALSE
  BY <1>2 DEF Ask, Step
<1>3. ASSUME Stopping \/ Start \/ Stop \/ Crash \/ HoldFile \/ LetGo \/ UNCHANGED vars
      PROVE  FALSE
  BY <1>3 DEF Stopping, StopStarting, CloseBoard, StopServing, Start, Stop, Crash, HoldFile,
     LetGo, Ended, vars
<1>4. ASSUME Open \/ NotABoard \/ NoMigration \/ Serve \/ StartBusy
      PROVE  FALSE
  BY <1>4 DEF Open, NotABoard, NoMigration, Serve, StartBusy, Refused, Ended
<1> QED
  BY <1>1, <1>2, <1>3, <1>4 DEF Next, Starting

\* The server never writes to a file that is not a board's, or is a newer one's.
THEOREM OthersStayAsTheyAre == Spec => OthersAreLeftAlone
<1>1. ASSUME Inv, [Next]_vars, file' # file
      PROVE  file.schema # "other" /\ ~(file.version > Version)
  <2> USE ServerAssumption DEF Inv, StartUp
  <2>1. at \in {"opened", "migrated", "seeded"} => file.schema # "other"
    BY <1>1 DEF StagesFollow
  <2>2. CASE Stamp
    <3>1. file.tables # 0 /\ file.version = 0 /\ file.schema # "other" /\ Left(file)
      BY <1>1, <2>1, <2>2 DEF Stamp, StagesFollow
    <3> QED
      BY <3>1
  <2>3. CASE Migrate
    BY <1>1, <2>1, <2>3 DEF Migrate, TypeOK, FileType
  <2>4. CASE Seed \/ BindOwner
    BY <1>1, <2>1, <2>4 DEF Seed, BindOwner, StagesFollow
  <2> QED
    BY <1>1, <2>2, <2>3, <2>4, FileChanges
<1>2. Inv /\ [Next]_vars =>
        [file.schema = "other" \/ file.version > Version => file' = file]_vars
  BY <1>1
<1> QED
  BY <1>2, InvAlways, PTL DEF Spec, OthersAreLeftAlone

-----------------------------------------------------------------------------
(***************************************************************************)
(* Server implements the steps of Service: the end of the process, however *)
(* it comes, is Exit, the last stage of run() is Ready, and a connection   *)
(* that is closed, by the stop or by a rollback that fails, is Close.      *)
(***************************************************************************)

\* Neither the process nor the file changes for the others to see.
LEMMA ServiceStutters ==
  ASSUME UNCHANGED <<unit, at, conn, file>>
  PROVE  UNCHANGED AService!vars
BY DEF AService!vars, Process, Usable

\* The end of the process is the service's.
LEMMA EndedIsExit ==
  ASSUME Inv, Ended, at # "down"
  PROVE  AService!Exit
<1>1. Process # "down" /\ Process' = "down"
  BY DEF Process, Ended
<1>2. Usable' = Usable
  BY DEF Usable, Ended
<1> QED
  BY <1>1, <1>2 DEF AService!Exit, Ended

\* So are the stages of run(): what makes the file a board of this version does
\* not change whether it is one the server takes.
LEMMA StartingIsAServiceStep ==
  ASSUME Inv, Inv', Starting
  PROVE  AService!Next \/ UNCHANGED AService!vars
<1> USE ServerAssumption DEF Inv, StartUp
<1>1. ASSUME NEW from \in Stage \ {"down", "serving"}, NEW to \in Stage \ {"down", "serving"},
             StartUp(from, to), Usable' = Usable
      PROVE  UNCHANGED AService!vars
  BY <1>1 DEF AService!vars, Process
<1> USE DEF Stage
<1>2. CASE Open
  BY <1>1, <1>2 DEF Open, Usable
<1>3. CASE Stamp
  <2>1. Usable' = Usable
    BY <1>3 DEF Stamp, Usable, StagesFollow, Left, TypeOK, FileType
  <2> QED
    BY <1>1, <1>3, <2>1 DEF Stamp
<1>4. CASE Migrate
  <2>1. Usable' = Usable
    BY <1>4 DEF Migrate, Usable, StagesFollow, TypeOK, FileType
  <2> QED
    BY <1>1, <1>4, <2>1 DEF Migrate
<1>5. CASE Seed
  BY <1>1, <1>5 DEF Seed, Usable
<1>6. CASE BindOwner
  BY <1>1, <1>6 DEF BindOwner, Usable
<1>7. CASE Serve
  <2>1. Process = "starting" /\ Process' = "up"
    BY <1>7 DEF Serve, Process, LifeFollows
  <2>2. Usable /\ Usable'
    BY <1>7 DEF Serve, Usable, StagesFollow, TypeOK, FileType
  <2> QED
    BY <1>7, <2>1, <2>2 DEF Serve, AService!Ready, AService!Next
<1>8. CASE NotABoard \/ NoMigration \/ StartBusy
  BY <1>8, EndedIsExit DEF NotABoard, NoMigration, StartBusy, Refused, AService!Next
<1> QED
  BY <1>2, <1>3, <1>4, <1>5, <1>6, <1>7, <1>8 DEF Starting

\* The others see nothing of a request, unless it costs the server its connection.
LEMMA HandleIsAServiceStep ==
  ASSUME Inv, NEW r \in Request, Ask(r) \/ Handle(r)
  PROVE  AService!Next \/ UNCHANGED AService!vars
<1> USE DEF Inv
<1>1. CASE RollbackFails(r)
  <2>1. at = "serving" /\ conn = "open"
    BY <1>1, ServerAssumption DEF RollbackFails, Step, LifeFollows, LocksAreHeld
  <2>2. Process = "up" /\ Process' = "closing"
    BY <1>1, <2>1 DEF RollbackFails, Step, Process
  <2> QED
    BY <1>1, <2>2 DEF RollbackFails, Step, Usable, AService!Close, AService!Next
<1>2. CASE Note(r)
  <2>1. at # "down"
    BY <1>2 DEF Note, LifeFollows
  <2> QED
    BY <1>2, <2>1, EndedIsExit DEF Note, AService!Next
<1>3. CASE Ask(r) \/ (Handle(r) /\ ~RollbackFails(r) /\ ~Note(r))
  BY <1>3, ServiceStutters DEF Ask, Handle, FindClosed, Read, Poll, Wake, Expire, Lock, Begin,
     Busy, Refuse, Fail, Commit, Reply, Render, Step
<1> QED
  BY <1>1, <1>2, <1>3

\* Every step is a step of the service, or none.
LEMMA ServiceStep ==
  ASSUME Inv, Inv', [Next]_vars
  PROVE  [AService!Next]_(AService!vars)
<1> USE DEF Inv
<1>1. CASE Start
  BY <1>1 DEF Start, Process, Usable, AService!Start, AService!Next
<1>2. CASE Stop
  BY <1>2 DEF Stop, Process, Usable, AService!Stop, AService!Next
<1>3. CASE Crash \/ StopStarting \/ StopServing
  BY <1>3, EndedIsExit DEF Crash, StopStarting, StopServing, AService!Next
<1>4. CASE HoldFile \/ LetGo \/ UNCHANGED vars
  BY <1>4, ServiceStutters DEF HoldFile, LetGo, processVars, vars
<1>5. CASE CloseBoard
  BY <1>5 DEF CloseBoard, Process, Usable, AService!Close, AService!Next
<1> QED
  BY <1>1, <1>2, <1>3, <1>4, <1>5, StartingIsAServiceStep, HandleIsAServiceStep
     DEF Next, Stopping

\* The process, its unit and its file take no step that Service does not have; in
\* particular a stop or a fault never makes a file the server takes one it does
\* not take, nor the other way round.
THEOREM ServerTakesServiceSteps == Spec => AService!Steps
<1>1. Init => AService!Init
  BY DEF Init, AService!Init, Process, Usable
<1>2. Inv /\ Inv' /\ [Next]_vars => [AService!Next]_(AService!vars)
  BY ServiceStep
<1> QED
  BY <1>1, <1>2, InvAlways, PTL DEF Spec, AService!Steps
=============================================================================
