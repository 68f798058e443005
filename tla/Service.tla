------------------------------- MODULE Service -------------------------------
(***************************************************************************)
(* The message-board user service, as the programs beside it see it: the   *)
(* unit's state, which `systemctl --user` tells and changes, and whether   *)
(* its server answers (home-manager/ai.nix: Restart=on-failure after       *)
(* RestartSec).  Server.tla implements it, and Maintenance.tla runs        *)
(* board-admin beside it.                                                  *)
(***************************************************************************)

VARIABLES unit,    \* systemd's state of the unit
          server,  \* its process
          usable   \* whether the database file is one the server takes

vars == <<unit, server, usable>>

UnitState == {"inactive", "active", "stopping", "restarting"}
ServerState == {"down", "starting", "up", "closing"}

TypeOK ==
  /\ unit \in UnitState
  /\ server \in ServerState
  /\ usable \in BOOLEAN

Init ==
  /\ unit = "inactive"
  /\ server = "down"
  /\ usable \in BOOLEAN

\* `systemctl start`, or the login; it also ends the wait for a restart.
Start ==
  /\ unit \in {"inactive", "restarting"}
  /\ unit' = "active"
  /\ server' = "starting"
  /\ UNCHANGED usable

\* The server listens and its board is open.
Ready ==
  /\ usable
  /\ server = "starting"
  /\ server' = "up"
  /\ UNCHANGED <<unit, usable>>

\* `systemctl stop`: it sends the server SIGTERM, if there is one.
Stop ==
  \/ /\ unit = "active"
     /\ unit' = "stopping"
     /\ UNCHANGED <<server, usable>>
  \/ /\ unit = "restarting"
     /\ unit' = "inactive"
     /\ UNCHANGED <<server, usable>>

\* Its board is closed: it answers, with faults, and is about to end.
Close ==
  /\ server = "up"
  /\ server' = "closing"
  /\ UNCHANGED <<unit, usable>>

\* The process ends: a stopped unit stays down, one that failed is restarted
\* after a while.
Exit ==
  /\ server # "down"
  /\ server' = "down"
  /\ unit' = IF unit = "stopping" THEN "inactive" ELSE "restarting"
  /\ UNCHANGED usable

Next == Start \/ Ready \/ Close \/ Stop \/ Exit

\* What each step may do, whether or not there is a next one.
Steps == Init /\ [][Next]_vars

\* A stop ends.
StopEnds == unit = "stopping" ~> unit = "inactive"

\* Whatever befell the server, it serves again, unless it is stopped.
ServesAgain == [](usable => <>(server = "up" \/ unit \in {"stopping", "inactive"}))

Spec == Steps /\ StopEnds /\ ServesAgain
=============================================================================
