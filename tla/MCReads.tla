------------------------------ MODULE MCReads ------------------------------
(* Reads with the commands that differ in what the board does for them.     *)
EXTENDS Reads

Read(node, range, state, archived) ==
  [op |-> "read", node |-> node, range |-> range, state |-> state, archived |-> archived]

List(op) == [op |-> op, node |-> "home", range |-> "tail", state |-> "open", archived |-> FALSE]

MCCommands ==
  {Read("thread", "tail", "open", FALSE), Read("thread", "all", "open", FALSE),
   Read("thread", "all", "open", TRUE), Read("mine", "tail", "open", FALSE),
   Read("mine", "tail", "all", FALSE), Read("mine", "all", "open", FALSE),
   Read("note", "tail", "open", FALSE), Read("home", "tail", "open", FALSE),
   List("items"), List("mine"), List("brief")}

\* The thread alone, a note beside a queue, and the two queues.
MCTrees == {{"thread"}, {"note", "mine"}, {"mine", "theirs"}}

=============================================================================
