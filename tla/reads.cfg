\* One reader and any command; five events; answers of at most two rows.
CONSTANTS
  Trees <- MCTrees
  Commands <- MCCommands
  ReadRowsMax = 2
  ThreadTail = 1
  MaxEvents = 5
SPECIFICATION ReadsSpec
CHECK_DEADLOCK FALSE
INVARIANT ReadsAreWhole
