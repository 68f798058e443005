SPECIFICATION Spec
CONSTANTS
  ada = ada  bea = bea  repair = repair
  b1 = b1
  Session = {ada, bea}
  Fsck = repair
  Blob = {b1}
  MaxRuns = 2
  MaxFaults = 1
CHECK_DEADLOCK FALSE
INVARIANTS
  ServerMeetsOnlyThus
  RepairFindsAll
PROPERTIES
  GoodBytesStay
  BoardComesBackOnATerminal
