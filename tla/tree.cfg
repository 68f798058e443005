SPECIFICATION Spec
CONSTANTS
  rev = rev  log = log  ops = ops  plan = plan
  own = own  ann = ann
  Path <- MCPath
  Top = Top
  Up <- MCUp
  Name = {own, ann}
  Owner = own
  Wanted <- MCWanted
  MaxNode = 4
  MaxHead = 7
CHECK_DEADLOCK FALSE
INVARIANTS
  ReferencesAreSound
  StateFollowsTheLog
PROPERTIES
  NoUpdateIsLost
