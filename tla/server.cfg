SPECIFICATION Spec
CONSTANTS
  w1 = w1  f1 = f1  r1 = r1  p1 = p1
  ada = ada  NoKey = NoKey
  Request = {w1, f1, r1, p1}
  Kind <- MCKind
  Version = 3
  Files <- MCFiles
  Owner = {ada}
  NoOwner = NoKey
  Revoked = Revoked
  MaxFaults = 2
  MaxHeld = 1
  MaxStops = 1
CHECK_DEADLOCK FALSE
INVARIANTS
  AnswersAreTrue
  FileIsLetGo
  BoardIsWhole
PROPERTIES
  OthersAreLeftAlone
  ImplementsService
