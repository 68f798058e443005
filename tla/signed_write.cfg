SPECIFICATION Spec
CONSTANTS
  poster = poster  asker = asker  again = again  twice = twice
  trusted = trusted  newcomer = newcomer
  ada = ada  bea = bea  picture = picture
  Writer = {poster, asker, again, twice}
  Together <- MCTogether
  Key <- MCKey
  Name = {ada, bea}
  NoName = NoName
  Nobody = Nobody
  KeyOf <- MCKeyOf
  ClientKey <- MCClientKey
  Asks <- MCAsks
  Events <- MCEvents
  Known = {trusted}
  Blob = {picture}
  Refs <- MCRefs
  NonceTries = 2
  WriteRetries = 1
  MaxHead = 3
CHECK_DEADLOCK FALSE
INVARIANT
  RefusalIsFinal
PROPERTIES
  EveryCommandEnds
  WritesAreOnce
