\* A wait whose item is resolved and archived between two of its polls.
CONSTANTS
  c1 = c1
  own = own
  Clients = {c1}
  Names = {own}
  Owner = own
  QueueOwner = own
  Mentions <- MCNoMentions
  Watches <- MCNoWatch
  Cursors = {}
  PollLimit = 2
  MaxHead = 3
SPECIFICATION Spec
PROPERTY WaitEnds
