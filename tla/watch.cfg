\* One client that watches or waits, two who write, three events, pages of two.
CONSTANTS
  c1 = c1
  ann = ann
  own = own
  Clients = {c1}
  Names = {ann, own}
  Owner = own
  QueueOwner = own
  Mentions <- MCMentions
  Watches <- MCWatches
  Cursors = {2}
  PollLimit = 2
  MaxHead = 3
SPECIFICATION Spec
INVARIANTS
  PagesAreNews
  NothingIsPassedOver
  WhatIsArchivedIsTakenBack
PROPERTY NewsArrives
