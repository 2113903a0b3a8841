SPECIFICATION FairSpec
CONSTANTS
  r1 = r1
  c1 = c1
  NoComment = NoComment
  Requests = {r1}
  Comments <- OldThenNew
  MaxPolls = 1
INVARIANTS
  TypeOK
  AnnouncedOnce
PROPERTIES
  SeenPendingAnnounced
  DeadSessionNoticed
  StrayWatchersStop
