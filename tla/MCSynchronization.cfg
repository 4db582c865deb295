\* No datagram arrives twice, one thread besides Background creates messages.
CONSTANTS
  Packets = {"ours1", "theirs1", "theirs2", "forged"}
  Runt = "runt"
  Keys <- MCKeys
  Us = "us"
  Types = {"greeting"}
  Author <- MCAuthor
  Timestamp <- MCTimestamp
  Messagetype <- MCMessagetype
  Genuine <- MCGenuine
  Old <- MCOld
  Background = "background"
  Creators = {"app"}
  pruneDB = TRUE
  MaxRow = 3
  MaxCopies = 1
  Nothing = Nothing
SPECIFICATION Spec
INVARIANTS TypeOK NothingForgotten SeenIsExact
PROPERTY ImplementsInbox
CHECK_DEADLOCK FALSE
