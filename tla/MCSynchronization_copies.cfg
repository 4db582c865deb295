\* Datagrams may arrive twice.
CONSTANTS
  Packets = {"ours1", "theirs1"}
  Runt = "runt"
  Keys <- MCKeys
  Us = "us"
  Types = {"greeting"}
  Author <- MCAuthor
  Timestamp <- MCTimestamp
  Messagetype <- MCMessagetype
  Genuine <- MCGenuine
  Old <- MCOld
  Background = "background"
  Creators = {"app"}
  pruneDB = TRUE
  MaxRow = 2
  MaxCopies = 2
  Nothing = Nothing
SPECIFICATION FairSpec
INVARIANT NothingForgotten
PROPERTY ReceivedGetsHandled
CHECK_DEADLOCK FALSE
