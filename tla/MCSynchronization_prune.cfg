\* The handlers of atexit run in reverse order.
CONSTANTS
  Packets = {"theirs2"}
  Runt = "runt"
  Keys <- MCKeys
  Us = "us"
  Types = {"greeting"}
  Author <- MCAuthor
  Timestamp <- MCTimestamp
  Messagetype <- MCMessagetype
  Genuine <- MCGenuine
  Old <- MCOld
  Background = "background"
  Creators = {"app"}
  pruneDB = TRUE
  MaxRow = 1
  MaxCopies = 1
  Nothing = Nothing
SPECIFICATION Spec

PROPERTY PrunedOnlyIfProcessed
CHECK_DEADLOCK FALSE
