\* Two threads create messages at the same time.
CONSTANTS
  Packets = {"ours1", "ours2"}
  Runt = "runt"
  Keys <- MCKeys
  Us = "us"
  Types = {"greeting"}
  Author <- MCAuthor
  Timestamp <- MCTimestamp
  Messagetype <- MCMessagetype
  Genuine <- MCGenuine
  Old <- MCOld
  Background = "background"
  Creators = {"app", "background"}
  pruneDB = TRUE
  MaxRow = 2
  MaxCopies = 1
  Nothing = Nothing
SPECIFICATION Spec
INVARIANT SeenIsExact

CHECK_DEADLOCK FALSE
