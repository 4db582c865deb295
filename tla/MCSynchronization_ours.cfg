\* A duplicate marks whatever row its RowID happens to hold.
CONSTANTS
  Packets = {"ours1", "theirs1"}
  Runt = "runt"
  Keys <- MCKeys
  Us = "us"
  Types = {"greeting"}
  Author <- MCAuthor
  Timestamp <- MCTimestamp
  Messagetype <- MCMessagetype
  Genuine <- MCGenuine
  Old <- MCOld
  Background = "background"
  Creators = {"app"}
  pruneDB = TRUE
  MaxRow = 2
  MaxCopies = 2
  Nothing = Nothing
SPECIFICATION Spec
INVARIANT OursAreNotProcessed

CHECK_DEADLOCK FALSE
