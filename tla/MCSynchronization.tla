------------------------- MODULE MCSynchronization -------------------------
(***************************************************************************)
(* Packets for TLC: two of ours, two of a peer (the second is older than   *)
(* the first, and older than a day) and one that claims to be the peer's   *)
(* and is not. Each configuration takes the ones it is about.              *)
(***************************************************************************)
EXTENDS Synchronization

MCKeys == {"us", "peer"}
MCAuthor == [p \in Packets |-> IF p \in {"ours1", "ours2"} THEN "us" ELSE "peer"]
MCTimestamp ==
  LET times == [ours1 |-> 3, ours2 |-> 4, theirs1 |-> 2, theirs2 |-> 1, forged |-> 5]
  IN  [p \in Packets |-> times[p]]
MCMessagetype == [p \in Packets |-> "greeting"]
MCGenuine == Packets \ {"forged"}
MCOld == Packets \cap {"theirs2"}
=============================================================================
