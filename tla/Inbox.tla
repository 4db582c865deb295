------------------------------- MODULE Inbox -------------------------------
(***************************************************************************)
(* What Synchronization promises its users about the packets of a node:    *)
(* only packets with a valid signature are stored, a stored packet of      *)
(* somebody else is handed to the handlers of its type at most once, and   *)
(* nothing else is ever handed over.                                       *)
(***************************************************************************)
EXTENDS Naturals

CONSTANTS Packets, Us, Author, Genuine

VARIABLES
  stored,   (* The packets in the database.                          *)
  calls     (* How often each packet was given to its type's handlers. *)

Init == stored = {} /\ calls = [p \in Packets |-> 0]

Store(p) ==
  /\ p \in Genuine /\ p \notin stored
  /\ stored' = stored \union {p}
  /\ UNCHANGED calls

Handle(p) ==
  /\ p \in stored /\ Author[p] # Us /\ calls[p] = 0
  /\ calls' = [calls EXCEPT ![p] = 1]
  /\ UNCHANGED stored

(* At exit everything not yet handled may be handled at once. *)
HandleAll(P) ==
  /\ \A p \in P : p \in stored /\ Author[p] # Us /\ calls[p] = 0
  /\ calls' = [p \in Packets |-> IF p \in P THEN 1 ELSE calls[p]]
  /\ UNCHANGED stored

Prune(P) ==
  /\ stored' = stored \ P
  /\ UNCHANGED calls

Next ==
  \/ \E p \in Packets : Store(p) \/ Handle(p)
  \/ \E P \in SUBSET Packets : HandleAll(P) \/ Prune(P)

Spec == Init /\ [][Next]_<<stored, calls>>
=============================================================================
