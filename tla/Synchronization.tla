-------------------------- MODULE Synchronization --------------------------
(***************************************************************************)
(* Backend/Synchronization.cpp with the receiving loop of                  *)
(* Backend/LANNetworking.cpp that feeds it, from the start of the process  *)
(* to its end.                                                             *)
(*                                                                         *)
(* The background thread receives packets, stores them and, in a later     *)
(* frame, gives them to the handlers of their type. Other threads create   *)
(* messages of our own. Storemessage is a sequence of separate SQL         *)
(* statements and takes no lock, so its statements interleave.             *)
(***************************************************************************)
EXTENDS Integers, FiniteSets

CONSTANTS
  Packets,      (* Packets, each identified by (Publickey, Signature).      *)
  Runt,         (* A datagram that is shorter than a Header_t.              *)
  Keys, Us,     (* Publickeys, and Global.Publickey.                        *)
  Types,        (* Messagetypes.                                            *)
  Author, Timestamp, Messagetype,  (* The header fields of a packet.        *)
  Genuine,      (* The packets whose signature qDSA::Verify accepts.        *)
  Old,          (* The packets CleanupDB's query finds when the process     *)
                (* exits: timestamps smaller than its 24 hours ago.         *)
  Background,   (* The background thread.                                   *)
  Creators,     (* The threads that call Createmessage; Background is one   *)
                (* when a handler calls it.                                 *)
  pruneDB,      (* Global.Configuration.pruneDB.                            *)
  MaxRow,       (* Bound: rowids given out.                                 *)
  MaxCopies,    (* Bound: times the network hands over the same datagram.   *)
  Nothing       (* No packet, no account.                                   *)

ASSUME PacketAssumption ==
  /\ Author \in [Packets -> Keys]
  /\ Timestamp \in [Packets -> Int]
  /\ Messagetype \in [Packets -> Types]
  /\ Genuine \subseteq Packets
  /\ Old \subseteq Packets
  /\ Us \in Keys
  /\ Runt \notin Packets
  /\ Nothing \notin Packets
  /\ Nothing \notin [First : Int, Last : Int]

ASSUME BoundAssumption == MaxRow \in Nat /\ MaxCopies \in Nat /\ pruneDB \in BOOLEAN

VARIABLES
  Account,          (* Table Account: the Firstseen and Lastseen of a key.  *)
  Syncpacket,       (* Table Syncpacket: the packet of a rowid.             *)
  Modifiedrows,     (* Rows to process in the next frame.                   *)
  Messagehandlers,  (* The types that have a handler.                       *)
  socket, copies,   (* Datagrams waiting, and how often each arrived.       *)
  task, Rows,       (* What Background runs; the rows its Poll has left.    *)
  pc,               (* Where each thread is in Storemessage.                *)
  Packet, RowID,    (* Storemessage's argument and its local RowID...       *)
  Seen,             (* ...and its locals First and Last.                    *)
  doTerminate,      (* Termination was requested.                           *)
  phase,            (* running; aborted; or cleaned, exited by atexit.      *)
  created, calls, polled  (* History: own packets, handler calls per       *)
                          (* packet, rows taken up by a Poll.               *)

database == <<Account, Syncpacket>>
network  == <<socket, copies>>
frames   == <<pc, Packet, RowID, Seen>>
ending   == <<doTerminate, phase>>
vars == <<Account, Syncpacket, Modifiedrows, Messagehandlers, socket, copies, task, Rows,
          pc, Packet, RowID, Seen, doTerminate, phase, created, calls, polled>>

Threads == {Background} \union Creators
RowIDs  == 1 .. MaxRow
Span    == [First : Int, Last : Int]

Used == {r \in RowIDs : Syncpacket[r] # Nothing}
Stored == {Syncpacket[r] : r \in Used}
Foreign(p) == Author[p] # Us
Least(a, b) == IF a < b THEN a ELSE b
Greatest(a, b) == IF a > b THEN a ELSE b

TypeOK ==
  /\ Account \in [Keys -> Span \union {Nothing}]
  /\ Syncpacket \in [RowIDs -> Packets \union {Nothing}]
  /\ Modifiedrows \subseteq RowIDs \union {0}
  /\ Messagehandlers \subseteq Types
  /\ socket \subseteq Packets \union {Runt}
  /\ copies \in [Packets \union {Runt} -> 0 .. MaxCopies]
  /\ task \in {"none", "receive", "poll"}
  /\ Rows \subseteq RowIDs \union {0}
  /\ pc \in [Threads -> {"idle", "account", "insert", "mark", "read", "update"}]
  /\ Packet \in [Threads -> Packets \union {Nothing}]
  /\ RowID \in [Threads -> RowIDs \union {0}]
  /\ Seen \in [Threads -> Span \union {Nothing}]
  /\ doTerminate \in BOOLEAN
  /\ phase \in {"running", "cleaned", "exited", "aborted"}
  /\ created \subseteq Packets
  /\ calls \in [Packets -> Nat]
  /\ polled \subseteq RowIDs \union {0}

Init ==
  /\ Account = [k \in Keys |-> Nothing]
  /\ Syncpacket = [r \in RowIDs |-> Nothing]
  /\ Modifiedrows = {} /\ Messagehandlers = {}
  /\ socket = {} /\ copies = [d \in Packets \union {Runt} |-> 0]
  /\ task = "none" /\ Rows = {}
  /\ pc = [t \in Threads |-> "idle"]
  /\ Packet = [t \in Threads |-> Nothing]
  /\ RowID = [t \in Threads |-> 0]
  /\ Seen = [t \in Threads |-> Nothing]
  /\ doTerminate = FALSE /\ phase = "running"
  /\ created = {} /\ calls = [p \in Packets |-> 0] /\ polled = {}

-----------------------------------------------------------------------------
(* Storemessage, one action per statement.                                 *)

Step(t, from, to) ==
  /\ phase = "running"
  /\ pc[t] = from
  /\ pc' = [pc EXCEPT ![t] = to]

(* The call itself: the callee's arguments, locals not yet written. *)
CallStoremessage(t, p) ==
  /\ pc[t] = "idle"
  /\ pc' = [pc EXCEPT ![t] = "account"]
  /\ Packet' = [Packet EXCEPT ![t] = p]
  /\ UNCHANGED <<RowID, Seen>>

(* INSERT OR IGNORE INTO Account VALUES (PK, Timestamp, Timestamp, ...) *)
EnsureAccount(t) ==
  LET p == Packet[t] IN
  /\ Step(t, "account", "insert")
  /\ Account' = IF Account[Author[p]] = Nothing
                THEN [Account EXCEPT ![Author[p]] = [First |-> Timestamp[p], Last |-> Timestamp[p]]]
                ELSE Account
  /\ UNCHANGED <<Syncpacket, Modifiedrows, Messagehandlers, network, task, Rows,
                 Packet, RowID, Seen, ending, created, calls, polled>>

(* INSERT INTO Syncpacket ... RETURNING rowid: one more than the largest. *)
InsertRow_Next(t) ==
  /\ Step(t, "insert", "mark")
  /\ Packet[t] \notin Stored
  /\ \E r \in RowIDs \ Used :
       /\ \A q \in Used : q < r
       /\ r = 1 \/ r - 1 \in Used
       /\ Syncpacket' = [Syncpacket EXCEPT ![r] = Packet[t]]
       /\ RowID' = [RowID EXCEPT ![t] = r + 1]
  /\ UNCHANGED <<Account, Modifiedrows, Messagehandlers, network, task, Rows,
                 Packet, Seen, ending, created, calls, polled>>
InsertRow(t) ==
  /\ Step(t, "insert", "mark")
  /\ Packet[t] \notin Stored
  /\ \E r \in RowIDs \ Used :
       /\ \A q \in Used : q < r
       /\ r = 1 \/ r - 1 \in Used
       /\ Syncpacket' = [Syncpacket EXCEPT ![r] = Packet[t]]
       /\ RowID' = [RowID EXCEPT ![t] = r]
  /\ UNCHANGED <<Account, Modifiedrows, Messagehandlers, network, task, Rows,
                 Packet, Seen, ending, created, calls, polled>>

(* UNIQUE (Publickey, Signature) fails, nothing is returned, and RowID is  *)
(* whatever its uninitialised storage holds: some rowid, or (0) none.      *)
InsertDuplicate(t) ==
  /\ Step(t, "insert", "mark")
  /\ Packet[t] \in Stored
  /\ \E garbage \in RowIDs \union {0} : RowID' = [RowID EXCEPT ![t] = garbage]
  /\ UNCHANGED <<Account, Syncpacket, Modifiedrows, Messagehandlers, network, task, Rows,
                 Packet, Seen, ending, created, calls, polled>>

(* if (Publickey != Global.Publickey) Modifiedrows.insert(RowID) *)
MarkRow_Inverted(t) ==
  /\ Step(t, "mark", "read")
  /\ Modifiedrows' = IF Foreign(Packet[t]) THEN Modifiedrows ELSE Modifiedrows \union {RowID[t]}
  /\ UNCHANGED <<Account, Syncpacket, Messagehandlers, network, task, Rows,
                 Packet, RowID, Seen, ending, created, calls, polled>>
MarkRow(t) ==
  /\ Step(t, "mark", "read")
  /\ Modifiedrows' = IF Foreign(Packet[t]) THEN Modifiedrows \union {RowID[t]} ELSE Modifiedrows
  /\ UNCHANGED <<Account, Syncpacket, Messagehandlers, network, task, Rows,
                 Packet, RowID, Seen, ending, created, calls, polled>>

(* SELECT Firstseen, Lastseen FROM Account *)
ReadSeen(t) ==
  /\ Step(t, "read", "update")
  /\ Seen' = [Seen EXCEPT ![t] = Account[Author[Packet[t]]]]
  /\ UNCHANGED <<database, Modifiedrows, Messagehandlers, network, task, Rows,
                 Packet, RowID, ending, created, calls, polled>>

(* UPDATE Account SET Firstseen = min(...), Lastseen = max(...) *)
UpdateSeen_Overwrite(t) ==
  LET p == Packet[t] IN
  /\ Step(t, "update", "idle")
  /\ Account' = [Account EXCEPT ![Author[p]] =
                   [First |-> Least(Seen[t].First, Timestamp[p]), Last |-> Timestamp[p]]]
  /\ Packet' = [Packet EXCEPT ![t] = Nothing]
  /\ RowID' = [RowID EXCEPT ![t] = 0]
  /\ Seen' = [Seen EXCEPT ![t] = Nothing]
  /\ UNCHANGED <<Syncpacket, Modifiedrows, Messagehandlers, network, task, Rows,
                 ending, created, calls, polled>>
UpdateSeen(t) ==
  LET p == Packet[t] IN
  /\ Step(t, "update", "idle")
  /\ Account' = [Account EXCEPT ![Author[p]] =
                   [First |-> Least(Seen[t].First, Timestamp[p]),
                    Last  |-> Greatest(Seen[t].Last, Timestamp[p])]]
  /\ Packet' = [Packet EXCEPT ![t] = Nothing]
  /\ RowID' = [RowID EXCEPT ![t] = 0]
  /\ Seen' = [Seen EXCEPT ![t] = Nothing]
  /\ UNCHANGED <<Syncpacket, Modifiedrows, Messagehandlers, network, task, Rows,
                 ending, created, calls, polled>>

Storemessage(t) ==
  \/ EnsureAccount(t) \/ InsertRow(t) \/ InsertDuplicate(t)
  \/ MarkRow(t) \/ ReadSeen(t) \/ UpdateSeen(t)

-----------------------------------------------------------------------------
(* Createmessage: sign with the current time, store, return the packet.    *)
(* Our packets get increasing timestamps. In Background it is a handler    *)
(* called by Poll that creates it.                                         *)
Createmessage(t, p) ==
  /\ phase = "running"
  /\ ~Foreign(p) /\ p \in Genuine /\ p \notin created
  /\ \A q \in created : Timestamp[q] < Timestamp[p]
  /\ t = Background => task = "poll"
  /\ CallStoremessage(t, p)
  /\ created' = created \union {p}
  /\ UNCHANGED <<database, Modifiedrows, Messagehandlers, network, task, Rows, ending, calls, polled>>

(* Register: from here on the type has a handler. *)
Register(type) ==
  /\ phase = "running"
  /\ type \notin Messagehandlers
  /\ Messagehandlers' = Messagehandlers \union {type}
  /\ UNCHANGED <<database, Modifiedrows, network, task, Rows, frames, ending, created, calls, polled>>

(* The network delivers a datagram: any order, possibly never, possibly    *)
(* more than once; ours come back by multicast after they were published.  *)
Arrive(d) ==
  /\ phase = "running"
  /\ d \notin socket /\ copies[d] < MaxCopies
  /\ d \in Packets /\ ~Foreign(d) /\ d \in Genuine =>
       d \in created /\ \A t \in Threads : Packet[t] # d
  /\ socket' = socket \union {d}
  /\ copies' = [copies EXCEPT ![d] = @ + 1]
  /\ UNCHANGED <<database, Modifiedrows, Messagehandlers, task, Rows, frames, ending, created, calls, polled>>

(* LANNetworking::Poll starts when its period has passed and select() says *)
(* that there is data.                                                     *)
StartReceive ==
  /\ phase = "running" /\ task = "none" /\ socket # {}
  /\ task' = "receive"
  /\ UNCHANGED <<database, Modifiedrows, Messagehandlers, network, Rows, frames, ending, created, calls, polled>>

Receiving == phase = "running" /\ task = "receive" /\ pc[Background] = "idle"

(* A runt ends the loop, and so does an empty socket (recvfrom fails). *)
ReceiveBreak ==
  /\ Receiving
  /\ \/ Runt \in socket /\ socket' = socket \ {Runt}
     \/ socket = {} /\ UNCHANGED socket
  /\ task' = "none"
  /\ UNCHANGED <<database, Modifiedrows, Messagehandlers, copies, Rows, frames, ending, created, calls, polled>>

(* Our own packet, or one whose signature does not verify. *)
ReceiveIgnored(p) ==
  /\ Receiving /\ p \in socket
  /\ ~Foreign(p) \/ p \notin Genuine
  /\ socket' = socket \ {p}
  /\ UNCHANGED <<database, Modifiedrows, Messagehandlers, copies, task, Rows, frames, ending, created, calls, polled>>

ReceiveStored_Unverified(p) ==
  /\ Receiving /\ p \in socket
  /\ Foreign(p)
  /\ socket' = socket \ {p}
  /\ CallStoremessage(Background, p)
  /\ UNCHANGED <<database, Modifiedrows, Messagehandlers, copies, task, Rows, ending, created, calls, polled>>
ReceiveStored(p) ==
  /\ Receiving /\ p \in socket
  /\ Foreign(p) /\ p \in Genuine
  /\ socket' = socket \ {p}
  /\ CallStoremessage(Background, p)
  /\ UNCHANGED <<database, Modifiedrows, Messagehandlers, copies, task, Rows, ending, created, calls, polled>>

-----------------------------------------------------------------------------
(* Synchronization::Poll takes the whole set of modified rows...           *)
StartPoll_Clear ==
  /\ phase = "running" /\ task = "none"
  /\ task' = "poll"
  /\ Modifiedrows' = {}
  /\ UNCHANGED <<database, Messagehandlers, network, Rows, frames, ending, created, calls, polled>>
StartPoll ==
  /\ phase = "running" /\ task = "none"
  /\ task' = "poll"
  /\ Rows' = Modifiedrows
  /\ Modifiedrows' = {}
  /\ UNCHANGED <<database, Messagehandlers, network, frames, ending, created, calls, polled>>

(* ...and for each, in no particular order, calls the handlers of the      *)
(* packet's type, if the row exists and there are any.                     *)
Dispatched(rows) ==
  {p \in Packets : Messagetype[p] \in Messagehandlers /\ \E r \in rows \cap Used : Syncpacket[r] = p}

PollRow(r) ==
  /\ phase = "running" /\ task = "poll" /\ pc[Background] = "idle"
  /\ r \in Rows
  /\ Rows' = Rows \ {r}
  /\ polled' = polled \union {r}
  /\ calls' = [p \in Packets |-> IF p \in Dispatched({r}) THEN calls[p] + 1 ELSE calls[p]]
  /\ UNCHANGED <<database, Modifiedrows, Messagehandlers, network, task, frames, ending, created>>

EndPoll ==
  /\ phase = "running" /\ task = "poll" /\ pc[Background] = "idle"
  /\ Rows = {}
  /\ task' = "none"
  /\ UNCHANGED <<database, Modifiedrows, Messagehandlers, network, Rows, frames, ending, created, calls, polled>>

-----------------------------------------------------------------------------
(* The end of the process. Backgroundtasks::Terminate() makes Background   *)
(* call std::terminate() at the end of its frame, which skips atexit.      *)
Terminate ==
  /\ phase = "running" /\ ~doTerminate
  /\ doTerminate' = TRUE
  /\ UNCHANGED <<database, Modifiedrows, Messagehandlers, network, task, Rows, frames, phase, created, calls, polled>>

Abort ==
  /\ phase = "running" /\ doTerminate /\ task = "none"
  /\ phase' = "aborted"
  /\ UNCHANGED <<database, Modifiedrows, Messagehandlers, network, task, Rows, frames, doTerminate, created, calls, polled>>

(* When the host exits, every other thread is gone before the handlers of  *)
(* atexit run, the last registered first: CleanupDB, then Poll. A row that *)
(* some service references is not deleted (REFERENCES, foreign_keys = ON). *)
CleanupDB ==
  /\ phase = "running"
  /\ phase' = "cleaned"
  /\ \E referenced \in SUBSET Used :
       Syncpacket' = [r \in RowIDs |->
         IF pruneDB /\ r \in Used \ referenced /\ Syncpacket[r] \in Old
         THEN Nothing ELSE Syncpacket[r]]
  /\ UNCHANGED <<Account, Modifiedrows, Messagehandlers, network, task, Rows, frames,
                 doTerminate, created, calls, polled>>

ExitPoll ==
  /\ phase = "cleaned"
  /\ phase' = "exited"
  /\ Modifiedrows' = {}
  /\ polled' = polled \union Modifiedrows
  /\ calls' = [p \in Packets |-> IF p \in Dispatched(Modifiedrows) THEN calls[p] + 1 ELSE calls[p]]
  /\ UNCHANGED <<database, Messagehandlers, network, task, Rows, frames, doTerminate, created>>

-----------------------------------------------------------------------------
Next ==
  \/ \E t \in Threads : Storemessage(t)
  \/ \E t \in Creators, p \in Packets : Createmessage(t, p)
  \/ \E type \in Types : Register(type)
  \/ \E d \in Packets \union {Runt} : Arrive(d)
  \/ StartReceive \/ ReceiveBreak
  \/ \E p \in Packets : ReceiveIgnored(p) \/ ReceiveStored(p)
  \/ StartPoll \/ EndPoll
  \/ \E r \in Rows : PollRow(r)
  \/ Terminate \/ Abort \/ CleanupDB \/ ExitPoll

Spec == Init /\ [][Next]_vars

(* Every task of Background is scheduled again and again and runs to its   *)
(* end (Backgroundtasks), and the threads that create messages go on. The  *)
(* network and the users owe nothing.                                      *)
Fairness ==
  /\ \A t \in Threads : WF_vars(Storemessage(t))
  /\ SF_vars(StartReceive) /\ SF_vars(StartPoll)
  /\ WF_vars(ReceiveBreak \/ \E p \in Packets : ReceiveIgnored(p) \/ ReceiveStored(p))
  /\ WF_vars(EndPoll \/ \E r \in Rows : PollRow(r))

FairSpec == Spec /\ Fairness

-----------------------------------------------------------------------------
(* A stored packet of somebody else is never forgotten: its row waits in   *)
(* Modifiedrows, or in the Poll under way, or was taken up by one, or the  *)
(* thread that stored it is about to mark it (Synchronization.cpp:44-54    *)
(* and 71-74).                                                             *)
AboutToMark(r) == \E t \in Threads : pc[t] = "mark" /\ RowID[t] = r /\ Packet[t] = Syncpacket[r]
NothingForgotten ==
  \A r \in Used : Foreign(Syncpacket[r]) =>
    r \in Modifiedrows \union Rows \union polled \/ AboutToMark(r)

(* Between two Storemessage calls for a key, its account row says exactly  *)
(* when its packets were first and last seen: the read-modify-write of     *)
(* Synchronization.cpp:57-59 lost no update.                               *)
Settled(k) == \A t \in Threads : Packet[t] = Nothing \/ Author[Packet[t]] # k
SeenIsExact ==
  phase = "running" =>
    \A k \in Keys :
      LET times == {Timestamp[p] : p \in {q \in Stored : Author[q] = k}} IN
      Settled(k) /\ times # {} =>
        /\ Account[k] # Nothing
        /\ Account[k].First \in times /\ \A ts \in times : Account[k].First <= ts
        /\ Account[k].Last \in times  /\ \A ts \in times : ts <= Account[k].Last

(* As long as no datagram arrives twice, handlers see each stored packet   *)
(* of somebody else at most once and nothing else (Synchronization.cpp:    *)
(* 53-54 and 69-94): the component implements Inbox.                       *)
TheInbox == INSTANCE Inbox WITH stored <- Stored
ImplementsInbox == TheInbox!Spec

(* A genuine packet that waits on the socket for the first time, when its  *)
(* type has a handler, reaches it, unless the process ends first           *)
(* (LANNetworking.cpp:73-95, Synchronization.cpp:69-94). Not so for a copy *)
(* of a packet whose row a Poll took up before the type had a handler.     *)
ReceivedGetsHandled ==
  \A p \in Packets :
    (/\ p \in socket /\ p \in Genuine /\ Foreign(p)
     /\ Messagetype[p] \in Messagehandlers
     /\ p \notin Stored /\ \A t \in Threads : Packet[t] # p)
      ~> (calls[p] > 0 \/ phase # "running")

(* "Mark for processing next frame (if not ours)" (Synchronization.cpp:53): *)
(* our own packets are never given to handlers.                            *)
OursAreNotProcessed == \A p \in Packets : ~Foreign(p) => calls[p] = 0

(* "Ensure all messages are processed" (Synchronization.cpp:138): the      *)
(* handlers of atexit do not delete a packet that still waits for it.      *)
PrunedOnlyIfProcessed ==
  [][\A r \in Modifiedrows \cap Used : Foreign(Syncpacket[r]) => Syncpacket'[r] # Nothing]_vars
=============================================================================
