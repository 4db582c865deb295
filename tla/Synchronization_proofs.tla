----------------------- MODULE Synchronization_proofs -----------------------
(***************************************************************************)
(* Theorems about Synchronization, for every set of packets, keys, threads *)
(* and every bound.                                                        *)
(***************************************************************************)
EXTENDS Synchronization, TLAPS

(* What a thread inside Storemessage can rely on: it has a packet; once    *)
(* past the first statement the account exists; once past the SELECT its   *)
(* locals are read. Outside of Poll no row is left in Poll's local set.    *)
FramesOK ==
  /\ \A t \in Threads :
       /\ pc[t] # "idle" => Packet[t] \in Packets
       /\ pc[t] \in {"insert", "mark", "read", "update"} => Account[Author[Packet[t]]] # Nothing
       /\ pc[t] = "update" => Seen[t] # Nothing
  /\ task # "poll" => Rows = {}

TypeInv == TypeOK /\ FramesOK

(* A call of Storemessage starts a frame and leaves the others alone. *)
LEMMA CallKeepsFrames ==
  ASSUME TypeInv, NEW t \in Threads, NEW p \in Packets, CallStoremessage(t, p),
         UNCHANGED <<Account, RowID, Seen>>
  PROVE  /\ pc' \in [Threads -> {"idle", "account", "insert", "mark", "read", "update"}]
         /\ Packet' \in [Threads -> Packets \union {Nothing}]
         /\ \A u \in Threads :
              /\ pc'[u] # "idle" => Packet'[u] \in Packets
              /\ pc'[u] \in {"insert", "mark", "read", "update"} => Account'[Author[Packet'[u]]] # Nothing
              /\ pc'[u] = "update" => Seen'[u] # Nothing
  BY DEF TypeInv, TypeOK, FramesOK, CallStoremessage

LEMMA InitTyped == Init => TypeInv
  <1> SUFFICES ASSUME Init PROVE TypeInv
    OBVIOUS
  <1>1. copies \in [Packets \union {Runt} -> 0 .. MaxCopies]
    BY BoundAssumption DEF Init
  <1>2. TypeOK
    BY <1>1 DEF Init, TypeOK
  <1>3. FramesOK
    BY DEF Init, FramesOK
  <1> QED BY <1>2, <1>3 DEF TypeInv

(* The statements of Storemessage keep the types. *)
LEMMA StoremessageTyped ==
  ASSUME TypeInv, NEW t \in Threads, Storemessage(t)
  PROVE  TypeInv'
  <1> USE PacketAssumption, BoundAssumption DEF TypeInv, TypeOK, FramesOK, Step, Span, ending, network, database
  <1>1. CASE EnsureAccount(t)
    BY <1>1 DEF EnsureAccount
  <1>2. CASE InsertRow(t)
    BY <1>2 DEF InsertRow
  <1>3. CASE InsertDuplicate(t)
    BY <1>3 DEF InsertDuplicate
  <1>4. CASE MarkRow(t)
    BY <1>4 DEF MarkRow
  <1>5. CASE ReadSeen(t)
    BY <1>5 DEF ReadSeen, database
  <1>6. CASE UpdateSeen(t)
    BY <1>6 DEF UpdateSeen, Least, Greatest
  <1> QED BY <1>1, <1>2, <1>3, <1>4, <1>5, <1>6 DEF Storemessage

(* Everything else keeps the types. *)
LEMMA OthersTyped ==
  ASSUME TypeInv, [Next]_vars, ~ \E t \in Threads : Storemessage(t)
  PROVE  TypeInv'
  <1> USE PacketAssumption, BoundAssumption DEF TypeInv, TypeOK, FramesOK, frames, ending, network, database
  <1>1. CASE UNCHANGED vars
    BY <1>1 DEF vars
  <1>2. ASSUME NEW t \in Creators, NEW p \in Packets, Createmessage(t, p) PROVE TypeInv'
    BY <1>2, CallKeepsFrames DEF Createmessage, Threads, CallStoremessage
  <1>3. ASSUME NEW type \in Types, Register(type) PROVE TypeInv'
    BY <1>3 DEF Register
  <1>4. ASSUME NEW d \in Packets \union {Runt}, Arrive(d) PROVE TypeInv'
    BY <1>4 DEF Arrive
  <1>5. CASE StartReceive
    BY <1>5 DEF StartReceive
  <1>6. CASE ReceiveBreak
    BY <1>6 DEF ReceiveBreak, Receiving
  <1>7. ASSUME NEW p \in Packets, ReceiveIgnored(p) PROVE TypeInv'
    BY <1>7 DEF ReceiveIgnored
  <1>8. ASSUME NEW p \in Packets, ReceiveStored(p) PROVE TypeInv'
    BY <1>8, CallKeepsFrames DEF ReceiveStored, Receiving, Threads, CallStoremessage
  <1>9. CASE StartPoll
    BY <1>9 DEF StartPoll
  <1>10. CASE EndPoll
    BY <1>10 DEF EndPoll
  <1>11. ASSUME NEW r \in Rows, PollRow(r) PROVE TypeInv'
    BY <1>11 DEF PollRow
  <1>12. CASE Terminate \/ Abort
    BY <1>12 DEF Terminate, Abort
  <1>13. CASE CleanupDB
    <2>1. Syncpacket' \in [RowIDs -> Packets \union {Nothing}]
      BY <1>13 DEF CleanupDB
    <2> QED BY <1>13, <2>1 DEF CleanupDB
  <1>14. CASE ExitPoll
    BY <1>14 DEF ExitPoll
  <1> QED BY <1>1, <1>2, <1>3, <1>4, <1>5, <1>6, <1>7, <1>8, <1>9, <1>10, <1>11, <1>12, <1>13, <1>14 DEF Next

(* Type correctness of Synchronization, with what its frames rely on:      *)
(* Storemessage never updates an account row that does not exist, nor from *)
(* locals it has not read (Synchronization.cpp:35-60).                     *)
THEOREM TypeCorrect == Spec => [](TypeOK /\ FramesOK)
  <1>1. TypeInv /\ [Next]_vars => TypeInv'
    BY StoremessageTyped, OthersTyped
  <1> QED BY InitTyped, <1>1, PTL DEF Spec, TypeInv

-----------------------------------------------------------------------------
(* The statements of Storemessage forget no row. *)
LEMMA StoremessageForgetsNothing ==
  ASSUME TypeInv, NothingForgotten, NEW t \in Threads, Storemessage(t)
  PROVE  NothingForgotten'
  <1> USE DEF TypeInv, TypeOK, FramesOK, NothingForgotten, AboutToMark, Used, Foreign, Step
  <1>1. CASE EnsureAccount(t)
    BY <1>1 DEF EnsureAccount
  <1>2. CASE InsertRow(t)
    BY <1>2, PacketAssumption DEF InsertRow
  <1>3. CASE InsertDuplicate(t)
    BY <1>3 DEF InsertDuplicate
  <1>4. CASE MarkRow(t)
    BY <1>4 DEF MarkRow
  <1>5. CASE ReadSeen(t)
    BY <1>5 DEF ReadSeen, database
  <1>6. CASE UpdateSeen(t)
    BY <1>6 DEF UpdateSeen
  <1> QED BY <1>1, <1>2, <1>3, <1>4, <1>5, <1>6 DEF Storemessage

(* Nor does anything else. *)
LEMMA OthersForgetNothing ==
  ASSUME TypeInv, NothingForgotten, [Next]_vars, ~ \E t \in Threads : Storemessage(t)
  PROVE  NothingForgotten'
  <1> USE DEF TypeInv, TypeOK, FramesOK, NothingForgotten, AboutToMark, Used, Foreign,
              frames, database, CallStoremessage
  <1>1. CASE UNCHANGED vars
    BY <1>1 DEF vars
  <1>2. ASSUME NEW t \in Creators, NEW p \in Packets, Createmessage(t, p) PROVE NothingForgotten'
    BY <1>2 DEF Createmessage, Threads
  <1>3. ASSUME NEW type \in Types, Register(type) PROVE NothingForgotten'
    BY <1>3 DEF Register
  <1>4. ASSUME NEW d \in Packets \union {Runt}, Arrive(d) PROVE NothingForgotten'
    BY <1>4 DEF Arrive
  <1>5. CASE StartReceive \/ ReceiveBreak
    BY <1>5 DEF StartReceive, ReceiveBreak
  <1>7. ASSUME NEW p \in Packets, ReceiveIgnored(p) PROVE NothingForgotten'
    BY <1>7 DEF ReceiveIgnored
  <1>8. ASSUME NEW p \in Packets, ReceiveStored(p) PROVE NothingForgotten'
    BY <1>8 DEF ReceiveStored, Receiving, Threads
  <1>9. CASE StartPoll
    BY <1>9 DEF StartPoll
  <1>10. CASE EndPoll
    BY <1>10 DEF EndPoll
  <1>11. ASSUME NEW r \in Rows, PollRow(r) PROVE NothingForgotten'
    BY <1>11 DEF PollRow
  <1>12. CASE Terminate \/ Abort
    BY <1>12 DEF Terminate, Abort
  <1>13. CASE CleanupDB
    <2>1. \A r \in RowIDs : Syncpacket'[r] # Nothing => Syncpacket'[r] = Syncpacket[r]
      BY <1>13 DEF CleanupDB
    <2> QED BY <1>13, <2>1 DEF CleanupDB
  <1>14. CASE ExitPoll
    BY <1>14 DEF ExitPoll
  <1> QED BY <1>1, <1>2, <1>3, <1>4, <1>5, <1>7, <1>8, <1>9, <1>10, <1>11, <1>12, <1>13, <1>14 DEF Next

(* No stored packet of somebody else is forgotten, whatever the threads    *)
(* interleave and however often a datagram arrives                         *)
(* (Synchronization.cpp:44-54 and 71-74).                                  *)
THEOREM NothingIsForgotten == Spec => []NothingForgotten
  <1>1. Init => NothingForgotten
    BY DEF Init, NothingForgotten, Used
  <1>2. TypeInv /\ NothingForgotten /\ [Next]_vars => NothingForgotten'
    BY StoremessageForgetsNothing, OthersForgetNothing
  <1>3. Spec => []TypeInv
    BY TypeCorrect, PTL DEF TypeInv
  <1> QED BY <1>1, <1>2, <1>3, PTL DEF Spec

-----------------------------------------------------------------------------
(* The clients that create messages do so one at a time. *)
OneCreator == \A a, b \in Creators : a = b

(* Only Background stores packets of others, only a creator ours, so with  *)
(* one creator no two threads are inside Storemessage for the same key.    *)
Exclusive ==
  \A t \in Threads : Packet[t] # Nothing =>
    /\ pc[t] # "idle"
    /\ IF Foreign(Packet[t]) THEN t = Background ELSE t \in Creators

Known(p) == p \in Stored \/ \E t \in Threads : Packet[t] = p

(* SeenIsExact, while Storemessage runs: what is stored already but not    *)
(* yet within the account's span is the packet of a thread on its way to   *)
(* the UPDATE, and the ends of the span are times of known packets.        *)
FramesSeen ==
  \A t \in Threads :
    /\ pc[t] \in {"mark", "read", "update"} => Packet[t] \in Stored
    /\ pc[t] = "update" => Seen[t] = Account[Author[Packet[t]]]
SpanCovers ==
  \A p \in Stored :
    /\ Account[Author[p]] # Nothing
    /\ \/ /\ Account[Author[p]].First <= Timestamp[p]
          /\ Timestamp[p] <= Account[Author[p]].Last
       \/ \E t \in Threads : Packet[t] = p
SpanAttained ==
  \A k \in Keys : Account[k] # Nothing =>
    /\ \E p \in Packets : Known(p) /\ Author[p] = k /\ Timestamp[p] = Account[k].First
    /\ \E p \in Packets : Known(p) /\ Author[p] = k /\ Timestamp[p] = Account[k].Last
SeenInv == phase = "running" => FramesSeen /\ SpanCovers /\ SpanAttained

LEMMA ExclusiveKept ==
  ASSUME TypeInv, Exclusive, [Next]_vars
  PROVE  Exclusive'
  <1> USE PacketAssumption DEF TypeInv, TypeOK, FramesOK, Exclusive, Foreign, frames, Threads, CallStoremessage, Step
  <1>1. CASE UNCHANGED vars
    BY <1>1 DEF vars
  <1>2. ASSUME NEW t \in Creators, NEW p \in Packets, Createmessage(t, p) PROVE Exclusive'
    BY <1>2 DEF Createmessage
  <1>3. ASSUME NEW p \in Packets, ReceiveStored(p) PROVE Exclusive'
    BY <1>3 DEF ReceiveStored, Receiving
  <1>4. ASSUME NEW t \in Threads, Storemessage(t) PROVE Exclusive'
    BY <1>4 DEF Storemessage, EnsureAccount, InsertRow, InsertDuplicate, MarkRow, ReadSeen, UpdateSeen
  <1>5. CASE UNCHANGED frames
    BY <1>5
  <1> QED
    BY <1>1, <1>2, <1>3, <1>4, <1>5 DEF Next, Register, Arrive, StartReceive, ReceiveBreak, ReceiveIgnored,
       StartPoll, EndPoll, PollRow, Terminate, Abort, CleanupDB, ExitPoll

(* Two threads are not inside Storemessage for the same key. *)
LEMMA OneThreadPerKey ==
  ASSUME OneCreator, TypeInv, Exclusive, NEW t \in Threads, NEW u \in Threads, t # u,
         Packet[t] # Nothing, Packet[u] # Nothing
  PROVE  Author[Packet[t]] # Author[Packet[u]]
  BY DEF OneCreator, Exclusive, Foreign, Threads

(* A step that leaves the database, the running process and the frames     *)
(* alone, or starts one, keeps SeenInv.                                    *)
LEMMA SeenFrame ==
  ASSUME TypeInv, SeenInv, UNCHANGED <<Account, Syncpacket, RowID, Seen>>,
         \/ UNCHANGED <<pc, Packet>>
         \/ \E t \in Threads, p \in Packets : CallStoremessage(t, p),
         Exclusive, phase' = "running" => phase = "running"
  PROVE  SeenInv'
  <1> USE PacketAssumption DEF TypeInv, TypeOK, FramesOK, SeenInv, FramesSeen, SpanCovers, SpanAttained,
          Known, Stored, Used, Exclusive
  <1>1. CASE UNCHANGED <<pc, Packet>>
    BY <1>1
  <1>2. ASSUME NEW t \in Threads, NEW p \in Packets, CallStoremessage(t, p) PROVE SeenInv'
    <2> SUFFICES ASSUME phase' = "running" PROVE (FramesSeen /\ SpanCovers /\ SpanAttained)'
      OBVIOUS
    <2>1. Stored' = Stored /\ Account' = Account
      OBVIOUS
    <2>2. \A u \in Threads : Packet[u] # Nothing => Packet'[u] = Packet[u]
      BY <1>2 DEF CallStoremessage
    <2>3. FramesSeen'
      BY <1>2, <2>1 DEF CallStoremessage
    <2>4. SpanCovers'
      BY <2>1, <2>2
    <2>5. SpanAttained'
      BY <2>1, <2>2
    <2> QED BY <2>3, <2>4, <2>5
  <1> QED BY <1>1, <1>2

(* The statements of Storemessage keep SeenInv. The UPDATE writes the span *)
(* that was read two statements before, which OneThreadPerKey says is      *)
(* still that of the account.                                              *)
LEMMA StoremessageKeepsSeen ==
  ASSUME OneCreator, TypeInv, Exclusive, SeenInv, NEW t \in Threads, Storemessage(t)
  PROVE  SeenInv'
  <1> USE PacketAssumption DEF TypeInv, TypeOK, FramesOK, Step, Span, ending, database
  <1> DEFINE p == Packet[t]
  <1>0. /\ phase = "running" /\ phase' = "running" /\ p \in Packets
        /\ FramesSeen /\ SpanCovers /\ SpanAttained
    BY DEF Storemessage, EnsureAccount, InsertRow, InsertDuplicate, MarkRow, ReadSeen, UpdateSeen, SeenInv
  <1>a. \A u \in Threads : u # t /\ Packet[u] # Nothing => Author[Packet[u]] # Author[p]
    BY OneThreadPerKey, <1>0
  <1> SUFFICES (FramesSeen /\ SpanCovers /\ SpanAttained)'
    BY DEF SeenInv
  <1>1. CASE EnsureAccount(t)
    <2>1. UNCHANGED <<Syncpacket, Packet, Seen>> /\ Stored' = Stored
      BY <1>1 DEF EnsureAccount, Stored, Used
    <2>2. CASE Account' = Account
      BY <1>0, <1>1, <2>1, <2>2 DEF EnsureAccount, FramesSeen, SpanCovers, SpanAttained, Known
    <2>3. CASE Account[Author[p]] = Nothing
      <3>1. Account' = [Account EXCEPT ![Author[p]] = [First |-> Timestamp[p], Last |-> Timestamp[p]]]
        BY <1>1, <2>3 DEF EnsureAccount
      <3>2. FramesSeen'
        BY <1>0, <1>a, <1>1, <2>1, <2>3, <3>1 DEF EnsureAccount, FramesSeen
      <3>3. SpanCovers'
        BY <1>0, <2>1, <2>3, <3>1 DEF SpanCovers
      <3>4. SpanAttained'
        BY <1>0, <2>1, <2>3, <3>1 DEF SpanAttained, Known
      <3> QED BY <3>2, <3>3, <3>4
    <2> QED BY <1>1, <2>2, <2>3 DEF EnsureAccount
  <1>2. CASE InsertRow(t)
    <2>1. UNCHANGED <<Account, Packet, Seen>> /\ Stored' = Stored \union {p}
      BY <1>0, <1>2 DEF InsertRow, Stored, Used
    <2>2. FramesSeen'
      BY <1>0, <1>2, <2>1 DEF InsertRow, FramesSeen
    <2>3. SpanCovers'
      BY <1>0, <1>2, <2>1 DEF InsertRow, SpanCovers
    <2>4. SpanAttained'
      BY <1>0, <2>1 DEF SpanAttained, Known
    <2> QED BY <2>2, <2>3, <2>4
  <1>3. CASE InsertDuplicate(t)
    <2>1. UNCHANGED <<Account, Packet, Seen>> /\ Stored' = Stored
      BY <1>3 DEF InsertDuplicate, Stored, Used
    <2>2. FramesSeen'
      BY <1>0, <1>3, <2>1 DEF InsertDuplicate, FramesSeen
    <2> QED BY <1>0, <2>1, <2>2 DEF SpanCovers, SpanAttained, Known
  <1>4. CASE MarkRow(t)
    <2>1. UNCHANGED <<Account, Packet, Seen>> /\ Stored' = Stored
      BY <1>4 DEF MarkRow, Stored, Used
    <2>2. FramesSeen'
      BY <1>0, <1>4, <2>1 DEF MarkRow, FramesSeen
    <2> QED BY <1>0, <2>1, <2>2 DEF SpanCovers, SpanAttained, Known
  <1>5. CASE ReadSeen(t)
    <2>1. UNCHANGED <<Account, Packet>> /\ Stored' = Stored
      BY <1>5 DEF ReadSeen, Stored, Used
    <2>2. FramesSeen'
      BY <1>0, <1>5, <2>1 DEF ReadSeen, FramesSeen
    <2> QED BY <1>0, <2>1, <2>2 DEF SpanCovers, SpanAttained, Known
  <1>6. CASE UpdateSeen(t)
    <2> DEFINE k == Author[p]
               old == Account[k]
               new == [First |-> Least(old.First, Timestamp[p]), Last |-> Greatest(old.Last, Timestamp[p])]
    <2>1. /\ Stored' = Stored /\ p \in Stored
          /\ old \in Span /\ Account' = [Account EXCEPT ![k] = new]
          /\ Packet' = [Packet EXCEPT ![t] = Nothing]
      <3>1. Seen[t] = old /\ old # Nothing /\ p \in Stored
        BY <1>0, <1>6 DEF UpdateSeen, FramesSeen
      <3> QED BY <1>0, <1>6, <3>1 DEF UpdateSeen, Stored, Used
    <2>2. /\ new.First <= old.First /\ new.First <= Timestamp[p]
          /\ old.Last <= new.Last   /\ Timestamp[p] <= new.Last
          /\ new.First \in {old.First, Timestamp[p]}
          /\ new.Last \in {old.Last, Timestamp[p]}
          /\ new \in Span
      BY <1>0, <2>1 DEF Least, Greatest
    <2> HIDE DEF new
    <2>3. Account'[k] = new /\ \A j \in Keys \ {k} : Account'[j] = Account[j]
      BY <1>0, <2>1
    <2>4. FramesSeen'
      BY <1>0, <1>a, <1>6, <2>1, <2>3 DEF UpdateSeen, FramesSeen
    <2>5. SpanCovers'
      <3> SUFFICES ASSUME NEW q \in Stored
                   PROVE  /\ Account'[Author[q]] # Nothing
                          /\ \/ /\ Account'[Author[q]].First <= Timestamp[q]
                                /\ Timestamp[q] <= Account'[Author[q]].Last
                             \/ \E u \in Threads : Packet'[u] = q
        BY <2>1 DEF SpanCovers
      <3>1. q \in Packets /\ Author[q] \in Keys
        BY DEF Stored, Used
      <3>2. CASE Author[q] # k
        BY <1>0, <2>1, <2>3, <3>1, <3>2 DEF SpanCovers
      <3>3. CASE q = p
        BY <1>0, <2>2, <2>3, <3>3
      <3>4. CASE Author[q] = k /\ q # p
        <4>1. ~ \E u \in Threads : Packet[u] = q
          BY <1>a, <3>1, <3>4
        <4>2. old.First <= Timestamp[q] /\ Timestamp[q] <= old.Last
          BY <1>0, <3>4, <4>1 DEF SpanCovers
        <4> QED BY <2>1, <2>2, <2>3, <3>1, <3>4, <4>2
      <3> QED BY <3>2, <3>3, <3>4
    <2>6. SpanAttained'
      <3>1. \A q \in Packets : Known(q) /\ Author[q] = k => Known(q)'
        BY <1>a, <2>1 DEF Known
      <3>2. \A q \in Packets : Known(q) => Known(q)'
        BY <2>1 DEF Known
      <3> QED BY <1>0, <2>1, <2>2, <2>3, <3>2 DEF SpanAttained, Known
    <2> QED BY <2>4, <2>5, <2>6
  <1> QED BY <1>1, <1>2, <1>3, <1>4, <1>5, <1>6 DEF Storemessage

LEMMA SeenInvKept ==
  ASSUME OneCreator, TypeInv, Exclusive, SeenInv, [Next]_vars
  PROVE  SeenInv'
  <1>1. ASSUME NEW t \in Creators, NEW p \in Packets, Createmessage(t, p) PROVE SeenInv'
    BY <1>1, SeenFrame DEF Createmessage, CallStoremessage, ending, database, Threads
  <1>2. ASSUME NEW p \in Packets, ReceiveStored(p) PROVE SeenInv'
    BY <1>2, SeenFrame DEF ReceiveStored, CallStoremessage, ending, database, Threads
  <1>3. CASE \E t \in Threads : Storemessage(t)
    BY <1>3, StoremessageKeepsSeen
  <1>4. CASE UNCHANGED <<database, frames, phase>>
    BY <1>4, SeenFrame DEF frames, database
  <1>5. CASE phase' # "running"
    BY <1>5 DEF SeenInv
  <1> QED
    BY <1>1, <1>2, <1>3, <1>4, <1>5 DEF Next, vars, frames, ending, database, Register, Arrive, StartReceive,
       ReceiveBreak, ReceiveIgnored, StartPoll, EndPoll, PollRow, Terminate, Abort, CleanupDB, ExitPoll

LEMMA SeenInvExact == TypeInv /\ SeenInv => SeenIsExact
  <1> SUFFICES ASSUME TypeInv, SeenInv, phase = "running", NEW k \in Keys, Settled(k),
                      {Timestamp[p] : p \in {q \in Stored : Author[q] = k}} # {}
               PROVE  LET times == {Timestamp[p] : p \in {q \in Stored : Author[q] = k}} IN
                      /\ Account[k] # Nothing
                      /\ Account[k].First \in times /\ \A ts \in times : Account[k].First <= ts
                      /\ Account[k].Last \in times  /\ \A ts \in times : ts <= Account[k].Last
    BY DEF SeenIsExact
  <1>1. \A p \in Packets : Known(p) /\ Author[p] = k => p \in Stored
    BY PacketAssumption DEF Settled, Known
  <1>2. \A p \in Stored : p \in Packets
    BY DEF TypeInv, TypeOK, Stored, Used
  <1>3. Account[k] # Nothing
    BY DEF SeenInv, SpanCovers
  <1>4. \A p \in Stored : Author[p] = k => Account[k].First <= Timestamp[p] /\ Timestamp[p] <= Account[k].Last
    BY <1>2, PacketAssumption DEF SeenInv, SpanCovers, Settled
  <1>5. /\ \E p \in Stored : Author[p] = k /\ Timestamp[p] = Account[k].First
        /\ \E p \in Stored : Author[p] = k /\ Timestamp[p] = Account[k].Last
    BY <1>1, <1>3 DEF SeenInv, SpanAttained
  <1> QED BY <1>3, <1>4, <1>5

(* If messages of our own are created by one thread at a time, no update   *)
(* of Firstseen and Lastseen is ever lost (Synchronization.cpp:57-59).     *)
THEOREM SeenStaysExact == ASSUME OneCreator PROVE Spec => []SeenIsExact
  <1>1. Init => Exclusive /\ SeenInv
    BY DEF Init, Exclusive, SeenInv, FramesSeen, SpanCovers, SpanAttained, Stored, Used
  <1>2. TypeInv /\ Exclusive /\ SeenInv /\ [Next]_vars => (Exclusive /\ SeenInv)'
    BY ExclusiveKept, SeenInvKept, OneCreator
  <1>3. Spec => []TypeInv
    BY TypeCorrect, PTL DEF TypeInv
  <1> QED BY <1>1, <1>2, <1>3, SeenInvExact, PTL DEF Spec

-----------------------------------------------------------------------------
(* Synchronization implements Inbox when no datagram arrives twice.        *)

NoCopies == MaxCopies <= 1

(* Rows hold different packets, all genuine, and wait or were taken up     *)
(* only if they are somebody else's, in one place at a time.               *)
RowsOK ==
  /\ \A q, r \in Used : Syncpacket[q] = Syncpacket[r] => q = r
  /\ \A r \in (Modifiedrows \union Rows) \intersect Used : Foreign(Syncpacket[r])
  /\ Modifiedrows \intersect Rows = {}
  /\ (Modifiedrows \union Rows) \intersect polled = {}

(* A stored packet was handled at most once, and then its row is polled.   *)
CallsOK ==
  \A p \in Packets :
    /\ p \in Stored /\ calls[p] # 0 => \E r \in polled \intersect Used : Syncpacket[r] = p
    /\ phase = "running" /\ calls[p] # 0 => p \in Stored

(* While the process runs: rows are those of stored packets, what a thread *)
(* is about to insert is new, and what a thread is about to mark is the    *)
(* row of its packet and nowhere yet.                                      *)
FreshOK ==
  /\ Modifiedrows \union Rows \union polled \subseteq Used
  /\ Stored \subseteq Genuine
  /\ \A t \in Threads :
       /\ Packet[t] # Nothing => Packet[t] \in Genuine
       /\ pc[t] \in {"account", "insert"} => Packet[t] \notin Stored
       /\ pc[t] = "mark" =>
            /\ RowID[t] \in Used /\ Syncpacket[RowID[t]] = Packet[t]
            /\ RowID[t] \notin Modifiedrows \union Rows \union polled
       /\ \A u \in Threads : t # u /\ Packet[t] # Nothing => Packet[t] # Packet[u]

(* A packet that is stored or on its way to be has arrived or was created, *)
(* and neither happens again.                                              *)
OnceOK ==
  \A p \in Packets :
    LET known == p \in Stored \/ \E t \in Threads : Packet[t] = p IN
    /\ Foreign(p) /\ known => p \notin socket /\ copies[p] # 0
    /\ p \in socket => copies[p] # 0
    /\ ~Foreign(p) /\ known => p \in created

InboxInv == RowsOK /\ CallsOK /\ (phase = "running" => FreshOK /\ OnceOK)

-----------------------------------------------------------------------------
(* InboxInv is inductive. *)
LEMMA StoremessageKeepsInbox ==
  ASSUME TypeInv, Exclusive, InboxInv, NEW t \in Threads, Storemessage(t)
  PROVE  InboxInv'
  <1> USE PacketAssumption DEF TypeInv, TypeOK, FramesOK, Step, ending, database, network
  <1> DEFINE p == Packet[t]
  <1>0. /\ phase = "running" /\ phase' = "running" /\ p \in Packets
        /\ RowsOK /\ CallsOK /\ FreshOK /\ OnceOK
        /\ UNCHANGED <<Rows, polled, calls, socket, copies, created>>
    BY DEF Storemessage, EnsureAccount, InsertRow, InsertDuplicate, MarkRow, ReadSeen, UpdateSeen, InboxInv
  <1> SUFFICES (RowsOK /\ CallsOK /\ FreshOK /\ OnceOK)'
    BY DEF InboxInv
  <1>1. CASE EnsureAccount(t) \/ ReadSeen(t) \/ UpdateSeen(t)
    <2>1. UNCHANGED <<Syncpacket, Modifiedrows>> /\ Used' = Used /\ Stored' = Stored
      BY <1>1 DEF EnsureAccount, ReadSeen, UpdateSeen, Stored, Used
    <2>3. RowsOK' /\ CallsOK'
      BY <1>0, <2>1 DEF RowsOK, CallsOK, Foreign
    <2>4. \A u \in Threads :
            /\ Packet'[u] \in {Packet[u], Nothing}
            /\ pc'[u] \in {"account", "insert"} => pc[u] \in {"account", "insert"} /\ Packet'[u] = Packet[u]
            /\ pc'[u] = "mark" => pc[u] = "mark" /\ RowID'[u] = RowID[u] /\ Packet'[u] = Packet[u]
      BY <1>1 DEF EnsureAccount, ReadSeen, UpdateSeen
    <2>5. FreshOK'
      BY <1>0, <2>1, <2>4 DEF FreshOK
    <2>6. OnceOK'
      BY <1>0, <2>1, <2>4 DEF OnceOK, Foreign
    <2> QED BY <2>3, <2>5, <2>6
  <1>2. CASE InsertRow(t)
    <2> PICK r \in RowIDs \ Used : /\ Syncpacket' = [Syncpacket EXCEPT ![r] = p]
                                   /\ RowID' = [RowID EXCEPT ![t] = r]
      BY <1>2 DEF InsertRow
    <2>1. Used' = Used \union {r} /\ Stored' = Stored \union {p} /\ p \notin Stored
      BY <1>0, <1>2 DEF InsertRow, Stored, Used
    <2>2. UNCHANGED <<Modifiedrows, Packet>> /\ pc' = [pc EXCEPT ![t] = "mark"]
      BY <1>2 DEF InsertRow
    <2>3. r \notin Modifiedrows \union Rows \union polled
      BY <1>0 DEF FreshOK
    <2>4. RowsOK'
      BY <1>0, <2>1, <2>2, <2>3 DEF RowsOK, Foreign, Stored, Used
    <2>5. CallsOK'
      BY <1>0, <2>1, <2>2, <2>3 DEF CallsOK, Used
    <2>6. FreshOK'
      BY <1>0, <2>1, <2>2, <2>3 DEF FreshOK, Used
    <2>7. OnceOK'
      BY <1>0, <2>1, <2>2 DEF OnceOK, Foreign
    <2> QED BY <2>4, <2>5, <2>6, <2>7
  <1>3. CASE InsertDuplicate(t)
    BY <1>0, <1>3 DEF InsertDuplicate, FreshOK
  <1>4. CASE MarkRow(t)
    <2>1. UNCHANGED <<Syncpacket, Packet, RowID>> /\ Used' = Used /\ Stored' = Stored
          /\ pc' = [pc EXCEPT ![t] = "read"]
      BY <1>4 DEF MarkRow, Stored, Used
    <2>2. /\ pc[t] = "mark" /\ RowID[t] \in Used /\ Syncpacket[RowID[t]] = p
          /\ RowID[t] \notin Modifiedrows \union Rows \union polled
          /\ Modifiedrows' = IF Foreign(p) THEN Modifiedrows \union {RowID[t]} ELSE Modifiedrows
      BY <1>0, <1>4 DEF MarkRow, FreshOK
    <2>3. RowsOK'
      BY <1>0, <2>1, <2>2 DEF RowsOK, Foreign
    <2>4. CallsOK' /\ OnceOK'
      BY <1>0, <2>1 DEF CallsOK, OnceOK, Foreign
    <2>5. \A u \in Threads : u # t /\ pc[u] = "mark" => RowID[u] # RowID[t]
      BY <1>0, <2>2 DEF FreshOK
    <2>6. FreshOK'
      BY <1>0, <2>1, <2>2, <2>5 DEF FreshOK
    <2> QED BY <2>3, <2>4, <2>6
  <1> QED BY <1>1, <1>2, <1>3, <1>4 DEF Storemessage

(* A call of Storemessage with a new packet that is known from now on. *)
LEMMA CallKeepsInbox ==
  ASSUME TypeInv, Exclusive, InboxInv, phase = "running", phase' = "running",
         NEW t \in Threads, NEW p \in Genuine, CallStoremessage(t, p),
         p \notin Stored, \A u \in Threads : Packet[u] # p,
         UNCHANGED <<Syncpacket, Modifiedrows, Rows, polled, calls, copies>>,
         IF Foreign(p)
         THEN socket' = socket \ {p} /\ created' = created /\ copies[p] # 0
         ELSE socket' = socket /\ created' = created \union {p}
  PROVE  InboxInv'
  <1> USE PacketAssumption DEF TypeInv, TypeOK, FramesOK
  <1>0. RowsOK /\ CallsOK /\ FreshOK /\ OnceOK
    BY DEF InboxInv
  <1>1. Used' = Used /\ Stored' = Stored
    BY DEF Used, Stored
  <1>2. /\ pc[t] = "idle" /\ pc' = [pc EXCEPT ![t] = "account"]
        /\ Packet' = [Packet EXCEPT ![t] = p] /\ UNCHANGED RowID
    BY DEF CallStoremessage
  <1>3. RowsOK' /\ CallsOK'
    BY <1>0, <1>1 DEF RowsOK, CallsOK, Foreign
  <1>4. FreshOK'
    BY <1>0, <1>1, <1>2 DEF FreshOK
  <1>5. OnceOK'
    BY <1>0, <1>1, <1>2 DEF OnceOK, Foreign
  <1> QED BY <1>3, <1>4, <1>5 DEF InboxInv

(* The handlers get packets whose rows were modified and not yet taken up. *)
LEMMA DispatchKeepsInbox ==
  ASSUME TypeInv, InboxInv, NEW R, R \subseteq RowIDs \union {0},
         R \subseteq Modifiedrows \/ R \subseteq Rows,
         Modifiedrows' = Modifiedrows \ R, Rows' = Rows \ R, polled' = polled \union R,
         calls' = [p \in Packets |-> IF p \in Dispatched(R) THEN calls[p] + 1 ELSE calls[p]],
         UNCHANGED <<Syncpacket, Packet, pc, RowID, socket, copies, created>>,
         phase' = phase \/ phase' # "running"
  PROVE  /\ InboxInv'
         /\ \A p \in Dispatched(R) : p \in Stored /\ Foreign(p) /\ calls[p] = 0
  <1> USE DEF TypeInv, TypeOK
  <1>0. RowsOK /\ CallsOK
    BY DEF InboxInv
  <1>1. Used' = Used /\ Stored' = Stored
    BY DEF Used, Stored
  <1>2. \A p \in Dispatched(R) : p \in Stored /\ \E r \in R \intersect Used : Syncpacket[r] = p
    BY DEF Dispatched, Stored
  <1>3. \A p \in Dispatched(R) : Foreign(p) /\ calls[p] = 0
    BY <1>0, <1>2 DEF RowsOK, CallsOK, Dispatched
  <1>4. RowsOK'
    BY <1>0, <1>1 DEF RowsOK, Foreign
  <1>5. CallsOK'
    BY <1>0, <1>1, <1>2 DEF CallsOK
  <1>6. phase' = "running" => FreshOK' /\ OnceOK'
    BY <1>1 DEF InboxInv, FreshOK, OnceOK, Foreign
  <1> QED BY <1>2, <1>3, <1>4, <1>5, <1>6 DEF InboxInv

LEMMA CleanupKeepsInbox ==
  ASSUME TypeInv, InboxInv, CleanupDB
  PROVE  InboxInv' /\ Stored' \subseteq Stored
  <1> USE DEF TypeInv, TypeOK
  <1>1. /\ \A r \in RowIDs : Syncpacket'[r] # Nothing => Syncpacket'[r] = Syncpacket[r]
        /\ UNCHANGED <<Modifiedrows, Rows, polled, calls>> /\ phase' # "running"
    BY DEF CleanupDB
  <1>2. Used' \subseteq Used /\ \A r \in Used' : Syncpacket'[r] = Syncpacket[r]
    BY <1>1 DEF Used
  <1>3. Stored' \subseteq Stored
    BY <1>2 DEF Stored
  <1>4. RowsOK'
    BY <1>1, <1>2 DEF InboxInv, RowsOK, Foreign
  <1>5. CallsOK'
    <2> SUFFICES ASSUME NEW p \in Packets, p \in Stored', calls[p] # 0
                 PROVE  \E r \in polled \intersect Used' : Syncpacket'[r] = p
      BY <1>1 DEF CallsOK
    <2>1. PICK q \in Used' : Syncpacket'[q] = p
      BY DEF Stored
    <2>2. PICK r \in polled \intersect Used : Syncpacket[r] = p
      BY <1>3 DEF InboxInv, CallsOK
    <2>3. q = r
      BY <1>2, <2>1, <2>2 DEF InboxInv, RowsOK
    <2> QED BY <2>1, <2>2, <2>3
  <1> QED BY <1>1, <1>3, <1>4, <1>5 DEF InboxInv

LEMMA InboxInvKept ==
  ASSUME NoCopies, TypeInv, Exclusive, InboxInv, [Next]_vars
  PROVE  InboxInv'
  <1> USE PacketAssumption, BoundAssumption DEF TypeInv, TypeOK, FramesOK, frames, ending, network, database
  <1>1. ASSUME NEW t \in Threads, Storemessage(t) PROVE InboxInv'
    BY <1>1, StoremessageKeepsInbox
  <1>2. ASSUME NEW t \in Creators, NEW p \in Packets, Createmessage(t, p) PROVE InboxInv'
    <2>1. p \notin Stored /\ \A u \in Threads : Packet[u] # p
      BY <1>2 DEF Createmessage, InboxInv, OnceOK
    <2> QED BY <1>2, <2>1, CallKeepsInbox DEF Createmessage, Threads
  <1>3. ASSUME NEW p \in Packets, ReceiveStored(p) PROVE InboxInv'
    <2>1. p \notin Stored /\ (\A u \in Threads : Packet[u] # p) /\ copies[p] # 0
      BY <1>3 DEF ReceiveStored, Receiving, InboxInv, OnceOK
    <2> QED BY <1>3, <2>1, CallKeepsInbox DEF ReceiveStored, Receiving, Threads
  <1>4. ASSUME NEW d \in Packets \union {Runt}, Arrive(d) PROVE InboxInv'
    <2>1. copies[d] = 0
      BY <1>4 DEF Arrive, NoCopies
    <2>2. /\ phase = "running" /\ phase' = "running" /\ Used' = Used /\ Stored' = Stored
          /\ socket' = socket \union {d} /\ copies' = [copies EXCEPT ![d] = 1]
      BY <1>4, <2>1 DEF Arrive, Used, Stored
    <2>3. RowsOK' /\ CallsOK' /\ FreshOK'
      BY <1>4, <2>2 DEF Arrive, InboxInv, RowsOK, CallsOK, FreshOK, Foreign
    <2>4. OnceOK'
      BY <1>4, <2>1, <2>2 DEF Arrive, InboxInv, OnceOK, Foreign
    <2> QED BY <2>3, <2>4 DEF InboxInv
  <1>5. CASE ReceiveBreak \/ \E p \in Packets : ReceiveIgnored(p)
    <2>1. /\ UNCHANGED <<Syncpacket, Packet, pc, RowID, Modifiedrows, Rows, polled, calls, copies, created, phase>>
          /\ Used' = Used /\ Stored' = Stored /\ socket' \subseteq socket
      BY <1>5 DEF ReceiveBreak, ReceiveIgnored, Used, Stored
    <2> QED BY <2>1 DEF InboxInv, RowsOK, CallsOK, FreshOK, OnceOK, Foreign
  <1>6. CASE StartPoll
    <2>1. /\ UNCHANGED <<Syncpacket, Packet, pc, RowID, polled, calls, socket, copies, created, phase>>
          /\ Used' = Used /\ Stored' = Stored
          /\ Rows = {} /\ Rows' = Modifiedrows /\ Modifiedrows' = {}
      BY <1>6 DEF StartPoll, Used, Stored
    <2> QED BY <2>1 DEF InboxInv, RowsOK, CallsOK, FreshOK, OnceOK, Foreign
  <1>7. ASSUME NEW r \in Rows, PollRow(r) PROVE InboxInv'
    <2>1. InboxInv /\ r \notin Modifiedrows
      BY DEF InboxInv, RowsOK
    <2> QED BY <1>7, <2>1, DispatchKeepsInbox DEF PollRow
  <1>8. CASE CleanupDB
    BY <1>8, CleanupKeepsInbox
  <1>9. CASE ExitPoll
    <2>1. Rows \intersect Modifiedrows = {}
      BY DEF InboxInv, RowsOK
    <2> QED BY <1>9, <2>1, DispatchKeepsInbox DEF ExitPoll
  <1>10. CASE UNCHANGED <<Syncpacket, frames, network, Modifiedrows, Rows, polled, calls, created>>
              /\ (phase' = "running" => phase = "running")
    BY <1>10 DEF InboxInv, RowsOK, CallsOK, FreshOK, OnceOK, Foreign, Used, Stored
  <1> QED
    BY <1>1, <1>2, <1>3, <1>4, <1>5, <1>6, <1>7, <1>8, <1>9, <1>10 DEF Next, vars, Register, StartReceive,
       EndPoll, Terminate, Abort

-----------------------------------------------------------------------------
(* Every step of Synchronization is a step of Inbox or leaves what Inbox   *)
(* sees alone.                                                             *)
LEMMA StepSimulates ==
  ASSUME TypeInv, Exclusive, InboxInv, [Next]_vars
  PROVE  [TheInbox!Next]_<<Stored, calls>>
  <1> USE DEF TypeInv, TypeOK, ending, frames, network, database
  <1>1. ASSUME NEW t \in Threads, InsertRow(t) PROVE TheInbox!Next
    <2> DEFINE p == Packet[t]
    <2>1. p \in Genuine /\ p \notin Stored /\ p \in Packets
      BY <1>1, PacketAssumption DEF InsertRow, Step, InboxInv, FreshOK, FramesOK
    <2>2. Stored' = Stored \union {p} /\ calls' = calls
      BY <1>1, <2>1, PacketAssumption DEF InsertRow, Stored, Used
    <2>3. TheInbox!Store(p)
      BY <2>1, <2>2 DEF TheInbox!Store
    <2> QED BY <2>1, <2>3 DEF TheInbox!Next
  <1>2. ASSUME NEW R, Stored' = Stored,
               \A p \in Dispatched(R) : p \in Stored /\ Foreign(p) /\ calls[p] = 0,
               calls' = [p \in Packets |-> IF p \in Dispatched(R) THEN calls[p] + 1 ELSE calls[p]]
        PROVE  TheInbox!Next
    <2>1. TheInbox!HandleAll(Dispatched(R))
      BY <1>2 DEF TheInbox!HandleAll, Foreign, Dispatched
    <2>2. Dispatched(R) \in SUBSET Packets
      BY DEF Dispatched
    <2> QED BY <2>1, <2>2 DEF TheInbox!Next
  <1>3. ASSUME NEW r \in Rows, PollRow(r) PROVE TheInbox!Next
    <2>1. r \notin Modifiedrows
      BY DEF InboxInv, RowsOK
    <2>2. \A p \in Dispatched({r}) : p \in Stored /\ Foreign(p) /\ calls[p] = 0
      BY <1>3, <2>1, DispatchKeepsInbox DEF PollRow
    <2>3. /\ Stored' = Stored
          /\ calls' = [p \in Packets |-> IF p \in Dispatched({r}) THEN calls[p] + 1 ELSE calls[p]]
      BY <1>3 DEF PollRow, Stored, Used
    <2> QED BY <1>2, <2>2, <2>3
  <1>4. CASE ExitPoll
    <2>1. Rows \intersect Modifiedrows = {}
      BY DEF InboxInv, RowsOK
    <2>2. \A p \in Dispatched(Modifiedrows) : p \in Stored /\ Foreign(p) /\ calls[p] = 0
      BY <1>4, <2>1, DispatchKeepsInbox DEF ExitPoll
    <2> QED BY <1>2, <1>4, <2>2 DEF ExitPoll, Stored, Used
  <1>5. CASE CleanupDB
    <2>1. Stored' \subseteq Stored /\ calls' = calls
      BY <1>5, CleanupKeepsInbox DEF CleanupDB
    <2>2. TheInbox!Prune(Stored \ Stored')
      BY <2>1 DEF TheInbox!Prune
    <2>3. Stored \ Stored' \in SUBSET Packets
      BY DEF Stored, Used
    <2> QED BY <2>2, <2>3 DEF TheInbox!Next
  <1>6. CASE UNCHANGED <<Syncpacket, calls>>
    BY <1>6 DEF Stored, Used
  <1> QED
    BY <1>1, <1>3, <1>4, <1>5, <1>6 DEF Next, vars, Storemessage, EnsureAccount, InsertDuplicate, MarkRow,
       ReadSeen, UpdateSeen, Createmessage, Register, Arrive, StartReceive, ReceiveBreak, ReceiveIgnored,
       ReceiveStored, StartPoll, EndPoll, Terminate, Abort

(* If no datagram arrives twice, Synchronization implements Inbox: a       *)
(* stored packet of somebody else goes to the handlers of its type at most *)
(* once, and nothing else does (Synchronization.cpp:35-94).                *)
THEOREM SynchronizationImplementsInbox == ASSUME NoCopies PROVE Spec => ImplementsInbox
  <1>1. Init => TheInbox!Init /\ Exclusive /\ InboxInv
    <2> SUFFICES ASSUME Init PROVE TheInbox!Init /\ Exclusive /\ InboxInv
      OBVIOUS
    <2>1. Used = {} /\ Stored = {}
      BY DEF Init, Used, Stored
    <2>2. TheInbox!Init /\ Exclusive
      BY <2>1 DEF Init, TheInbox!Init, Exclusive
    <2>3. RowsOK /\ CallsOK /\ FreshOK
      BY <2>1 DEF Init, RowsOK, CallsOK, FreshOK
    <2>4. OnceOK
      BY <2>1, PacketAssumption DEF Init, OnceOK
    <2> QED BY <2>2, <2>3, <2>4 DEF InboxInv
  <1>2. TypeInv /\ Exclusive /\ InboxInv /\ [Next]_vars => (Exclusive /\ InboxInv)'
    BY ExclusiveKept, InboxInvKept, NoCopies
  <1>3. TypeInv /\ Exclusive /\ InboxInv /\ [Next]_vars => [TheInbox!Next]_<<Stored, calls>>
    BY StepSimulates
  <1>4. Spec => []TypeInv
    BY TypeCorrect, PTL DEF TypeInv
  <1> QED BY <1>1, <1>2, <1>3, <1>4, PTL DEF Spec, ImplementsInbox, TheInbox!Spec

-----------------------------------------------------------------------------
(* What Inbox promises its users, Synchronization then promises too.       *)
Handled == calls \in [Packets -> 0 .. 1] /\ OursAreNotProcessed

LEMMA InboxHandles == TheInbox!Spec => []Handled
  <1> USE DEF Handled, OursAreNotProcessed, Foreign
  <1>1. TheInbox!Init => Handled
    BY DEF TheInbox!Init
  <1>2. Handled /\ [TheInbox!Next]_<<Stored, calls>> => Handled'
    <2> SUFFICES ASSUME Handled, [TheInbox!Next]_<<Stored, calls>> PROVE Handled'
      OBVIOUS
    <2>1. ASSUME NEW p \in Packets, TheInbox!Store(p) PROVE Handled'
      BY <2>1 DEF TheInbox!Store
    <2>2. ASSUME NEW p \in Packets, TheInbox!Handle(p) PROVE Handled'
      BY <2>2 DEF TheInbox!Handle
    <2>3. ASSUME NEW P \in SUBSET Packets, TheInbox!HandleAll(P) PROVE Handled'
      BY <2>3 DEF TheInbox!HandleAll
    <2>4. ASSUME NEW P \in SUBSET Packets, TheInbox!Prune(P) PROVE Handled'
      BY <2>4 DEF TheInbox!Prune
    <2>5. CASE UNCHANGED <<Stored, calls>>
      BY <2>5
    <2> QED BY <2>1, <2>2, <2>3, <2>4, <2>5 DEF TheInbox!Next
  <1> QED BY <1>1, <1>2, PTL DEF TheInbox!Spec

(* If no datagram arrives twice, "Mark for processing next frame (if not   *)
(* ours)" (Synchronization.cpp:53) is true: no packet of our own is given  *)
(* to a handler. Copies are all it takes to break it.                      *)
THEOREM OursAreSafe == ASSUME NoCopies PROVE Spec => []OursAreNotProcessed
  <1>1. Handled => OursAreNotProcessed
    BY DEF Handled
  <1>2. Spec => TheInbox!Spec
    BY SynchronizationImplementsInbox, NoCopies DEF ImplementsInbox
  <1> QED BY <1>1, <1>2, InboxHandles, PTL

(* And no packet is given to the handlers of its type twice                *)
(* (Synchronization.cpp:69-94).                                            *)
THEOREM HandledAtMostOnce == ASSUME NoCopies PROVE Spec => [](\A p \in Packets : calls[p] <= 1)
  <1>1. Handled => \A p \in Packets : calls[p] <= 1
    BY DEF Handled
  <1>2. Spec => TheInbox!Spec
    BY SynchronizationImplementsInbox, NoCopies DEF ImplementsInbox
  <1> QED BY <1>1, <1>2, InboxHandles, PTL
=============================================================================
