--------------------------- MODULE LANNetworking ---------------------------
(***************************************************************************)
(* Backend/LANNetworking.cpp: packets are multicast at once, or delayed    *)
(* until the next Poll; a packet that the socket does not take is retried  *)
(* by a thread of its own. What Poll does with a received packet is in     *)
(* Synchronization; here a datagram is whole or too short to be a packet.  *)
(*                                                                         *)
(* The queue of delayed packets is not guarded: a push that overlaps       *)
(* another push or the pop may be lost. An overlap is seen where the push  *)
(* ends first; the other order of ends has the same outcomes. (That the    *)
(* race may also corrupt the queue and end the process sends nothing.)     *)
(***************************************************************************)
EXTENDS Integers, Sequences, SequencesExt, FiniteSets

CONSTANTS
  Packets,      (* Each is published once.                                  *)
  Threads,      (* The callers of PublishLAN other than...                  *)
  Background,   (* ...the thread of Poll, which calls it in other tasks.    *)
  Nothing,      (* No packet.                                               *)
  Tries,        (* 10: how often Publish tries before it starts a thread.   *)
  Backlog       (* Bound: datagrams in the receive buffer.                  *)

Callers == Threads \union {Background}
Kinds == {"whole", "short"}

NetworkAssumption ==
  /\ Background \notin Threads /\ Nothing \notin Packets
  /\ Tries \in Nat \ {0} /\ Backlog \in Nat

VARIABLES
  Packetqueue, Broadcastsocket,
  pc, Packet, Try,      (* Each caller: its next step, its packet, its tries. *)
  retrying,             (* The packets that have a thread of their own.     *)
  receivebuffer,        (* The datagrams that wait in the socket.           *)
  fresh, queued, sent,  (* History: packets not yet published, all that were *)
                        (* queued, all the socket took, in order,...        *)
  blocked, dropped, lost  (* ...had a thread, met an error, lost the race.  *)

outcome == <<queued, sent, blocked, dropped, lost>>
caller  == <<pc, Packet, Try>>
vars == <<Packetqueue, Broadcastsocket, pc, Packet, Try, retrying, receivebuffer,
          fresh, queued, sent, blocked, dropped, lost>>

TypeOK ==
  /\ Packetqueue \in Seq(Packets) /\ queued \in Seq(Packets) /\ sent \in Seq(Packets)
  /\ Broadcastsocket \in {"none", "open", "closed"}
  /\ pc \in [Callers -> {"idle", "push", "publish", "drain", "pop", "receive"}]
  /\ \A t \in Threads : pc[t] \in {"idle", "push", "publish"}
  /\ pc[Background] \in {"drain", "pop"} => Packetqueue # << >>
  /\ Packet \in [Callers -> Packets \union {Nothing}]
  /\ \A t \in Callers : pc[t] \in {"push", "publish"} <=> Packet[t] # Nothing
  /\ Try \in [Callers -> 0 .. Tries - 1]
  /\ receivebuffer \in Seq(Kinds)
  /\ \A S \in {retrying, fresh, blocked, dropped, lost} : S \subseteq Packets

Init ==
  /\ Packetqueue = << >> /\ Broadcastsocket = "none"
  /\ pc = [t \in Callers |-> "idle"] /\ Packet = [t \in Callers |-> Nothing]
  /\ Try = [t \in Callers |-> 0]
  /\ retrying = {} /\ receivebuffer = << >>
  /\ fresh = Packets /\ queued = << >> /\ sent = << >> /\ blocked = {} /\ dropped = {} /\ lost = {}

(* Initialize, a startup task: others may publish before it. If the socket *)
(* cannot be set up it is closed, and Poll is not enqueued.                *)
Initialize ==
  /\ Broadcastsocket = "none"
  /\ Broadcastsocket' \in {"open", "closed"}
  /\ UNCHANGED <<Packetqueue, caller, retrying, receivebuffer, fresh, outcome>>

PublishLAN(t, p, Delayed) ==
  /\ pc[t] = "idle" /\ p \in fresh
  /\ fresh' = fresh \ {p}
  /\ Packet' = [Packet EXCEPT ![t] = p]
  /\ pc' = [pc EXCEPT ![t] = IF Delayed THEN "push" ELSE "publish"]
  /\ UNCHANGED <<Packetqueue, Broadcastsocket, Try, retrying, receivebuffer, outcome>>

Return(t) ==
  /\ pc' = [pc EXCEPT ![t] = IF @ = "drain" THEN "pop" ELSE "idle"]
  /\ Packet' = [Packet EXCEPT ![t] = Nothing]
  /\ Try' = [Try EXCEPT ![t] = 0]

Push_Front(t) ==
  /\ pc[t] = "push"
  /\ Packetqueue' = <<Packet[t]>> \o Packetqueue
  /\ queued' = Append(queued, Packet[t])
  /\ Return(t)
  /\ UNCHANGED <<Broadcastsocket, retrying, receivebuffer, fresh, sent, blocked, dropped, lost>>
Push(t) ==
  /\ pc[t] = "push"
  /\ Packetqueue' = Append(Packetqueue, Packet[t])
  /\ queued' = Append(queued, Packet[t])
  /\ Return(t)
  /\ UNCHANGED <<Broadcastsocket, retrying, receivebuffer, fresh, sent, blocked, dropped, lost>>

RacingPush(t) ==
  /\ pc[t] = "push"
  /\ pc[Background] = "pop" \/ \E u \in Callers \ {t} : pc[u] = "push"
  /\ lost' = lost \union {Packet[t]}
  /\ Return(t)
  /\ UNCHANGED <<Packetqueue, Broadcastsocket, retrying, receivebuffer, fresh, queued, sent, blocked, dropped>>

-----------------------------------------------------------------------------
(* Publish: one sendto. It fails for good on a socket that is not open.    *)
Publishes(t) == pc[t] \in {"publish", "drain"}
Current(t) == IF pc[t] = "drain" THEN Head(Packetqueue) ELSE Packet[t]

TrySent(t) ==
  /\ Publishes(t) /\ Broadcastsocket = "open"
  /\ sent' = Append(sent, Current(t))
  /\ Return(t)
  /\ UNCHANGED <<Packetqueue, Broadcastsocket, retrying, receivebuffer, fresh, queued, blocked, dropped, lost>>

TryError(t) ==
  /\ Publishes(t)
  /\ dropped' = dropped \union {Current(t)}
  /\ Return(t)
  /\ UNCHANGED <<Packetqueue, Broadcastsocket, retrying, receivebuffer, fresh, queued, sent, blocked, lost>>

TryBlocked_Stuck(t) ==
  /\ Publishes(t) /\ Broadcastsocket = "open"
  /\ Try' = [Try EXCEPT ![t] = @ + 1]
  /\ UNCHANGED <<pc, Packet, Packetqueue, Broadcastsocket, retrying, receivebuffer, fresh, outcome>>
TryBlocked(t) ==
  /\ Publishes(t) /\ Broadcastsocket = "open"
  /\ \/ /\ Try[t] + 1 < Tries
        /\ Try' = [Try EXCEPT ![t] = @ + 1]
        /\ UNCHANGED <<pc, Packet, retrying, blocked>>
     \/ /\ Try[t] + 1 = Tries
        /\ retrying' = retrying \union {Current(t)}
        /\ blocked' = blocked \union {Current(t)}
        /\ Return(t)
  /\ UNCHANGED <<Packetqueue, Broadcastsocket, receivebuffer, fresh, queued, sent, dropped, lost>>

(* The detached thread, which goes on until the socket takes the packet.   *)
Retry(p) ==
  /\ p \in retrying
  /\ retrying' = retrying \ {p}
  /\ \/ sent' = Append(sent, p) /\ UNCHANGED dropped
     \/ dropped' = dropped \union {p} /\ UNCHANGED sent
  /\ UNCHANGED <<Packetqueue, Broadcastsocket, caller, receivebuffer, fresh, queued, blocked, lost>>

-----------------------------------------------------------------------------
(* Poll: the delayed packets first,...                                     *)
Drain(queue) == pc' = [pc EXCEPT ![Background] = IF queue = << >> THEN "receive" ELSE "drain"]

StartPoll_IfReadable ==
  /\ pc[Background] = "idle" /\ Broadcastsocket = "open"
  /\ receivebuffer # << >>
  /\ Drain(Packetqueue)
  /\ UNCHANGED <<Packetqueue, Broadcastsocket, Packet, Try, retrying, receivebuffer, fresh, outcome>>
StartPoll ==
  /\ pc[Background] = "idle" /\ Broadcastsocket = "open"
  /\ Drain(Packetqueue)
  /\ UNCHANGED <<Packetqueue, Broadcastsocket, Packet, Try, retrying, receivebuffer, fresh, outcome>>

Pop_Unblocked ==
  /\ pc[Background] = "pop"
  /\ Packetqueue' = IF Head(Packetqueue) \in blocked THEN Packetqueue ELSE Tail(Packetqueue)
  /\ Drain(Packetqueue')
  /\ UNCHANGED <<Broadcastsocket, Packet, Try, retrying, receivebuffer, fresh, outcome>>
Pop ==
  /\ pc[Background] = "pop"
  /\ Packetqueue' = Tail(Packetqueue)
  /\ Drain(Packetqueue')
  /\ UNCHANGED <<Broadcastsocket, Packet, Try, retrying, receivebuffer, fresh, outcome>>

(* ...then datagrams until none is left or one is too short.               *)
Receive ==
  /\ pc[Background] = "receive"
  /\ pc' = [pc EXCEPT ![Background] =
       IF receivebuffer # << >> /\ Head(receivebuffer) = "whole" THEN "receive" ELSE "idle"]
  /\ receivebuffer' = IF receivebuffer = << >> THEN << >> ELSE Tail(receivebuffer)
  /\ UNCHANGED <<Packetqueue, Broadcastsocket, Packet, Try, retrying, fresh, outcome>>

Arrive(kind) ==
  /\ Broadcastsocket = "open" /\ Len(receivebuffer) < Backlog
  /\ receivebuffer' = Append(receivebuffer, kind)
  /\ UNCHANGED <<Packetqueue, Broadcastsocket, caller, retrying, fresh, outcome>>

Publish(t) == TrySent(t) \/ TryError(t) \/ TryBlocked(t)
Poll == StartPoll \/ Pop \/ Receive

Next ==
  \/ Initialize \/ Poll
  \/ \E t \in Callers :
       \/ \E p \in Packets, Delayed \in BOOLEAN : PublishLAN(t, p, Delayed)
       \/ Push(t) \/ RacingPush(t) \/ Publish(t)
  \/ \E p \in Packets : Retry(p)
  \/ \E kind \in Kinds : Arrive(kind)

Spec == Init /\ [][Next]_vars

-----------------------------------------------------------------------------
Handled == ToSet(sent) \union dropped \union lost
Waiting == ToSet(Packetqueue) \union retrying \union (ToSet(Packet) \ {Nothing})
Popping == IF pc[Background] = "pop" THEN {Head(Packetqueue)} ELSE {}

(* A published packet is somewhere on its way until the socket took it or  *)
(* it failed for good, in one place at a time, and goes out at most once,  *)
(* also when the caller, Poll and a detached thread had it in turn         *)
(* (LANNetworking.cpp:20-62 and 139-149). That the network gets no copy    *)
(* from us is what NoCopies of Inbox_proofs rests on.                      *)
SentOnce ==
  /\ Packets = fresh \union Waiting \union Handled
  /\ Waiting \intersect Handled \subseteq Popping
  /\ retrying \intersect ToSet(Packetqueue) \subseteq Popping
  /\ IsInjective(sent) /\ IsInjective(Packetqueue) /\ ToSet(sent) \intersect (dropped \union lost) = {}

(* Delayed packets go out in the order they were queued; only one that had *)
(* to be retried may be overtaken (LANNetworking.cpp:31-41 and 54-62).     *)
OvertakenOnlyIfBlocked ==
  \A i, j \in DOMAIN queued : i < j /\ queued[j] \in ToSet(sent) =>
    \/ queued[i] \in blocked \union dropped
    \/ \E k, l \in DOMAIN sent : k < l /\ sent[k] = queued[i] /\ sent[l] = queued[j]

(* A queued packet does go out, or fails with an error, once the socket is *)
(* open: also one queued before it was, as the first announcement may be   *)
(* (LANNetworking.cpp:45-62 and 129, Synchronization.cpp:133), unless      *)
(* datagrams arrive without end.                                           *)
Flooded == []<><<\E kind \in Kinds : Arrive(kind)>>_vars
QueuedGetsSent ==
  \A p \in Packets :
    (p \in ToSet(Packetqueue) /\ Broadcastsocket = "open" ~> p \in ToSet(sent) \union dropped) \/ Flooded
=============================================================================
