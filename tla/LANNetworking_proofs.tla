------------------------ MODULE LANNetworking_proofs ------------------------
(***************************************************************************)
(* For any packets, callers and number of tries: a packet has one way to   *)
(* the socket and is sent at most once, and delayed packets overtake only  *)
(* those that had to be retried.                                           *)
(***************************************************************************)
EXTENDS LANNetworking, TLAPS

-----------------------------------------------------------------------------
(* What the operators on sequences do to the set of elements.              *)
LEMMA AppendSet ==
  ASSUME NEW S, NEW s \in Seq(S), NEW e \in S
  PROVE  /\ Append(s, e) \in Seq(S)
         /\ ToSet(Append(s, e)) = ToSet(s) \union {e}
<1>1. /\ Append(s, e) \in Seq(S) /\ Len(Append(s, e)) = Len(s) + 1 /\ Len(s) \in Nat
      /\ DOMAIN s = 1 .. Len(s) /\ DOMAIN Append(s, e) = 1 .. Len(s) + 1
      /\ Append(s, e)[Len(s) + 1] = e
      /\ \A i \in DOMAIN s : Append(s, e)[i] = s[i]
  OBVIOUS
<1>2. ASSUME NEW x \in ToSet(Append(s, e)) PROVE x \in ToSet(s) \union {e}
  BY <1>1, <1>2 DEF ToSet
<1>3. ASSUME NEW x \in ToSet(s) PROVE x \in ToSet(Append(s, e))
  BY <1>1, <1>3 DEF ToSet
<1>4. e \in ToSet(Append(s, e))
  BY <1>1 DEF ToSet
<1> QED BY <1>1, <1>2, <1>3, <1>4

LEMMA AppendOnce ==
  ASSUME NEW S, NEW s \in Seq(S), NEW e \in S, IsInjective(s), e \notin ToSet(s)
  PROVE  IsInjective(Append(s, e))
<1>1. /\ DOMAIN s = 1 .. Len(s) /\ DOMAIN Append(s, e) = 1 .. Len(s) + 1 /\ Len(s) \in Nat
      /\ Append(s, e)[Len(s) + 1] = e
      /\ \A i \in DOMAIN s : Append(s, e)[i] = s[i] /\ s[i] # e
  BY DEF ToSet
<1> QED BY <1>1 DEF IsInjective

LEMMA TailSet ==
  ASSUME NEW S, NEW s \in Seq(S), s # << >>, IsInjective(s)
  PROVE  /\ Head(s) \in ToSet(s) /\ Head(s) \in S /\ Tail(s) \in Seq(S)
         /\ ToSet(Tail(s)) = ToSet(s) \ {Head(s)} /\ IsInjective(Tail(s))
<1>1. /\ Tail(s) \in Seq(S) /\ DOMAIN s = 1 .. Len(s) /\ DOMAIN Tail(s) = 1 .. Len(s) - 1
      /\ Len(s) \in Nat \ {0} /\ Head(s) = s[1] /\ Head(s) \in S
      /\ \A i \in DOMAIN Tail(s) : Tail(s)[i] = s[i + 1]
  OBVIOUS
<1>2. ASSUME NEW i \in DOMAIN Tail(s) PROVE Tail(s)[i] \in ToSet(s) /\ Tail(s)[i] # Head(s)
  BY <1>1 DEF ToSet, IsInjective
<1>3. ASSUME NEW i \in DOMAIN s, s[i] # Head(s) PROVE s[i] \in ToSet(Tail(s))
  <2>1. i - 1 \in DOMAIN Tail(s) /\ Tail(s)[i - 1] = s[i]
    BY <1>1, <1>3
  <2> QED BY <2>1 DEF ToSet
<1>4. IsInjective(Tail(s))
  BY <1>1 DEF IsInjective
<1>5. ToSet(Tail(s)) = ToSet(s) \ {Head(s)}
  BY <1>2, <1>3 DEF ToSet
<1>6. Head(s) \in ToSet(s)
  BY <1>1 DEF ToSet
<1> QED BY <1>1, <1>4, <1>5, <1>6

-----------------------------------------------------------------------------
(* Where packets are: not published yet, with a caller, in the queue, with *)
(* a thread of their own, sent, dropped or lost, and in only one of these  *)
(* places; but the one that Poll has just published is still in the queue. *)
Places(F, H, Q, R, S, D, L, U, P) ==
  /\ Packets = F \union H \union Q \union R \union S \union D \union L
  /\ F \intersect (H \union Q \union R \union S \union D \union L \union U) = {}
  /\ H \intersect (Q \union R \union S \union D \union L \union U) = {}
  /\ P \subseteq R \union S \union D
  /\ Q \intersect (R \union S \union D \union L) \subseteq P
  /\ R \intersect (S \union D \union L) = {}
  /\ S \intersect (D \union L) = {}

Held == ToSet(Packet) \ {Nothing}

PlacesOK ==
  Places(fresh, Held, ToSet(Packetqueue), retrying, ToSet(sent), dropped, lost, ToSet(queued), Popping)

Alone == \A t, u \in Callers : Packet[t] = Packet[u] /\ Packet[t] # Nothing => t = u

(* The queue is the end of all that was queued; what is before it was      *)
(* taken from it after an attempt.                                         *)
First == Len(queued) - Len(Packetqueue)

QueueOK ==
  /\ First \in Nat
  /\ \A k \in DOMAIN Packetqueue : First + k \in DOMAIN queued /\ Packetqueue[k] = queued[First + k]
  /\ \A i \in DOMAIN queued : i <= First => queued[i] \in ToSet(sent) \union blocked \union dropped
  /\ retrying \subseteq blocked

OnceOK == IsInjective(queued) /\ IsInjective(Packetqueue) /\ IsInjective(sent)

NetInv == TypeOK /\ PlacesOK /\ Alone /\ OnceOK /\ QueueOK /\ OvertakenOnlyIfBlocked

-----------------------------------------------------------------------------
LEMMA Types ==
  ASSUME TypeOK
  PROVE  /\ Packetqueue \in Seq(Packets) /\ queued \in Seq(Packets) /\ sent \in Seq(Packets)
         /\ Packet \in [Callers -> Packets \union {Nothing}]
         /\ retrying \subseteq Packets /\ fresh \subseteq Packets /\ blocked \subseteq Packets
         /\ dropped \subseteq Packets /\ lost \subseteq Packets
         /\ pc \in [Callers -> {"idle", "push", "publish", "drain", "pop", "receive"}]
BY DEF TypeOK

(* A caller that pushes or publishes has a packet, and only Poll drains.   *)
LEMMA Callings ==
  ASSUME NetworkAssumption, TypeOK, NEW t \in Callers
  PROVE  /\ pc[t] \in {"push", "publish"} <=> Packet[t] # Nothing
         /\ pc[t] \in {"drain", "pop", "receive"} => t = Background
         /\ pc[t] \in {"drain", "pop"} => Packetqueue # << >>
         /\ Background \in Callers /\ Packet[t] \in Packets \union {Nothing} /\ Nothing \notin Packets
<1>1. \A u \in Threads : pc[u] \in {"idle", "push", "publish"}
  BY DEF TypeOK
<1>2. pc[Background] \in {"drain", "pop"} => Packetqueue # << >>
  BY DEF TypeOK
<1>3. pc[t] \in {"push", "publish"} <=> Packet[t] # Nothing
  BY DEF TypeOK
<1> QED BY <1>1, <1>2, <1>3, Types DEF Callers, NetworkAssumption

LEMMA CurrentIs ==
  ASSUME NetworkAssumption, TypeOK, NEW t \in Callers, Publishes(t)
  PROVE  /\ Current(t) \in Packets
         /\ pc[t] = "publish" => Current(t) = Packet[t]
         /\ pc[t] = "drain" => t = Background /\ Current(t) = Head(Packetqueue) /\ Packetqueue # << >> /\ Packet[t] = Nothing
         /\ pc[t] \in {"publish", "drain"}
<1>1. Packetqueue # << >> => Head(Packetqueue) \in Packets
  BY Types
<1> QED BY <1>1, Callings DEF Publishes, Current

(* A call returns. *)
LEMMA ReturnIs ==
  ASSUME NetworkAssumption, TypeOK, NEW t \in Callers, Return(t)
  PROVE  /\ pc' \in [Callers -> {"idle", "push", "publish", "drain", "pop", "receive"}]
         /\ pc'[t] = IF pc[t] = "drain" THEN "pop" ELSE "idle"
         /\ \A u \in Callers \ {t} : pc'[u] = pc[u]
         /\ Packet' = [Packet EXCEPT ![t] = Nothing] /\ Packet' \in [Callers -> Packets \union {Nothing}]
         /\ Packet'[t] = Nothing
         /\ \A u \in Callers \ {t} : Packet'[u] = Packet[u]
         /\ Try' \in [Callers -> 0 .. Tries - 1]
<1>1. Try \in [Callers -> 0 .. Tries - 1] /\ 0 \in 0 .. Tries - 1
  BY DEF TypeOK, NetworkAssumption
<1> QED BY <1>1, Types DEF Return

(* The part of TypeOK about the callers and the queue.                     *)
CallersOK ==
  /\ pc \in [Callers -> {"idle", "push", "publish", "drain", "pop", "receive"}]
  /\ \A t \in Threads : pc[t] \in {"idle", "push", "publish"}
  /\ pc[Background] \in {"drain", "pop"} => Packetqueue # << >>
  /\ Packet \in [Callers -> Packets \union {Nothing}]
  /\ \A t \in Callers : pc[t] \in {"push", "publish"} <=> Packet[t] # Nothing
  /\ Try \in [Callers -> 0 .. Tries - 1]

LEMMA ReturnTypes ==
  ASSUME NetworkAssumption, TypeOK, NEW t \in Callers, Return(t), pc[t] \in {"push", "publish", "drain"},
         Packetqueue' # << >> \/ UNCHANGED Packetqueue
  PROVE  CallersOK'
<1>1. Background \in Callers /\ Background \notin Threads /\ Threads \subseteq Callers
  BY DEF Callers, NetworkAssumption
<1>2. \A u \in Threads : pc'[u] \in {"idle", "push", "publish"}
  <2> SUFFICES ASSUME NEW u \in Threads PROVE pc'[u] \in {"idle", "push", "publish"}
    OBVIOUS
  <2>1. pc[u] \in {"idle", "push", "publish"}
    BY DEF TypeOK
  <2> QED BY <1>1, <2>1, ReturnIs
<1>3. pc'[Background] \in {"drain", "pop"} => Packetqueue' # << >>
  <2>1. pc[Background] \in {"drain", "pop"} => Packetqueue # << >>
    BY DEF TypeOK
  <2> QED BY <1>1, <2>1, ReturnIs
<1>4. \A u \in Callers : pc'[u] \in {"push", "publish"} <=> Packet'[u] # Nothing
  <2> SUFFICES ASSUME NEW u \in Callers PROVE pc'[u] \in {"push", "publish"} <=> Packet'[u] # Nothing
    OBVIOUS
  <2>1. pc[u] \in {"push", "publish"} <=> Packet[u] # Nothing
    BY Callings
  <2> QED BY <2>1, ReturnIs
<1> QED BY <1>2, <1>3, <1>4, ReturnIs DEF CallersOK

(* The rest of it. *)
RestOK ==
  /\ Packetqueue \in Seq(Packets) /\ queued \in Seq(Packets) /\ sent \in Seq(Packets)
  /\ Broadcastsocket \in {"none", "open", "closed"}
  /\ receivebuffer \in Seq(Kinds)
  /\ retrying \subseteq Packets /\ fresh \subseteq Packets /\ blocked \subseteq Packets
  /\ dropped \subseteq Packets /\ lost \subseteq Packets

LEMMA TypeParts == TypeOK <=> CallersOK /\ RestOK
BY DEF TypeOK, CallersOK, RestOK

LEMMA TypeStep ==
  ASSUME NetworkAssumption, TypeOK, [Next]_vars
  PROVE  TypeOK'
<1> SUFFICES CallersOK' /\ RestOK'
  BY DEF TypeOK, CallersOK, RestOK
<1>0. CallersOK /\ RestOK
  BY TypeParts
<1>c. Background \in Callers /\ Background \notin Threads /\ Threads \subseteq Callers /\ Tries \in Nat \ {0}
      /\ Callers = Threads \union {Background}
  BY DEF Callers, NetworkAssumption
<1>1. ASSUME Initialize PROVE CallersOK' /\ RestOK'
  BY <1>0, <1>1 DEF Initialize, CallersOK, RestOK, caller, outcome
<1>2. ASSUME NEW t \in Callers, NEW p \in Packets, NEW Delayed \in BOOLEAN, PublishLAN(t, p, Delayed)
      PROVE  CallersOK' /\ RestOK'
  <2>1. RestOK'
    BY <1>0, <1>2 DEF PublishLAN, RestOK, outcome
  <2>2. p # Nothing
    BY DEF NetworkAssumption
  <2>3. CallersOK'
    BY <1>0, <1>2, <1>c, <2>2 DEF PublishLAN, CallersOK
  <2> QED BY <2>1, <2>3
<1>3. ASSUME NEW t \in Callers, Push(t) PROVE CallersOK' /\ RestOK'
  <2>1. Packet[t] \in Packets /\ pc[t] = "push" /\ Return(t)
    BY <1>3, Callings DEF Push
  <2>2. /\ Packetqueue' = Append(Packetqueue, Packet[t]) /\ queued' = Append(queued, Packet[t])
        /\ UNCHANGED <<Broadcastsocket, retrying, receivebuffer, fresh, sent, blocked, dropped, lost>>
    BY <1>3 DEF Push
  <2>3. Packetqueue' \in Seq(Packets) /\ queued' \in Seq(Packets) /\ Packetqueue' # << >>
    BY <2>1, <2>2, Types
  <2> QED BY <1>0, <2>1, <2>2, <2>3, ReturnTypes DEF RestOK
<1>4. ASSUME NEW t \in Callers, RacingPush(t) PROVE CallersOK' /\ RestOK'
  <2>1. Packet[t] \in Packets /\ pc[t] = "push" /\ Return(t)
    BY <1>4, Callings DEF RacingPush
  <2>2. CallersOK'
    BY <1>4, <2>1, ReturnTypes DEF RacingPush
  <2> QED BY <1>0, <1>4, <2>1, <2>2 DEF RacingPush, RestOK
<1>5. ASSUME NEW t \in Callers, TrySent(t) PROVE CallersOK' /\ RestOK'
  <2>1. Publishes(t) /\ Return(t) /\ Current(t) \in Packets /\ pc[t] \in {"publish", "drain"}
    BY <1>5, CurrentIs DEF TrySent
  <2>2. CallersOK'
    BY <1>5, <2>1, ReturnTypes DEF TrySent
  <2>3. sent' \in Seq(Packets)
    BY <1>5, <2>1, Types, AppendSet DEF TrySent
  <2> QED BY <1>0, <1>5, <2>2, <2>3 DEF TrySent, RestOK
<1>6. ASSUME NEW t \in Callers, TryError(t) PROVE CallersOK' /\ RestOK'
  <2>1. Publishes(t) /\ Return(t) /\ Current(t) \in Packets /\ pc[t] \in {"publish", "drain"}
    BY <1>6, CurrentIs DEF TryError
  <2>2. CallersOK'
    BY <1>6, <2>1, ReturnTypes DEF TryError
  <2> QED BY <1>0, <1>6, <2>1, <2>2 DEF TryError, RestOK
<1>7. ASSUME NEW t \in Callers, TryBlocked(t) PROVE CallersOK' /\ RestOK'
  <2>1. Publishes(t) /\ Current(t) \in Packets /\ pc[t] \in {"publish", "drain"}
    BY <1>7, CurrentIs DEF TryBlocked
  <2>2. UNCHANGED <<Packetqueue, Broadcastsocket, receivebuffer, fresh, queued, sent, dropped, lost>>
    BY <1>7 DEF TryBlocked
  <2>3. ASSUME Try[t] + 1 < Tries, Try' = [Try EXCEPT ![t] = @ + 1], UNCHANGED <<pc, Packet, retrying, blocked>>
        PROVE  CallersOK' /\ RestOK'
    BY <1>0, <1>c, <2>2, <2>3 DEF CallersOK, RestOK
  <2>4. ASSUME Return(t), retrying' = retrying \union {Current(t)}, blocked' = blocked \union {Current(t)}
        PROVE  CallersOK' /\ RestOK'
    BY <1>0, <2>1, <2>2, <2>4, ReturnTypes DEF RestOK
  <2> QED BY <1>7, <2>3, <2>4 DEF TryBlocked
<1>8. ASSUME NEW p \in Packets, Retry(p) PROVE CallersOK' /\ RestOK'
  <2>1. CallersOK'
    BY <1>0, <1>8 DEF Retry, caller, CallersOK
  <2>2. sent \in Seq(Packets) /\ (sent' = Append(sent, p) \/ sent' = sent)
    BY <1>8, Types DEF Retry
  <2>3. sent' \in Seq(Packets)
    BY <2>2, AppendSet
  <2> QED BY <1>0, <1>8, <2>1, <2>3 DEF Retry, RestOK
<1>9. ASSUME StartPoll PROVE CallersOK' /\ RestOK'
  BY <1>0, <1>9, <1>c DEF StartPoll, Drain, CallersOK, RestOK, outcome
<1>10. ASSUME Pop PROVE CallersOK' /\ RestOK'
  <2>1. Packetqueue # << >> /\ Packetqueue' = Tail(Packetqueue) /\ Packetqueue' \in Seq(Packets)
    BY <1>10, <1>c, Callings, Types DEF Pop
  <2>2. CallersOK'
    BY <1>0, <1>10, <1>c DEF Pop, Drain, CallersOK
  <2> QED BY <1>0, <1>10, <2>1, <2>2 DEF Pop, RestOK, outcome
<1>11. ASSUME Receive PROVE CallersOK' /\ RestOK'
  BY <1>0, <1>11, <1>c DEF Receive, CallersOK, RestOK, outcome
<1>12. ASSUME NEW kind \in Kinds, Arrive(kind) PROVE CallersOK' /\ RestOK'
  BY <1>0, <1>12 DEF Arrive, caller, CallersOK, RestOK, outcome
<1>13. CASE UNCHANGED vars
  BY <1>0, <1>13 DEF vars, CallersOK, RestOK
<1> QED BY <1>1, <1>2, <1>3, <1>4, <1>5, <1>6, <1>7, <1>8, <1>9, <1>10, <1>11, <1>12, <1>13 DEF Next, Poll, Publish

-----------------------------------------------------------------------------
(* What moves of a packet from place to place keep. *)
LEMMA Published ==
  ASSUME NEW F, NEW H, NEW Q, NEW R, NEW S, NEW D, NEW L, NEW U, NEW P, Places(F, H, Q, R, S, D, L, U, P),
         NEW x \in F
  PROVE  Places(F \ {x}, H \union {x}, Q, R, S, D, L, U, P)
BY DEF Places

LEMMA CallerMoves ==
  ASSUME NEW F, NEW H, NEW Q, NEW R, NEW S, NEW D, NEW L, NEW U, NEW P, Places(F, H, Q, R, S, D, L, U, P),
         NEW x \in H
  PROVE  /\ Places(F, H \ {x}, Q \union {x}, R, S, D, L, U \union {x}, P)
         /\ Places(F, H \ {x}, Q, R \union {x}, S, D, L, U, P)
         /\ Places(F, H \ {x}, Q, R, S \union {x}, D, L, U, P)
         /\ Places(F, H \ {x}, Q, R, S, D \union {x}, L, U, P)
         /\ Places(F, H \ {x}, Q, R, S, D, L \union {x}, U, P)
BY DEF Places

LEMMA PollMoves ==
  ASSUME NEW F, NEW H, NEW Q, NEW R, NEW S, NEW D, NEW L, NEW U, Places(F, H, Q, R, S, D, L, U, {}),
         NEW x \in Q
  PROVE  /\ Places(F, H, Q, R \union {x}, S, D, L, U, {x})
         /\ Places(F, H, Q, R, S \union {x}, D, L, U, {x})
         /\ Places(F, H, Q, R, S, D \union {x}, L, U, {x})
BY DEF Places

LEMMA RetryMoves ==
  ASSUME NEW F, NEW H, NEW Q, NEW R, NEW S, NEW D, NEW L, NEW U, NEW P, Places(F, H, Q, R, S, D, L, U, P),
         NEW x \in R
  PROVE  /\ Places(F, H, Q, R \ {x}, S \union {x}, D, L, U, P)
         /\ Places(F, H, Q, R \ {x}, S, D \union {x}, L, U, P)
BY DEF Places

LEMMA PopMoves ==
  ASSUME NEW F, NEW H, NEW Q, NEW R, NEW S, NEW D, NEW L, NEW U, NEW x, Places(F, H, Q, R, S, D, L, U, {x})
  PROVE  Places(F, H, Q \ {x}, R, S, D, L, U, {})
BY DEF Places

(* A caller is done with its packet; Poll has published the first one.     *)
LEMMA HeldIs ==
  ASSUME TypeOK, NEW p
  PROVE  p \in Held <=> p # Nothing /\ \E t \in Callers : Packet[t] = p
BY Types DEF Held, ToSet

LEMMA HeldIsThen ==
  ASSUME Packet' \in [Callers -> Packets \union {Nothing}], NEW p
  PROVE  p \in Held' <=> p # Nothing /\ \E t \in Callers : Packet'[t] = p
BY DEF Held, ToSet

LEMMA CallerReturns ==
  ASSUME NetworkAssumption, TypeOK, Alone, NEW t \in Callers, Return(t), pc[t] \in {"push", "publish"},
         NEW e, Packetqueue' = Packetqueue \/ Packetqueue' = Append(Packetqueue, e), e \in Packets
  PROVE  Held' = Held \ {Packet[t]} /\ Packet[t] \in Held /\ Popping' = Popping /\ Alone'
<1>1. Packet[t] # Nothing
  BY Callings
<1>2. Packet[t] \in Held
  BY <1>1, HeldIs
<1>3. ASSUME NEW p PROVE p \in Held' <=> p \in Held /\ p # Packet[t]
  <2>1. p \in Held <=> p # Nothing /\ \E u \in Callers : Packet[u] = p
    BY HeldIs
  <2>2. p \in Held' <=> p # Nothing /\ \E u \in Callers : Packet'[u] = p
    BY ReturnIs, HeldIsThen
  <2>3. Packet'[t] = Nothing /\ \A u \in Callers \ {t} : Packet'[u] = Packet[u] /\ (Packet[u] = Packet[t] => FALSE)
    BY <1>1, ReturnIs DEF Alone
  <2> QED BY <2>1, <2>2, <2>3
<1>4. Alone'
  <2> SUFFICES ASSUME NEW u \in Callers, NEW v \in Callers, Packet'[u] = Packet'[v], Packet'[u] # Nothing PROVE u = v
    BY DEF Alone
  <2>1. Packet'[t] = Nothing /\ \A w \in Callers \ {t} : Packet'[w] = Packet[w]
    BY ReturnIs
  <2> QED BY <2>1 DEF Alone
<1>5. pc'[Background] = "pop" <=> pc[Background] = "pop"
  BY Callings, ReturnIs
<1>6. pc[Background] = "pop" => Head(Packetqueue') = Head(Packetqueue)
  <2>1. pc[Background] = "pop" => Packetqueue # << >>
    BY Callings
  <2>2. Packetqueue # << >> => Head(Append(Packetqueue, e)) = Head(Packetqueue)
    BY Types
  <2> QED BY <2>1, <2>2
<1> QED BY <1>2, <1>3, <1>4, <1>5, <1>6 DEF Popping

LEMMA PollReturns ==
  ASSUME NetworkAssumption, TypeOK, Alone, NEW t \in Callers, Return(t), pc[t] = "drain", UNCHANGED Packetqueue
  PROVE  Held' = Held /\ Popping = {} /\ Popping' = {Head(Packetqueue)} /\ UNCHANGED Packet
<1>1. t = Background /\ Packet[t] = Nothing
  BY Callings
<1>2. Packet' = Packet
  BY <1>1, ReturnIs, Types
<1>3. Held' = Held
  BY <1>2 DEF Held, ToSet
<1>4. pc'[Background] = "pop"
  BY <1>1, ReturnIs
<1> QED BY <1>1, <1>2, <1>3, <1>4 DEF Popping

-----------------------------------------------------------------------------
(* What is published by a caller or by Poll, and what becomes of it.       *)
LEMMA CurrentGoes ==
  ASSUME NetworkAssumption, TypeOK, PlacesOK, Alone, NEW t \in Callers, Publishes(t), Return(t),
         UNCHANGED <<Packetqueue, queued, fresh, lost>>, NEW x, x = Current(t),
         \/ ToSet(sent)' = ToSet(sent) \union {x} /\ UNCHANGED <<retrying, dropped>>
         \/ dropped' = dropped \union {x} /\ UNCHANGED <<retrying, sent>>
         \/ retrying' = retrying \union {x} /\ UNCHANGED <<sent, dropped>>
  PROVE  /\ PlacesOK' /\ Alone'
         /\ x \notin ToSet(sent)
         /\ x \in ToSet(queued) => pc[t] = "drain"
<1>1. /\ ToSet(Packetqueue)' = ToSet(Packetqueue) /\ ToSet(queued)' = ToSet(queued)
      /\ sent' = sent => ToSet(sent)' = ToSet(sent)
  BY DEF ToSet
<1> DEFINE At(H, R, S, D, X) == Places(fresh, H, ToSet(Packetqueue), R, S, D, lost, ToSet(queued), X)
<1>2. At(Held, retrying, ToSet(sent), dropped, Popping)
  BY DEF PlacesOK
<1>3. PlacesOK' <=> At(Held', retrying', ToSet(sent)', dropped', Popping')
  BY <1>1, Zenon DEF PlacesOK
<1>4. CASE pc[t] = "publish"
  <2>1. x = Packet[t] /\ x \in Packets
    BY <1>4, CurrentIs
  <2>2. Held' = Held \ {x} /\ x \in Held /\ Popping' = Popping /\ Alone'
    BY <1>4, <2>1, CallerReturns
  <2>3. /\ At(Held \ {x}, retrying \union {x}, ToSet(sent), dropped, Popping)
        /\ At(Held \ {x}, retrying, ToSet(sent) \union {x}, dropped, Popping)
        /\ At(Held \ {x}, retrying, ToSet(sent), dropped \union {x}, Popping)
    BY <1>2, <2>2, CallerMoves, Zenon
  <2>4. x \notin ToSet(sent) /\ x \notin ToSet(queued)
    BY <1>2, <2>2 DEF Places
  <2>5. PlacesOK'
    BY <1>1, <1>3, <2>2, <2>3, Zenon
  <2> QED BY <2>2, <2>4, <2>5
<1>5. CASE pc[t] = "drain"
  <2>1. x = Head(Packetqueue) /\ Packetqueue # << >> /\ Packetqueue \in Seq(Packets)
    BY <1>5, CurrentIs, Types
  <2>2. x \in ToSet(Packetqueue)
    <3>1. 1 \in DOMAIN Packetqueue /\ x = Packetqueue[1]
      BY <2>1
    <3> QED BY <3>1 DEF ToSet
  <2>3. Held' = Held /\ Popping = {} /\ Popping' = {x} /\ UNCHANGED Packet
    BY <1>5, <2>1, PollReturns
  <2>4. At(Held, retrying, ToSet(sent), dropped, {})
    BY <1>2, <2>3
  <2>5. /\ At(Held, retrying \union {x}, ToSet(sent), dropped, {x})
        /\ At(Held, retrying, ToSet(sent) \union {x}, dropped, {x})
        /\ At(Held, retrying, ToSet(sent), dropped \union {x}, {x})
    BY <2>2, <2>4, PollMoves, Zenon
  <2>6. x \notin ToSet(sent)
    BY <2>2, <2>4 DEF Places
  <2>7. PlacesOK'
    BY <1>1, <1>3, <2>3, <2>5, Zenon
  <2>8. Alone'
    BY <2>3, Zenon DEF Alone
  <2> QED BY <1>5, <2>6, <2>7, <2>8
<1> QED BY <1>4, <1>5, CurrentIs

LEMMA PlacesStep ==
  ASSUME NetworkAssumption, TypeOK, PlacesOK, Alone, IsInjective(Packetqueue), [Next]_vars
  PROVE  PlacesOK' /\ Alone'
<1>u. /\ UNCHANGED Packetqueue => ToSet(Packetqueue)' = ToSet(Packetqueue)
      /\ UNCHANGED queued => ToSet(queued)' = ToSet(queued)
      /\ UNCHANGED sent => ToSet(sent)' = ToSet(sent)
      /\ UNCHANGED Packet => Held' = Held
      /\ UNCHANGED Packet /\ Alone => Alone'
      /\ UNCHANGED <<pc, Packetqueue>> => Popping' = Popping
  BY DEF ToSet, Held, Alone, Popping
<1>n. ASSUME UNCHANGED <<Packetqueue, queued, sent, Packet, fresh, retrying, dropped, lost>>, Popping' = Popping
      PROVE  PlacesOK' /\ Alone'
  BY <1>n, <1>u, Zenon DEF PlacesOK
<1>1. ASSUME Initialize PROVE PlacesOK' /\ Alone'
  BY <1>1, <1>n, <1>u DEF Initialize, caller, outcome
<1>2. ASSUME NEW t \in Callers, NEW p \in Packets, NEW Delayed \in BOOLEAN, PublishLAN(t, p, Delayed)
      PROVE  PlacesOK' /\ Alone'
  <2>1. p \in fresh /\ fresh' = fresh \ {p} /\ UNCHANGED <<Packetqueue, queued, sent, retrying, dropped, lost>>
    BY <1>2 DEF PublishLAN, outcome
  <2>2. Packet[t] = Nothing /\ p # Nothing
    BY <1>2, Callings DEF PublishLAN
  <2>3. Packet' \in [Callers -> Packets \union {Nothing}] /\ Packet'[t] = p /\ \A u \in Callers \ {t} : Packet'[u] = Packet[u]
    BY <1>2, Types DEF PublishLAN
  <2>4. p \notin Held
    BY <2>1 DEF PlacesOK, Places
  <2>5. \A q : q \in Held' <=> q \in Held \/ q = p
    <3> SUFFICES ASSUME NEW q PROVE q \in Held' <=> q \in Held \/ q = p
      OBVIOUS
    <3>1. q \in Held <=> q # Nothing /\ \E u \in Callers : Packet[u] = q
      BY HeldIs
    <3>2. q \in Held' <=> q # Nothing /\ \E u \in Callers : Packet'[u] = q
      BY <2>3, HeldIsThen
    <3> QED BY <2>2, <2>3, <3>1, <3>2
  <2>6. Held' = Held \union {p}
    BY <2>5
  <2>7. \A u \in Callers : Packet[u] # p
    BY <2>2, <2>4, HeldIs
  <2>8. Alone'
    BY <2>2, <2>3, <2>7 DEF Alone
  <2>9. Popping' = Popping
    <3>1. pc'[Background] = "pop" <=> pc[Background] = "pop"
      BY <1>2, Types, Callings DEF PublishLAN
    <3> QED BY <2>1, <3>1 DEF Popping
  <2>10. Places(fresh \ {p}, Held \union {p}, ToSet(Packetqueue), retrying, ToSet(sent), dropped, lost, ToSet(queued), Popping)
    BY <2>1, Published, Zenon DEF PlacesOK
  <2>11. PlacesOK'
    BY <1>u, <2>1, <2>6, <2>9, <2>10, Zenon DEF PlacesOK
  <2> QED BY <2>8, <2>11
<1>3. ASSUME NEW t \in Callers, Push(t) PROVE PlacesOK' /\ Alone'
  <2>1. /\ Packetqueue' = Append(Packetqueue, Packet[t]) /\ queued' = Append(queued, Packet[t])
        /\ Return(t) /\ pc[t] = "push" /\ UNCHANGED <<fresh, retrying, sent, dropped, lost>>
    BY <1>3 DEF Push
  <2>2. Packet[t] \in Packets
    BY <2>1, Callings
  <2>3. Held' = Held \ {Packet[t]} /\ Packet[t] \in Held /\ Popping' = Popping /\ Alone'
    BY <2>1, <2>2, CallerReturns
  <2>4. ToSet(Append(Packetqueue, Packet[t])) = ToSet(Packetqueue) \union {Packet[t]}
    BY <2>2, AppendSet, Types
  <2>5. ToSet(Append(queued, Packet[t])) = ToSet(queued) \union {Packet[t]}
    BY <2>2, AppendSet, Types
  <2>6. ToSet(Packetqueue)' = ToSet(Packetqueue) \union {Packet[t]} /\ ToSet(queued)' = ToSet(queued) \union {Packet[t]}
    BY <2>1, <2>4, <2>5 DEF ToSet
  <2>7. Places(fresh, Held \ {Packet[t]}, ToSet(Packetqueue) \union {Packet[t]}, retrying, ToSet(sent), dropped, lost,
               ToSet(queued) \union {Packet[t]}, Popping)
    BY <2>3, CallerMoves, Zenon DEF PlacesOK
  <2>8. PlacesOK'
    BY <1>u, <2>1, <2>3, <2>6, <2>7, Zenon DEF PlacesOK
  <2> QED BY <2>3, <2>8
<1>4. ASSUME NEW t \in Callers, RacingPush(t) PROVE PlacesOK' /\ Alone'
  <2>1. /\ lost' = lost \union {Packet[t]} /\ Return(t) /\ pc[t] = "push"
        /\ UNCHANGED <<Packetqueue, fresh, queued, retrying, sent, dropped>>
    BY <1>4 DEF RacingPush
  <2>2. Packet[t] \in Packets
    BY <2>1, Callings
  <2>3. Held' = Held \ {Packet[t]} /\ Packet[t] \in Held /\ Popping' = Popping /\ Alone'
    BY <2>1, <2>2, CallerReturns
  <2>4. Places(fresh, Held \ {Packet[t]}, ToSet(Packetqueue), retrying, ToSet(sent), dropped, lost \union {Packet[t]},
               ToSet(queued), Popping)
    BY <2>3, CallerMoves, Zenon DEF PlacesOK
  <2>5. PlacesOK'
    BY <1>u, <2>1, <2>3, <2>4, Zenon DEF PlacesOK
  <2> QED BY <2>3, <2>5
<1>5. ASSUME NEW t \in Callers, TrySent(t) PROVE PlacesOK' /\ Alone'
  <2>1. /\ Publishes(t) /\ Return(t) /\ sent' = Append(sent, Current(t))
        /\ UNCHANGED <<Packetqueue, queued, fresh, lost, retrying, dropped>>
    BY <1>5 DEF TrySent
  <2>2. ToSet(Append(sent, Current(t))) = ToSet(sent) \union {Current(t)}
    BY <2>1, CurrentIs, AppendSet, Types
  <2>3. ToSet(sent)' = ToSet(sent) \union {Current(t)}
    BY <2>1, <2>2 DEF ToSet
  <2> QED BY <2>1, <2>3, CurrentGoes
<1>6. ASSUME NEW t \in Callers, TryError(t) PROVE PlacesOK' /\ Alone'
  <2>1. /\ Publishes(t) /\ Return(t) /\ dropped' = dropped \union {Current(t)}
        /\ UNCHANGED <<Packetqueue, queued, fresh, lost, retrying, sent>>
    BY <1>6 DEF TryError
  <2> QED BY <2>1, CurrentGoes
<1>7. ASSUME NEW t \in Callers, TryBlocked(t) PROVE PlacesOK' /\ Alone'
  <2>1. Publishes(t) /\ UNCHANGED <<Packetqueue, fresh, queued, sent, dropped, lost>>
    BY <1>7 DEF TryBlocked
  <2>2. ASSUME UNCHANGED <<pc, Packet, retrying, blocked>> PROVE PlacesOK' /\ Alone'
    BY <1>n, <1>u, <2>1, <2>2
  <2>3. ASSUME Return(t), retrying' = retrying \union {Current(t)} PROVE PlacesOK' /\ Alone'
    BY <2>1, <2>3, CurrentGoes
  <2> QED BY <1>7, <2>2, <2>3 DEF TryBlocked
<1>8. ASSUME NEW p \in Packets, Retry(p) PROVE PlacesOK' /\ Alone'
  <2>1. p \in retrying /\ retrying' = retrying \ {p} /\ UNCHANGED <<Packetqueue, pc, Packet, fresh, queued, lost>>
    BY <1>8 DEF Retry, caller
  <2>2. Held' = Held /\ Popping' = Popping /\ ToSet(Packetqueue)' = ToSet(Packetqueue) /\ ToSet(queued)' = ToSet(queued) /\ Alone'
    BY <1>u, <2>1
  <2>3. \/ ToSet(sent)' = ToSet(sent) \union {p} /\ UNCHANGED dropped
        \/ dropped' = dropped \union {p} /\ ToSet(sent)' = ToSet(sent)
    <3>1. ToSet(Append(sent, p)) = ToSet(sent) \union {p}
      BY AppendSet, Types
    <3> QED BY <1>8, <1>u, <3>1 DEF Retry, ToSet
  <2>4. /\ Places(fresh, Held, ToSet(Packetqueue), retrying \ {p}, ToSet(sent) \union {p}, dropped, lost, ToSet(queued), Popping)
        /\ Places(fresh, Held, ToSet(Packetqueue), retrying \ {p}, ToSet(sent), dropped \union {p}, lost, ToSet(queued), Popping)
    BY <2>1, RetryMoves, Zenon DEF PlacesOK
  <2>5. PlacesOK'
    BY <2>1, <2>2, <2>3, <2>4, Zenon DEF PlacesOK
  <2> QED BY <2>2, <2>5
<1>9. ASSUME StartPoll PROVE PlacesOK' /\ Alone'
  <2>1. Popping' = Popping
    BY <1>9, Types, Callings DEF StartPoll, Drain, Popping
  <2> QED BY <1>9, <1>n, <2>1 DEF StartPoll, outcome
<1>10. ASSUME Pop PROVE PlacesOK' /\ Alone'
  <2>1. pc[Background] = "pop" /\ Packetqueue' = Tail(Packetqueue) /\ UNCHANGED <<Packet, fresh, retrying, queued, sent, dropped, lost>>
    BY <1>10 DEF Pop, outcome
  <2>2. Packetqueue # << >> /\ Background \in Callers
    BY <2>1, Callings DEF Callers
  <2>3. ToSet(Tail(Packetqueue)) = ToSet(Packetqueue) \ {Head(Packetqueue)}
    BY <2>2, TailSet, Types
  <2>4. ToSet(Packetqueue)' = ToSet(Packetqueue) \ {Head(Packetqueue)}
    BY <2>1, <2>3 DEF ToSet
  <2>5. Popping = {Head(Packetqueue)}
    BY <2>1 DEF Popping
  <2>6. Popping' = {}
    BY <1>10, <2>2, Types DEF Pop, Drain, Popping
  <2>7. Places(fresh, Held, ToSet(Packetqueue) \ {Head(Packetqueue)}, retrying, ToSet(sent), dropped, lost, ToSet(queued), {})
    BY <2>5, PopMoves, Zenon DEF PlacesOK
  <2> QED BY <1>u, <2>1, <2>4, <2>6, <2>7, Zenon DEF PlacesOK
<1>11. ASSUME Receive PROVE PlacesOK' /\ Alone'
  <2>1. Popping' = Popping
    BY <1>11, Types, Callings DEF Receive, Popping
  <2> QED BY <1>11, <1>n, <2>1 DEF Receive, outcome
<1>12. ASSUME NEW kind \in Kinds, Arrive(kind) PROVE PlacesOK' /\ Alone'
  BY <1>12, <1>n, <1>u DEF Arrive, caller, outcome
<1>13. CASE UNCHANGED vars
  BY <1>13, <1>n, <1>u DEF vars
<1> QED BY <1>1, <1>2, <1>3, <1>4, <1>5, <1>6, <1>7, <1>8, <1>9, <1>10, <1>11, <1>12, <1>13 DEF Next, Poll, Publish

-----------------------------------------------------------------------------
LEMMA OnceStep ==
  ASSUME NetworkAssumption, TypeOK, PlacesOK, Alone, OnceOK, [Next]_vars
  PROVE  OnceOK'
<1> USE DEF OnceOK
<1>n. ASSUME UNCHANGED <<Packetqueue, queued, sent>> PROVE OnceOK'
  BY <1>n
<1>1. ASSUME NEW t \in Callers, Push(t) PROVE OnceOK'
  <2>1. /\ Packetqueue' = Append(Packetqueue, Packet[t]) /\ queued' = Append(queued, Packet[t])
        /\ UNCHANGED sent /\ Packet[t] \in Packets /\ Packet[t] # Nothing
    BY <1>1, Callings DEF Push
  <2>2. Packet[t] \in Held
    BY <2>1, HeldIs
  <2>3. Packet[t] \notin ToSet(Packetqueue) /\ Packet[t] \notin ToSet(queued)
    BY <2>2 DEF PlacesOK, Places
  <2>4. IsInjective(Append(Packetqueue, Packet[t])) /\ IsInjective(Append(queued, Packet[t]))
    BY <2>1, <2>3, Types, AppendOnce
  <2> QED BY <2>1, <2>4
<1>2. ASSUME NEW t \in Callers, TrySent(t) PROVE OnceOK'
  <2>1. /\ Publishes(t) /\ Return(t) /\ sent' = Append(sent, Current(t))
        /\ UNCHANGED <<Packetqueue, queued, fresh, lost, retrying, dropped>> /\ Current(t) \in Packets
    BY <1>2, CurrentIs DEF TrySent
  <2>2. ToSet(Append(sent, Current(t))) = ToSet(sent) \union {Current(t)}
    BY <2>1, AppendSet, Types
  <2>3. ToSet(sent)' = ToSet(sent) \union {Current(t)}
    BY <2>1, <2>2 DEF ToSet
  <2>4. Current(t) \notin ToSet(sent)
    BY <2>1, <2>3, CurrentGoes
  <2>5. IsInjective(Append(sent, Current(t)))
    BY <2>1, <2>4, Types, AppendOnce
  <2> QED BY <2>1, <2>5
<1>3. ASSUME NEW p \in Packets, Retry(p) PROVE OnceOK'
  <2>1. p \in retrying /\ UNCHANGED <<Packetqueue, queued>> /\ (sent' = sent \/ sent' = Append(sent, p))
    BY <1>3 DEF Retry
  <2>2. p \notin ToSet(sent)
    BY <2>1 DEF PlacesOK, Places
  <2>3. IsInjective(Append(sent, p))
    BY <2>2, Types, AppendOnce
  <2> QED BY <2>1, <2>3
<1>4. ASSUME Pop PROVE OnceOK'
  <2>1. Packetqueue # << >> /\ Packetqueue' = Tail(Packetqueue) /\ UNCHANGED <<queued, sent>>
    BY <1>4, Callings DEF Pop, outcome, Callers
  <2>2. IsInjective(Tail(Packetqueue))
    BY <2>1, Types, TailSet
  <2> QED BY <2>1, <2>2
<1>5. ASSUME Initialize \/ StartPoll \/ Receive \/ \E kind \in Kinds : Arrive(kind) PROVE OnceOK'
  BY <1>5, <1>n DEF Initialize, StartPoll, Receive, Arrive, outcome
<1>6. ASSUME NEW t \in Callers, NEW p, NEW Delayed, PublishLAN(t, p, Delayed) PROVE OnceOK'
  BY <1>6, <1>n DEF PublishLAN, outcome
<1>7. ASSUME NEW t \in Callers, RacingPush(t) \/ TryError(t) \/ TryBlocked(t) PROVE OnceOK'
  BY <1>7, <1>n DEF RacingPush, TryError, TryBlocked
<1>8. CASE UNCHANGED vars
  BY <1>8, <1>n DEF vars
<1> QED BY <1>1, <1>2, <1>3, <1>4, <1>5, <1>6, <1>7, <1>8 DEF Next, Poll, Publish

(* The packets before First are in the order of the queue until they are   *)
(* sent, and those behind it are not sent before them.                     *)
LEMMA QueueNext ==
  ASSUME TypeOK, QueueOK, UNCHANGED <<Packetqueue, queued>>,
         ToSet(sent) \subseteq ToSet(sent)', blocked \subseteq blocked', dropped \subseteq dropped',
         retrying' \subseteq blocked'
  PROVE  QueueOK'
<1>1. First' = First
  BY DEF First
<1> QED BY <1>1 DEF QueueOK

LEMMA QueueStep ==
  ASSUME NetworkAssumption, TypeOK, PlacesOK, Alone, OnceOK, QueueOK, [Next]_vars
  PROVE  QueueOK'
<1>r. retrying \subseteq blocked
  BY DEF QueueOK
<1>s. UNCHANGED sent => ToSet(sent)' = ToSet(sent)
  BY DEF ToSet
<1>n. ASSUME UNCHANGED <<Packetqueue, queued, sent, retrying, blocked, dropped>> PROVE QueueOK'
  BY <1>n, <1>r, <1>s, QueueNext
<1>1. ASSUME NEW t \in Callers, Push(t) PROVE QueueOK'
  <2>1. /\ Packetqueue' = Append(Packetqueue, Packet[t]) /\ queued' = Append(queued, Packet[t])
        /\ UNCHANGED <<sent, blocked, dropped, retrying>> /\ Packet[t] \in Packets
        /\ Packetqueue \in Seq(Packets) /\ queued \in Seq(Packets)
    BY <1>1, Callings, Types DEF Push
  <2>2. /\ First \in Nat /\ Len(Packetqueue) \in Nat /\ Len(queued) = First + Len(Packetqueue)
        /\ DOMAIN Packetqueue = 1 .. Len(Packetqueue) /\ DOMAIN queued = 1 .. Len(queued)
        /\ Len(Packetqueue') = Len(Packetqueue) + 1 /\ Len(queued') = Len(queued) + 1
        /\ DOMAIN Packetqueue' = 1 .. Len(Packetqueue) + 1 /\ DOMAIN queued' = 1 .. Len(queued) + 1
        /\ Packetqueue'[Len(Packetqueue) + 1] = Packet[t] /\ queued'[Len(queued) + 1] = Packet[t]
        /\ \A i \in DOMAIN Packetqueue : Packetqueue'[i] = Packetqueue[i]
        /\ \A i \in DOMAIN queued : queued'[i] = queued[i]
    BY <2>1 DEF QueueOK, First
  <2>3. First' = First
    BY <2>2 DEF First
  <2>4. \A k \in DOMAIN Packetqueue' : First + k \in DOMAIN queued' /\ Packetqueue'[k] = queued'[First + k]
    <3> SUFFICES ASSUME NEW k \in DOMAIN Packetqueue'
                 PROVE  First + k \in DOMAIN queued' /\ Packetqueue'[k] = queued'[First + k]
      OBVIOUS
    <3>1. CASE k \in DOMAIN Packetqueue
      <4>1. First + k \in DOMAIN queued /\ Packetqueue[k] = queued[First + k]
        BY <3>1 DEF QueueOK
      <4> QED BY <2>2, <3>1, <4>1
    <3>2. CASE k = Len(Packetqueue) + 1
      BY <2>2, <3>2
    <3> QED BY <2>2, <3>1, <3>2
  <2>5. \A i \in DOMAIN queued' : i <= First => queued'[i] \in ToSet(sent)' \union blocked' \union dropped'
    <3> SUFFICES ASSUME NEW i \in DOMAIN queued', i <= First
                 PROVE  queued'[i] \in ToSet(sent)' \union blocked' \union dropped'
      OBVIOUS
    <3>1. i \in DOMAIN queued /\ queued'[i] = queued[i]
      BY <2>2
    <3>2. queued[i] \in ToSet(sent) \union blocked \union dropped
      BY <3>1 DEF QueueOK
    <3> QED BY <1>s, <2>1, <3>1, <3>2
  <2> QED BY <1>r, <2>1, <2>2, <2>3, <2>4, <2>5 DEF QueueOK
<1>2. ASSUME NEW t \in Callers, TrySent(t) PROVE QueueOK'
  <2>1. /\ Publishes(t) /\ sent' = Append(sent, Current(t)) /\ UNCHANGED <<Packetqueue, queued, retrying, blocked, dropped>>
        /\ Current(t) \in Packets
    BY <1>2, CurrentIs DEF TrySent
  <2>2. ToSet(Append(sent, Current(t))) = ToSet(sent) \union {Current(t)}
    BY <2>1, AppendSet, Types
  <2>3. ToSet(sent)' = ToSet(sent) \union {Current(t)}
    BY <2>1, <2>2 DEF ToSet
  <2> QED BY <1>r, <2>1, <2>3, QueueNext
<1>3. ASSUME NEW p \in Packets, Retry(p) PROVE QueueOK'
  <2>1. /\ retrying' \subseteq retrying /\ dropped \subseteq dropped' /\ UNCHANGED <<Packetqueue, queued, blocked>>
        /\ (sent' = sent \/ sent' = Append(sent, p))
    BY <1>3 DEF Retry
  <2>2. ToSet(Append(sent, p)) = ToSet(sent) \union {p}
    BY AppendSet, Types
  <2>3. ToSet(sent) \subseteq ToSet(sent)'
    BY <1>s, <2>1, <2>2 DEF ToSet
  <2> QED BY <1>r, <2>1, <2>3, QueueNext
<1>4. ASSUME Pop PROVE QueueOK'
  <2>1. /\ Packetqueue # << >> /\ Packetqueue' = Tail(Packetqueue) /\ UNCHANGED <<queued, sent, blocked, dropped, retrying>>
        /\ Packetqueue \in Seq(Packets) /\ queued \in Seq(Packets)
    BY <1>4, Callings, Types DEF Pop, outcome, Callers
  <2>2. /\ First \in Nat /\ Len(Packetqueue) \in Nat \ {0} /\ Len(queued) = First + Len(Packetqueue)
        /\ DOMAIN Packetqueue = 1 .. Len(Packetqueue) /\ DOMAIN queued = 1 .. Len(queued)
        /\ Len(Packetqueue') = Len(Packetqueue) - 1 /\ DOMAIN Packetqueue' = 1 .. Len(Packetqueue) - 1
        /\ \A k \in DOMAIN Packetqueue' : Packetqueue'[k] = Packetqueue[k + 1]
        /\ Head(Packetqueue) = Packetqueue[1]
    BY <2>1 DEF QueueOK, First
  <2>3. First' = First + 1
    BY <2>1, <2>2 DEF First
  <2>4. \A k \in DOMAIN Packetqueue' : First' + k \in DOMAIN queued' /\ Packetqueue'[k] = queued'[First' + k]
    <3> SUFFICES ASSUME NEW k \in DOMAIN Packetqueue'
                 PROVE  First' + k \in DOMAIN queued' /\ Packetqueue'[k] = queued'[First' + k]
      OBVIOUS
    <3>1. k + 1 \in DOMAIN Packetqueue
      BY <2>2
    <3>2. First + (k + 1) \in DOMAIN queued /\ Packetqueue[k + 1] = queued[First + (k + 1)]
      BY <3>1 DEF QueueOK
    <3>3. First + (k + 1) = First' + k
      BY <2>2, <2>3
    <3> QED BY <2>1, <2>2, <3>2, <3>3
  <2>5. Head(Packetqueue) \in ToSet(sent) \union blocked \union dropped
    <3>1. Popping = {Head(Packetqueue)}
      BY <1>4 DEF Pop, Popping
    <3>2. Popping \subseteq retrying \union ToSet(sent) \union dropped
      BY DEF PlacesOK, Places
    <3> QED BY <1>r, <3>1, <3>2
  <2>6. queued[First + 1] = Head(Packetqueue)
    <3>1. 1 \in DOMAIN Packetqueue
      BY <2>2
    <3> QED BY <2>2, <3>1 DEF QueueOK
  <2>7. \A i \in DOMAIN queued' : i <= First' => queued'[i] \in ToSet(sent)' \union blocked' \union dropped'
    <3> SUFFICES ASSUME NEW i \in DOMAIN queued, i <= First + 1
                 PROVE  queued[i] \in ToSet(sent) \union blocked \union dropped
      BY <1>s, <2>1, <2>3
    <3>1. i <= First \/ i = First + 1
      BY <2>2
    <3> QED BY <2>5, <2>6, <3>1 DEF QueueOK
  <2> QED BY <1>r, <2>1, <2>2, <2>3, <2>4, <2>7 DEF QueueOK
<1>5. ASSUME Initialize \/ StartPoll \/ Receive \/ \E kind \in Kinds : Arrive(kind) PROVE QueueOK'
  BY <1>5, <1>n DEF Initialize, StartPoll, Receive, Arrive, outcome
<1>6. ASSUME NEW t \in Callers, NEW p, NEW Delayed, PublishLAN(t, p, Delayed) PROVE QueueOK'
  BY <1>6, <1>n DEF PublishLAN, outcome
<1>7. ASSUME NEW t \in Callers, RacingPush(t) \/ TryError(t) \/ TryBlocked(t) PROVE QueueOK'
  <2>1. /\ UNCHANGED <<Packetqueue, queued, sent>> /\ blocked \subseteq blocked' /\ dropped \subseteq dropped'
        /\ retrying' \subseteq blocked'
    BY <1>7, <1>r DEF RacingPush, TryError, TryBlocked
  <2> QED BY <1>s, <2>1, QueueNext
<1>8. CASE UNCHANGED vars
  BY <1>8, <1>n DEF vars
<1> QED BY <1>1, <1>2, <1>3, <1>4, <1>5, <1>6, <1>7, <1>8 DEF Next, Poll, Publish

(* A packet that is queued and sent now had all before it taken.           *)
LEMMA FirstOut ==
  ASSUME TypeOK, OnceOK, QueueOK, Packetqueue # << >>, NEW j \in DOMAIN queued, queued[j] = Head(Packetqueue)
  PROVE  j = First + 1
<1>1. 1 \in DOMAIN Packetqueue /\ Head(Packetqueue) = Packetqueue[1]
  BY Types
<1>2. First + 1 \in DOMAIN queued /\ queued[First + 1] = Head(Packetqueue)
  BY <1>1 DEF QueueOK
<1> QED BY <1>2 DEF OnceOK, IsInjective

LEMMA RetriedBefore ==
  ASSUME TypeOK, PlacesOK, OnceOK, QueueOK, NEW p \in retrying, NEW j \in DOMAIN queued, queued[j] = p
  PROVE  j <= First + 1
<1>1. /\ First \in Nat /\ Len(queued) = First + Len(Packetqueue) /\ DOMAIN queued = 1 .. Len(queued)
      /\ DOMAIN Packetqueue = 1 .. Len(Packetqueue) /\ Len(Packetqueue) \in Nat /\ j \in Nat
  BY Types DEF QueueOK, First
<1>2. ASSUME j > First PROVE j = First + 1
  <2>1. j - First \in DOMAIN Packetqueue /\ First + (j - First) = j
    BY <1>1, <1>2
  <2>2. Packetqueue[j - First] = p
    BY <2>1 DEF QueueOK
  <2>3. p \in ToSet(Packetqueue)
    BY <2>1, <2>2 DEF ToSet
  <2>4. p \in Popping
    BY <2>3 DEF PlacesOK, Places
  <2>5. p = Head(Packetqueue) /\ Packetqueue # << >>
    BY <2>1, <2>4 DEF Popping
  <2> QED BY <2>5, FirstOut
<1> QED BY <1>1, <1>2

LEMMA OvertakenKeeps ==
  ASSUME OvertakenOnlyIfBlocked, UNCHANGED <<queued, sent>>, blocked \subseteq blocked', dropped \subseteq dropped'
  PROVE  OvertakenOnlyIfBlocked'
<1> SUFFICES ASSUME NEW i \in DOMAIN queued, NEW j \in DOMAIN queued, i < j, queued[j] \in ToSet(sent)
             PROVE  \/ queued[i] \in blocked' \union dropped'
                    \/ \E k, l \in DOMAIN sent : k < l /\ sent[k] = queued[i] /\ sent[l] = queued[j]
  BY DEF OvertakenOnlyIfBlocked, ToSet
<1>1. \/ queued[i] \in blocked \union dropped
      \/ \E k, l \in DOMAIN sent : k < l /\ sent[k] = queued[i] /\ sent[l] = queued[j]
  BY DEF OvertakenOnlyIfBlocked
<1> QED BY <1>1

LEMMA OvertakenSends ==
  ASSUME TypeOK, QueueOK, OvertakenOnlyIfBlocked,
         NEW x \in Packets, sent' = Append(sent, x), UNCHANGED queued,
         blocked \subseteq blocked', dropped \subseteq dropped',
         \A j \in DOMAIN queued : queued[j] = x => j <= First + 1
  PROVE  OvertakenOnlyIfBlocked'
<1>1. /\ DOMAIN sent = 1 .. Len(sent) /\ DOMAIN sent' = 1 .. Len(sent) + 1 /\ Len(sent) \in Nat
      /\ sent'[Len(sent) + 1] = x
      /\ \A k \in DOMAIN sent : sent'[k] = sent[k]
  BY Types
<1>2. First \in Nat /\ \A i \in DOMAIN queued : i \in Nat
  BY Types DEF QueueOK
<1>3. ASSUME NEW i \in DOMAIN queued, NEW j \in DOMAIN queued, i < j, queued[j] \in ToSet(sent')
      PROVE  \/ queued[i] \in blocked' \union dropped'
             \/ \E k, l \in DOMAIN sent' : k < l /\ sent'[k] = queued[i] /\ sent'[l] = queued[j]
  <2>1. CASE queued[j] = x
    <3>1. i <= First
      BY <1>2, <1>3, <2>1
    <3>2. queued[i] \in ToSet(sent) \union blocked \union dropped
      BY <3>1 DEF QueueOK
    <3>3. ASSUME queued[i] \in ToSet(sent)
          PROVE  \E k, l \in DOMAIN sent' : k < l /\ sent'[k] = queued[i] /\ sent'[l] = queued[j]
      <4>1. PICK k \in DOMAIN sent : sent[k] = queued[i]
        BY <3>3 DEF ToSet
      <4>2. /\ k \in DOMAIN sent' /\ Len(sent) + 1 \in DOMAIN sent' /\ k < Len(sent) + 1
            /\ sent'[k] = queued[i] /\ sent'[Len(sent) + 1] = queued[j]
        BY <1>1, <2>1, <4>1
      <4> QED BY <4>2
    <3> QED BY <3>2, <3>3
  <2>2. CASE queued[j] # x
    <3>1. PICK m \in DOMAIN sent' : sent'[m] = queued[j]
      BY <1>3 DEF ToSet
    <3>2. m \in DOMAIN sent /\ sent[m] = queued[j]
      BY <1>1, <2>2, <3>1
    <3>3. queued[j] \in ToSet(sent)
      BY <3>2 DEF ToSet
    <3>4. \/ queued[i] \in blocked \union dropped
          \/ \E k, l \in DOMAIN sent : k < l /\ sent[k] = queued[i] /\ sent[l] = queued[j]
      BY <1>3, <3>3 DEF OvertakenOnlyIfBlocked
    <3>5. ASSUME NEW k \in DOMAIN sent, NEW l \in DOMAIN sent, k < l, sent[k] = queued[i], sent[l] = queued[j]
          PROVE  \E a, b \in DOMAIN sent' : a < b /\ sent'[a] = queued[i] /\ sent'[b] = queued[j]
      <4>1. k \in DOMAIN sent' /\ l \in DOMAIN sent' /\ sent'[k] = queued[i] /\ sent'[l] = queued[j]
        BY <1>1, <3>5
      <4> QED BY <3>5, <4>1
    <3> QED BY <3>4, <3>5
  <2> QED BY <2>1, <2>2
<1>4. ToSet(sent)' = ToSet(sent')
  BY DEF ToSet
<1> QED BY <1>3, <1>4 DEF OvertakenOnlyIfBlocked

LEMMA OvertakenStep ==
  ASSUME NetworkAssumption, NetInv, [Next]_vars
  PROVE  OvertakenOnlyIfBlocked'
<1> USE DEF NetInv
<1>1. ASSUME NEW t \in Callers, Push(t) PROVE OvertakenOnlyIfBlocked'
  <2>1. queued' = Append(queued, Packet[t]) /\ UNCHANGED <<sent, blocked, dropped>> /\ Packet[t] \in Packets /\ Packet[t] # Nothing
    BY <1>1, Callings DEF Push
  <2>2. Packet[t] \in Held
    BY <2>1, HeldIs
  <2>3. Packet[t] \notin ToSet(sent)
    BY <2>2 DEF PlacesOK, Places
  <2>4. /\ DOMAIN queued = 1 .. Len(queued) /\ DOMAIN queued' = 1 .. Len(queued) + 1 /\ Len(queued) \in Nat
        /\ queued'[Len(queued) + 1] = Packet[t]
        /\ \A i \in DOMAIN queued : queued'[i] = queued[i]
    BY <2>1, Types
  <2>5. ASSUME NEW i \in DOMAIN queued', NEW j \in DOMAIN queued', i < j, queued'[j] \in ToSet(sent)
        PROVE  \/ queued'[i] \in blocked \union dropped
               \/ \E k, l \in DOMAIN sent : k < l /\ sent[k] = queued'[i] /\ sent[l] = queued'[j]
    <3>1. i \in DOMAIN queued /\ j \in DOMAIN queued /\ queued'[i] = queued[i] /\ queued'[j] = queued[j]
      BY <2>3, <2>4, <2>5
    <3> QED BY <2>5, <3>1 DEF OvertakenOnlyIfBlocked
  <2>6. ToSet(sent)' = ToSet(sent)
    BY <2>1 DEF ToSet
  <2> QED BY <2>1, <2>5, <2>6 DEF OvertakenOnlyIfBlocked
<1>2. ASSUME NEW t \in Callers, TrySent(t) PROVE OvertakenOnlyIfBlocked'
  <2>1. /\ Publishes(t) /\ Return(t) /\ sent' = Append(sent, Current(t))
        /\ UNCHANGED <<Packetqueue, queued, fresh, lost, retrying, blocked, dropped>> /\ Current(t) \in Packets
    BY <1>2, CurrentIs DEF TrySent
  <2>2. ToSet(Append(sent, Current(t))) = ToSet(sent) \union {Current(t)}
    BY <2>1, AppendSet, Types
  <2>3. ToSet(sent)' = ToSet(sent) \union {Current(t)}
    BY <2>1, <2>2 DEF ToSet
  <2>4. Current(t) \in ToSet(queued) => pc[t] = "drain"
    BY <2>1, <2>3, CurrentGoes
  <2>5. ASSUME NEW j \in DOMAIN queued, queued[j] = Current(t) PROVE j <= First + 1
    <3>1. Current(t) \in ToSet(queued)
      BY <2>5 DEF ToSet
    <3>2. queued[j] = Head(Packetqueue) /\ Packetqueue # << >>
      BY <2>1, <2>4, <2>5, <3>1, CurrentIs
    <3>3. j = First + 1 /\ First \in Nat
      BY <3>2, FirstOut DEF QueueOK
    <3> QED BY <3>3
  <2> QED BY <2>1, <2>5, OvertakenSends
<1>3. ASSUME NEW p \in Packets, Retry(p) PROVE OvertakenOnlyIfBlocked'
  <2>1. p \in retrying /\ UNCHANGED <<queued, blocked>> /\ dropped \subseteq dropped' /\ (sent' = sent \/ sent' = Append(sent, p))
    BY <1>3 DEF Retry
  <2>2. \A j \in DOMAIN queued : queued[j] = p => j <= First + 1
    BY <2>1, RetriedBefore
  <2> QED BY <2>1, <2>2, OvertakenSends, OvertakenKeeps
<1>4. ASSUME Initialize \/ StartPoll \/ Pop \/ Receive \/ \E kind \in Kinds : Arrive(kind) PROVE OvertakenOnlyIfBlocked'
  BY <1>4, OvertakenKeeps DEF Initialize, StartPoll, Pop, Receive, Arrive, outcome
<1>5. ASSUME NEW t \in Callers, NEW p, NEW Delayed, PublishLAN(t, p, Delayed) PROVE OvertakenOnlyIfBlocked'
  BY <1>5, OvertakenKeeps DEF PublishLAN, outcome
<1>6. ASSUME NEW t \in Callers, RacingPush(t) \/ TryError(t) \/ TryBlocked(t) PROVE OvertakenOnlyIfBlocked'
  <2>1. UNCHANGED <<queued, sent>> /\ blocked \subseteq blocked' /\ dropped \subseteq dropped'
    BY <1>6 DEF RacingPush, TryError, TryBlocked
  <2> QED BY <2>1, OvertakenKeeps
<1>7. CASE UNCHANGED vars
  BY <1>7, OvertakenKeeps DEF vars
<1> QED BY <1>1, <1>2, <1>3, <1>4, <1>5, <1>6, <1>7 DEF Next, Poll, Publish

-----------------------------------------------------------------------------
LEMMA Start == ASSUME NetworkAssumption, Init PROVE NetInv
<1>1. /\ Packetqueue = << >> /\ queued = << >> /\ sent = << >> /\ retrying = {} /\ dropped = {} /\ lost = {}
      /\ blocked = {} /\ fresh = Packets /\ \A t \in Callers : pc[t] = "idle" /\ Packet[t] = Nothing
      /\ Packet \in [Callers -> {Nothing}] /\ Background \in Callers
  BY DEF Init, Callers
<1>2. TypeOK
  BY DEF Init, TypeOK, Callers, NetworkAssumption
<1>3. /\ ToSet(Packetqueue) = {} /\ ToSet(queued) = {} /\ ToSet(sent) = {} /\ Held = {} /\ Popping = {}
      /\ DOMAIN queued = {} /\ DOMAIN Packetqueue = {} /\ DOMAIN sent = {} /\ First = 0
  BY <1>1 DEF ToSet, Held, Popping, First
<1>4. PlacesOK
  BY <1>1, <1>3 DEF PlacesOK, Places
<1>5. Alone /\ OnceOK /\ QueueOK /\ OvertakenOnlyIfBlocked
  BY <1>1, <1>3 DEF Alone, OnceOK, QueueOK, OvertakenOnlyIfBlocked, IsInjective
<1> QED BY <1>2, <1>4, <1>5 DEF NetInv

(* All that the proofs rest on holds in every state, for any packets,      *)
(* callers and tries (LANNetworking.cpp:20-149).                           *)
THEOREM Invariance == ASSUME NetworkAssumption PROVE Spec => []NetInv
<1>1. Init => NetInv
  BY Start
<1>2. NetInv /\ [Next]_vars => NetInv'
  <2> SUFFICES ASSUME NetInv, [Next]_vars PROVE NetInv'
    OBVIOUS
  <2>1. TypeOK' /\ PlacesOK' /\ Alone' /\ OnceOK' /\ QueueOK'
    BY TypeStep, PlacesStep, OnceStep, QueueStep, Zenon DEF NetInv, OnceOK
  <2> QED BY <2>1, OvertakenStep, Zenon DEF NetInv
<1> QED BY <1>1, <1>2, PTL DEF Spec

(* Frames and queue are well typed (LANNetworking.cpp:15-149).             *)
THEOREM TypeCorrect == ASSUME NetworkAssumption PROVE Spec => []TypeOK
<1>1. NetInv => TypeOK
  BY DEF NetInv
<1> QED BY <1>1, Invariance, PTL

(* A packet is in one place at a time and goes out at most once, whoever   *)
(* has it in turn (LANNetworking.cpp:20-62 and 139-149).                   *)
THEOREM PacketsAreSentOnce == ASSUME NetworkAssumption PROVE Spec => []SentOnce
<1>1. NetInv => SentOnce
  <2> SUFFICES ASSUME NetInv PROVE SentOnce
    OBVIOUS
  <2>1. Waiting = ToSet(Packetqueue) \union retrying \union Held /\ Handled = ToSet(sent) \union dropped \union lost
    BY Zenon DEF Waiting, Handled, Held
  <2>2. Places(fresh, Held, ToSet(Packetqueue), retrying, ToSet(sent), dropped, lost, ToSet(queued), Popping)
    BY DEF NetInv, PlacesOK
  <2>3. Packets = fresh \union Waiting \union Handled /\ Waiting \intersect Handled \subseteq Popping
    BY <2>1, <2>2 DEF Places
  <2>4. retrying \intersect ToSet(Packetqueue) \subseteq Popping /\ ToSet(sent) \intersect (dropped \union lost) = {}
    BY <2>2 DEF Places
  <2> QED BY <2>3, <2>4 DEF SentOnce, NetInv, OnceOK
<1> QED BY <1>1, Invariance, PTL

(* Only a packet that had to be retried, or failed, is overtaken by one    *)
(* that was queued later (LANNetworking.cpp:31-41 and 54-62).              *)
THEOREM QueueKeepsOrder == ASSUME NetworkAssumption PROVE Spec => []OvertakenOnlyIfBlocked
<1>1. NetInv => OvertakenOnlyIfBlocked
  BY DEF NetInv
<1> QED BY <1>1, Invariance, PTL
=============================================================================
