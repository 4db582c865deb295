--------------------------- MODULE Database_proofs ---------------------------
(***************************************************************************)
(* For any tables, handlers and threads: a change waits in one place, from *)
(* which it reaches each handler once and in order; or it was lost in the  *)
(* race with the swap.                                                     *)
(***************************************************************************)
EXTENDS Database, TLAPS

Known == 1 .. Len(changes)
Queues == {Modifiedrows, Deletedrows, Modified, Deleted}

LEMMA AppendContains ==
  ASSUME NEW S, NEW s \in Seq(S), NEW e \in S, NEW x
  PROVE  Contains(Append(s, e), x) <=> Contains(s, x) \/ x = e
<1>1. ASSUME Contains(s, x) PROVE Contains(Append(s, e), x)
  <2>1. PICK i \in 1 .. Len(s) : s[i] = x
    BY <1>1 DEF Contains
  <2>2. i \in 1 .. Len(Append(s, e)) /\ Append(s, e)[i] = x
    BY <2>1
  <2> QED BY <2>2 DEF Contains
<1>2. Contains(Append(s, e), e)
  <2>1. Len(s) + 1 \in 1 .. Len(Append(s, e)) /\ Append(s, e)[Len(s) + 1] = e
    OBVIOUS
  <2> QED BY <2>1 DEF Contains
<1>3. ASSUME Contains(Append(s, e), x), x # e PROVE Contains(s, x)
  <2>1. PICK i \in 1 .. Len(Append(s, e)) : Append(s, e)[i] = x
    BY <1>3 DEF Contains
  <2>2. i \in 1 .. Len(s) /\ s[i] = x
    BY <2>1, <1>3
  <2> QED BY <2>2 DEF Contains
<1> QED BY <1>1, <1>2, <1>3

LEMMA HeadOrTail ==
  ASSUME NEW S, NEW s \in Seq(S), s # << >>, NEW x, Contains(s, x)
  PROVE  x = Head(s) \/ Contains(Tail(s), x)
<1>1. PICK i \in 1 .. Len(s) : s[i] = x
  BY DEF Contains
<1>2. CASE i = 1
  BY <1>1, <1>2
<1>3. CASE i # 1
  <2>1. i - 1 \in 1 .. Len(Tail(s)) /\ Tail(s)[i - 1] = x
    BY <1>1, <1>3
  <2> QED BY <2>1 DEF Contains
<1> QED BY <1>2, <1>3

-----------------------------------------------------------------------------
(* Poll's locals are empty outside of Poll, and while it swaps.            *)
Locals ==
  /\ at # "pump" => Deleted = None /\ Rows = << >>
  /\ at = "idle" => Modified = None

TypeInv == TypeOK /\ Len(changes) <= MaxChanges /\ Locals

LEMMA ChangeTypes ==
  ASSUME TablesAssumption, TypeInv,
         NEW w \in Writers, NEW t \in Tables, NEW isDeleted \in BOOLEAN, Change(w, t, isDeleted)
  PROVE  /\ changes' \in Seq([table : Tables, isDeleted : BOOLEAN])
         /\ Len(changes) + 1 \in Numbers /\ Len(changes') = Len(changes) + 1
         /\ Len(changes') <= MaxChanges
         /\ changes'[Len(changes) + 1] = [table |-> t, isDeleted |-> isDeleted]
         /\ \A n \in 1 .. Len(changes) : changes'[n] = changes[n]
<1> DEFINE S == [table : Tables, isDeleted : BOOLEAN]
<1> DEFINE new == [table |-> t, isDeleted |-> isDeleted]
<1>1. new \in S /\ changes \in Seq(S) /\ changes' = Append(changes, new)
  BY DEF Change, TypeInv, TypeOK
<1>2. Len(changes) \in Nat /\ Len(changes) < MaxChanges /\ MaxChanges \in Nat
  BY <1>1 DEF Change, TablesAssumption
<1> HIDE DEF S, new
<1>3. /\ changes' \in Seq(S) /\ Len(changes') = Len(changes) + 1
      /\ changes'[Len(changes) + 1] = new
      /\ \A n \in 1 .. Len(changes) : changes'[n] = changes[n]
  BY <1>1, <1>2
<1> QED BY <1>2, <1>3 DEF Numbers, S, new

LEMMA GatherTypes ==
  ASSUME NEW queue \in [Tables -> Seq(Numbers)], NEW t \in Tables, Len(changes) + 1 \in Numbers
  PROVE  /\ Gather(queue, t) \in [Tables -> Seq(Numbers)]
         /\ Gather(queue, t)[t] = Append(queue[t], Len(changes) + 1)
         /\ \A u \in Tables : u # t => Gather(queue, t)[u] = queue[u]
<1>1. Append(queue[t], Len(changes) + 1) \in Seq(Numbers)
  OBVIOUS
<1> QED BY <1>1 DEF Gather

(* What a variable holds has its type, and Poll leaves nothing behind that *)
(* its next swap would overwrite (Database.cpp:197-231).                   *)
THEOREM Invariance == ASSUME TablesAssumption PROVE Spec => []TypeInv
<1> USE TablesAssumption
<1>1. Init => TypeInv
  BY DEF Init, TypeInv, TypeOK, Locals, Numbers, None, TablesAssumption
<1>2. TypeInv /\ [Next]_vars => TypeInv'
  <2> SUFFICES ASSUME TypeInv, [Next]_vars PROVE TypeInv'
    OBVIOUS
  <2> USE DEF TypeInv, TypeOK, Locals
  <2>1. ASSUME NEW w \in Writers, NEW t \in Tables, NEW isDeleted \in BOOLEAN,
               Clientupdatehook(w, t, isDeleted)
        PROVE  TypeInv'
    <3>1. Change(w, t, isDeleted)
      BY <2>1 DEF Clientupdatehook
    <3>2. Len(changes) + 1 \in Numbers
      BY <3>1, ChangeTypes
    <3>3. Modifiedrows' \in [Tables -> Seq(Numbers)] /\ Deletedrows' \in [Tables -> Seq(Numbers)]
      BY <2>1, <3>2, GatherTypes DEF Clientupdatehook
    <3> QED BY <2>1, <3>1, <3>3, ChangeTypes DEF Clientupdatehook, local
  <2>2. ASSUME NEW w \in Writers, NEW t \in Tables, NEW isDeleted \in BOOLEAN,
               RacingHook(w, t, isDeleted)
        PROVE  TypeInv'
    <3>1. Change(w, t, isDeleted)
      BY <2>2 DEF RacingHook
    <3> QED BY <2>2, <3>1, ChangeTypes DEF RacingHook, gathered, local
  <2>3. ASSUME NEW t \in Tables, NEW h \in Handlers, Register(t, h) PROVE TypeInv'
    <3>1. Len(changes) \in 0 .. MaxChanges
      BY DEF TablesAssumption
    <3>2. missed' \in [Handlers \X Tables -> 0 .. MaxChanges]
      BY <2>3, <3>1 DEF Register
    <3>3. onModifiedCB' \in [Tables -> SUBSET Handlers]
      BY <2>3 DEF Register
    <3> QED BY <2>3, <3>2, <3>3 DEF Register, gathered, local
  <2>4. CASE SwapModified
    BY <2>4 DEF SwapModified, None
  <2>5. CASE SwapDeleted
    BY <2>5 DEF SwapDeleted, None
  <2>6. CASE NextTable
    <3>1. Rows' \in Seq(Numbers) /\ at' = "pump"
      <4>1. PICK t \in Tables : Visit(Deleted, t) \/ Visit(Modified, t)
        BY <2>6 DEF NextTable
      <4>2. Deleted[t] \in Seq(Numbers) /\ Modified[t] \in Seq(Numbers)
        OBVIOUS
      <4> QED BY <2>6, <4>1, <4>2 DEF NextTable, Visit
    <3>2. Modified' \in [Tables -> Seq(Numbers)] /\ Deleted' \in [Tables -> Seq(Numbers)]
      BY <2>6 DEF NextTable
    <3> QED BY <2>6, <3>1, <3>2 DEF NextTable, gathered
  <2>7. CASE Callback
    <3>1. Head(Rows) \in Numbers /\ Tail(Rows) \in Seq(Numbers)
      BY <2>7 DEF Callback
    <3>2. delivered' \in [Handlers -> Seq(Numbers)]
      <4> DEFINE to(h) == h \in onModifiedCB[changes[Head(Rows)].table]
      <4>1. \A h \in Handlers : Append(delivered[h], Head(Rows)) \in Seq(Numbers)
        BY <3>1
      <4>2. delivered' = [h \in Handlers |-> IF to(h) THEN Append(delivered[h], Head(Rows)) ELSE delivered[h]]
        BY <2>7 DEF Callback
      <4> HIDE DEF to
      <4> QED BY <4>1, <4>2
    <3> QED BY <2>7, <3>1, <3>2 DEF Callback, gathered
  <2>8. CASE EndPoll
    BY <2>8 DEF EndPoll, gathered, local
  <2>9. CASE UNCHANGED vars
    BY <2>9 DEF vars
  <2> QED
    BY <2>1, <2>2, <2>3, <2>4, <2>5, <2>6, <2>7, <2>8, <2>9 DEF Next, Poll
<1> QED
  BY <1>1, <1>2, PTL DEF Spec

(* What is gathered, visited and delivered are changes, in queues of       *)
(* tables (Database.cpp:12-14 and 197-231).                                *)
THEOREM TypeCorrect == ASSUME TablesAssumption PROVE Spec => []TypeOK
<1>1. TypeInv => TypeOK
  BY DEF TypeInv
<1> QED BY <1>1, Invariance, TablesAssumption, PTL

-----------------------------------------------------------------------------
(* A queue holds changes of one kind, by their numbers in a log.           *)
Holds(queue, kind, log) ==
  \A i \in DOMAIN queue : queue[i] \in 1 .. Len(log) /\ log[queue[i]] = kind

Kind(t, isDeleted) == [table |-> t, isDeleted |-> isDeleted]
Kinds == [table : Tables, isDeleted : BOOLEAN]

LEMMA HoldsLonger ==
  ASSUME NEW S, NEW log \in Seq(S), NEW new \in S, NEW queue, NEW kind, Holds(queue, kind, log)
  PROVE  Holds(queue, kind, Append(log, new))
<1>1. /\ Len(Append(log, new)) = Len(log) + 1
      /\ \A n \in 1 .. Len(log) : n \in 1 .. Len(log) + 1 /\ Append(log, new)[n] = log[n]
  OBVIOUS
<1> QED BY <1>1 DEF Holds

LEMMA HoldsNew ==
  ASSUME NEW S, NEW log \in Seq(S), NEW new \in S,
         NEW queue \in Seq(Numbers), Holds(queue, new, log), Len(log) + 1 \in Numbers
  PROVE  Holds(Append(queue, Len(log) + 1), new, Append(log, new))
<1>1. /\ Len(Append(log, new)) = Len(log) + 1 /\ Append(log, new)[Len(log) + 1] = new
      /\ Len(log) + 1 \in 1 .. Len(log) + 1
  OBVIOUS
<1>2. Holds(queue, new, Append(log, new))
  BY HoldsLonger
<1>3. ASSUME NEW i \in DOMAIN Append(queue, Len(log) + 1)
      PROVE  \/ i \in DOMAIN queue /\ Append(queue, Len(log) + 1)[i] = queue[i]
             \/ Append(queue, Len(log) + 1)[i] = Len(log) + 1
  OBVIOUS
<1> QED BY <1>1, <1>2, <1>3 DEF Holds

LEMMA HoldsTail ==
  ASSUME NEW queue \in Seq(Nat), queue # << >>, NEW kind, NEW log, Holds(queue, kind, log)
  PROVE  Holds(Tail(queue), kind, log)
<1>1. \A i \in DOMAIN Tail(queue) : i + 1 \in DOMAIN queue /\ Tail(queue)[i] = queue[i + 1]
  OBVIOUS
<1> QED BY <1>1 DEF Holds

(* A change is in no queue but that of its table and kind, the rows Poll   *)
(* is at are of one kind, and handlers got what was changed.               *)
Origin ==
  /\ \A t \in Tables : Holds(Modifiedrows[t], Kind(t, FALSE), changes)
  /\ \A t \in Tables : Holds(Deletedrows[t], Kind(t, TRUE), changes)
  /\ \A t \in Tables : Holds(Modified[t], Kind(t, FALSE), changes)
  /\ \A t \in Tables : Holds(Deleted[t], Kind(t, TRUE), changes)
  /\ \E kind : Holds(Rows, kind, changes)
  /\ \A h \in Handlers : \A i \in DOMAIN delivered[h] : delivered[h][i] \in 1 .. Len(changes)

LEMMA OriginStep ==
  ASSUME TablesAssumption, TypeInv, Origin, [Next]_vars
  PROVE  Origin'
<1>e. \A kind, log : Holds(<< >>, kind, log)
  BY DEF Holds
<1>k. \A t \in Tables, d \in BOOLEAN : Kind(t, d) \in Kinds
  BY DEF Kind, Kinds
<1>1. ASSUME NEW w \in Writers, NEW t \in Tables, NEW d \in BOOLEAN,
             Clientupdatehook(w, t, d) \/ RacingHook(w, t, d)
      PROVE  Origin'
  <2>1. changes' = Append(changes, Kind(t, d)) /\ Kind(t, d) \in Kinds /\ changes \in Seq(Kinds)
    BY <1>1, <1>k DEF Clientupdatehook, RacingHook, Change, Kind, Kinds, TypeInv, TypeOK
  <2>2. UNCHANGED <<Modified, Deleted, Rows, delivered>>
    BY <1>1 DEF Clientupdatehook, RacingHook, local
  <2>3. \A queue, kind : Holds(queue, kind, changes) => Holds(queue, kind, changes')
    BY <2>1, HoldsLonger
  <2>4. Len(changes) \in Nat /\ Len(changes') = Len(changes) + 1
    BY <2>1
  <2>5. Len(changes) + 1 \in Numbers
    BY <1>1, ChangeTypes DEF Clientupdatehook, RacingHook
  <2>6. ASSUME NEW u \in Tables PROVE Holds(Modifiedrows'[u], Kind(u, FALSE), changes')
    <3> Modifiedrows \in [Tables -> Seq(Numbers)]
      BY DEF TypeInv, TypeOK
    <3>0. (d = FALSE /\ Modifiedrows' = Gather(Modifiedrows, t)) \/ UNCHANGED Modifiedrows
      BY <1>1 DEF Clientupdatehook, RacingHook, gathered
    <3>1. CASE Modifiedrows' = Gather(Modifiedrows, t) /\ d = FALSE /\ u = t
      <4>1. Modifiedrows[t] \in Seq(Numbers) /\ Modifiedrows'[t] = Append(Modifiedrows[t], Len(changes) + 1)
        BY <3>1, <2>5, GatherTypes DEF TypeInv, TypeOK
      <4> QED BY <3>1, <4>1, <2>1, <2>5, HoldsNew DEF Origin
    <3>2. CASE Modifiedrows'[u] = Modifiedrows[u]
      BY <3>2, <2>3 DEF Origin
    <3>3. CASE Modifiedrows' = Gather(Modifiedrows, t) /\ u # t
      <4>1. Modifiedrows'[u] = Modifiedrows[u]
        BY <3>3, <2>5, GatherTypes
      <4> QED BY <4>1, <3>2
    <3> QED BY <3>0, <3>1, <3>2, <3>3
  <2>7. ASSUME NEW u \in Tables PROVE Holds(Deletedrows'[u], Kind(u, TRUE), changes')
    <3> Deletedrows \in [Tables -> Seq(Numbers)]
      BY DEF TypeInv, TypeOK
    <3>0. (d = TRUE /\ Deletedrows' = Gather(Deletedrows, t)) \/ UNCHANGED Deletedrows
      BY <1>1 DEF Clientupdatehook, RacingHook, gathered
    <3>1. CASE Deletedrows' = Gather(Deletedrows, t) /\ d = TRUE /\ u = t
      <4>1. Deletedrows[t] \in Seq(Numbers) /\ Deletedrows'[t] = Append(Deletedrows[t], Len(changes) + 1)
        BY <3>1, <2>5, GatherTypes DEF TypeInv, TypeOK
      <4> QED BY <3>1, <4>1, <2>1, <2>5, HoldsNew DEF Origin
    <3>2. CASE Deletedrows'[u] = Deletedrows[u]
      BY <3>2, <2>3 DEF Origin
    <3>3. CASE Deletedrows' = Gather(Deletedrows, t) /\ u # t
      <4>1. Deletedrows'[u] = Deletedrows[u]
        BY <3>3, <2>5, GatherTypes
      <4> QED BY <4>1, <3>2
    <3> QED BY <3>0, <3>1, <3>2, <3>3
  <2>8. \A h \in Handlers : \A i \in DOMAIN delivered[h] : delivered[h][i] \in 1 .. Len(changes')
    BY <2>4 DEF Origin
  <2> QED BY <2>2, <2>3, <2>6, <2>7, <2>8 DEF Origin
<1>2. ASSUME NEW t \in Tables, NEW h \in Handlers, Register(t, h) PROVE Origin'
  BY <1>2 DEF Register, gathered, local, Origin
<1>3. CASE SwapModified
  BY <1>3, <1>e DEF SwapModified, None, Origin
<1>4. CASE SwapDeleted
  BY <1>4, <1>e DEF SwapDeleted, None, Origin
<1>5. CASE NextTable
  <2>1. PICK t \in Tables :
          \/ Visit(Deleted, t) /\ Deleted' = [Deleted EXCEPT ![t] = << >>] /\ UNCHANGED Modified
          \/ Visit(Modified, t) /\ Modified' = [Modified EXCEPT ![t] = << >>] /\ UNCHANGED Deleted
    BY <1>5 DEF NextTable
  <2>2. \E kind : Holds(Rows', kind, changes)
    BY <2>1, <1>e, <1>k DEF Visit, Origin
  <2>3. ASSUME NEW u \in Tables
        PROVE  Holds(Modified'[u], Kind(u, FALSE), changes) /\ Holds(Deleted'[u], Kind(u, TRUE), changes)
    <3>1. Modified'[u] \in {Modified[u], << >>} /\ Deleted'[u] \in {Deleted[u], << >>}
      BY <2>1 DEF TypeInv, TypeOK
    <3> QED BY <3>1, <1>e DEF Origin
  <2> QED BY <1>5, <2>2, <2>3 DEF NextTable, gathered, Origin
<1>6. CASE Callback
  <2>1. Rows \in Seq(Nat) /\ Rows # << >> /\ Rows' = Tail(Rows)
    BY <1>6 DEF Callback, TypeInv, TypeOK, Numbers
  <2>2. Head(Rows) \in 1 .. Len(changes)
    BY <2>1 DEF Origin, Holds
  <2>3. \E kind : Holds(Rows', kind, changes)
    BY <2>1, HoldsTail DEF Origin
  <2>4. ASSUME NEW h \in Handlers, NEW i \in DOMAIN delivered'[h] PROVE delivered'[h][i] \in 1 .. Len(changes)
    <3>1. delivered[h] \in Seq(Numbers) /\ (delivered'[h] = delivered[h] \/ delivered'[h] = Append(delivered[h], Head(Rows)))
      BY <1>6 DEF Callback, TypeInv, TypeOK
    <3>2. \/ i \in DOMAIN delivered[h] /\ delivered'[h][i] = delivered[h][i]
          \/ delivered'[h][i] = Head(Rows)
      BY <3>1
    <3> QED BY <3>2, <2>2 DEF Origin
  <2> QED BY <1>6, <2>3, <2>4 DEF Callback, gathered, Origin
<1>7. CASE EndPoll
  BY <1>7 DEF EndPoll, gathered, local, Origin
<1>8. CASE UNCHANGED vars
  BY <1>8 DEF vars, Origin
<1> QED
  BY <1>1, <1>2, <1>3, <1>4, <1>5, <1>6, <1>7, <1>8 DEF Next, Poll

-----------------------------------------------------------------------------
LEMMA EmptyContains == \A x : ~Contains(<< >>, x)
  BY DEF Contains

LEMMA ContainsKind ==
  ASSUME NEW S, NEW queue \in Seq(S), NEW kind, NEW log, Holds(queue, kind, log), NEW n, Contains(queue, n)
  PROVE  log[n] = kind
<1>1. \A i \in 1 .. Len(queue) : i \in DOMAIN queue
  OBVIOUS
<1> QED BY <1>1 DEF Contains, Holds

Kept(n, h) == Waiting(n) \/ Contains(delivered[h], n) \/ n \in lost

(* What waits goes on to wait, in the next place, or is delivered.         *)
LEMMA NoChangeLostStep ==
  ASSUME TablesAssumption, TypeInv, Origin, NoChangeLost, [Next]_vars
  PROVE  NoChangeLost'
<1> SUFFICES ASSUME NEW t \in Tables \ Ignored, NEW h \in onModifiedCB'[t],
                    NEW n \in (missed[<<h, t>>])' + 1 .. Len(changes'), changes'[n].table = t
             PROVE  Kept(n, h)'
  BY DEF NoChangeLost, Kept
<1>t. /\ onModifiedCB \in [Tables -> SUBSET Handlers] /\ missed \in [Handlers \X Tables -> 0 .. MaxChanges]
      /\ Modifiedrows \in [Tables -> Seq(Numbers)] /\ Deletedrows \in [Tables -> Seq(Numbers)]
      /\ Modified \in [Tables -> Seq(Numbers)] /\ Deleted \in [Tables -> Seq(Numbers)]
      /\ Rows \in Seq(Numbers) /\ delivered \in [Handlers -> Seq(Numbers)]
      /\ Len(changes) \in 0 .. MaxChanges /\ MaxChanges \in Nat
  BY DEF TypeInv, TypeOK, TablesAssumption
<1>old. ASSUME h \in onModifiedCB[t], UNCHANGED <<missed, changes>> PROVE Kept(n, h)
  BY <1>old DEF NoChangeLost, Kept
<1>1. ASSUME NEW w \in Writers, NEW u \in Tables, NEW d \in BOOLEAN,
             Clientupdatehook(w, u, d) \/ RacingHook(w, u, d)
      PROVE  Kept(n, h)'
  <2>1. /\ Len(changes) + 1 \in Numbers /\ Len(changes') = Len(changes) + 1
        /\ changes'[Len(changes) + 1].table = u
        /\ \A m \in 1 .. Len(changes) : changes'[m] = changes[m]
    <3>1. Change(w, u, d)
      BY <1>1 DEF Clientupdatehook, RacingHook
    <3>2. changes'[Len(changes) + 1] = [table |-> u, isDeleted |-> d]
      BY <3>1, ChangeTypes
    <3>3. /\ Len(changes) + 1 \in Numbers /\ Len(changes') = Len(changes) + 1
          /\ \A m \in 1 .. Len(changes) : changes'[m] = changes[m]
      BY <3>1, ChangeTypes
    <3> QED BY <3>2, <3>3
  <2>2. /\ UNCHANGED <<onModifiedCB, Modified, Deleted, Rows, delivered, missed>> /\ lost \subseteq lost'
        /\ h \in Handlers
    BY <1>1, <1>t DEF Clientupdatehook, RacingHook, local
  <2>3. ASSUME NEW q \in Tables, NEW m
        PROVE  /\ Contains(Modifiedrows[q], m) => Contains(Modifiedrows'[q], m)
               /\ Contains(Deletedrows[q], m) => Contains(Deletedrows'[q], m)
    <3>1. ASSUME NEW queue \in [Tables -> Seq(Numbers)], Contains(queue[q], m)
          PROVE  Contains(Gather(queue, u)[q], m)
      <4>1. queue[q] \in Seq(Numbers)
        OBVIOUS
      <4>2. CASE q = u
        <5>1. Gather(queue, u)[q] = Append(queue[q], Len(changes) + 1)
          BY <2>1, <4>2, GatherTypes
        <5> QED BY <3>1, <2>1, <4>1, <5>1, AppendContains
      <4>3. CASE q # u
        BY <3>1, <2>1, <4>3, GatherTypes
      <4> QED BY <4>2, <4>3
    <3> QED BY <3>1, <1>1, <1>t DEF Clientupdatehook, RacingHook, gathered
  <2>4. CASE n # Len(changes) + 1
    <3>1. n \in missed[<<h, t>>] + 1 .. Len(changes) /\ changes[n].table = t
      <4>1. (missed[<<h, t>>])' = missed[<<h, t>>] /\ missed[<<h, t>>] \in Nat
        BY <2>2, <1>t
      <4>2. n \in missed[<<h, t>>] + 1 .. Len(changes')
        BY <1>t, <4>1
      <4>3. n \in missed[<<h, t>>] + 1 .. Len(changes) /\ n \in 1 .. Len(changes)
        BY <2>1, <2>4, <4>1, <4>2
      <4> QED BY <2>1, <1>t, <4>3
    <3>2. Kept(n, h)
      BY <3>1, <2>2 DEF NoChangeLost, Kept
    <3> QED BY <3>2, <2>2, <2>3 DEF Kept, Waiting
  <2>5. CASE n = Len(changes) + 1
    <3>1. u = t /\ u \notin Ignored
      BY <2>1, <2>5
    <3>2. ASSUME NEW queue \in [Tables -> Seq(Numbers)] PROVE Contains(Gather(queue, u)[u], n)
      <4>1. queue[u] \in Seq(Numbers) /\ Gather(queue, u)[u] = Append(queue[u], n)
        BY <2>1, <2>5, GatherTypes
      <4> QED BY <2>1, <2>5, <4>1, AppendContains
    <3>3. Contains(Modifiedrows'[u], n) \/ Contains(Deletedrows'[u], n) \/ n \in lost'
      BY <1>1, <1>t, <2>5, <3>1, <3>2 DEF Clientupdatehook, RacingHook
    <3> QED BY <3>3 DEF Kept, Waiting
  <2> QED BY <2>4, <2>5
<1>2. ASSUME NEW u \in Tables, NEW k \in Handlers, Register(u, k) PROVE Kept(n, h)'
  <2>1. UNCHANGED <<Modifiedrows, Deletedrows, Modified, Deleted, Rows, delivered, lost, changes>>
    BY <1>2 DEF Register, gathered, local
  <2>2. ~(u = t /\ k = h)
    BY <1>2, <1>t DEF Register
  <2>3. h \in onModifiedCB[t] /\ (missed[<<h, t>>])' = missed[<<h, t>>]
    BY <1>2, <1>t, <2>2 DEF Register
  <2> QED BY <2>1, <2>3 DEF Kept, NoChangeLost, Waiting
<1>3. CASE SwapModified
  <2>1. Kept(n, h)
    BY <1>3, <1>old DEF SwapModified
  <2>2. Modified = None
    BY <1>3 DEF SwapModified, TypeInv, Locals
  <2> QED BY <1>3, <2>1, <2>2, EmptyContains DEF SwapModified, Kept, Waiting, None
<1>4. CASE SwapDeleted
  <2>1. Kept(n, h)
    BY <1>4, <1>old DEF SwapDeleted
  <2>2. Deleted = None
    BY <1>4 DEF SwapDeleted, TypeInv, Locals
  <2> QED BY <1>4, <2>1, <2>2, EmptyContains DEF SwapDeleted, Kept, Waiting, None
<1>5. CASE NextTable
  <2>1. Kept(n, h) /\ changes[n].table = t /\ onModifiedCB[t] # {} /\ Rows = << >>
    BY <1>5, <1>old DEF NextTable
  <2>2. PICK u \in Tables :
          \/ Visit(Deleted, u) /\ Deleted' = [Deleted EXCEPT ![u] = << >>] /\ UNCHANGED Modified
          \/ Visit(Modified, u) /\ Modified' = [Modified EXCEPT ![u] = << >>] /\ UNCHANGED Deleted
    BY <1>5 DEF NextTable
  <2>3. UNCHANGED <<gathered, delivered, lost>>
    BY <1>5 DEF NextTable
  <2>4. ASSUME NEW q \in Tables, Contains(Deleted[q], n) \/ Contains(Modified[q], n)
        PROVE  Waiting(n)'
    <3>1. q = t
      <4>1. Deleted[q] \in Seq(Numbers) /\ Modified[q] \in Seq(Numbers)
        BY <1>t
      <4>2. changes[n] = Kind(q, TRUE) \/ changes[n] = Kind(q, FALSE)
        BY <2>4, <4>1, ContainsKind DEF Origin
      <4> QED BY <2>1, <4>2 DEF Kind
    <3>2. CASE Contains(Deleted[q], n)
      BY <3>1, <3>2, <2>1, <2>2, <1>t DEF Visit, Waiting
    <3>3. CASE Contains(Modified[q], n)
      BY <3>1, <3>3, <2>1, <2>2, <1>t DEF Visit, Waiting
    <3> QED BY <2>4, <3>2, <3>3
  <2> QED BY <2>1, <2>3, <2>4, EmptyContains DEF Kept, Waiting, gathered
<1>6. CASE Callback
  <2>1. Kept(n, h) /\ changes[n].table = t /\ h \in onModifiedCB[t] /\ h \in Handlers
    BY <1>6, <1>old, <1>t DEF Callback
  <2>2. UNCHANGED <<gathered, Modified, Deleted, lost>> /\ Rows' = Tail(Rows) /\ Rows # << >>
    BY <1>6 DEF Callback
  <2>3. \/ delivered'[h] = Append(delivered[h], Head(Rows))
        \/ delivered'[h] = delivered[h] /\ Head(Rows) # n
    BY <1>6, <2>1 DEF Callback
  <2>4. (Contains(delivered[h], n) \/ Head(Rows) = n) => Contains(delivered'[h], n)
    <3>1. delivered[h] \in Seq(Numbers) /\ Head(Rows) \in Numbers
      BY <2>1, <2>2, <1>t
    <3>2. Contains(Append(delivered[h], Head(Rows)), n) <=> (Contains(delivered[h], n) \/ n = Head(Rows))
      BY <3>1, AppendContains
    <3> QED BY <2>3, <3>2
  <2>5. Contains(Rows, n) => Head(Rows) = n \/ Contains(Rows', n)
    BY <2>2, <1>t, HeadOrTail
  <2> QED BY <2>1, <2>2, <2>4, <2>5 DEF Kept, Waiting, gathered
<1>7. CASE EndPoll
  BY <1>7, <1>old DEF EndPoll, gathered, local, Kept, Waiting
<1>8. CASE UNCHANGED vars
  BY <1>8, <1>old DEF vars, Kept, Waiting
<1> QED
  BY <1>1, <1>2, <1>3, <1>4, <1>5, <1>6, <1>7, <1>8 DEF Next, Poll

(* A change made after a handler was registered for its table waits for it *)
(* or has reached it, unless it was lost in the race with the swap         *)
(* (Database.cpp:60-65 and 197-231).                                       *)
THEOREM NoChangeIsLost == ASSUME TablesAssumption PROVE Spec => []NoChangeLost
<1>1. Init => Origin /\ NoChangeLost
  BY DEF Init, None, Origin, Holds, NoChangeLost, Kind, Kinds
<1>2. TypeInv /\ Origin /\ NoChangeLost /\ [Next]_vars => (Origin /\ NoChangeLost)'
  BY OriginStep, NoChangeLostStep, TablesAssumption
<1> QED BY <1>1, <1>2, Invariance, TablesAssumption, PTL DEF Spec

-----------------------------------------------------------------------------
(* The elements of s with a kind of u come before those of u, by their     *)
(* numbers; those of s are in order.                                       *)
Within(s, log) == \A i \in DOMAIN s : s[i] \in 1 .. Len(log)
Before(s, u, log) == \A i \in DOMAIN s, j \in DOMAIN u : log[s[i]] = log[u[j]] => s[i] < u[j]
Ordered(s, log) == \A i, j \in DOMAIN s : i < j /\ log[s[i]] = log[s[j]] => s[i] < s[j]

LEMMA OrderNothing == \A s, log : Before(s, << >>, log) /\ Before(<< >>, s, log) /\ Ordered(<< >>, log)
  BY DEF Before, Ordered

LEMMA OrderLonger ==
  ASSUME NEW S, NEW log \in Seq(S), NEW new \in S, NEW s, Within(s, log), NEW u, Within(u, log)
  PROVE  /\ Before(s, u, log) => Before(s, u, Append(log, new))
         /\ Ordered(s, log) => Ordered(s, Append(log, new))
<1>1. \A n \in 1 .. Len(log) : Append(log, new)[n] = log[n]
  OBVIOUS
<1> QED BY <1>1 DEF Within, Before, Ordered

LEMMA OrderNew ==
  ASSUME NEW S, NEW log \in Seq(S), NEW new \in S, NEW s, Within(s, log),
         NEW u \in Seq(Numbers), Within(u, log), Len(log) + 1 \in Numbers
  PROVE  /\ Before(s, u, log) => Before(s, Append(u, Len(log) + 1), Append(log, new))
         /\ Ordered(u, log) => Ordered(Append(u, Len(log) + 1), Append(log, new))
<1> DEFINE n == Len(log) + 1
<1> DEFINE v == Append(u, n)
<1> DEFINE newlog == Append(log, new)
<1>1. \A m \in 1 .. Len(log) : m < n /\ newlog[m] = log[m]
  OBVIOUS
<1>2. \A i \in DOMAIN v : (i \in DOMAIN u /\ v[i] = u[i]) \/ (i = Len(u) + 1 /\ v[i] = n)
  OBVIOUS
<1>3. DOMAIN u = 1 .. Len(u) /\ Len(u) \in Nat
  OBVIOUS
<1> HIDE DEF n, v, newlog
<1>4. ASSUME Before(s, u, log) PROVE Before(s, v, newlog)
  BY <1>1, <1>2, <1>4 DEF Within, Before
<1>5. ASSUME Ordered(u, log) PROVE Ordered(v, newlog)
  <2> SUFFICES ASSUME NEW i \in DOMAIN v, NEW j \in DOMAIN v, i < j, newlog[v[i]] = newlog[v[j]]
               PROVE  v[i] < v[j]
    BY DEF Ordered
  <2>1. i \in DOMAIN u /\ v[i] = u[i] /\ u[i] \in 1 .. Len(log)
    BY <1>2, <1>3 DEF Within, v
  <2>2. CASE j \in DOMAIN u /\ v[j] = u[j]
    BY <1>1, <1>5, <2>1, <2>2 DEF Within, Ordered
  <2>3. CASE v[j] = n
    BY <1>1, <2>1, <2>3
  <2> QED BY <1>2, <2>2, <2>3
<1> QED BY <1>4, <1>5 DEF n, v, newlog

LEMMA OtherKinds ==
  ASSUME NEW s, NEW u, NEW k, NEW l, k # l, NEW log, Holds(s, k, log), Holds(u, l, log)
  PROVE  Before(s, u, log)
BY DEF Holds, Before

(* A handler gets the first of the rows.                                   *)
LEMMA OrderDeliver ==
  ASSUME NEW s \in Seq(Numbers), NEW rows \in Seq(Numbers), rows # << >>, NEW u, NEW log,
         Ordered(rows, log), Before(rows, u, log), Before(s, rows, log), Before(s, u, log), Ordered(s, log),
         NEW t, t = s \/ t = Append(s, Head(rows))
  PROVE  /\ Ordered(t, log) /\ Before(t, Tail(rows), log) /\ Before(t, u, log)
         /\ Ordered(Tail(rows), log) /\ Before(Tail(rows), u, log)
<1>1. /\ \A i \in DOMAIN Tail(rows) : i \in Nat /\ i + 1 \in DOMAIN rows /\ 1 < i + 1 /\ Tail(rows)[i] = rows[i + 1]
      /\ 1 \in DOMAIN rows /\ Head(rows) = rows[1]
  OBVIOUS
<1>2. \A i \in DOMAIN t : (i \in DOMAIN s /\ t[i] = s[i]) \/ (i = Len(s) + 1 /\ t[i] = rows[1])
  BY <1>1
<1>3. DOMAIN s = 1 .. Len(s) /\ Len(s) \in Nat
  OBVIOUS
<1>4. Ordered(Tail(rows), log)
  BY <1>1 DEF Ordered
<1>5. Before(Tail(rows), u, log)
  BY <1>1 DEF Before
<1>6. Before(t, u, log)
  BY <1>1, <1>2 DEF Before
<1>7. Before(t, Tail(rows), log)
  BY <1>1, <1>2 DEF Before, Ordered
<1>8. Ordered(t, log)
  BY <1>1, <1>2, <1>3 DEF Before, Ordered
<1> QED BY <1>4, <1>5, <1>6, <1>7, <1>8

(* A change is before another of its kind that is farther from the handlers. *)
Line(t, h) ==
  /\ Ordered(Modifiedrows[t], changes) /\ Ordered(Deletedrows[t], changes)
  /\ Ordered(Modified[t], changes) /\ Ordered(Deleted[t], changes)
  /\ Before(Modified[t], Modifiedrows[t], changes) /\ Before(Deleted[t], Deletedrows[t], changes)
  /\ \A s \in {Rows, delivered[h]} :
       /\ Before(s, Modifiedrows[t], changes) /\ Before(s, Deletedrows[t], changes)
       /\ Before(s, Modified[t], changes) /\ Before(s, Deleted[t], changes)

Served(h) ==
  Ordered(Rows, changes) /\ Before(delivered[h], Rows, changes) /\ Ordered(delivered[h], changes)

OrderInv == \A h \in Handlers : Served(h) /\ \A t \in Tables : Line(t, h)

LEMMA OrderStep ==
  ASSUME TablesAssumption, TypeInv, Origin, OrderInv, [Next]_vars
  PROVE  OrderInv'
<1>t. /\ Modifiedrows \in [Tables -> Seq(Numbers)] /\ Deletedrows \in [Tables -> Seq(Numbers)]
      /\ Modified \in [Tables -> Seq(Numbers)] /\ Deleted \in [Tables -> Seq(Numbers)]
      /\ Rows \in Seq(Numbers) /\ delivered \in [Handlers -> Seq(Numbers)] /\ changes \in Seq(Kinds)
  BY DEF TypeInv, TypeOK, Kinds
<1>1. ASSUME NEW w \in Writers, NEW u \in Tables, NEW d \in BOOLEAN,
             Clientupdatehook(w, u, d) \/ RacingHook(w, u, d)
      PROVE  OrderInv'
  <2>1. changes' = Append(changes, Kind(u, d)) /\ Kind(u, d) \in Kinds
    BY <1>1 DEF Clientupdatehook, RacingHook, Change, Kind, Kinds
  <2>2. Len(changes) + 1 \in Numbers
    <3>1. Change(w, u, d)
      BY <1>1 DEF Clientupdatehook, RacingHook
    <3> QED BY <3>1, ChangeTypes
  <2>3. UNCHANGED <<Modified, Deleted, Rows, delivered>>
    BY <1>1 DEF Clientupdatehook, RacingHook, local
  <2>4. /\ Within(Rows, changes) /\ \A h \in Handlers : Within(delivered[h], changes)
        /\ \A t \in Tables : /\ Within(Modified[t], changes) /\ Within(Modifiedrows[t], changes)
                             /\ Within(Deleted[t], changes) /\ Within(Deletedrows[t], changes)
    BY DEF Origin, Holds, Within
  <2>5. ASSUME NEW queue \in [Tables -> Seq(Numbers)], NEW t \in Tables, NEW s,
               Within(s, changes), Within(queue[t], changes),
               NEW new, new = queue \/ new = Gather(queue, u)
        PROVE  /\ Before(s, queue[t], changes) => Before(s, new[t], changes')
               /\ Ordered(queue[t], changes) => Ordered(new[t], changes')
    <3>1. CASE new[t] = queue[t]
      BY <3>1, <2>1, <2>5, <1>t, OrderLonger
    <3>2. CASE new[t] = Append(queue[t], Len(changes) + 1)
      <4>1. queue[t] \in Seq(Numbers)
        OBVIOUS
      <4> QED BY <3>2, <4>1, <2>1, <2>2, <2>5, <1>t, OrderNew
    <3>3. new[t] = queue[t] \/ new[t] = Append(queue[t], Len(changes) + 1)
      <4>1. CASE new = Gather(queue, u) /\ t = u
        BY <2>2, <4>1, GatherTypes
      <4>2. CASE new = Gather(queue, u) /\ t # u
        BY <2>2, <4>2, GatherTypes
      <4> QED BY <2>5, <4>1, <4>2
    <3> QED BY <3>1, <3>2, <3>3
  <2>6. \A s, v : /\ Within(s, changes) /\ Within(v, changes) /\ Before(s, v, changes) => Before(s, v, changes')
                  /\ Within(s, changes) /\ Ordered(s, changes) => Ordered(s, changes')
    BY <2>1, <1>t, OrderLonger
  <2>7. /\ Modifiedrows' = Modifiedrows \/ Modifiedrows' = Gather(Modifiedrows, u)
        /\ Deletedrows' = Deletedrows \/ Deletedrows' = Gather(Deletedrows, u)
    BY <1>1 DEF Clientupdatehook, RacingHook, gathered
  <2>9. ASSUME NEW h \in Handlers PROVE Served(h)'
    BY <2>3, <2>4, <2>6 DEF OrderInv, Served
  <2>10. ASSUME NEW h \in Handlers, NEW t \in Tables PROVE Line(t, h)'
    <3>1. Line(t, h)
      BY DEF OrderInv
    <3>2. ASSUME NEW s, Within(s, changes)
          PROVE  /\ Before(s, Modifiedrows[t], changes) => Before(s, Modifiedrows'[t], changes')
                 /\ Before(s, Deletedrows[t], changes) => Before(s, Deletedrows'[t], changes')
                 /\ Ordered(Modifiedrows[t], changes) => Ordered(Modifiedrows'[t], changes')
                 /\ Ordered(Deletedrows[t], changes) => Ordered(Deletedrows'[t], changes')
      BY <2>4, <2>5, <2>7, <3>2, <1>t
    <3> QED BY <2>3, <2>4, <2>6, <3>1, <3>2 DEF Line
  <2> QED BY <2>9, <2>10 DEF OrderInv
<1>2. ASSUME NEW t \in Tables, NEW h \in Handlers, Register(t, h) PROVE OrderInv'
  BY <1>2 DEF Register, gathered, local, OrderInv, Served, Line
<1>3. CASE SwapModified
  <2>1. UNCHANGED <<Deletedrows, Deleted, Rows, changes, delivered>> /\ Rows = << >>
    BY <1>3 DEF SwapModified, TypeInv, Locals
  <2>2. \A t \in Tables : Modified'[t] = Modifiedrows[t] /\ Modifiedrows'[t] = << >>
    BY <1>3 DEF SwapModified, None
  <2> QED BY <2>1, <2>2, OrderNothing DEF OrderInv, Served, Line
<1>4. CASE SwapDeleted
  <2>1. UNCHANGED <<Modifiedrows, Modified, Rows, changes, delivered>> /\ Rows = << >>
    BY <1>4 DEF SwapDeleted, TypeInv, Locals
  <2>2. \A t \in Tables : Deleted'[t] = Deletedrows[t] /\ Deletedrows'[t] = << >>
    BY <1>4 DEF SwapDeleted, None
  <2> QED BY <2>1, <2>2, OrderNothing DEF OrderInv, Served, Line
<1>5. CASE NextTable
  <2>1. UNCHANGED <<Modifiedrows, Deletedrows, changes, delivered>> /\ Rows = << >>
    BY <1>5 DEF NextTable, gathered
  <2>2. PICK u \in Tables :
          \/ Visit(Deleted, u) /\ Deleted' = [Deleted EXCEPT ![u] = << >>] /\ UNCHANGED Modified
          \/ Visit(Modified, u) /\ Modified' = [Modified EXCEPT ![u] = << >>] /\ UNCHANGED Deleted
    BY <1>5 DEF NextTable
  <2>3. CASE Rows' = << >>
    <3>1. \A t \in Tables : Modified'[t] \in {Modified[t], << >>} /\ Deleted'[t] \in {Deleted[t], << >>}
      BY <2>2, <1>t
    <3> QED BY <2>1, <2>3, <3>1, OrderNothing DEF OrderInv, Served, Line
  <2>4. CASE Rows' = Deleted[u] /\ Deleted' = [Deleted EXCEPT ![u] = << >>] /\ UNCHANGED Modified
    <3>1. ASSUME NEW t \in Tables
          PROVE  /\ Before(Deleted[u], Modified[t], changes) /\ Before(Deleted[u], Modifiedrows[t], changes)
                 /\ t # u => /\ Before(Deleted[u], Deleted[t], changes)
                             /\ Before(Deleted[u], Deletedrows[t], changes)
      <4>1. Kind(u, TRUE) # Kind(t, FALSE) /\ (t # u => Kind(u, TRUE) # Kind(t, TRUE))
        BY DEF Kind
      <4> QED BY <4>1, OtherKinds DEF Origin
    <3>2. Deleted'[u] = << >> /\ \A t \in Tables : t # u => Deleted'[t] = Deleted[t]
      BY <2>4, <1>t
    <3>3. ASSUME NEW h \in Handlers, NEW t \in Tables PROVE Line(t, h)'
      <4>1. Line(t, h)
        BY DEF OrderInv
      <4>2. CASE t = u
        BY <2>1, <2>4, <3>1, <3>2, <4>1, <4>2, OrderNothing DEF Line
      <4>3. CASE t # u
        BY <2>1, <2>4, <3>1, <3>2, <4>1, <4>3, OrderNothing DEF Line
      <4> QED BY <4>2, <4>3
    <3>4. ASSUME NEW h \in Handlers PROVE Served(h)'
      BY <2>1, <2>4 DEF OrderInv, Served, Line
    <3> QED BY <3>3, <3>4 DEF OrderInv
  <2>5. CASE Rows' = Modified[u] /\ Modified' = [Modified EXCEPT ![u] = << >>] /\ UNCHANGED Deleted
    <3>1. ASSUME NEW t \in Tables
          PROVE  /\ Before(Modified[u], Deleted[t], changes) /\ Before(Modified[u], Deletedrows[t], changes)
                 /\ t # u => /\ Before(Modified[u], Modified[t], changes)
                             /\ Before(Modified[u], Modifiedrows[t], changes)
      <4>1. Kind(u, FALSE) # Kind(t, TRUE) /\ (t # u => Kind(u, FALSE) # Kind(t, FALSE))
        BY DEF Kind
      <4> QED BY <4>1, OtherKinds DEF Origin
    <3>2. Modified'[u] = << >> /\ \A t \in Tables : t # u => Modified'[t] = Modified[t]
      BY <2>5, <1>t
    <3>3. ASSUME NEW h \in Handlers, NEW t \in Tables PROVE Line(t, h)'
      <4>1. Line(t, h)
        BY DEF OrderInv
      <4>2. CASE t = u
        BY <2>1, <2>5, <3>1, <3>2, <4>1, <4>2, OrderNothing DEF Line
      <4>3. CASE t # u
        BY <2>1, <2>5, <3>1, <3>2, <4>1, <4>3, OrderNothing DEF Line
      <4> QED BY <4>2, <4>3
    <3>4. ASSUME NEW h \in Handlers PROVE Served(h)'
      BY <2>1, <2>5 DEF OrderInv, Served, Line
    <3> QED BY <3>3, <3>4 DEF OrderInv
  <2> QED BY <2>2, <2>3, <2>4, <2>5 DEF Visit
<1>6. CASE Callback
  <2>1. UNCHANGED <<gathered, Modified, Deleted, changes>> /\ Rows' = Tail(Rows) /\ Rows # << >>
    BY <1>6 DEF Callback
  <2>2. ASSUME NEW h \in Handlers
        PROVE  delivered'[h] \in {delivered[h], Append(delivered[h], Head(Rows))} /\ delivered[h] \in Seq(Numbers)
    BY <1>6, <1>t DEF Callback
  <2>3. ASSUME NEW h \in Handlers, NEW v, Before(Rows, v, changes), Before(delivered[h], v, changes)
        PROVE  /\ Served(h)'
               /\ Before(Tail(Rows), v, changes) /\ Before(delivered'[h], v, changes)
    BY <2>1, <2>2, <2>3, <1>t, OrderDeliver DEF OrderInv, Served
  <2>4. ASSUME NEW h \in Handlers, NEW t \in Tables PROVE Line(t, h)'
    <3>1. Line(t, h)
      BY DEF OrderInv
    <3> QED BY <2>1, <2>3, <3>1 DEF Line, gathered
  <2>5. ASSUME NEW h \in Handlers PROVE Served(h)'
    BY <2>3, OrderNothing
  <2> QED BY <2>4, <2>5 DEF OrderInv
<1>7. CASE EndPoll
  BY <1>7 DEF EndPoll, gathered, local, OrderInv, Served, Line
<1>8. CASE UNCHANGED vars
  BY <1>8 DEF vars, OrderInv, Served, Line
<1> QED
  BY <1>1, <1>2, <1>3, <1>4, <1>5, <1>6, <1>7, <1>8 DEF Next, Poll

(* A handler gets no change twice, and those of a table and a kind in the  *)
(* order they were made, whatever is changed or registered in between      *)
(* (Database.cpp:197-231).                                                 *)
THEOREM DeliveredInOrder == ASSUME TablesAssumption PROVE Spec => []InOrder
<1>1. Init => Origin /\ OrderInv
  BY OrderNothing DEF Init, None, Origin, Holds, OrderInv, Served, Line
<1>2. TypeInv /\ Origin /\ OrderInv /\ [Next]_vars => (Origin /\ OrderInv)'
  BY OriginStep, OrderStep, TablesAssumption
<1>3. OrderInv => InOrder
  BY DEF OrderInv, Served, Ordered, InOrder
<1> QED BY <1>1, <1>2, <1>3, Invariance, TablesAssumption, PTL DEF Spec
=============================================================================
