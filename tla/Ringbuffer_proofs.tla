------------------------- MODULE Ringbuffer_proofs -------------------------
(***************************************************************************)
(* Theorems about Ringbuffer, for every capacity and every width of the    *)
(* index type.                                                             *)
(***************************************************************************)
EXTENDS Ringbuffer, Sequences, TLAPS

(* Clamp lands in the array whatever the truncated sum is                  *)
(* (Ringbuffer.hpp:22-25).                                                 *)
LEMMA ClampInSlots ==
  ASSUME NEW v \in Int
  PROVE  Clamp(v) \in Slots
  BY CapacityAssumption DEF Clamp, Slots

LEMMA AdvanceInSlots ==
  ASSUME NEW i \in Int, NEW d \in Int
  PROVE  Advance(i, d) \in Slots
<1>1. N \in Nat /\ N > 0 /\ Modulus \in Nat /\ Modulus > 0
  BY CapacityAssumption, WidthAssumption
<1>2. (i + d + N) % Modulus \in Int
  BY <1>1
<1> QED
  BY <1>2, ClampInSlots DEF Advance

(* Head stays inside the array and Size within the capacity, whatever the  *)
(* capacity and the width of the index type (Ringbuffer.hpp:81-97).        *)
THEOREM TypeCorrect == Spec => []TypeOK
<1>1. Init => TypeOK
  BY CapacityAssumption DEF Init, TypeOK, Slots
<1>2. TypeOK /\ [Next]_vars => TypeOK'
  <2> SUFFICES ASSUME TypeOK, [Next]_vars PROVE TypeOK'
    OBVIOUS
  <2>1. ASSUME NEW v \in Values, push_back(v) PROVE TypeOK'
    <3>1. HeadSlot' \in Slots
      <4>1. HeadSlot \in Int
        BY CapacityAssumption DEF TypeOK, Slots
      <4> QED BY <4>1, <2>1, AdvanceInSlots DEF push_back
    <3>2. Size' \in 0 .. N
      BY <2>1, CapacityAssumption DEF TypeOK, push_back
    <3>3. Storage' \in [Slots -> Values \union {Blank}]
      BY <2>1 DEF TypeOK, push_back
    <3> QED BY <3>1, <3>2, <3>3 DEF TypeOK
  <2>2. CASE UNCHANGED vars
    BY <2>2 DEF TypeOK, vars
  <2> QED BY <2>1, <2>2 DEF Next
<1> QED BY <1>1, <1>2, PTL DEF Spec

-----------------------------------------------------------------------------
(* When the sum survives the truncation, Advance is a step in a circle of  *)
(* N slots.                                                                *)
LEMMA AdvanceBack ==
  ASSUME SumSurvives, NEW h \in Slots, NEW k \in 0 .. N
  PROVE  Advance(h, -k) = IF k <= h THEN h - k ELSE h - k + N
<1>1. N \in Nat /\ N > 0 /\ Modulus \in Nat /\ 2 * N <= Modulus
  BY CapacityAssumption, WidthAssumption DEF SumSurvives
<1>2. h \in Nat /\ h < N /\ k \in Nat /\ k <= N
  BY <1>1 DEF Slots
<1>3. h + (-k) + N \in 0 .. 2 * N - 1
  BY <1>1, <1>2
<1>4. (h + (-k) + N) % Modulus = h - k + N
  BY <1>1, <1>2, <1>3
<1>5. CASE k <= h
  <2>1. (h - k + N) % N = h - k
    BY <1>1, <1>2, <1>5
  <2> QED BY <2>1, <1>4, <1>5 DEF Advance, Clamp
<1>6. CASE ~(k <= h)
  <2>1. (h - k + N) % N = h - k + N
    BY <1>1, <1>2, <1>6
  <2> QED BY <2>1, <1>4, <1>6 DEF Advance, Clamp
<1> QED BY <1>5, <1>6

LEMMA AdvanceForward ==
  ASSUME SumSurvives, NEW h \in Slots
  PROVE  Advance(h, 1) = IF h = N - 1 THEN 0 ELSE h + 1
<1>1. N \in Nat /\ N > 0 /\ Modulus \in Nat /\ 2 * N <= Modulus
  BY CapacityAssumption, WidthAssumption DEF SumSurvives
<1>2. h \in Nat /\ h < N
  BY <1>1 DEF Slots
<1>3. CASE h = N - 1
  \* The sum is 2 N: it is kept, or truncated to 0 when 2 N = Modulus.
  <2>1. (h + 1 + N) % Modulus \in {0, 2 * N}
    BY <1>1, <1>2, <1>3
  <2>2. 0 % N = 0 /\ (2 * N) % N = 0
    BY <1>1
  <2> QED BY <2>1, <2>2, <1>3 DEF Advance, Clamp
<1>4. CASE h # N - 1
  <2>1. (h + 1 + N) % Modulus = h + 1 + N
    BY <1>1, <1>2, <1>4
  <2>2. (h + 1 + N) % N = h + 1
    BY <1>1, <1>2, <1>4
  <2> QED BY <2>1, <2>2, <1>4 DEF Advance, Clamp
<1> QED BY <1>3, <1>4

(* Walk(k + 1) is where operator++ of Iterator_t leads from Walk(k), so    *)
(* the sequence Iterated is what a range-for over the buffer reads         *)
(* (Ringbuffer.hpp:48 and 78).                                             *)
THEOREM WalkIsIteration ==
  ASSUME SumSurvives, NEW h \in Slots, NEW k \in 1 .. N - 1
  PROVE  Advance(Advance(h, -k), -1) = Advance(h, -(k + 1))
<1>1. N \in Nat /\ N > 0
  BY CapacityAssumption
<1>2. /\ Advance(h, -k) = IF k <= h THEN h - k ELSE h - k + N
      /\ Advance(h, -(k + 1)) = IF k + 1 <= h THEN h - (k + 1) ELSE h - (k + 1) + N
  BY <1>1, AdvanceBack
<1>3. Advance(h, -k) \in Slots
  BY <1>1, AdvanceInSlots DEF Slots
<1>4. Advance(Advance(h, -k), -1) = IF 1 <= Advance(h, -k) THEN Advance(h, -k) - 1
                                                            ELSE Advance(h, -k) - 1 + N
  BY <1>1, <1>3, AdvanceBack
<1> QED BY <1>1, <1>2, <1>4 DEF Slots

-----------------------------------------------------------------------------
LEMMA IteratedLength ==
  ASSUME TypeOK
  PROVE  Len(Iterated) = Size
  BY CapacityAssumption DEF TypeOK, Iterated

(* Inserting into the circle inserts at the front of the log it stands     *)
(* for: the new value is read first, every other value moves one place     *)
(* further and the slot just overwritten held the value that is forgotten. *)
LEMMA PushInserts ==
  ASSUME SumSurvives, TypeOK, NEW v \in Values, push_back(v)
  PROVE  Recent!Insert(v)
<1>1. N \in Nat /\ N > 0 /\ HeadSlot \in Slots /\ Size \in 0 .. N
  BY CapacityAssumption DEF TypeOK
<1>2. Size' = IF Size < N THEN Size + 1 ELSE N
  BY <1>1 DEF push_back
<1>3. HeadSlot' = (IF HeadSlot = N - 1 THEN 0 ELSE HeadSlot + 1) /\ HeadSlot' \in Slots
  BY <1>1, AdvanceForward DEF push_back, Slots
<1>4. ASSUME NEW k \in 1 .. Size'
      PROVE  Walk(k)' = IF k = 1 THEN v ELSE Iterated[k - 1]
  <2>1. k \in 1 .. N
    BY <1>1, <1>2
  <2>2. Walk(k)' = Storage'[Advance(HeadSlot', -k)]
    BY DEF Walk
  <2>3. Advance(HeadSlot', -k) = IF k <= HeadSlot' THEN HeadSlot' - k ELSE HeadSlot' - k + N
    BY <1>1, <1>3, <2>1, AdvanceBack
  <2>4. CASE k = 1
    <3>1. Advance(HeadSlot', -k) = HeadSlot
      BY <1>1, <1>3, <2>3, <2>4 DEF Slots
    <3> QED BY <3>1, <2>2, <2>4, <1>1 DEF push_back, TypeOK
  <2>5. CASE k # 1
    <3>1. k - 1 \in 1 .. N - 1 /\ k - 1 \in 0 .. N /\ k - 1 \in 1 .. Size
      BY <1>1, <1>2, <2>1, <2>5
    <3>2. Advance(HeadSlot, -(k - 1)) = IF k - 1 <= HeadSlot THEN HeadSlot - (k - 1)
                                                              ELSE HeadSlot - (k - 1) + N
      BY <1>1, <3>1, AdvanceBack
    <3>3. Advance(HeadSlot', -k) = Advance(HeadSlot, -(k - 1))
      BY <1>1, <1>3, <2>3, <3>1, <3>2 DEF Slots
    <3>4. Advance(HeadSlot, -(k - 1)) # HeadSlot /\ Advance(HeadSlot, -(k - 1)) \in Slots
      BY <1>1, <3>1, <3>2 DEF Slots
    <3>5. Storage'[Advance(HeadSlot, -(k - 1))] = Storage[Advance(HeadSlot, -(k - 1))]
      BY <3>4 DEF push_back, TypeOK
    <3>6. Iterated[k - 1] = Walk(k - 1)
      BY <3>1 DEF Iterated
    <3> QED BY <2>2, <2>5, <3>3, <3>5, <3>6 DEF Walk
  <2> QED BY <2>4, <2>5
<1>5. Iterated' = [k \in 1 .. Size' |-> IF k = 1 THEN v ELSE Iterated[k - 1]]
  BY <1>4 DEF Iterated
<1> QED BY <1>2, <1>5, IteratedLength DEF Recent!Insert

(* Iterating the buffer reads the last N inserted values, newest first,    *)
(* for every capacity whose sums survive the index type: the ring buffer   *)
(* implements Recentlog (Ringbuffer.hpp:6 "overwrites the last element as  *)
(* needed").                                                               *)
THEOREM RingbufferKeepsTheLastN ==
  ASSUME SumSurvives
  PROVE  Spec => KeepsTheLastN
<1>1. Init => Recent!Init
  BY DEF Init, Recent!Init, Iterated
<1>2. TypeOK /\ [Next]_vars => [Recent!Next]_Iterated
  <2> SUFFICES ASSUME TypeOK, [Next]_vars PROVE [Recent!Next]_Iterated
    OBVIOUS
  <2>1. ASSUME NEW v \in Values, push_back(v) PROVE Recent!Next
    BY <2>1, PushInserts DEF Recent!Next
  <2>2. CASE UNCHANGED vars
    BY <2>2 DEF vars, Iterated, Walk
  <2> QED BY <2>1, <2>2 DEF Next
<1> QED BY <1>1, <1>2, TypeCorrect, PTL DEF Spec, KeepsTheLastN, Recent!Spec
=============================================================================
