----------------------------- MODULE Ringbuffer -----------------------------
(***************************************************************************)
(* Utilities/Containers/Ringbuffer.hpp: a fixed array written in a circle. *)
(* The console log, the JSON responses and the unit test are instances of  *)
(* it. Indexes are of the smallest unsigned type that holds the capacity,  *)
(* so the arithmetic of Advance wraps at Modulus = 2^width.                *)
(***************************************************************************)
EXTENDS Integers

CONSTANTS
  N,        (* Capacity, the template argument.                            *)
  Modulus,  (* 2^width of size_type = minInt_t<N>.                         *)
  Values,   (* The values users insert.                                    *)
  Blank     (* The value-initialised T that fills the array at first.      *)

ASSUME CapacityAssumption == N \in Nat \ {0}

(* minInt_t<N> can hold N itself. *)
ASSUME WidthAssumption == Modulus \in Nat /\ N < Modulus

(* The sum Index + Offset + N, at most 2 N, survives the truncation to     *)
(* size_type (2 N itself may wrap to 0, the slot it stands for). Every     *)
(* capacity the program uses (128, 16 and 3, in 8 bits) satisfies it; the  *)
(* template does not demand it: 129 to 255 in 8 bits do not.               *)
SumSurvives == 2 * N <= Modulus

VARIABLES
  HeadSlot, (* Head in the code: the slot the next value goes to. *)
  Size,     (* How many slots hold a value.                       *)
  Storage   (* The array.                                         *)

vars == <<HeadSlot, Size, Storage>>

Slots == 0 .. N - 1

Clamp(Value) == Value % N

(* The sum is computed in size_t, truncated to size_type, then clamped. *)
Advance_Unbiased(Index, Offset) == Clamp((Index + Offset) % Modulus)
Advance(Index, Offset) == Clamp((Index + Offset + N) % Modulus)

front == Storage[Advance(HeadSlot, -1)]
back  == Storage[HeadSlot]

(* Iterator_t: begin() is the slot before HeadSlot, ++ goes one slot back and  *)
(* Count says how many are left, so the k-th value read is k slots back.   *)
Walk(k) == Storage[Advance(HeadSlot, -k)]
Iterated == [k \in 1 .. Size |-> Walk(k)]

Init ==
  /\ HeadSlot = 0
  /\ Size = 0
  /\ Storage = [i \in Slots |-> Blank]

(* push_back and emplace_back differ only in where the value is built. *)
push_back_NoLimit(Value) ==
  /\ Storage' = [Storage EXCEPT ![HeadSlot] = Value]
  /\ Size' = Size + 1
  /\ HeadSlot' = Advance(HeadSlot, 1)
push_back(Value) ==
  /\ Storage' = [Storage EXCEPT ![HeadSlot] = Value]
  /\ Size' = IF Size # N THEN Size + 1 ELSE Size
  /\ HeadSlot' = Advance(HeadSlot, 1)

Next == \E Value \in Values : push_back(Value)

Spec == Init /\ [][Next]_vars

-----------------------------------------------------------------------------
(* Every variable stays in its range; HeadSlot never leaves the array and Size *)
(* never passes the capacity (Ringbuffer.hpp:81-97).                       *)
TypeOK ==
  /\ HeadSlot \in Slots
  /\ Size \in 0 .. N
  /\ Storage \in [Slots -> Values \union {Blank}]

(* Iterating a Ringbuffer_t reads the last N inserted values, newest       *)
(* first: no slot is skipped, read twice or read before it was written,    *)
(* across the wrap of HeadSlot and at the moment the buffer becomes full.      *)
Recent == INSTANCE Recentlog WITH log <- Iterated
KeepsTheLastN == Recent!Spec
=============================================================================
