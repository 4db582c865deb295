------------------------------- MODULE Base85 -------------------------------
(***************************************************************************)
(* Utilities/Encoding/Base85.hpp, in which Storemessage stores payloads:   *)
(* four bytes become five digits; of a shorter rest, one digit more than   *)
(* it has bytes. A decoder that lacks digits takes a 'u' for each, whose   *)
(* code is no digit of the base. Characters are their digits; blocks are   *)
(* numbers, the first byte or digit highest, as toBig and fromBig have it. *)
(*                                                                         *)
(* Poll decodes what Storemessage stored, but only for itself: it hands    *)
(* the column on to the handlers as it is.                                 *)
(***************************************************************************)
EXTENDS Integers, Sequences

CONSTANTS
  Base, Radix,  (* 256 and 85 in the code;...                               *)
  Pad,          (* ...117, a 'u'.                                           *)
  Payloads

(* Highest first, as Pow85.                                                *)
Pow(b) == <<b * b * b * b, b * b * b, b * b, b, 1>>

(* What makes a rest come out right, where n digits are missing.           *)
Base85Assumption ==
  /\ {Base, Radix, Pad} \subseteq Nat \ {0, 1} /\ Payloads \subseteq Seq(0 .. Base - 1)
  /\ Pow(Base)[1] <= Radix * Pow(Radix)[1]
  /\ Radix - 1 <= Pad
  /\ \A n \in 1 .. 3 : Pad * (Pow(Radix)[5 - n] - 1) < (Radix - 1) * Pow(Base)[5 - n]

VARIABLES
  payload,      (* What is to be stored;...                                 *)
  Data,         (* ...its text, a column of the database;...                *)
  Payload,      (* ...that decoded again, a local of Poll;...               *)
  handed        (* ...and what Poll gives the handlers. << >> before.       *)

vars == <<payload, Data, Payload, handed>>

Encodesize(n) == (n * 5) \div 4 + (IF ((n * 5) \div 4) % 5 = 0 THEN 0 ELSE 1)
Decodesize(n) == (n * 4) \div 5

(* Element i, and what stands for those behind the end.                    *)
Item(items, i, filler) == IF i \in DOMAIN items THEN items[i] ELSE filler

(* The number of the four bytes, or five digits, behind the i-th.          *)
Bytes(items, i) ==
  Item(items, i + 1, 0) * Pow(Base)[2] + Item(items, i + 2, 0) * Pow(Base)[3]
    + Item(items, i + 3, 0) * Base + Item(items, i + 4, 0)
Decodeblock(items, i) ==
  Item(items, i + 1, Pad) * Pow(Radix)[1] + Item(items, i + 2, Pad) * Pow(Radix)[2]
    + Item(items, i + 3, Pad) * Pow(Radix)[3] + Item(items, i + 4, Pad) * Radix + Item(items, i + 5, Pad)

(* Digit k of 1 .. 5, byte k of 1 .. 4.                                    *)
Encodeblock(number, k) == (number \div Pow(Radix)[k]) % Radix
Byte(number, k) == (number \div Pow(Base)[k + 1]) % Base

(* Results are filled in order; element p is in block (p - 1) \div 5 or 4. *)
Encode_Rounded(bytes) ==
  [p \in 1 .. (Len(bytes) * 5) \div 4 |->
     Encodeblock(Bytes(bytes, 4 * ((p - 1) \div 5)), ((p - 1) % 5) + 1)]
Encode(bytes) ==
  [p \in 1 .. Encodesize(Len(bytes)) |->
     Encodeblock(Bytes(bytes, 4 * ((p - 1) \div 5)), ((p - 1) % 5) + 1)]

(* The result replaces the text, of which no block is written before it is *)
(* read. Behind the blocks, a rest is copied as if it went on to the end   *)
(* of the text: behind its four bytes comes whatever the stack has there.  *)
(* (Reading past the stack ends the process, which is no step.)            *)
Decode_inplace(text, behind) ==
  LET Remainder == Len(text) % 5
      Count == Len(text) \div 5 IN
  [p \in 1 .. Len(text) |->
     IF p <= 4 * Count + (IF Remainder > 0 THEN 4 ELSE 0)
     THEN Byte(Decodeblock(text, 5 * ((p - 1) \div 4)), ((p - 1) % 4) + 1)
     ELSE IF Remainder > 0 THEN behind ELSE text[p]]
Decode(text, behind) == [p \in 1 .. Decodesize(Len(text)) |-> Decode_inplace(text, behind)[p]]

Init == payload \in Payloads /\ Data = << >> /\ Payload = << >> /\ handed = << >>

Storemessage ==
  /\ Data = << >> /\ Data' = Encode(payload)
  /\ UNCHANGED <<payload, Payload, handed>>

Poll ==
  /\ Data # << >>
  /\ \E behind \in 0 .. Base - 1 : Payload' = Decode(Data, behind)
  /\ handed' = Data
  /\ UNCHANGED <<payload, Data>>

Next == Storemessage \/ Poll

Spec == Init /\ [][Next]_vars

-----------------------------------------------------------------------------
(* A payload of any length is what Poll decodes for itself, and what a     *)
(* handler gets that decodes the column it is handed: although what fills  *)
(* a short rest is another item when it is decoded than when it was        *)
(* encoded, and whatever is copied from behind the last block. A handler   *)
(* that takes what it is handed for the payload has its text instead       *)
(* (Base85.hpp:83-104 and 183-206, Synchronization.cpp:47 and 84-89).      *)
PayloadSurvives ==
  /\ Payload \in {<< >>, payload}
  /\ handed # << >> => \A behind \in 0 .. Base - 1 : Decode(handed, behind) = payload
=============================================================================
