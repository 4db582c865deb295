------------------------------- MODULE Base58 -------------------------------
(***************************************************************************)
(* Utilities/Encoding/Base58.hpp as Synchronization.cpp uses it: a public  *)
(* key is stored as text, and decoded for the handlers from an array that  *)
(* is as long as the longest text. Characters are their digits, and the    *)
(* NUL that fills the array is 255, as in Reversetable.                    *)
(***************************************************************************)
EXTENDS Integers, Sequences, SequencesExt

CONSTANTS
  Keysize,      (* 32: the bytes of a key.                                  *)
  Keys          (* Some keys.                                               *)

Decodesize(n) == (n * 733 + 500) \div 1000
Encodesize(n) == (n * 137 + 50) \div 100

Base58Assumption ==
  /\ Keysize \in Nat \ {0} /\ Keys \subseteq [1 .. Keysize -> 0 .. 255]
  /\ Decodesize(Encodesize(Keysize)) = Keysize

VARIABLES
  key,
  Publickey,    (* Its text in the database, << >> before there is one.     *)
  PK            (* What the handlers get, << >> before they do.             *)

vars == <<key, Publickey, PK>>

NUL == 255

(* A number is the sequence of its digits, lowest first.                   *)
Digits(number, base) ==
  LET Local[n \in 0 .. number] == IF n = 0 THEN << >> ELSE <<n % base>> \o Local[n \div base] IN
  Local[number]

(* number * from + item, in base to: each digit takes the carry of those   *)
(* below it, and what remains becomes new digits.                          *)
Carries(number, from, to, item) ==
  LET Local[c \in 0 .. Len(number)] ==
        IF c = 0 THEN item ELSE (Local[c - 1] + number[c] * from) \div to IN
  Local

Shift(number, from, to, item) ==
  LET Local == Carries(number, from, to, item) IN
  [c \in 1 .. Len(number) |-> (Local[c - 1] + number[c] * from) % to] \o Digits(Local[Len(number)], to)

Convert(items, from, to) ==
  LET Buffer[n \in 0 .. Len(items)] ==
        IF n = 0 THEN <<0>> ELSE Shift(Buffer[n - 1], from, to, items[n]) IN
  Buffer[Len(items)]

Leading(items, item) == CHOOSE n \in 0 .. Len(items) :
  (n = Len(items) \/ items[n + 1] # item) /\ \A i \in 1 .. n : items[i] = item

(* Leading zeros write a '1', 49, over the digits that are worked on, and  *)
(* leave a NUL in the result. The NULs at its end are cut off.             *)
Encode_LowestFirst(Input) == Convert(Input, 256, 58)
Encode(Input) ==
  LET zeros  == Leading(Input, 0)
      Buffer == Convert(Input, 256, 58) IN
  [i \in 1 .. zeros |-> NUL] \o Reverse([c \in DOMAIN Buffer |-> IF c <= zeros THEN 49 ELSE Buffer[c]])

Fixedsize(text) == [i \in 1 .. Encodesize(Keysize) |-> IF i \in DOMAIN text THEN text[i] ELSE NUL]

(* Zeros for the leading '1's, then the first bytes of a longer buffer.    *)
Decode(Input) ==
  LET Bytes == Reverse(Convert(Input, 58, 256) \o [i \in 1 .. Leading(Input, 0) |-> 0]) IN
  [i \in 1 .. Decodesize(Len(Input)) |-> IF i \in DOMAIN Bytes THEN Bytes[i] ELSE 0]

Init == key \in Keys /\ Publickey = << >> /\ PK = << >>

Storemessage ==
  /\ Publickey = << >>
  /\ Publickey' = Encode(key)
  /\ UNCHANGED <<key, PK>>

Poll ==
  /\ Publickey # << >> /\ PK = << >>
  /\ PK' = Decode(Fixedsize(Publickey))
  /\ UNCHANGED <<key, Publickey>>

Next == Storemessage \/ Poll

Spec == Init /\ [][Next]_vars

-----------------------------------------------------------------------------
(* The handlers get the key a message was signed with, if its text is of   *)
(* full length and the key has no leading zero (Synchronization.cpp:37 and *)
(* 80-89).                                                                 *)
KeySurvives ==
  PK # << >> /\ Len(Publickey) = Encodesize(Keysize) /\ key[1] # 0 => PK = key

(* What the unit test says of "12345", decoding undoes encoding            *)
(* (Unittests.cpp:157), said of every key without a leading zero.          *)
EveryKeySurvives == PK # << >> /\ key[1] # 0 => PK = key
=============================================================================
