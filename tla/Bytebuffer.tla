----------------------------- MODULE Bytebuffer -----------------------------
(***************************************************************************)
(* Typed IO of Utilities/Containers/Bytebuffer.hpp: values are written one *)
(* after the other, prefixed with the ID of their type, and read again     *)
(* from the start; an optional without a value is written as one BB_NONE,  *)
(* which reads as the default of any type. One cell stands for a byte, and *)
(* for an integer of any size. The buffer owns its memory.                 *)
(*                                                                         *)
(* An array is one of integers. An array of strings can be written, and is *)
(* one of the types of to_string, but not read: lines 336-337 would copy   *)
(* bytes over std::string objects. It is left out.                         *)
(***************************************************************************)
EXTENDS Integers, Sequences, SequencesExt

CONSTANTS
  Items,        (* The bytes of blobs and strings (no 0), and integers.     *)
  MaxLength,    (* Bound: of strings, blobs and arrays.                     *)
  MaxValues,    (* Bound: values that are written.                          *)
  Sizes         (* How large buffers are at the start.                      *)

BytebufferAssumption ==
  Items \subseteq Nat \ {0} /\ MaxLength \in Nat /\ MaxValues \in Nat /\ Sizes \subseteq Nat

BB_NONE == 0
BB_BLOB == 1
BB_ASCIISTRING == 2
BB_UINT32 == 11
BB_ARRAY == 100

(* toID of a type, what may be written of it, and how an absent optional   *)
(* is read. Values are sequences, also that of an integer.                 *)
toID == [blob |-> BB_BLOB, string |-> BB_ASCIISTRING, integer |-> BB_UINT32, array |-> BB_ARRAY + BB_UINT32]
Types == DOMAIN toID
Numbers == Items \union {0}
Values ==
  [blob |-> BoundedSeq(Items, MaxLength), string |-> BoundedSeq(Items, MaxLength),
   integer |-> {<<n>> : n \in Numbers}, array |-> BoundedSeq(Numbers, MaxLength)]
Default(Type) == IF Type = "integer" THEN <<0>> ELSE << >>
Absent == <<-1>>

VARIABLES
  Internalbuffer, Internaliterator,
  written,      (* History: [type, value]; an absent optional has no value. *)
  results,      (* History: [type, value] of the reads that moved on,...    *)
  reading,      (* ...since the buffer was rewound.                         *)
  aborted       (* An assertion failed.                                     *)

vars == <<Internalbuffer, Internaliterator, written, results, reading, aborted>>

Init ==
  /\ Internalbuffer \in {[i \in 1 .. n |-> 0] : n \in Sizes} /\ Internaliterator = 0
  /\ written = << >> /\ results = << >> /\ reading = FALSE /\ aborted = FALSE

(* The size of a blob has a prefix of its own, the count of an array none. *)
Header(Type, n) == [integer |-> << >>, string |-> << >>, blob |-> <<BB_UINT32, n>>, array |-> <<BB_UINT32, n, n>>][Type]
Terminator(Type) == IF Type = "string" THEN <<0>> ELSE << >>
Cells(Type, Value) ==
  IF Value = Absent THEN <<BB_NONE>>
  ELSE <<toID[Type]>> \o Header(Type, Len(Value)) \o Value \o Terminator(Type)

(* rawWrite overwrites what is there, and grows the buffer if it must.     *)
rawWrite(cells) ==
  LET end == Internaliterator + Len(cells) IN
  /\ Internalbuffer' = SubSeq(Internalbuffer, 1, Internaliterator) \o cells \o
                       SubSeq(Internalbuffer, end + 1, Len(Internalbuffer))
  /\ Internaliterator' = end

Write(Type, Value) ==
  /\ ~reading /\ Len(written) < MaxValues
  /\ rawWrite(Cells(Type, Value))
  /\ written' = Append(written, [type |-> Type, value |-> Value])
  /\ UNCHANGED <<results, reading, aborted>>

Rewind ==
  /\ ~reading /\ reading' = TRUE
  /\ Internaliterator' = 0
  /\ UNCHANGED <<Internalbuffer, written, results, aborted>>

-----------------------------------------------------------------------------
(* Reading: the cell that is n behind the iterator, and many from there.   *)
Cell(n) == Internalbuffer[Internaliterator + 1 + n]
Many(n, count) == SubSeq(Internalbuffer, Internaliterator + 1 + n, Internaliterator + n + count)
Peek == IF Internaliterator < Len(Internalbuffer) THEN Cell(0) ELSE BB_NONE
Strlen == (CHOOSE n \in 1 .. Len(Internalbuffer) : Cell(n) = 0 /\ \A k \in 1 .. n - 1 : Cell(k) # 0) - 1

Advance(n) == Internaliterator' = Internaliterator + n
Result(Type, Value) == results' = Append(results, [type |-> Type, value |-> Value])

ReadNone(Type) ==
  /\ reading /\ Peek = BB_NONE /\ Internaliterator < Len(Internalbuffer)
  /\ Advance(1) /\ Result(Type, Default(Type))
  /\ UNCHANGED <<Internalbuffer, written, reading, aborted>>

(* Another type, or the end: nothing is read, and the iterator stays.      *)
ReadOther_Prefix(Type) ==
  /\ reading /\ Peek \notin {BB_NONE, toID[Type]}
  /\ Advance(1)
  /\ UNCHANGED <<Internalbuffer, written, results, reading, aborted>>
ReadOther(Type) ==
  /\ reading
  /\ \/ Peek \notin {BB_NONE, toID[Type]}
     \/ Internaliterator >= Len(Internalbuffer)
  /\ UNCHANGED vars

(* A string ends at the first 0, which is skipped. An array without        *)
(* elements reads as failed, but leaves the default. This is all of it in  *)
(* a release build.                                                        *)
ReadValue(Type) ==
  /\ reading /\ Peek = toID[Type]
  /\ LET start == 1 + Len(Header(Type, 0))
         count == IF Type = "integer" THEN 1 ELSE IF Type = "string" THEN Strlen ELSE Cell(start - 1) IN
       /\ Result(Type, Many(start, count))
       /\ Advance(start + count + Len(Terminator(Type)))
  /\ UNCHANGED <<Internalbuffer, written, reading, aborted>>

(* A build with assertions ends the process at a string that is empty or   *)
(* does not start with a letter or a digit.                                *)
isalnum == (48 .. 57) \union (65 .. 90) \union (97 .. 122)
ReadAssert ==
  /\ reading /\ Peek = toID["string"] /\ Cell(1) \notin isalnum
  /\ aborted' = TRUE
  /\ UNCHANGED <<Internalbuffer, Internaliterator, written, results, reading>>

Read(Type) == ReadNone(Type) \/ ReadOther(Type) \/ ReadValue(Type)

Next ==
  /\ ~aborted
  /\ \/ \E Type \in Types : \/ \E Value \in Values[Type] \union {Absent} : Write(Type, Value)
                            \/ Read(Type)
     \/ Rewind \/ ReadAssert

Spec == Init /\ [][Next]_vars

-----------------------------------------------------------------------------
(* Whatever a reader tries in between, the n-th read that moves on gives   *)
(* the n-th value, of its own type, or the default if it was absent: no    *)
(* length is off by one, no content is taken for a prefix. Behind the last *)
(* there is at most what the buffer had at the start. This is said of      *)
(* blobs, strings, integers and arrays of integers; a build with           *)
(* assertions reads no string that is empty or starts with another         *)
(* character than a letter or a digit, but ends (Bytebuffer.hpp:203-438).  *)
ReadsBack ==
  \A n \in DOMAIN results :
    IF n <= Len(written) /\ written[n].value # Absent THEN results[n] = written[n]
    ELSE results[n].value = Default(results[n].type)
=============================================================================
