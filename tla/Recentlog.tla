----------------------------- MODULE Recentlog -----------------------------
(***************************************************************************)
(* What a user of Ringbuffer_t is promised: a log that remembers the last  *)
(* N inserted values, read from the newest to the oldest.                  *)
(***************************************************************************)
EXTENDS Naturals, Sequences

CONSTANTS
  N,        (* Capacity. *)
  Values    (* What can be stored. *)

VARIABLE log  \* log[1] is the newest value.

Init == log = << >>

(* A new value goes in front, the value at position N (if any) is forgotten. *)
Insert(v) ==
  log' = [i \in 1 .. (IF Len(log) < N THEN Len(log) + 1 ELSE N) |->
            IF i = 1 THEN v ELSE log[i - 1]]

Next == \E v \in Values : Insert(v)

Spec == Init /\ [][Next]_log
=============================================================================
