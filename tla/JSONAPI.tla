------------------------------ MODULE JSONAPI ------------------------------
(***************************************************************************)
(* Communication/JSONAPI.cpp: a plugin asks an endpoint and gets a pointer *)
(* to the response, which lives in a slot of a ring of Backlog responses.  *)
(* The ring has no lock: its emplace_back is two steps here, and a thread  *)
(* that advances the head may use the value from before its first one.     *)
(*                                                                         *)
(* A request for a name that is no endpoint returns a list of endpoints    *)
(* from outside of the ring, and is left out; so are endpoints that are    *)
(* added while there are requests.                                         *)
(***************************************************************************)
EXTENDS Integers, FiniteSets

CONSTANTS
  Threads,
  Responses,    (* What endpoints return, other than nothing and "{}".      *)
  Backlog,      (* 16: slots in the ring.                                   *)
  Empty,        (* The text of a slot that was never used.                  *)
  MaxResponses  (* Bound: responses that go into the ring.                  *)

ResponsesAssumption == Backlog \in Nat \ {0} /\ Empty \notin Responses /\ MaxResponses \in Nat

Generic == "{}"
Slots == 0 .. Backlog - 1

VARIABLES
  Results, Ringhead,
  Response,     (* Each thread's response, before it is in the ring,...     *)
  Slot,         (* ...the slot it went to, until the head is advanced.      *)
  returned,     (* History: pointers that plugins have, [slot, response,    *)
                (* number, raced].                                          *)
  stored,       (* History: responses that went into the ring.              *)
  raced         (* History: threads whose emplace_back overlapped another.  *)

vars == <<Results, Ringhead, Response, Slot, returned, stored, raced>>

None == -1

Init ==
  /\ Results = [s \in Slots |-> Empty] /\ Ringhead = 0
  /\ Response = [t \in Threads |-> Empty] /\ Slot = [t \in Threads |-> None]
  /\ returned = {} /\ stored = 0 /\ raced = {}

Storing == {t \in Threads : Slot[t] # None}

(* JSONRequest: the endpoint is called; a generic response needs no slot.  *)
JSONRequest(t, r) ==
  /\ Response[t] = Empty
  /\ Response' = IF r = Generic THEN Response ELSE [Response EXCEPT ![t] = r]
  /\ UNCHANGED <<Results, Ringhead, Slot, returned, stored, raced>>

Store(t) ==
  /\ Response[t] # Empty /\ Slot[t] = None /\ stored < MaxResponses
  /\ Results' = [Results EXCEPT ![Ringhead] = Response[t]]
  /\ Slot' = [Slot EXCEPT ![t] = Ringhead]
  /\ stored' = stored + 1
  /\ raced' = IF Storing = {} THEN raced ELSE raced \union Storing \union {t}
  /\ UNCHANGED <<Ringhead, Response, returned>>

Advance_Narrow(slot) == (slot + 1) % (IF Backlog > 1 THEN Backlog - 1 ELSE 1)
Advance(slot) == (slot + 1) % Backlog

Return(t) ==
  /\ Slot[t] # None
  /\ Ringhead' \in {Advance(Ringhead), Advance(Slot[t])}
  /\ returned' = returned \union {[slot |-> Slot[t], response |-> Response[t], number |-> stored, raced |-> t \in raced]}
  /\ Response' = [Response EXCEPT ![t] = Empty] /\ Slot' = [Slot EXCEPT ![t] = None]
  /\ raced' = raced \ {t}
  /\ UNCHANGED <<Results, stored>>

Next ==
  \E t \in Threads :
    \/ \E r \in Responses \union {Generic} : JSONRequest(t, r)
    \/ Store(t) \/ Return(t)

Spec == Init /\ [][Next]_vars

-----------------------------------------------------------------------------
(* "The result exists on the heap for N messages" (JSONAPI.cpp:15 and 62): *)
(* what a plugin got reads the same until N more responses are stored,     *)
(* however many generic ones there are; also when other threads ask, as    *)
(* long as no two responses are stored at the same time. After such a race *)
(* only those that raced are unsafe.                                       *)
ResponsesLive ==
  \A p \in returned : stored - p.number < Backlog /\ ~p.raced => Results[p.slot] = p.response
=============================================================================
