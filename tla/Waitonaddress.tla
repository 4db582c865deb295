--------------------------- MODULE Waitonaddress ---------------------------
(***************************************************************************)
(* Backend/Waitonaddress.cpp: callbacks that Poll calls in every frame in  *)
(* which a watched address differs from what it is compared with. The      *)
(* spinlock Threadguard is held while they run, so they cannot register    *)
(* others. The host and the callbacks write to memory at any time.         *)
(***************************************************************************)
EXTENDS Integers, Sequences

CONSTANTS
  Threads,      (* The callers of onMemorywrite.                            *)
  Background,   (* The thread of Poll.                                      *)
  Addresses,
  Nobody

WaitAssumption == Background \notin Threads /\ Nobody \notin Threads \union {Background} \union Addresses

VARIABLES
  differs,      (* The addresses that differ from what they are compared to. *)
  Source,       (* The watched addresses, as registered.                    *)
  Threadguard,  (* Who holds the lock.                                      *)
  asking,       (* What each thread waits to register, or Nobody.           *)
  i, calling    (* Poll: the next to compare, and is its callback called?   *)

vars == <<differs, Source, Threadguard, asking, i, calling>>

Init ==
  /\ differs = {} /\ Source = << >> /\ Threadguard = Nobody
  /\ asking = [t \in Threads |-> Nobody]
  /\ i = 0 /\ calling = FALSE

Write(a) ==
  /\ differs' \in {differs \union {a}, differs \ {a}}
  /\ UNCHANGED <<Source, Threadguard, asking, i, calling>>

onMemorywrite(t, a) ==
  /\ asking[t] = Nobody /\ \A n \in DOMAIN Source : Source[n] # a
  /\ asking' = [asking EXCEPT ![t] = a]
  /\ UNCHANGED <<differs, Source, Threadguard, i, calling>>

Lock(t) ==
  /\ asking[t] # Nobody /\ Threadguard = Nobody
  /\ Threadguard' = t
  /\ UNCHANGED <<differs, Source, asking, i, calling>>

Register(t) ==
  /\ Threadguard = t
  /\ Source' = Append(Source, asking[t])
  /\ asking' = [asking EXCEPT ![t] = Nobody]
  /\ Threadguard' = Nobody
  /\ UNCHANGED <<differs, i, calling>>

StartPoll ==
  /\ Threadguard = Nobody
  /\ Threadguard' = Background /\ i' = 1
  /\ UNCHANGED <<differs, Source, asking, calling>>

Polling == Threadguard = Background

Compare ==
  /\ Polling /\ ~calling /\ i <= Len(Source)
  /\ calling' = (Source[i] \in differs)
  /\ i' = IF calling' THEN i ELSE i + 1
  /\ UNCHANGED <<differs, Source, Threadguard, asking>>

CallbackReturns_First ==
  /\ Polling /\ calling
  /\ calling' = FALSE /\ i' = Len(Source) + 1
  /\ UNCHANGED <<differs, Source, Threadguard, asking>>
CallbackReturns ==
  /\ Polling /\ calling
  /\ calling' = FALSE /\ i' = i + 1
  /\ UNCHANGED <<differs, Source, Threadguard, asking>>

EndPoll ==
  /\ Polling /\ ~calling /\ i > Len(Source)
  /\ Threadguard' = Nobody /\ i' = 0
  /\ UNCHANGED <<differs, Source, asking, calling>>

Poll == Compare \/ CallbackReturns \/ EndPoll

Next ==
  \/ \E a \in Addresses : Write(a) \/ \E t \in Threads : onMemorywrite(t, a)
  \/ \E t \in Threads : Lock(t) \/ Register(t)
  \/ StartPoll \/ Poll

Spec == Init /\ [][Next]_vars

-----------------------------------------------------------------------------
(* An address that was given to onMemorywrite and goes on to differ has    *)
(* its callback called again and again, whatever the other addresses do    *)
(* and whoever registers more (Waitonaddress.cpp:18-47). One that differs  *)
(* only for a moment may be missed.                                        *)
Asked(a) == (\E t \in Threads : asking[t] = a) \/ \E n \in DOMAIN Source : Source[n] = a
WriteNoticed ==
  \A a \in Addresses :
    <>[](Asked(a) /\ a \in differs) => []<>(calling /\ Source[i] = a)
=============================================================================
