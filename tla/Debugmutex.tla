----------------------------- MODULE Debugmutex -----------------------------
(***************************************************************************)
(* Utilities/Threading/Debugmutex.hpp: a timed mutex that knows its owner  *)
(* and ends the process (Break) on a recursive lock, on an unlock by       *)
(* another thread and after ten seconds of waiting. Currentowner is read   *)
(* and written without the mutex held: by lock before it waits, by unlock  *)
(* while others wait. Reads and writes of a thread's id are whole.         *)
(*                                                                         *)
(* Threads use it as std::scoped_lock does, but the code under the lock    *)
(* may lock again, or never end.                                           *)
(***************************************************************************)
CONSTANTS Threads, Nobody

NobodyAssumption == Nobody \notin Threads

VARIABLES
  Currentowner,
  Mutex_,       (* Who has the std::timed_mutex.                            *)
  pc,           (* Each thread's next step.                                 *)
  broken        (* Why the process ended; "" while it runs.                 *)

vars == <<Currentowner, Mutex_, pc, broken>>

Init ==
  /\ Currentowner = Nobody /\ Mutex_ = Nobody
  /\ pc = [t \in Threads |-> "out"]
  /\ broken = ""

Running == broken = ""
Goto(t, there) == pc' = [pc EXCEPT ![t] = there]

(* A thread outside, or the code under the lock of this same thread.       *)
Call(t) ==
  /\ Running /\ pc[t] \in {"out", "in"}
  /\ Goto(t, IF pc[t] = "in" THEN "recheck" ELSE "check")
  /\ UNCHANGED <<Currentowner, Mutex_, broken>>

Break(why) == broken' = why /\ UNCHANGED <<Currentowner, Mutex_, pc>>

(* lock. *)
Check(t) ==
  /\ Running /\ pc[t] \in {"check", "recheck"}
  /\ IF Currentowner = t THEN Break("recursive")
     ELSE Goto(t, "wait") /\ UNCHANGED <<Currentowner, Mutex_, broken>>

TryLock(t) ==
  /\ Running /\ pc[t] = "wait" /\ Mutex_ = Nobody
  /\ Mutex_' = t
  /\ Goto(t, "own")
  /\ UNCHANGED <<Currentowner, broken>>

Timeout_Again(t) ==
  /\ Running /\ pc[t] = "wait" /\ Mutex_ # Nobody
  /\ Goto(t, "check")
  /\ UNCHANGED <<Currentowner, Mutex_, broken>>
Timeout(t) ==
  /\ Running /\ pc[t] = "wait" /\ Mutex_ # Nobody
  /\ Break("timeout")

Own(t) ==
  /\ Running /\ pc[t] = "own"
  /\ Currentowner' = t
  /\ Goto(t, "in")
  /\ UNCHANGED <<Mutex_, broken>>

(* unlock. *)
Unlock(t) ==
  /\ Running /\ pc[t] = "in"
  /\ IF Currentowner # t THEN Break("foreign")
     ELSE Goto(t, "clear") /\ UNCHANGED <<Currentowner, Mutex_, broken>>

Release_MutexFirst(t) ==
  /\ Running
  /\ \/ pc[t] = "clear" /\ Mutex_' = Nobody /\ Goto(t, "release") /\ UNCHANGED Currentowner
     \/ pc[t] = "release" /\ Currentowner' = Nobody /\ Goto(t, "out") /\ UNCHANGED Mutex_
  /\ UNCHANGED broken
Release(t) ==
  /\ Running
  /\ \/ pc[t] = "clear" /\ Currentowner' = Nobody /\ Goto(t, "release") /\ UNCHANGED Mutex_
     \/ pc[t] = "release" /\ Mutex_' = Nobody /\ Goto(t, "out") /\ UNCHANGED Currentowner
  /\ UNCHANGED broken

Next == \E t \in Threads : Call(t) \/ Check(t) \/ TryLock(t) \/ Timeout(t) \/ Own(t) \/ Unlock(t) \/ Release(t)

Spec == Init /\ [][Next]_vars

(* Threads go on where the code is ours, and ten seconds pass; the code    *)
(* under the lock need not end.                                            *)
Progress(t) == Check(t) \/ TryLock(t) \/ Timeout(t) \/ Own(t) \/ Release(t)

-----------------------------------------------------------------------------
(* The unguarded Currentowner is a lock of its own: no thread overwrites   *)
(* or clears another's id, and Threads that see their own id have the lock *)
(* (Debugmutex.hpp:34-57).                                                 *)
Owner == INSTANCE Mutex WITH owner <- Currentowner
ImplementsMutex == Owner!Spec

(* Inside, a thread is named as the owner and has the mutex, whatever the  *)
(* others read or write in the meantime. The process ends as "recursive"   *)
(* only if a thread that has the lock asked for it again, and never        *)
(* because of an unlock by another (Debugmutex.hpp:34-57).                 *)
TrueAlarms ==
  /\ \A t \in Threads : pc[t] \in {"in", "recheck", "clear"} => Currentowner = t /\ Mutex_ = t
  /\ broken = "recursive" => \E t \in Threads : pc[t] = "recheck"
  /\ broken # "foreign"

(* A thread that asks for the lock gets it, or the process ends: also if   *)
(* the thread has it already, or the owner never gives it up               *)
(* (Debugmutex.hpp:36-46).                                                 *)
NobodyWaitsForever ==
  \A t \in Threads : pc[t] \in {"check", "recheck", "wait"} ~> pc[t] = "in" \/ ~Running
=============================================================================
