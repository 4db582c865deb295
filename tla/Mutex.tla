------------------------------- MODULE Mutex -------------------------------
(***************************************************************************)
(* What a lock promises: one owner at a time, who alone can give it up.    *)
(***************************************************************************)
CONSTANTS Threads, Nobody

VARIABLE owner

Init == owner = Nobody

Acquire(t) == owner = Nobody /\ owner' = t
Release(t) == owner = t /\ owner' = Nobody

Next == \E t \in Threads : Acquire(t) \/ Release(t)

Spec == Init /\ [][Next]_owner
=============================================================================
