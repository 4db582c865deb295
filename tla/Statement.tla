----------------------------- MODULE Statement -----------------------------
(***************************************************************************)
(* Statement_t in Utilities/Wrappers/Databasewrapper.hpp: a prepared       *)
(* statement that gets its arguments with <<, is evaluated with >> or      *)
(* Execute, and else by its destructor. It may be used again.              *)
(*                                                                         *)
(* SQLite (external) counts in RUN what a first sqlite3_step starts, and   *)
(* starts over when stepped after the end. Callers give all arguments in   *)
(* every use and none twice; the assertions that Argcount == Index are     *)
(* not in a release build, which goes on. Reset rewinds what every use has *)
(* rewound, and is left out.                                               *)
(***************************************************************************)
EXTENDS Integers, Sequences

CONSTANTS MaxArgs, MaxUses  (* Bounds: '?' in the query; uses.              *)

StatementAssumption == MaxArgs \in Nat /\ MaxUses \in Nat \ {0}

VARIABLES
  alive, Argcount, Index,
  bindings,     (* For each '?', the use whose argument it has, or Unbound. *)
  RUN,
  use, given,   (* The caller: its current use, and arguments it gave.      *)
  interrupted,  (* History: did a function return FALSE?                    *)
  evaluations   (* History: [use, bindings, by].                            *)

vars == <<alive, Argcount, Index, bindings, RUN, use, given, interrupted, evaluations>>

Unbound == 0

Init ==
  /\ alive = TRUE
  /\ Argcount \in 0 .. MaxArgs /\ Index = 0
  /\ bindings = [i \in 1 .. Argcount |-> Unbound] /\ RUN = 0
  /\ use = 1 /\ given = 0 /\ interrupted = FALSE
  /\ evaluations = << >>

(* A first argument clears the others. One too many is refused by SQLite.  *)
Bind ==
  /\ alive /\ given < Argcount
  /\ given' = given + 1
  /\ Index' = Index + 1
  /\ LET Cleared == IF Index = 0 THEN [i \in DOMAIN bindings |-> Unbound] ELSE bindings IN
       bindings' = [i \in DOMAIN bindings |-> IF i = Index' THEN use ELSE Cleared[i]]
  /\ UNCHANGED <<alive, Argcount, RUN, use, interrupted, evaluations>>

Run(by) == [use |-> use, bindings |-> bindings, by |-> by]
Evaluate(runs) == RUN' = RUN + Len(runs) /\ evaluations' = evaluations \o runs

EndUse(runs) ==
  /\ alive /\ given = Argcount /\ use <= MaxUses
  /\ Evaluate(runs)
  /\ use' = use + 1 /\ given' = 0
  /\ UNCHANGED <<alive, Argcount, bindings>>

(* >> a vector or a function, Execute: the index starts over...            *)
Extractmultiple == EndUse(<<Run("caller")>>) /\ Index' = 0 /\ UNCHANGED interrupted

(* ...unless the function returned FALSE at some row.                      *)
Interrupt == EndUse(<<Run("caller")>>) /\ interrupted' = TRUE /\ UNCHANGED Index

(* >> a value or a tuple steps twice, to "verify that there's indeed only  *)
(* one row". After a query without rows the second step starts it again.   *)
Extractsingle ==
  /\ EndUse(<<Run("caller")>>) \/ EndUse(<<Run("caller"), Run("again")>>)
  /\ Index' = 0 /\ UNCHANGED interrupted

Destroy_Always ==
  /\ alive /\ alive' = FALSE
  /\ IF Argcount = Index THEN Evaluate(<<Run("destructor")>>) /\ Index' = 0
     ELSE UNCHANGED <<RUN, evaluations, Index>>
  /\ UNCHANGED <<Argcount, bindings, use, given, interrupted>>
Destroy ==
  /\ alive /\ alive' = FALSE
  /\ IF RUN = 0 /\ Argcount = Index THEN Evaluate(<<Run("destructor")>>) /\ Index' = 0
     ELSE UNCHANGED <<RUN, evaluations, Index>>
  /\ UNCHANGED <<Argcount, bindings, use, given, interrupted>>

Next == Bind \/ Extractmultiple \/ Interrupt \/ Extractsingle \/ Destroy

Spec == Init /\ [][Next]_vars

-----------------------------------------------------------------------------
(* "If an output is not provided, the query will be executed when the      *)
(* object goes out of scope" (Databasewrapper.hpp:8-13): a statement that  *)
(* is used without output runs its query once, if it has all arguments,    *)
(* and one that is used with output runs it in every use, by the caller.   *)
(* It runs it once in a use, with one exception: >> a single value or      *)
(* tuple runs a query that has no row twice (lines 223-227). Every run is  *)
(* of the arguments of its own use. Not claimed of a later use without     *)
(* output, which is never evaluated, nor of arguments after an interrupted *)
(* use: new ones are refused and the old ones used.                        *)
RunsOnce ==
  /\ ~alive /\ use = 1 => Len(evaluations) = (IF given = Argcount THEN 1 ELSE 0)
  /\ \A u \in 1 .. use - 1 : \E i \in DOMAIN evaluations : evaluations[i].use = u
  /\ \A i, j \in DOMAIN evaluations :
       i < j /\ evaluations[i].use = evaluations[j].use =>
         evaluations[i].by = "caller" /\ evaluations[j].by = "again"
  /\ ~interrupted => \A i \in DOMAIN evaluations :
       \A k \in DOMAIN bindings : evaluations[i].bindings[k] = evaluations[i].use
  /\ \A i \in DOMAIN evaluations : evaluations[i].by = "destructor" => evaluations[i].use = 1
=============================================================================
