------------------------------ MODULE Database ------------------------------
(***************************************************************************)
(* Backend/Database.cpp: the change pump. SQLite calls Clientupdatehook    *)
(* for every changed row, in the thread that changes it; Poll hands what   *)
(* has gathered to the handlers of the table, in Background. Handlers may  *)
(* change rows themselves, which starts over.                              *)
(*                                                                         *)
(* A change is its number in the history of all changes. The table hash    *)
(* and the SQL are left out, and so is the row's data: what the hook keeps *)
(* of it is a view of a buffer that is gone when the hook returns (63-65). *)
(* Poll takes no lock.                                                     *)
(***************************************************************************)
EXTENDS Integers, Sequences, SequencesExt

CONSTANTS
  Tables,       (* Tables of the database.                                  *)
  Ignored,      (* Those the hook ignores: Syncpacket and Account.          *)
  Handlers,     (* Callback_t.                                              *)
  Background,   (* The thread of Poll.                                      *)
  Writers,      (* The threads that change rows.                            *)
  MaxChanges    (* Bound: changes made.                                     *)

ASSUME TablesAssumption == Ignored \subseteq Tables /\ MaxChanges \in Nat

VARIABLES
  Modifiedrows, Deletedrows,   (* The changes of each table since the last Poll. *)
  onModifiedCB,                (* The handlers of each table.               *)
  at, Modified, Deleted,       (* Poll: its next step; what its two loops   *)
  Rows,                        (* have yet to visit, and of this table.     *)
  changes,                     (* History: [table, isDeleted] of a change.  *)
  delivered,                   (* History: the changes each handler got...  *)
  missed,                      (* ...and how many there were when it was    *)
                               (* registered for the table.                 *)
  lost                         (* History: the changes lost in a race.      *)

gathered == <<Modifiedrows, Deletedrows>>
local == <<Modified, Deleted, Rows>>
vars == <<Modifiedrows, Deletedrows, onModifiedCB, at, Modified, Deleted, Rows, changes, delivered,
          missed, lost>>

Numbers == 1 .. MaxChanges

TypeOK ==
  /\ Modifiedrows \in [Tables -> Seq(Numbers)]
  /\ Deletedrows \in [Tables -> Seq(Numbers)]
  /\ onModifiedCB \in [Tables -> SUBSET Handlers]
  /\ at \in {"idle", "swap", "pump"}
  /\ Modified \in [Tables -> Seq(Numbers)]
  /\ Deleted \in [Tables -> Seq(Numbers)]
  /\ Rows \in Seq(Numbers)
  /\ changes \in Seq([table : Tables, isDeleted : BOOLEAN])
  /\ delivered \in [Handlers -> Seq(Numbers)]
  /\ missed \in [Handlers \X Tables -> 0 .. MaxChanges]
  /\ lost \subseteq Numbers

None == [t \in Tables |-> << >>]

Init ==
  /\ Modifiedrows = None /\ Deletedrows = None
  /\ onModifiedCB = [t \in Tables |-> {}]
  /\ at = "idle" /\ Modified = None /\ Deleted = None /\ Rows = << >>
  /\ changes = << >>
  /\ delivered = [h \in Handlers |-> << >>]
  /\ missed = [ht \in Handlers \X Tables |-> 0]
  /\ lost = {}

(* A change, by a thread whose statement makes SQLite call the hook, which *)
(* gathers it unless the table is ignored. Background changes rows in its  *)
(* other tasks and in the handlers that Poll calls.                        *)
Change(w, t, isDeleted) ==
  /\ Len(changes) < MaxChanges
  /\ w = Background => at # "swap"
  /\ changes' = Append(changes, [table |-> t, isDeleted |-> isDeleted])

Gather_Before(queue, t) == [queue EXCEPT ![t] = Append(@, Len(changes))]
Gather(queue, t) == [queue EXCEPT ![t] = Append(@, Len(changes) + 1)]

Clientupdatehook(w, t, isDeleted) ==
  /\ Change(w, t, isDeleted)
  /\ Deletedrows'  = IF isDeleted /\ t \notin Ignored THEN Gather(Deletedrows, t) ELSE Deletedrows
  /\ Modifiedrows' = IF ~isDeleted /\ t \notin Ignored THEN Gather(Modifiedrows, t) ELSE Modifiedrows
  /\ UNCHANGED <<onModifiedCB, at, local, delivered, missed, lost>>

(* Another thread's hook and Poll's swap race for the same containers, and *)
(* the change may get lost. (That the race may also corrupt the containers *)
(* and end the process adds no delivery.)                                  *)
RacingHook(w, t, isDeleted) ==
  /\ w # Background /\ at = "swap"
  /\ Change(w, t, isDeleted)
  /\ lost' = lost \union {Len(changes) + 1}
  /\ UNCHANGED <<gathered, onModifiedCB, at, local, delivered, missed>>

Register(t, h) ==
  /\ h \notin onModifiedCB[t]
  /\ onModifiedCB' = [onModifiedCB EXCEPT ![t] = @ \union {h}]
  /\ missed' = [missed EXCEPT ![<<h, t>>] = Len(changes)]
  /\ UNCHANGED <<gathered, at, local, changes, delivered, lost>>

(* Poll swaps Modifiedrows, then Deletedrows...                            *)
SwapModified ==
  /\ at = "idle"
  /\ at' = "swap"
  /\ Modified' = Modifiedrows
  /\ Modifiedrows' = None
  /\ UNCHANGED <<Deletedrows, onModifiedCB, Deleted, Rows, changes, delivered, missed, lost>>

(* ...and pumps.                                                           *)
SwapDeleted_Keep ==
  /\ at = "swap"
  /\ at' = "pump"
  /\ Deleted' = Deletedrows
  /\ UNCHANGED <<gathered, onModifiedCB, Modified, Rows, changes, delivered, missed, lost>>
SwapDeleted ==
  /\ at = "swap"
  /\ at' = "pump"
  /\ Deleted' = Deletedrows
  /\ Deletedrows' = None
  /\ UNCHANGED <<Modifiedrows, onModifiedCB, Modified, Rows, changes, delivered, missed, lost>>

(* All deletions come before all modifications; the tables in any order    *)
(* (that of a hash map), unless nobody asks for one; the rows in theirs.   *)
Visit(queue, t) == Rows' = IF onModifiedCB[t] = {} THEN << >> ELSE queue[t]

NextTable ==
  /\ at = "pump" /\ Rows = << >>
  /\ \E t \in Tables :
       \/ /\ Deleted[t] # << >>
          /\ Visit(Deleted, t)
          /\ Deleted' = [Deleted EXCEPT ![t] = << >>]
          /\ UNCHANGED Modified
       \/ /\ Deleted = None /\ Modified[t] # << >>
          /\ Visit(Modified, t)
          /\ Modified' = [Modified EXCEPT ![t] = << >>]
          /\ UNCHANGED Deleted
  /\ UNCHANGED <<gathered, onModifiedCB, at, changes, delivered, missed, lost>>

(* The callbacks of one row.                                               *)
Callback ==
  /\ at = "pump" /\ Rows # << >>
  /\ LET n == Head(Rows) IN
       delivered' = [h \in Handlers |->
         IF h \in onModifiedCB[changes[n].table] THEN Append(delivered[h], n) ELSE delivered[h]]
  /\ Rows' = Tail(Rows)
  /\ UNCHANGED <<gathered, onModifiedCB, at, Modified, Deleted, changes, missed, lost>>

EndPoll_Clear ==
  /\ at = "pump" /\ Rows = << >> /\ Deleted = None /\ Modified = None
  /\ at' = "idle"
  /\ Modifiedrows' = None /\ Deletedrows' = None
  /\ UNCHANGED <<onModifiedCB, local, changes, delivered, missed, lost>>
EndPoll ==
  /\ at = "pump" /\ Rows = << >> /\ Deleted = None /\ Modified = None
  /\ at' = "idle"
  /\ UNCHANGED <<gathered, onModifiedCB, local, changes, delivered, missed, lost>>

Poll == SwapModified \/ SwapDeleted \/ NextTable \/ Callback \/ EndPoll

Next ==
  \/ \E w \in Writers, t \in Tables, isDeleted \in BOOLEAN :
       Clientupdatehook(w, t, isDeleted) \/ RacingHook(w, t, isDeleted)
  \/ \E t \in Tables, h \in Handlers : Register(t, h)
  \/ Poll

Spec == Init /\ [][Next]_vars

(* Background runs Poll again and again (Backgroundtasks).                 *)
FairSpec == Spec /\ WF_vars(Poll)

-----------------------------------------------------------------------------
Waiting(n) ==
  \/ \E t \in Tables, queue \in {Modifiedrows, Deletedrows, Modified, Deleted} : Contains(queue[t], n)
  \/ Contains(Rows, n)

(* A change made after a handler was registered for its table waits for it *)
(* or has reached it, also when a handler makes it in the middle of a      *)
(* Poll; the race with the swap is the only way to lose one                *)
(* (Database.cpp:60-65 and 197-231).                                       *)
NoChangeLost ==
  \A t \in Tables \ Ignored : \A h \in onModifiedCB[t] :
    \A n \in missed[<<h, t>>] + 1 .. Len(changes) :
      changes[n].table = t => Waiting(n) \/ Contains(delivered[h], n) \/ n \in lost

(* A handler gets no change twice, and the modifications of a table, and   *)
(* its deletions, in the order they were made (Database.cpp:197-231). Of   *)
(* the order between the two nothing can be said.                          *)
InOrder ==
  \A h \in Handlers : \A i, j \in DOMAIN delivered[h] :
    i < j /\ changes[delivered[h][i]] = changes[delivered[h][j]] => delivered[h][i] < delivered[h][j]

(* What a handler was registered for reaches it unless a race lost it      *)
(* (Database.cpp:197-231).                                                 *)
ChangeIsDelivered ==
  \A n \in Numbers : \A t \in Tables \ Ignored : \A h \in Handlers :
    (/\ n \in DOMAIN changes /\ n \notin lost /\ changes[n].table = t
     /\ h \in onModifiedCB[t] /\ missed[<<h, t>>] < n)
      ~> Contains(delivered[h], n)
=============================================================================
