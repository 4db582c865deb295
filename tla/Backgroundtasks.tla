-------------------------- MODULE Backgroundtasks --------------------------
(***************************************************************************)
(* Backend/Backgroundtasks.cpp: startup tasks that run once, periodic      *)
(* tasks that a background thread runs in frames, and the end of the       *)
(* process on request. Any thread may add a periodic task at any time.     *)
(*                                                                         *)
(* The clock is GetTickCount, which rolls over. A tick of the model is a   *)
(* unit of it. Callbacks do not add tasks themselves (none in src/ does):  *)
(* Threadsafe is not recursive and the thread would wait for itself.       *)
(***************************************************************************)
EXTENDS Integers, Sequences, SequencesExt, FiniteSets

CONSTANTS
  Callbacks, Period,    (* Periodic tasks, and the PeriodMS each is added with. *)
  Startups, Enqueues,   (* Startup tasks of other components, and the       *)
                        (* periodic task each of them adds.                 *)
  Startthread,          (* The startup task that starts Background.         *)
  Main, Others,         (* The thread of Initialize, and other threads.     *)
  Background, Nobody,   (* The background thread; no thread.                *)
  Modulus,              (* 2^32: where GetTickCount rolls over.             *)
  FrameMS,              (* 50: the least time from frame to frame.          *)
  MaxFrame,             (* The most time from frame to frame: tasks are     *)
                        (* short against the periods.                       *)
  MaxCalls              (* Bound: addPeriodictask calls per thread.         *)

Clients == {Main} \union Others
Time == 0 .. Modulus - 1

ASSUME TimeAssumption ==
  /\ Modulus \in Nat \ {0} /\ FrameMS \in Nat \ {0} /\ MaxFrame \in Nat /\ FrameMS <= MaxFrame
  /\ MaxCalls \in Nat
  /\ Period \in [Callbacks -> Nat]
  /\ \A c \in Callbacks : Period[c] + MaxFrame < Modulus

ASSUME ThreadAssumption ==
  /\ Background \notin Clients /\ Nobody \notin Clients \union {Background}
  /\ Enqueues \in [Startups -> Callbacks] /\ Startthread \notin Startups
  /\ Nobody \notin Callbacks

VARIABLES
  Recurringtasks, Tasklist, Initialtasks, doTerminate, Threadsafe,  (* Singleton_t. *)
  Initializing,         (* The startup task Initialize is at, 0 before it.  *)
  adding, calls,        (* What each client adds, and how often it did.     *)
  clock,                (* GetTickCount().                                  *)
  at, Index, Currenttime,  (* Background: its next step, its loop, its local. *)
  frameAge,             (* History: ticks since Currenttime was read...     *)
  since, hasRun         (* ...and since each task was added or its LastMS   *)
                        (* was read off the clock; whether it ever was.     *)

adders  == <<adding, calls>>
startup == <<Initialtasks, Initializing>>
history == <<since, hasRun>>
frame   == <<at, Index, Currenttime, frameAge>>
tasks   == <<Recurringtasks, Tasklist>>
vars == <<Recurringtasks, Tasklist, Initialtasks, doTerminate, Threadsafe, Initializing, adding, calls,
          clock, at, Index, Currenttime, frameAge, since, hasRun>>

Taskinfo == [PeriodMS : Nat, LastMS : Time, Callback : Callbacks]
Entries == 1 .. Len(Recurringtasks)
Alive == at # "terminated"
Started == at \notin {"absent", "starting"}

TypeOK ==
  /\ Recurringtasks \in Seq(Taskinfo) /\ Tasklist \subseteq Callbacks
  /\ Initialtasks \in Seq(Startups \union {Startthread})
  /\ Initializing \in Nat
  /\ doTerminate \in BOOLEAN
  /\ Threadsafe \in Clients \union {Background, Nobody}
  /\ adding \in [Clients -> Callbacks \union {Nobody}]
  /\ calls \in [Clients -> 0 .. MaxCalls]
  /\ clock \in Time /\ Currenttime \in Time
  /\ at \in {"absent", "starting", "frame", "lock", "tasks", "check", "sleep", "terminated"}
  /\ Index \in Nat
  /\ frameAge \in 0 .. MaxFrame
  /\ since \in [Callbacks -> Nat] /\ hasRun \in [Callbacks -> BOOLEAN]

(* The host has been up for any time when it loads the library. *)
Init ==
  /\ Recurringtasks = << >> /\ Tasklist = {} /\ Initialtasks = << >>
  /\ doTerminate = FALSE /\ Threadsafe = Nobody /\ Initializing = 0
  /\ adding = [t \in Clients |-> Nobody] /\ calls = [t \in Clients |-> 0]
  /\ clock \in Time
  /\ at = "absent" /\ Index = 1 /\ Currenttime = 0 /\ frameAge = 0
  /\ since = [c \in Callbacks |-> 0] /\ hasRun = [c \in Callbacks |-> FALSE]

-----------------------------------------------------------------------------
(* Time passes for everybody, but a frame has to end in time. The first    *)
(* one starts when the system lets the new thread run (on Windows not      *)
(* before DllMain has returned), which may take any time.                  *)
Tick ==
  /\ Alive
  /\ Started => frameAge < MaxFrame
  /\ clock' = (clock + 1) % Modulus
  /\ frameAge' = IF Started THEN frameAge + 1 ELSE frameAge
  /\ since' = [c \in Callbacks |-> IF Started /\ c \in Tasklist THEN since[c] + 1 ELSE since[c]]
  /\ UNCHANGED <<tasks, startup, doTerminate, Threadsafe, adders, at, Index, Currenttime, hasRun>>

(* addPeriodictask: the call, then with the lock held, the body.           *)
Call(t, c) ==
  /\ Alive /\ adding[t] = Nobody /\ calls[t] < MaxCalls
  /\ adding' = [adding EXCEPT ![t] = c]
  /\ calls' = [calls EXCEPT ![t] = @ + 1]

addPeriodictask(t, c) ==
  /\ t = Main => Initializing = 0 \/ Initializing > Len(Initialtasks)
  /\ Call(t, c)
  /\ UNCHANGED <<tasks, startup, doTerminate, Threadsafe, clock, frame, history>>

AddLock_None(t) ==
  /\ Alive /\ adding[t] # Nobody /\ Threadsafe # t
  /\ Threadsafe' = t
  /\ UNCHANGED <<tasks, startup, doTerminate, adders, clock, frame, history>>
AddLock(t) ==
  /\ Alive /\ adding[t] # Nobody /\ Threadsafe = Nobody
  /\ Threadsafe' = t
  /\ UNCHANGED <<tasks, startup, doTerminate, adders, clock, frame, history>>

(* Duplicates are dropped, even with another period. *)
AddTask_Duplicate(t) ==
  LET c == adding[t] IN
  /\ Alive /\ Threadsafe = t
  /\ Tasklist' = Tasklist \union {c}
  /\ Recurringtasks' = Append(Recurringtasks, [PeriodMS |-> Period[c], LastMS |-> 0, Callback |-> c])
  /\ Threadsafe' = Nobody
  /\ adding' = [adding EXCEPT ![t] = Nobody]
  /\ UNCHANGED <<startup, doTerminate, calls, clock, frame, history>>
AddTask_Backdated(t) ==
  LET c == adding[t] IN
  /\ Alive /\ Threadsafe = t
  /\ Tasklist' = Tasklist \union {c}
  /\ Recurringtasks' = IF c \in Tasklist THEN Recurringtasks
                       ELSE Append(Recurringtasks, [PeriodMS |-> Period[c], LastMS |-> -Period[c], Callback |-> c])
  /\ Threadsafe' = Nobody
  /\ adding' = [adding EXCEPT ![t] = Nobody]
  /\ UNCHANGED <<startup, doTerminate, calls, clock, frame, history>>
AddTask_EarlyReturn(t) ==
  LET c == adding[t] IN
  /\ Alive /\ Threadsafe = t /\ adding[t] # Nobody
  /\ Tasklist' = Tasklist \union {c}
  /\ Recurringtasks' = IF c \in Tasklist THEN Recurringtasks
                       ELSE Append(Recurringtasks, [PeriodMS |-> Period[c], LastMS |-> 0, Callback |-> c])
  /\ Threadsafe' = IF c \in Tasklist THEN t ELSE Nobody
  /\ adding' = [adding EXCEPT ![t] = Nobody]
  /\ UNCHANGED <<startup, doTerminate, calls, clock, frame, history>>
AddTask(t) ==
  LET c == adding[t] IN
  /\ Alive /\ Threadsafe = t
  /\ Tasklist' = Tasklist \union {c}
  /\ Recurringtasks' = IF c \in Tasklist THEN Recurringtasks
                       ELSE Append(Recurringtasks, [PeriodMS |-> Period[c], LastMS |-> 0, Callback |-> c])
  /\ Threadsafe' = Nobody
  /\ adding' = [adding EXCEPT ![t] = Nobody]
  /\ UNCHANGED <<startup, doTerminate, calls, clock, frame, history>>

-----------------------------------------------------------------------------
(* addStartuptask, by the static constructors of the translation units, in *)
(* no defined order, before Initialize.                                    *)
addStartuptask(s) ==
  /\ Initializing = 0 /\ ~Contains(Initialtasks, s)
  /\ Initialtasks' = Append(Initialtasks, s)
  /\ UNCHANGED <<tasks, doTerminate, Threadsafe, Initializing, adders, clock, frame, history>>

(* Initialize runs them one after the other and then clears them.          *)
StartInitialize ==
  /\ Initializing = 0 /\ Len(Initialtasks) = Cardinality(Startups) + 1
  /\ adding[Main] = Nobody
  /\ Initializing' = 1
  /\ UNCHANGED <<tasks, Initialtasks, doTerminate, Threadsafe, adders, clock, frame, history>>

RunStartup ==
  /\ Alive /\ Initializing \in 1 .. Len(Initialtasks) /\ adding[Main] = Nobody
  /\ Initializing' = Initializing + 1
  /\ LET s == Initialtasks[Initializing] IN
       \/ s = Startthread /\ at' = "starting" /\ UNCHANGED adders
       \/ s \in Startups /\ Call(Main, Enqueues[s]) /\ UNCHANGED at
  /\ UNCHANGED <<tasks, Initialtasks, doTerminate, Threadsafe, clock, Index, Currenttime, frameAge, history>>

EndInitialize ==
  /\ Alive /\ Initializing > Len(Initialtasks) /\ Initialtasks # << >> /\ adding[Main] = Nobody
  /\ Initialtasks' = << >>
  /\ UNCHANGED <<tasks, doTerminate, Threadsafe, Initializing, adders, clock, frame, history>>

(* Console command, host, or an exit handler. *)
Terminate ==
  /\ Alive /\ ~doTerminate
  /\ doTerminate' = TRUE
  /\ UNCHANGED <<tasks, startup, Threadsafe, adders, clock, frame, history>>

-----------------------------------------------------------------------------
(* Backgroundthread: one frame. *)
StartFrame ==
  /\ at \in {"starting", "frame"}
  /\ at' = "lock"
  /\ Currenttime' = clock /\ frameAge' = 0
  /\ UNCHANGED <<tasks, startup, doTerminate, Threadsafe, adders, clock, Index, history>>

LockTasks ==
  /\ at = "lock" /\ Threadsafe = Nobody
  /\ at' = "tasks" /\ Index' = 1
  /\ Threadsafe' = Background
  /\ UNCHANGED <<tasks, startup, doTerminate, adders, clock, Currenttime, frameAge, history>>

(* The subtraction is of unsigned integers. *)
Due_Compare(Task) == Currenttime > Task.LastMS + Task.PeriodMS
Due(Task) == (Currenttime - Task.LastMS) % Modulus > Task.PeriodMS

RunTask ==
  /\ at = "tasks" /\ Index \in Entries
  /\ LET Task == Recurringtasks[Index] IN
       /\ Due(Task)
       /\ Recurringtasks' = [Recurringtasks EXCEPT ![Index].LastMS = Currenttime]
       /\ since' = [since EXCEPT ![Task.Callback] = frameAge]
       /\ hasRun' = [hasRun EXCEPT ![Task.Callback] = TRUE]
  /\ Index' = Index + 1
  /\ UNCHANGED <<Tasklist, startup, doTerminate, Threadsafe, adders, clock, at, Currenttime, frameAge>>

SkipTask ==
  /\ at = "tasks" /\ Index \in Entries
  /\ ~Due(Recurringtasks[Index])
  /\ Index' = Index + 1
  /\ UNCHANGED <<tasks, startup, doTerminate, Threadsafe, adders, clock, at, Currenttime, frameAge, history>>

UnlockTasks_Keep ==
  /\ at = "tasks" /\ Index > Len(Recurringtasks)
  /\ at' = "check"
  /\ UNCHANGED <<tasks, startup, doTerminate, Threadsafe, adders, clock, Index, Currenttime, frameAge, history>>
UnlockTasks ==
  /\ at = "tasks" /\ Index > Len(Recurringtasks)
  /\ at' = "check"
  /\ Threadsafe' = Nobody
  /\ UNCHANGED <<tasks, startup, doTerminate, adders, clock, Index, Currenttime, frameAge, history>>

CheckTerminate ==
  /\ at = "check"
  /\ at' = IF doTerminate THEN "terminated" ELSE "sleep"
  /\ UNCHANGED <<tasks, startup, doTerminate, Threadsafe, adders, clock, Index, Currenttime, frameAge, history>>

(* sleep_for(clamp(50 - Delta, 0, 50)) *)
EndSleep ==
  /\ at = "sleep" /\ frameAge >= FrameMS
  /\ at' = "frame"
  /\ UNCHANGED <<tasks, startup, doTerminate, Threadsafe, adders, clock, Index, Currenttime, frameAge, history>>

Backgroundthread ==
  \/ StartFrame \/ LockTasks \/ RunTask \/ SkipTask \/ UnlockTasks \/ CheckTerminate \/ EndSleep

Next ==
  \/ Tick \/ Terminate
  \/ \E t \in Clients, c \in Callbacks : addPeriodictask(t, c)
  \/ \E t \in Clients : AddLock(t) \/ AddTask(t)
  \/ \E s \in Startups \union {Startthread} : addStartuptask(s)
  \/ StartInitialize \/ RunStartup \/ EndInitialize
  \/ Backgroundthread

Spec == Init /\ [][Next]_vars

(* The scheduler runs every thread that can go on, and time passes. That   *)
(* Background gets the lock rests on clients making finitely many calls.   *)
Fairness ==
  /\ WF_vars(Tick) /\ WF_vars(Backgroundthread)
  /\ \A t \in Clients : WF_vars(AddTask(t)) /\ SF_vars(AddLock(t))

FairSpec == Spec /\ Fairness

-----------------------------------------------------------------------------
(* While Background iterates over Recurringtasks nobody else changes the   *)
(* vector, whose growth would invalidate the loop's reference              *)
(* (Backgroundtasks.cpp:34-44 and 87-101).                                 *)
NoChangeWhileIterating ==
  [][at = "tasks" => Len(Recurringtasks') = Len(Recurringtasks)]_vars

(* No task runs twice within its period, counted from frame to frame, also *)
(* when the clock rolls over in between and when it was added repeatedly   *)
(* (Backgroundtasks.cpp:34-44 and 92-98).                                  *)
Runs(c) == RunTask /\ Recurringtasks[Index].Callback = c
NeverEarly ==
  [][\A c \in Callbacks : Runs(c) /\ hasRun[c] => since[c] - frameAge > Period[c]]_vars

(* A task never waits longer than its period and the two frames it may     *)
(* narrowly miss, and one more the first time: an initial LastMS of 0      *)
(* costs at most that, whatever the clock shows when the task is added     *)
(* (Backgroundtasks.cpp:42 and 92-98).                                     *)
Punctual ==
  \A c \in Callbacks : Alive /\ c \in Tasklist =>
    since[c] <= Period[c] + (IF hasRun[c] THEN 2 ELSE 3) * MaxFrame

(* Background and the threads that add tasks never wait for each other     *)
(* forever: a requested termination happens (Backgroundtasks.cpp:70-118)...*)
TerminationHappens == doTerminate /\ at # "absent" ~> at = "terminated"

(* ...and every call of addPeriodictask returns while the process lives    *)
(* (Backgroundtasks.cpp:34-44).                                            *)
CallsReturn == \A t \in Clients : adding[t] # Nobody ~> adding[t] = Nobody \/ ~Alive
=============================================================================
