----------------------- MODULE Backgroundtasks_proofs -----------------------
(***************************************************************************)
(* For any tasks, threads and widths of the clock: the differences of      *)
(* clock values that Backgroundthread computes are the ticks that passed,  *)
(* so no task runs early or late although the clock rolls over.            *)
(***************************************************************************)
EXTENDS Backgroundtasks, TLAPS

-----------------------------------------------------------------------------
(* Numbers that are the same to an unsigned integer of the clock's width.  *)
Same(a, b) == \E k \in Int : a = b + k * Modulus

LEMMA SameShift ==
  ASSUME NEW a \in Int, NEW b \in Int, NEW x \in Int, Same(a, b)
  PROVE  Same(a + x, b + x)
BY TimeAssumption DEF Same, TimeAssumption

LEMMA SameItself == ASSUME NEW a \in Int PROVE Same(a, a)
<1>1. a = a + 0 * Modulus
  BY TimeAssumption DEF TimeAssumption
<1> QED BY <1>1 DEF Same

LEMMA SameSym ==
  ASSUME NEW a \in Int, NEW b \in Int, Same(a, b)
  PROVE  Same(b, a)
<1>1. PICK k \in Int : a = b + k * Modulus
  BY DEF Same
<1>2. b = a + (-k) * Modulus /\ -k \in Int
  BY <1>1, TimeAssumption DEF TimeAssumption
<1> QED BY <1>2 DEF Same

LEMMA SameTrans ==
  ASSUME NEW a \in Int, NEW b \in Int, NEW c \in Int, Same(a, b), Same(b, c)
  PROVE  Same(a, c)
<1>1. PICK k \in Int : a = b + k * Modulus
  BY DEF Same
<1>2. PICK l \in Int : b = c + l * Modulus
  BY DEF Same
<1>3. (k + l) * Modulus = k * Modulus + l * Modulus
  BY TimeAssumption DEF TimeAssumption
<1>4. a = c + (k + l) * Modulus /\ k + l \in Int
  BY <1>1, <1>2, <1>3, TimeAssumption DEF TimeAssumption
<1> QED BY <1>4 DEF Same

LEMMA SameMinus ==
  ASSUME NEW a \in Int, NEW b \in Int, NEW c \in Int, NEW d \in Int, Same(a, b), Same(c, d)
  PROVE  Same(a - c, b - d)
<1>1. PICK k \in Int : a = b + k * Modulus
  BY DEF Same
<1>2. PICK l \in Int : c = d + l * Modulus
  BY DEF Same
<1>3. (k - l) * Modulus = k * Modulus - l * Modulus
  BY TimeAssumption DEF TimeAssumption
<1>4. a - c = b - d + (k - l) * Modulus /\ k - l \in Int
  BY <1>1, <1>2, <1>3, TimeAssumption DEF TimeAssumption
<1> QED BY <1>4 DEF Same

LEMMA SameModulo ==
  ASSUME NEW a \in Int
  PROVE  a % Modulus \in Time /\ Same(a % Modulus, a)
<1> Modulus \in Nat /\ Modulus > 0
  BY TimeAssumption DEF TimeAssumption
<1>1. a % Modulus \in Time
  BY DEF Time
<1>2. a = Modulus * (a \div Modulus) + (a % Modulus) /\ a \div Modulus \in Int
  OBVIOUS
<1>3. a % Modulus = a + (-(a \div Modulus)) * Modulus /\ -(a \div Modulus) \in Int
  BY <1>2, <1>1 DEF Time
<1> QED BY <1>1, <1>3 DEF Same

LEMMA SameEqual ==
  ASSUME NEW a \in Time, NEW b \in Time, Same(a, b)
  PROVE  a = b
<1> Modulus \in Nat /\ Modulus > 0
  BY TimeAssumption DEF TimeAssumption
<1>1. PICK k \in Int : a = b + k * Modulus
  BY DEF Same
<1>2. ASSUME k >= 1 PROVE FALSE
  <2>1. k * Modulus = Modulus + (k - 1) * Modulus /\ (k - 1) * Modulus >= 0
    BY <1>2
  <2> QED BY <1>1, <2>1 DEF Time
<1>3. ASSUME k <= -1 PROVE FALSE
  <2>1. k * Modulus = -Modulus + (k + 1) * Modulus /\ (k + 1) * Modulus <= 0
    BY <1>3
  <2> QED BY <1>1, <2>1 DEF Time
<1>4. k = 0
  BY <1>2, <1>3
<1> QED BY <1>1, <1>4 DEF Time

-----------------------------------------------------------------------------
(* A thread that has the lock is adding a task, or is Background in its    *)
(* loop; the thread is started once.                                       *)
LockOK ==
  /\ at = "tasks" => Threadsafe = Background
  /\ \A t \in Clients : Threadsafe = t => adding[t] # Nobody
  /\ Initializing = 0 => at = "absent"
  /\ \A i \in DOMAIN Initialtasks : Initialtasks[i] = Startthread /\ i >= Initializing => at = "absent"
  /\ \A i, j \in DOMAIN Initialtasks : Initialtasks[i] = Initialtasks[j] => i = j

(* Tasks are in the list once, with their periods.                         *)
TasksOK ==
  /\ \A i \in Entries : /\ Recurringtasks[i].Callback \in Tasklist
                       /\ Recurringtasks[i].PeriodMS = Period[Recurringtasks[i].Callback]
  /\ \A i, j \in Entries : Recurringtasks[i].Callback = Recurringtasks[j].Callback => i = j
  /\ \A c \in Tasklist : \E i \in Entries : Recurringtasks[i].Callback = c

(* The clock values that are kept are as old as the history says.          *)
Dated(Task) ==
  IF hasRun[Task.Callback] THEN Same(Task.LastMS, clock - since[Task.Callback]) ELSE Task.LastMS = 0

ClockOK ==
  /\ Started => Same(Currenttime, clock - frameAge)
  /\ ~Started => frameAge = 0
  /\ \A c \in Callbacks : ~Started \/ c \notin Tasklist => since[c] = 0 /\ ~hasRun[c]
  /\ \A i \in Entries : Dated(Recurringtasks[i])

(* How long before this frame a task last ran, or was added, when the loop *)
(* has yet to come to it, and when it has passed it. A task that never ran *)
(* has a LastMS of 0: it is passed over only while the clock is in its     *)
(* first period.                                                           *)
Age(c) == since[c] - frameAge

Ahead(c) ==
  IF hasRun[c] THEN Age(c) \in 0 .. Period[c] + MaxFrame
  ELSE Age(c) <= MaxFrame \/ (Currenttime <= Period[c] + MaxFrame /\ Age(c) <= MaxFrame + Currenttime)
Passed(c) ==
  IF hasRun[c] THEN Age(c) \in 0 .. Period[c]
  ELSE Age(c) <= 0 \/ (Currenttime <= Period[c] /\ Age(c) <= MaxFrame + Currenttime)

AgeOK ==
  Started => \A i \in Entries :
    IF at = "lock" \/ (at = "tasks" /\ i >= Index) THEN Ahead(Recurringtasks[i].Callback)
                                                 ELSE Passed(Recurringtasks[i].Callback)

TaskInv == TypeOK /\ LockOK /\ TasksOK /\ ClockOK /\ AgeOK

LEMMA Constants ==
  /\ Modulus \in Nat /\ Modulus > 0 /\ MaxFrame \in Nat /\ Period \in [Callbacks -> Nat]
  /\ \A c \in Callbacks : Period[c] \in Nat /\ Period[c] + MaxFrame < Modulus
  /\ Background \notin Clients /\ Nobody \notin Clients /\ Background # Nobody /\ Nobody \notin Callbacks
  /\ Startthread \notin Startups /\ Main \in Clients /\ MaxCalls \in Nat
  /\ Enqueues \in [Startups -> Callbacks]
BY TimeAssumption, ThreadAssumption DEF TimeAssumption, ThreadAssumption, Clients

LEMMA AppendElements ==
  ASSUME NEW S, NEW q \in Seq(S), NEW e \in S
  PROVE  /\ Append(q, e) \in Seq(S) /\ Len(Append(q, e)) = Len(q) + 1 /\ Len(q) \in Nat
         /\ DOMAIN q = 1 .. Len(q) /\ DOMAIN Append(q, e) = 1 .. Len(q) + 1
         /\ \A k \in 1 .. Len(q) : Append(q, e)[k] = q[k]
         /\ Append(q, e)[Len(q) + 1] = e
OBVIOUS

LEMMA EntryTypes ==
  ASSUME TypeOK, TasksOK, NEW i \in Entries
  PROVE  LET Task == Recurringtasks[i] IN
         /\ Task \in Taskinfo /\ Task.Callback \in Callbacks /\ Task.Callback \in Tasklist
         /\ Task.PeriodMS = Period[Task.Callback]
         /\ Task.LastMS \in Time /\ Task.LastMS \in Int
<1>1. Recurringtasks[i] \in Taskinfo
  BY DEF TypeOK, Entries
<1>2. Recurringtasks[i].LastMS \in Time /\ Recurringtasks[i].Callback \in Callbacks
  BY <1>1 DEF Taskinfo
<1> QED BY <1>1, <1>2, Constants DEF TasksOK, Time

LEMMA ClockTypes ==
  ASSUME TypeOK
  PROVE  /\ clock \in Int /\ Currenttime \in Nat /\ clock \in Time /\ Currenttime \in Time
         /\ frameAge \in Nat /\ frameAge <= MaxFrame
         /\ \A c \in Callbacks : since[c] \in Nat /\ hasRun[c] \in BOOLEAN
BY Constants DEF TypeOK, Time

(* The difference that is compared with the period is the age of the task, *)
(* so Due means what it says.                                              *)
LEMMA DueIsAge ==
  ASSUME TaskInv, at = "tasks", NEW i \in Entries, i >= Index
  PROVE  LET Task == Recurringtasks[i] c == Task.Callback IN
         IF hasRun[c] THEN Due(Task) <=> Age(c) > Period[c]
                      ELSE Due(Task) <=> Currenttime > Period[c]
<1> DEFINE Task == Recurringtasks[i]
<1> DEFINE c == Task.Callback
<1>1. /\ Task \in Taskinfo /\ c \in Callbacks /\ Task.PeriodMS = Period[c] /\ Task.LastMS \in Int
      /\ Currenttime \in Time /\ Currenttime \in Int /\ clock \in Int /\ since[c] \in Int /\ frameAge \in Int
  BY EntryTypes, ClockTypes, Constants DEF TaskInv
<1>2. Dated(Task) /\ Ahead(c) /\ Same(Currenttime, clock - frameAge)
  BY DEF TaskInv, ClockOK, AgeOK, Started
<1> HIDE DEF Task, c
<1>3. CASE hasRun[c]
  <2>1. Same(Task.LastMS, clock - since[c])
    BY <1>2, <1>3 DEF Dated, c
  <2>2. Same(Currenttime - Task.LastMS, (clock - frameAge) - (clock - since[c]))
    BY <1>1, <1>2, <2>1, SameMinus
  <2>3. Same((Currenttime - Task.LastMS) % Modulus, Age(c))
    <3>1. (clock - frameAge) - (clock - since[c]) = Age(c) /\ Age(c) \in Int
      BY <1>1 DEF Age
    <3>2. Currenttime - Task.LastMS \in Int
      BY <1>1
    <3>3. Same((Currenttime - Task.LastMS) % Modulus, Currenttime - Task.LastMS)
      BY <3>2, SameModulo
    <3>4. (Currenttime - Task.LastMS) % Modulus \in Int
      BY <3>2, Constants
    <3> QED BY <2>2, <3>1, <3>2, <3>3, <3>4, SameTrans
  <2>4. Age(c) \in Time /\ (Currenttime - Task.LastMS) % Modulus \in Time
    <3>1. Age(c) \in 0 .. Period[c] + MaxFrame /\ Period[c] + MaxFrame < Modulus /\ Period[c] \in Nat
      BY <1>1, <1>2, <1>3, Constants DEF Ahead
    <3>2. Currenttime - Task.LastMS \in Int
      BY <1>1
    <3> QED BY <3>1, <3>2, SameModulo, Constants DEF Time
  <2>5. (Currenttime - Task.LastMS) % Modulus = Age(c)
    BY <2>3, <2>4, SameEqual
  <2> QED BY <1>1, <1>3, <2>5 DEF Due, Task, c
<1>4. CASE ~hasRun[c]
  <2>1. Task.LastMS = 0
    BY <1>2, <1>4 DEF Dated, c
  <2>2. (Currenttime - Task.LastMS) % Modulus = Currenttime
    BY <1>1, <2>1, Constants DEF Time
  <2> QED BY <1>1, <1>4, <2>2 DEF Due, Task, c
<1> QED BY <1>3, <1>4 DEF Task, c

-----------------------------------------------------------------------------
LEMMA Undisturbed ==
  ASSUME TasksOK, ClockOK, AgeOK, UNCHANGED <<tasks, clock, frame, history>>
  PROVE  (TasksOK /\ ClockOK /\ AgeOK)'
BY DEF TasksOK, ClockOK, AgeOK, tasks, frame, history, Entries, Started, Dated, Ahead, Passed, Age

(* A call of addPeriodictask that waits for the lock.                      *)
LEMMA CallTypes ==
  ASSUME TypeOK, MaxCalls \in Nat, NEW t \in Clients, NEW c \in Callbacks, calls[t] < MaxCalls,
         adding' = [adding EXCEPT ![t] = c], calls' = [calls EXCEPT ![t] = @ + 1]
  PROVE  /\ adding' \in [Clients -> Callbacks \union {Nobody}]
         /\ calls' \in [Clients -> 0 .. MaxCalls]
<1>1. adding \in [Clients -> Callbacks \union {Nobody}] /\ calls \in [Clients -> 0 .. MaxCalls]
  BY DEF TypeOK
<1>2. adding' \in [Clients -> Callbacks \union {Nobody}]
  BY <1>1
<1>3. calls[t] + 1 \in 0 .. MaxCalls
  BY <1>1
<1>4. calls' \in [Clients -> 0 .. MaxCalls]
  BY <1>1, <1>3
<1> QED BY <1>2, <1>4

(* Steps of the other threads.                                             *)
LEMMA ClientSteps ==
  ASSUME TaskInv,
         \/ \E t \in Clients, c \in Callbacks : addPeriodictask(t, c)
         \/ \E t \in Clients : AddLock(t)
         \/ \E s \in Startups \union {Startthread} : addStartuptask(s)
         \/ StartInitialize \/ EndInitialize \/ Terminate
  PROVE  TaskInv'
<1> USE Constants DEF TaskInv
<1>0. UNCHANGED <<tasks, clock, frame, history>>
  BY DEF addPeriodictask, AddLock, addStartuptask, StartInitialize, EndInitialize, Terminate
<1>1. (TasksOK /\ ClockOK /\ AgeOK)'
  BY <1>0, Undisturbed
<1>2. UNCHANGED <<Recurringtasks, Tasklist, clock, at, Index, Currenttime, frameAge, since, hasRun>>
  BY <1>0 DEF tasks, frame, history
<1>3. ASSUME NEW t \in Clients, NEW c \in Callbacks, addPeriodictask(t, c) PROVE (TypeOK /\ LockOK)'
  <2>1. /\ UNCHANGED <<Initialtasks, Initializing, doTerminate, Threadsafe>>
        /\ adding' = [adding EXCEPT ![t] = c]
        /\ calls' = [calls EXCEPT ![t] = @ + 1] /\ calls[t] < MaxCalls
    BY <1>3 DEF addPeriodictask, Call, startup
  <2>2. adding' \in [Clients -> Callbacks \union {Nobody}] /\ calls' \in [Clients -> 0 .. MaxCalls]
    BY <2>1, CallTypes
  <2>3. TypeOK'
    BY <1>2, <2>1, <2>2 DEF TypeOK, Taskinfo
  <2>4. LockOK'
    BY <1>2, <2>1 DEF TypeOK, LockOK
  <2> QED BY <2>3, <2>4
<1>4. ASSUME NEW t \in Clients, AddLock(t) PROVE (TypeOK /\ LockOK)'
  <2>1. /\ UNCHANGED <<Initialtasks, Initializing, doTerminate, adding, calls>>
        /\ Threadsafe = Nobody /\ Threadsafe' = t /\ adding[t] # Nobody
    BY <1>4 DEF AddLock, startup, adders
  <2>2. at # "tasks"
    BY <2>1 DEF LockOK
  <2> QED BY <1>2, <2>1, <2>2 DEF TypeOK, LockOK, Taskinfo
<1>5. ASSUME NEW s \in Startups \union {Startthread}, addStartuptask(s) PROVE (TypeOK /\ LockOK)'
  <2>1. /\ UNCHANGED <<Initializing, doTerminate, Threadsafe, adding, calls>>
        /\ Initialtasks' = Append(Initialtasks, s) /\ Initializing = 0 /\ ~Contains(Initialtasks, s)
    BY <1>5 DEF addStartuptask, adders
  <2>2. Initialtasks' \in Seq(Startups \union {Startthread})
    BY <2>1 DEF TypeOK
  <2>3. ASSUME NEW i \in DOMAIN Initialtasks', NEW j \in DOMAIN Initialtasks', Initialtasks'[i] = Initialtasks'[j]
        PROVE  i = j
    <3>1. \A k \in DOMAIN Initialtasks' :
            \/ k \in DOMAIN Initialtasks /\ Initialtasks'[k] = Initialtasks[k] /\ Initialtasks[k] # s
            \/ k = Len(Initialtasks) + 1 /\ Initialtasks'[k] = s
      <4>1. Initialtasks \in Seq(Startups \union {Startthread})
        BY DEF TypeOK
      <4>2. \A k \in 1 .. Len(Initialtasks) : Initialtasks[k] # s
        BY <2>1 DEF Contains
      <4> QED BY <2>1, <4>1, <4>2, AppendElements
    <3> QED BY <2>3, <3>1 DEF LockOK
  <2>4. TypeOK'
    BY <1>2, <2>1, <2>2 DEF TypeOK, Taskinfo
  <2>5. LockOK'
    BY <1>2, <2>1, <2>3 DEF LockOK
  <2> QED BY <2>4, <2>5
<1>6. ASSUME StartInitialize PROVE (TypeOK /\ LockOK)'
  <2>1. /\ UNCHANGED <<Initialtasks, doTerminate, Threadsafe, adding, calls>>
        /\ Initializing = 0 /\ Initializing' = 1
    BY <1>6 DEF StartInitialize, adders
  <2> QED BY <1>2, <2>1 DEF TypeOK, LockOK, Taskinfo
<1>7. ASSUME EndInitialize PROVE (TypeOK /\ LockOK)'
  <2>1. /\ UNCHANGED <<Initializing, doTerminate, Threadsafe, adding, calls>>
        /\ Initialtasks' = << >>
    BY <1>7 DEF EndInitialize, adders
  <2>2. TypeOK'
    BY <1>2, <2>1 DEF TypeOK, Taskinfo
  <2>3. LockOK'
    BY <1>2, <2>1 DEF LockOK
  <2> QED BY <2>2, <2>3
<1>8. ASSUME Terminate PROVE (TypeOK /\ LockOK)'
  BY <1>2, <1>8 DEF Terminate, TypeOK, LockOK, Taskinfo, startup, adders
<1> QED BY <1>1, <1>3, <1>4, <1>5, <1>6, <1>7, <1>8

(* A task is added behind those that Background has yet to visit, with an  *)
(* age of at most 0.                                                       *)
LEMMA AddTaskStep ==
  ASSUME TaskInv, NEW t \in Clients, AddTask(t)
  PROVE  TaskInv'
<1> USE Constants DEF TaskInv
<1>0. PICK c : c = adding[t]
  OBVIOUS
<1> DEFINE new == [PeriodMS |-> Period[c], LastMS |-> 0, Callback |-> c]
<1>1. /\ Threadsafe = t /\ Threadsafe' = Nobody /\ Tasklist' = Tasklist \union {c}
      /\ Recurringtasks' = IF c \in Tasklist THEN Recurringtasks ELSE Append(Recurringtasks, new)
      /\ adding' = [adding EXCEPT ![t] = Nobody]
      /\ UNCHANGED <<Initialtasks, Initializing, doTerminate, calls, clock, at, Index, Currenttime, frameAge,
                     since, hasRun>>
  BY <1>0 DEF AddTask, startup, frame, history
<1>2. c \in Callbacks /\ new \in Taskinfo /\ Recurringtasks \in Seq(Taskinfo)
  BY <1>0, <1>1 DEF TypeOK, LockOK, Taskinfo, Time
<1>3. at # "tasks"
  BY <1>1 DEF LockOK
<1>4. TypeOK'
  <2>1. Recurringtasks' \in Seq(Taskinfo)
    BY <1>1, <1>2, AppendElements
  <2>2. adding' \in [Clients -> Callbacks \union {Nobody}]
    BY <1>1 DEF TypeOK
  <2> QED BY <1>1, <1>2, <2>1, <2>2 DEF TypeOK, Taskinfo
<1>5. LockOK'
  BY <1>1, <1>3 DEF LockOK
<1>6. CASE c \in Tasklist
  <2>1. UNCHANGED <<tasks, clock, frame, history>>
    BY <1>1, <1>6 DEF tasks, frame, history
  <2> QED BY <1>4, <1>5, <2>1, Undisturbed
<1>7. CASE c \notin Tasklist
  <2>1. /\ Recurringtasks' = Append(Recurringtasks, new) /\ Entries' = 1 .. Len(Recurringtasks) + 1
        /\ Entries = 1 .. Len(Recurringtasks) /\ Len(Recurringtasks) \in Nat
        /\ \A i \in Entries : Recurringtasks'[i] = Recurringtasks[i]
        /\ Recurringtasks'[Len(Recurringtasks) + 1] = new
    BY <1>1, <1>2, <1>7, AppendElements DEF Entries
  <2>2. \A i \in Entries' : \/ i \in Entries /\ Recurringtasks'[i] = Recurringtasks[i]
                            \/ i = Len(Recurringtasks) + 1 /\ Recurringtasks'[i] = new
    BY <2>1
  <2>3. new.Callback = c /\ new.PeriodMS = Period[c] /\ new.LastMS = 0
    OBVIOUS
  <2>4. since[c] = 0 /\ ~hasRun[c]
    BY <1>2, <1>7 DEF ClockOK
  <2> HIDE DEF new
  <2>5. TasksOK'
    <3>1. \A i \in Entries' : /\ Recurringtasks'[i].Callback \in Tasklist'
                              /\ Recurringtasks'[i].PeriodMS = Period[Recurringtasks'[i].Callback]
      BY <1>1, <2>2, <2>3 DEF TasksOK
    <3>2. ASSUME NEW i \in Entries', NEW j \in Entries', Recurringtasks'[i].Callback = Recurringtasks'[j].Callback
          PROVE  i = j
      BY <1>7, <2>2, <2>3, <3>2 DEF TasksOK
    <3>3. ASSUME NEW d \in Tasklist' PROVE \E i \in Entries' : Recurringtasks'[i].Callback = d
      <4>1. CASE d = c
        BY <2>1, <2>3, <4>1
      <4>2. CASE d \in Tasklist
        <5>1. PICK i \in Entries : Recurringtasks[i].Callback = d
          BY <4>2 DEF TasksOK
        <5> QED BY <2>1, <5>1
      <4> QED BY <1>1, <4>1, <4>2
    <3> QED BY <3>1, <3>2, <3>3 DEF TasksOK
  <2>6. ClockOK'
    <3>1. \A i \in Entries' : Dated(Recurringtasks[i])'
      BY <1>1, <2>2, <2>3, <2>4 DEF ClockOK, Dated
    <3> QED BY <1>1, <3>1 DEF ClockOK, Started
  <2>7. AgeOK'
    <3>1. Age(c)' <= 0 /\ Age(c)' <= MaxFrame /\ ~hasRun'[c]
      BY <1>1, <1>2, <2>4, ClockTypes DEF Age
    <3>2. Ahead(c)' /\ Passed(c)'
      BY <3>1 DEF Ahead, Passed
    <3>3. \A i \in Entries : /\ Ahead(Recurringtasks[i].Callback)' <=> Ahead(Recurringtasks[i].Callback)
                             /\ Passed(Recurringtasks[i].Callback)' <=> Passed(Recurringtasks[i].Callback)
      BY <1>1, <2>1 DEF Ahead, Passed, Age
    <3> QED BY <1>1, <2>2, <2>3, <3>2, <3>3 DEF AgeOK, Started
  <2> QED BY <1>4, <1>5, <2>5, <2>6, <2>7
<1> QED BY <1>6, <1>7

LEMMA RunStartupStep ==
  ASSUME TaskInv, RunStartup
  PROVE  TaskInv'
<1> USE Constants DEF TaskInv
<1>1. /\ UNCHANGED <<Recurringtasks, Tasklist, Initialtasks, doTerminate, Threadsafe, clock, Index, Currenttime,
                     frameAge, since, hasRun>>
      /\ Initializing \in 1 .. Len(Initialtasks) /\ Initializing' = Initializing + 1
  BY DEF RunStartup, tasks, history
<1>2. \/ /\ Initialtasks[Initializing] = Startthread /\ at = "absent" /\ at' = "starting"
         /\ UNCHANGED <<adding, calls>>
      \/ /\ Initialtasks[Initializing] # Startthread /\ at' = at
         /\ \E c \in Callbacks : /\ adding' = [adding EXCEPT ![Main] = c] /\ calls[Main] < MaxCalls
                                 /\ calls' = [calls EXCEPT ![Main] = @ + 1]
  <2>1. Initialtasks[Initializing] = Startthread => at = "absent"
    BY <1>1 DEF TypeOK, LockOK
  <2> QED BY <2>1 DEF RunStartup, Call, adders
<1>3. /\ adding' \in [Clients -> Callbacks \union {Nobody}] /\ calls' \in [Clients -> 0 .. MaxCalls]
      /\ \A t \in Clients : adding[t] # Nobody => adding'[t] # Nobody
  <2>1. CASE UNCHANGED <<adding, calls>>
    BY <2>1 DEF TypeOK
  <2>2. ASSUME NEW c \in Callbacks, adding' = [adding EXCEPT ![Main] = c], calls[Main] < MaxCalls,
               calls' = [calls EXCEPT ![Main] = @ + 1]
        PROVE  /\ adding' \in [Clients -> Callbacks \union {Nobody}] /\ calls' \in [Clients -> 0 .. MaxCalls]
               /\ \A t \in Clients : adding[t] # Nobody => adding'[t] # Nobody
    <3>1. adding' \in [Clients -> Callbacks \union {Nobody}] /\ calls' \in [Clients -> 0 .. MaxCalls]
      BY <2>2, CallTypes
    <3>2. \A t \in Clients : adding[t] # Nobody => adding'[t] # Nobody
      BY <2>2 DEF TypeOK
    <3> QED BY <3>1, <3>2
  <2> QED BY <1>2, <2>1, <2>2
<1>4. TypeOK'
  <2>1. at' \in {"absent", "starting", "frame", "lock", "tasks", "check", "sleep", "terminated"}
    BY <1>2 DEF TypeOK
  <2>2. Initializing' \in Nat
    BY <1>1 DEF TypeOK
  <2> QED BY <1>1, <1>3, <2>1, <2>2 DEF TypeOK, Taskinfo
<1>5. LockOK'
  <2>1. ASSUME NEW i \in DOMAIN Initialtasks, Initialtasks[i] = Startthread, i >= Initializing + 1
        PROVE  at' = "absent"
    <3>1. at = "absent" /\ Initializing \in DOMAIN Initialtasks /\ i # Initializing
      BY <1>1, <2>1 DEF TypeOK, LockOK
    <3> QED BY <1>2, <2>1, <3>1 DEF LockOK
  <2>2. Initializing' # 0
    BY <1>1
  <2> QED BY <1>1, <1>2, <1>3, <2>1, <2>2 DEF LockOK
<1>6. Started' <=> Started
  BY <1>2 DEF Started
<1>7. TasksOK' /\ ClockOK' /\ AgeOK'
  <2>1. TasksOK'
    BY <1>1 DEF TasksOK, Entries
  <2>2. ClockOK'
    BY <1>1, <1>6 DEF ClockOK, Entries, Dated
  <2>3. (at' = "tasks" <=> at = "tasks") /\ (at' = "lock" <=> at = "lock")
    BY <1>2
  <2>4. AgeOK'
    BY <1>1, <1>6, <2>3 DEF AgeOK, Entries, Ahead, Passed, Age
  <2> QED BY <2>1, <2>2, <2>4
<1> QED BY <1>4, <1>5, <1>7

(* Time passes for what is kept and for the history alike.                 *)
LEMMA TickStep ==
  ASSUME TaskInv, Tick
  PROVE  TaskInv'
<1> USE Constants DEF TaskInv
<1>1. /\ clock' = (clock + 1) % Modulus
      /\ frameAge' = IF Started THEN frameAge + 1 ELSE frameAge
      /\ Started => frameAge < MaxFrame
      /\ since' = [c \in Callbacks |-> IF Started /\ c \in Tasklist THEN since[c] + 1 ELSE since[c]]
      /\ UNCHANGED <<Recurringtasks, Tasklist, Initialtasks, Initializing, doTerminate, Threadsafe, adding, calls,
                     at, Index, Currenttime, hasRun>>
  BY DEF Tick, tasks, startup, adders
<1>2. clock' \in Time /\ clock' \in Int /\ Same(clock', clock + 1)
  BY <1>1, ClockTypes, SameModulo DEF Time
<1>3. TypeOK'
  <2>1. frameAge' \in 0 .. MaxFrame
    BY <1>1, ClockTypes
  <2>2. since' \in [Callbacks -> Nat]
    BY <1>1, ClockTypes
  <2> QED BY <1>1, <1>2, <2>1, <2>2 DEF TypeOK, Taskinfo
<1>4. LockOK' /\ TasksOK' /\ (Started' <=> Started) /\ Entries' = Entries
  <2>1. LockOK'
    BY <1>1 DEF LockOK
  <2>2. TasksOK' /\ Entries' = Entries
    BY <1>1 DEF TasksOK, Entries
  <2>3. Started' <=> Started
    BY <1>1 DEF Started
  <2> QED BY <2>1, <2>2, <2>3
<1>5. ASSUME NEW x \in Int, NEW n \in Nat, Same(x, clock - n) PROVE Same(x, clock' - (n + 1))
  <2>1. Same(clock - n, clock' - (n + 1))
    <3>1. Same(clock' - (n + 1), (clock + 1) - (n + 1))
      <4>1. clock + 1 \in Int /\ n + 1 \in Int /\ Same(n + 1, n + 1)
        BY ClockTypes, SameItself
      <4> QED BY <4>1, <1>2, SameMinus
    <3>2. (clock + 1) - (n + 1) = clock - n /\ clock - n \in Int /\ clock' - (n + 1) \in Int
      BY <1>2, ClockTypes
    <3>3. Same(clock' - (n + 1), clock - n)
      BY <3>1, <3>2
    <3> QED BY <3>2, <3>3, SameSym
  <2> QED BY <2>1, <1>2, <1>5, ClockTypes, SameTrans
<1>6. ClockOK'
  <2>1. Started => Same(Currenttime, clock' - frameAge')
    BY <1>1, <1>5, ClockTypes DEF ClockOK
  <2>2. ASSUME NEW i \in Entries PROVE Dated(Recurringtasks[i])'
    <3>1. PICK c \in Callbacks : c = Recurringtasks[i].Callback
      BY EntryTypes
    <3>2. Dated(Recurringtasks[i]) /\ c \in Tasklist /\ (~Started => ~hasRun[c])
      BY <3>1, EntryTypes DEF ClockOK
    <3>3. CASE hasRun[c]
      <4>1. Started /\ since'[c] = since[c] + 1
        BY <1>1, <3>2, <3>3
      <4>2. Recurringtasks[i].LastMS \in Int /\ since[c] \in Nat /\ Same(Recurringtasks[i].LastMS, clock - since[c])
        BY <3>1, <3>2, <3>3, EntryTypes, ClockTypes DEF Dated
      <4>3. Same(Recurringtasks[i].LastMS, clock' - since'[c])
        BY <4>1, <4>2, <1>5
      <4> QED BY <4>3, <1>1, <3>1, <3>3 DEF Dated
    <3>4. CASE ~hasRun[c]
      BY <1>1, <3>1, <3>2, <3>4 DEF Dated
    <3> QED BY <3>3, <3>4
  <2> QED BY <1>1, <1>4, <2>1, <2>2 DEF ClockOK
<1>7. AgeOK'
  <2> SUFFICES ASSUME Started, NEW i \in Entries
               PROVE  (IF at = "lock" \/ (at = "tasks" /\ i >= Index) THEN Ahead(Recurringtasks[i].Callback)
                       ELSE Passed(Recurringtasks[i].Callback))'
    BY <1>4 DEF AgeOK
  <2>1. PICK c \in Callbacks : c = Recurringtasks[i].Callback
    BY EntryTypes
  <2>2. c \in Tasklist
    BY <2>1, EntryTypes
  <2>3. Age(c)' = Age(c)
    <3>1. since'[c] = since[c] + 1 /\ frameAge' = frameAge + 1 /\ since[c] \in Int /\ frameAge \in Int
      BY <1>1, <2>2, ClockTypes
    <3> QED BY <3>1 DEF Age
  <2>4. (Ahead(c)' <=> Ahead(c)) /\ (Passed(c)' <=> Passed(c))
    BY <1>1, <2>3 DEF Ahead, Passed
  <2> QED BY <1>1, <2>1, <2>4 DEF AgeOK
<1> QED BY <1>3, <1>4, <1>6, <1>7

(* The age of every task at the new frame is what has passed since.        *)
LEMMA StartFrameStep ==
  ASSUME TaskInv, StartFrame
  PROVE  TaskInv'
<1> USE Constants DEF TaskInv
<1>1. /\ at \in {"starting", "frame"} /\ at' = "lock" /\ Currenttime' = clock /\ frameAge' = 0
      /\ UNCHANGED <<Recurringtasks, Tasklist, Initialtasks, Initializing, doTerminate, Threadsafe, adding, calls,
                     clock, Index, since, hasRun>>
  BY DEF StartFrame, tasks, startup, adders, history
<1>2. TypeOK' /\ LockOK' /\ TasksOK' /\ Entries' = Entries
  BY <1>1 DEF TypeOK, LockOK, TasksOK, Entries, Taskinfo
<1>3. ClockOK'
  <2>1. Same(clock, clock - 0)
    BY ClockTypes, SameItself
  <2>2. \A i \in Entries : Dated(Recurringtasks[i])'
    BY <1>1 DEF ClockOK, Dated
  <2> QED BY <1>1, <1>2, <2>1, <2>2 DEF ClockOK, Started
<1>4. ASSUME NEW i \in Entries PROVE Ahead(Recurringtasks[i].Callback)'
  <2>1. PICK c \in Callbacks : c = Recurringtasks[i].Callback
    BY EntryTypes
  <2>2. /\ since[c] \in Nat /\ frameAge \in 0 .. MaxFrame /\ Period[c] \in Nat /\ Age(c)' = since[c]
        /\ hasRun'[c] = hasRun[c]
    BY <1>1, ClockTypes DEF Age
  <2>3. CASE at = "starting"
    <3>1. since[c] = 0 /\ ~hasRun[c]
      BY <2>3 DEF ClockOK, Started
    <3> QED BY <1>1, <2>1, <2>2, <3>1 DEF Ahead
  <2>4. CASE at = "frame" /\ hasRun[c]
    <3>1. since[c] - frameAge \in 0 .. Period[c]
      BY <2>1, <2>4 DEF AgeOK, Passed, Age, Started
    <3>2. since[c] \in 0 .. Period[c] + MaxFrame
      BY <2>2, <3>1
    <3> QED BY <1>1, <2>1, <2>2, <2>4, <3>2 DEF Ahead
  <2>5. CASE at = "frame" /\ ~hasRun[c]
    <3>1. \/ since[c] - frameAge <= 0
          \/ Currenttime <= Period[c] /\ since[c] - frameAge <= MaxFrame + Currenttime
      BY <2>1, <2>5 DEF AgeOK, Passed, Age, Started
    <3>2. CASE since[c] - frameAge <= 0
      <4>1. since[c] <= MaxFrame
        BY <2>2, <3>2
      <4> QED BY <1>1, <2>1, <2>2, <2>5, <4>1 DEF Ahead
    <3>3. CASE Currenttime <= Period[c] /\ since[c] - frameAge <= MaxFrame + Currenttime
      <4>1. Currenttime \in Nat /\ clock \in Int /\ clock \in Time
        BY ClockTypes
      <4>2. Same(Currenttime + frameAge, clock)
        <5>1. Same(Currenttime, clock - frameAge)
          BY <2>5 DEF ClockOK, Started
        <5>2. Same(Currenttime + frameAge, (clock - frameAge) + frameAge)
          <6>1. Currenttime \in Int /\ frameAge \in Int /\ clock - frameAge \in Int
            BY <2>2, <4>1
          <6> QED BY <5>1, <6>1, SameShift
        <5>3. (clock - frameAge) + frameAge = clock
          BY <2>2, <4>1
        <5> QED BY <5>2, <5>3
      <4>3. Currenttime + frameAge \in Time
        BY <2>2, <3>3, <4>1 DEF Time
      <4>4. clock = Currenttime + frameAge
        BY <4>1, <4>2, <4>3, SameEqual
      <4>5. clock <= Period[c] + MaxFrame /\ since[c] <= MaxFrame + clock
        BY <2>2, <3>3, <4>1, <4>4
      <4> QED BY <1>1, <2>1, <2>2, <2>5, <4>5 DEF Ahead
    <3> QED BY <3>1, <3>2, <3>3
  <2> QED BY <1>1, <2>3, <2>4, <2>5
<1> QED BY <1>1, <1>2, <1>3, <1>4 DEF AgeOK

(* A task is run or passed over, and no other task is affected.            *)
LEMMA VisitStep ==
  ASSUME TaskInv, RunTask \/ SkipTask
  PROVE  TaskInv'
<1> USE Constants DEF TaskInv
<1>1. /\ at = "tasks" /\ Index \in Entries /\ Index' = Index + 1
      /\ UNCHANGED <<Tasklist, Initialtasks, Initializing, doTerminate, Threadsafe, adding, calls, clock, at,
                     Currenttime, frameAge>>
  BY DEF RunTask, SkipTask, tasks, startup, adders
<1>2. PICK c \in Callbacks : c = Recurringtasks[Index].Callback
  BY <1>1, EntryTypes
<1>3. /\ c \in Tasklist /\ since[c] \in Nat /\ frameAge \in 0 .. MaxFrame /\ Period[c] \in Nat
      /\ Ahead(c) /\ Currenttime \in Nat /\ Currenttime \in Time
  BY <1>1, <1>2, EntryTypes, ClockTypes DEF AgeOK, Started, TypeOK
<1>4. CASE SkipTask
  <2>1. UNCHANGED <<Recurringtasks, since, hasRun>> /\ ~Due(Recurringtasks[Index])
    BY <1>4 DEF SkipTask, tasks, history
  <2>2. Passed(c)
    <3>1. IF hasRun[c] THEN Age(c) <= Period[c] ELSE Currenttime <= Period[c]
      <4>1. Index >= Index /\ Age(c) \in Int
        BY <1>3 DEF Age, TypeOK
      <4> QED BY <1>1, <1>2, <1>3, <2>1, <4>1, DueIsAge
    <3>2. Age(c) \in Int
      BY <1>3 DEF Age
    <3> QED BY <1>3, <3>1, <3>2 DEF Ahead, Passed
  <2>3. TypeOK' /\ LockOK' /\ TasksOK' /\ ClockOK' /\ Entries' = Entries
    <3>1. Index' \in Nat
      BY <1>1 DEF TypeOK
    <3>2. TypeOK'
      BY <1>1, <2>1, <3>1 DEF TypeOK, Taskinfo
    <3>3. LockOK' /\ Entries' = Entries /\ TasksOK'
      BY <1>1, <2>1 DEF LockOK, TasksOK, Entries
    <3>4. ClockOK'
      BY <1>1, <2>1 DEF ClockOK, Dated, Entries, Started
    <3> QED BY <3>2, <3>3, <3>4
  <2>4. AgeOK'
    <3>1. \A i \in Entries : /\ Ahead(Recurringtasks[i].Callback)' <=> Ahead(Recurringtasks[i].Callback)
                             /\ Passed(Recurringtasks[i].Callback)' <=> Passed(Recurringtasks[i].Callback)
      BY <1>1, <2>1 DEF Ahead, Passed, Age
    <3>2. \A i \in Entries : i \in Int /\ (~(i >= Index + 1) <=> (~(i >= Index) \/ i = Index))
                             /\ (i >= Index + 1 => i >= Index)
      BY <1>1 DEF Entries, TypeOK
    <3> QED BY <1>1, <1>2, <2>1, <2>2, <2>3, <3>1, <3>2 DEF AgeOK, Started
  <2> QED BY <2>3, <2>4
<1>5. CASE RunTask
  <2>0. PICK n \in Entries : n = Index
    BY <1>1
  <2>1. /\ Recurringtasks' = [Recurringtasks EXCEPT ![n].LastMS = Currenttime]
        /\ since' = [since EXCEPT ![c] = frameAge] /\ hasRun' = [hasRun EXCEPT ![c] = TRUE]
    BY <1>2, <1>5, <2>0 DEF RunTask
  <2>2. /\ Entries' = Entries /\ Recurringtasks' \in Seq(Taskinfo)
        /\ Recurringtasks'[n].Callback = c /\ Recurringtasks'[n].PeriodMS = Recurringtasks[n].PeriodMS
        /\ Recurringtasks'[n].LastMS = Currenttime
        /\ \A i \in Entries : i # n => Recurringtasks'[i] = Recurringtasks[i]
    <3>1. Recurringtasks \in Seq(Taskinfo) /\ Entries = DOMAIN Recurringtasks
      BY DEF TypeOK, Entries
    <3>2. \A i \in Entries : Recurringtasks[i] \in Taskinfo
      BY EntryTypes
    <3>3. [Recurringtasks[n] EXCEPT !.LastMS = Currenttime] \in Taskinfo
      BY <1>3, <3>2 DEF Taskinfo
    <3>4. Recurringtasks' = [Recurringtasks EXCEPT ![n] = [Recurringtasks[n] EXCEPT !.LastMS = Currenttime]]
      BY <2>1
    <3>5. Recurringtasks' \in Seq(Taskinfo) /\ Entries' = Entries
      BY <3>1, <3>3, <3>4 DEF Entries
    <3>6. /\ Recurringtasks'[n] = [Recurringtasks[n] EXCEPT !.LastMS = Currenttime]
          /\ \A i \in Entries : i # n => Recurringtasks'[i] = Recurringtasks[i]
      BY <3>1, <3>4
    <3>7. /\ Recurringtasks'[n].Callback = Recurringtasks[n].Callback
          /\ Recurringtasks'[n].PeriodMS = Recurringtasks[n].PeriodMS
          /\ Recurringtasks'[n].LastMS = Currenttime
      BY <3>2, <3>6 DEF Taskinfo
    <3> QED BY <1>2, <2>0, <3>5, <3>6, <3>7
  <2>3. /\ since' \in [Callbacks -> Nat] /\ hasRun' \in [Callbacks -> BOOLEAN]
        /\ since'[c] = frameAge /\ hasRun'[c]
        /\ \A d \in Callbacks : d # c => since'[d] = since[d] /\ hasRun'[d] = hasRun[d]
    BY <1>3, <2>1 DEF TypeOK
  <2>4. TypeOK' /\ LockOK'
    <3>1. Index' \in Nat
      BY <1>1 DEF TypeOK
    <3>2. TypeOK'
      BY <1>1, <2>2, <2>3, <3>1 DEF TypeOK, Taskinfo
    <3>3. LockOK'
      BY <1>1 DEF LockOK
    <3> QED BY <3>2, <3>3
  <2>5. \A i \in Entries : /\ Recurringtasks'[i].Callback = Recurringtasks[i].Callback
                           /\ Recurringtasks'[i].PeriodMS = Recurringtasks[i].PeriodMS
    BY <1>2, <2>0, <2>2
  <2>6. TasksOK'
    <3>1. \A i \in Entries : /\ Recurringtasks'[i].Callback \in Tasklist'
                             /\ Recurringtasks'[i].PeriodMS = Period[Recurringtasks'[i].Callback]
      BY <1>1, <2>5 DEF TasksOK
    <3>2. \A i, j \in Entries : Recurringtasks'[i].Callback = Recurringtasks'[j].Callback => i = j
      BY <2>5 DEF TasksOK
    <3>3. \A d \in Tasklist' : \E i \in Entries : Recurringtasks'[i].Callback = d
      BY <1>1, <2>5 DEF TasksOK
    <3> QED BY <2>2, <3>1, <3>2, <3>3 DEF TasksOK
  <2>7. ASSUME NEW i \in Entries, i # n
        PROVE  \E d \in Callbacks : d # c /\ d = Recurringtasks[i].Callback /\ Recurringtasks'[i] = Recurringtasks[i]
    BY <1>2, <2>0, <2>2, <2>7, EntryTypes DEF TasksOK
  <2>8. ClockOK'
    <3>1. Dated(Recurringtasks[n])'
      <4>1. Same(Currenttime, clock - frameAge)
        BY <1>1 DEF ClockOK, Started
      <4> QED BY <1>1, <2>2, <2>3, <4>1 DEF Dated
    <3>2. ASSUME NEW i \in Entries, i # n PROVE Dated(Recurringtasks[i])'
      <4>1. PICK d \in Callbacks : d # c /\ d = Recurringtasks[i].Callback /\ Recurringtasks'[i] = Recurringtasks[i]
        BY <2>7, <3>2
      <4>2. Dated(Recurringtasks[i])
        BY DEF ClockOK
      <4> QED BY <1>1, <2>3, <4>1, <4>2 DEF Dated
    <3>3. ASSUME NEW d \in Callbacks, d \notin Tasklist PROVE since'[d] = 0 /\ ~hasRun'[d]
      BY <1>3, <2>3, <3>3 DEF ClockOK
    <3>4. Started /\ Started' /\ Same(Currenttime, clock - frameAge)'
      BY <1>1 DEF ClockOK, Started
    <3> QED BY <1>1, <2>2, <3>1, <3>2, <3>3, <3>4 DEF ClockOK
  <2>9. AgeOK'
    <3>1. Passed(c)'
      BY <1>1, <1>3, <2>3 DEF Passed, Age
    <3>2. n \in Int /\ ~(n >= Index')
      BY <1>1, <2>0 DEF Entries, TypeOK
    <3>3. ASSUME NEW i \in Entries
          PROVE  (IF at = "lock" \/ (at = "tasks" /\ i >= Index) THEN Ahead(Recurringtasks[i].Callback)
                  ELSE Passed(Recurringtasks[i].Callback))'
      <4>1. CASE i = n
        BY <1>1, <2>2, <3>1, <3>2, <4>1
      <4>2. CASE i # n
        <5>1. PICK d \in Callbacks : d # c /\ d = Recurringtasks[i].Callback /\ Recurringtasks'[i] = Recurringtasks[i]
          BY <2>7, <4>2
        <5>2. (Ahead(d)' <=> Ahead(d)) /\ (Passed(d)' <=> Passed(d))
          BY <1>1, <2>3, <5>1 DEF Ahead, Passed, Age
        <5>3. i >= Index' <=> i >= Index
          BY <1>1, <2>0, <4>2 DEF Entries, TypeOK
        <5> QED BY <1>1, <5>1, <5>2, <5>3 DEF AgeOK, Started
      <4> QED BY <4>1, <4>2
    <3> QED BY <2>2, <3>3 DEF AgeOK
  <2> QED BY <2>4, <2>6, <2>8, <2>9
<1> QED BY <1>4, <1>5

(* The loop is entered ahead of all tasks and left behind them.            *)
LEMMA LoopSteps ==
  ASSUME TaskInv, LockTasks \/ UnlockTasks \/ CheckTerminate \/ EndSleep
  PROVE  TaskInv'
<1> USE Constants DEF TaskInv
<1>1. /\ UNCHANGED <<Recurringtasks, Tasklist, Initialtasks, Initializing, doTerminate, adding, calls, clock,
                     Currenttime, frameAge, since, hasRun>>
      /\ Entries' = Entries
  BY DEF LockTasks, UnlockTasks, CheckTerminate, EndSleep, tasks, startup, adders, history, Entries
<1>2. \A c \in Callbacks : (Ahead(c)' <=> Ahead(c)) /\ (Passed(c)' <=> Passed(c))
  BY <1>1 DEF Ahead, Passed, Age
<1>3. \A i \in Entries : i \in Nat /\ i >= 1 /\ i <= Len(Recurringtasks) /\ Recurringtasks[i].Callback \in Callbacks
  <2>1. Len(Recurringtasks) \in Nat
    BY DEF TypeOK
  <2> QED BY <2>1, EntryTypes DEF Entries
<1>4. /\ at \notin {"absent", "starting"} /\ at' \in {"tasks", "check", "terminated", "sleep", "frame"}
      /\ at' = "tasks" => Threadsafe' = Background
      /\ Threadsafe' \in {Background, Nobody, Threadsafe}
      /\ Index' \in Nat /\ (at' = "tasks" => at = "lock" /\ Index' = 1)
      /\ at # "lock" => (at = "tasks" => Index > Len(Recurringtasks)) /\ at' # "tasks"
      /\ at = "lock" => at' = "tasks"
  BY DEF LockTasks, UnlockTasks, CheckTerminate, EndSleep, TypeOK
<1>5. TypeOK'
  BY <1>1, <1>4 DEF TypeOK, Taskinfo
<1>6. LockOK'
  BY <1>1, <1>4 DEF LockOK
<1>7. TasksOK' /\ ClockOK'
  BY <1>1, <1>4 DEF TasksOK, ClockOK, Dated, Started
<1>8. AgeOK'
  <2>1. CASE at = "lock"
    <3>1. \A i \in Entries : Ahead(Recurringtasks[i].Callback) /\ i >= Index'
      BY <1>3, <1>4, <2>1 DEF AgeOK, Started
    <3> QED BY <1>1, <1>2, <1>3, <1>4, <2>1, <3>1 DEF AgeOK
  <2>2. CASE at # "lock"
    <3>1. \A i \in Entries : Passed(Recurringtasks[i].Callback)
      <4>1. at = "tasks" => \A i \in Entries : ~(i >= Index)
        BY <1>3, <1>4, <2>2 DEF TypeOK
      <4> QED BY <1>4, <2>2, <4>1 DEF AgeOK, Started
    <3>2. at' # "lock" /\ at' # "tasks"
      BY <1>4, <2>2
    <3> QED BY <1>1, <1>2, <1>3, <3>1, <3>2 DEF AgeOK
  <2> QED BY <2>1, <2>2
<1> QED BY <1>5, <1>6, <1>7, <1>8

-----------------------------------------------------------------------------
(* Types, the lock, the list of tasks and the ages of what is kept of the  *)
(* clock, at any time (Backgroundtasks.cpp:34-118).                        *)
THEOREM Invariance == Spec => []TaskInv
<1>1. Init => TaskInv
  <2> SUFFICES ASSUME Init PROVE TaskInv
    OBVIOUS
  <2>1. TypeOK
    <3>1. 0 \in Time /\ 0 \in 0 .. MaxFrame /\ 0 \in 0 .. MaxCalls
      BY Constants DEF Time
    <3>2. Recurringtasks \in Seq(Taskinfo) /\ Initialtasks \in Seq(Startups \union {Startthread})
      BY DEF Init
    <3>3. adding \in [Clients -> Callbacks \union {Nobody}] /\ calls \in [Clients -> 0 .. MaxCalls]
      BY <3>1 DEF Init
    <3> QED BY <3>1, <3>2, <3>3 DEF Init, TypeOK
  <2>2. LockOK
    BY Constants DEF Init, LockOK
  <2>3. Entries = {} /\ ~Started
    BY DEF Init, Entries, Started
  <2>4. TasksOK /\ ClockOK /\ AgeOK
    BY <2>3 DEF Init, TasksOK, ClockOK, AgeOK
  <2> QED BY <2>1, <2>2, <2>4 DEF TaskInv
<1>2. TaskInv /\ [Next]_vars => TaskInv'
  <2> SUFFICES ASSUME TaskInv, [Next]_vars PROVE TaskInv'
    OBVIOUS
  <2>1. CASE Tick
    BY <2>1, TickStep
  <2>2. CASE \/ \E t \in Clients, c \in Callbacks : addPeriodictask(t, c)
             \/ \E t \in Clients : AddLock(t)
             \/ \E s \in Startups \union {Startthread} : addStartuptask(s)
             \/ StartInitialize \/ EndInitialize \/ Terminate
    BY <2>2, ClientSteps
  <2>3. CASE \E t \in Clients : AddTask(t)
    BY <2>3, AddTaskStep
  <2>4. CASE RunStartup
    BY <2>4, RunStartupStep
  <2>5. CASE StartFrame
    BY <2>5, StartFrameStep
  <2>6. CASE RunTask \/ SkipTask
    BY <2>6, VisitStep
  <2>7. CASE LockTasks \/ UnlockTasks \/ CheckTerminate \/ EndSleep
    BY <2>7, LoopSteps
  <2>8. CASE UNCHANGED vars
    <3>1. UNCHANGED <<tasks, clock, frame, history>>
      BY <2>8 DEF vars, tasks, frame, history
    <3>2. TasksOK' /\ ClockOK' /\ AgeOK'
      BY <3>1, Undisturbed DEF TaskInv
    <3>3. TypeOK' /\ LockOK'
      BY <2>8 DEF vars, TaskInv, TypeOK, LockOK, Taskinfo
    <3> QED BY <3>2, <3>3 DEF TaskInv
  <2> QED
    BY <2>1, <2>2, <2>3, <2>4, <2>5, <2>6, <2>7, <2>8 DEF Next, Backgroundthread
<1> QED
  BY <1>1, <1>2, PTL DEF Spec

(* What a variable holds has its type; in particular LastMS and            *)
(* Currenttime are values of the clock (Backgroundtasks.cpp:16-31).        *)
THEOREM TypeCorrect == Spec => []TypeOK
<1>1. TaskInv => TypeOK
  BY DEF TaskInv
<1> QED
  BY <1>1, Invariance, PTL

(* No task is late by more than the frames it may narrowly miss, wherever  *)
(* the clock stands and rolls over (Backgroundtasks.cpp:42 and 92-98).     *)
THEOREM TasksArePunctual == Spec => []Punctual
<1>1. TaskInv => Punctual
  <2> SUFFICES ASSUME TaskInv, NEW c \in Callbacks, Alive, c \in Tasklist
               PROVE  since[c] <= Period[c] + (IF hasRun[c] THEN 2 ELSE 3) * MaxFrame
    BY DEF Punctual
  <2> USE Constants
  <2>1. /\ since[c] \in Nat /\ frameAge \in 0 .. MaxFrame /\ Period[c] \in Nat /\ Currenttime \in Nat
        /\ MaxFrame \in Nat /\ hasRun[c] \in BOOLEAN
    BY ClockTypes DEF TaskInv
  <2>2. CASE ~Started
    <3>1. since[c] = 0
      BY <2>2 DEF TaskInv, ClockOK
    <3> QED BY <2>1, <3>1
  <2>3. CASE Started
    <3>1. PICK i \in Entries : Recurringtasks[i].Callback = c
      BY DEF TaskInv, TasksOK
    <3>2. Ahead(c) \/ Passed(c)
      BY <2>3, <3>1 DEF TaskInv, AgeOK
    <3>3. CASE hasRun[c]
      <4>1. since[c] - frameAge <= Period[c] + MaxFrame
        BY <2>1, <3>2, <3>3 DEF Ahead, Passed, Age
      <4> QED BY <2>1, <3>3, <4>1
    <3>4. CASE ~hasRun[c]
      <4>1. since[c] - frameAge <= MaxFrame \/ since[c] - frameAge <= MaxFrame + (Period[c] + MaxFrame)
        BY <2>1, <3>2, <3>4 DEF Ahead, Passed, Age
      <4> QED BY <2>1, <3>4, <4>1
    <3> QED BY <3>3, <3>4
  <2> QED BY <2>2, <2>3
<1> QED
  BY <1>1, Invariance, PTL

(* No task runs again within its period (Backgroundtasks.cpp:92-98).       *)
THEOREM TasksAreNeverEarly == Spec => NeverEarly
<1>1. TaskInv /\ [Next]_vars => [\A c \in Callbacks : Runs(c) /\ hasRun[c] => since[c] - frameAge > Period[c]]_vars
  <2> SUFFICES ASSUME TaskInv, NEW c \in Callbacks, RunTask, Recurringtasks[Index].Callback = c, hasRun[c]
               PROVE  since[c] - frameAge > Period[c]
    BY DEF Runs
  <2>1. at = "tasks" /\ Index \in Entries /\ Due(Recurringtasks[Index]) /\ Index >= Index
    BY DEF RunTask, TaskInv, TypeOK
  <2> QED BY <2>1, DueIsAge DEF Age
<1> QED
  BY <1>1, Invariance, PTL DEF Spec, NeverEarly

(* The vector does not grow under the loop, because whoever adds to it has *)
(* the lock (Backgroundtasks.cpp:34-44 and 87-101).                        *)
THEOREM ListIsStable == Spec => NoChangeWhileIterating
<1>1. TaskInv /\ [Next]_vars => [at = "tasks" => Len(Recurringtasks') = Len(Recurringtasks)]_vars
  <2> SUFFICES ASSUME TaskInv, Next, at = "tasks" PROVE Len(Recurringtasks') = Len(Recurringtasks)
    OBVIOUS
  <2>1. ~\E t \in Clients : AddTask(t)
    BY Constants DEF TaskInv, LockOK, AddTask
  <2>2. CASE RunTask
    <3>1. Recurringtasks \in Seq(Taskinfo)
      BY DEF TaskInv, TypeOK
    <3> QED BY <2>2, <3>1 DEF RunTask
  <2>3. CASE UNCHANGED Recurringtasks
    BY <2>3
  <2> QED
    BY <2>1, <2>2, <2>3 DEF Next, Backgroundthread, Tick, Terminate, addPeriodictask, AddLock, addStartuptask,
      StartInitialize, RunStartup, EndInitialize, StartFrame, LockTasks, SkipTask, UnlockTasks, CheckTerminate,
      EndSleep, tasks
<1> QED
  BY <1>1, Invariance, PTL DEF Spec, NoChangeWhileIterating
=============================================================================
