---------------------------- MODULE Parts_proofs ----------------------------
(***************************************************************************)
(* What each of the smaller parts promises, for every value of the         *)
(* constants: one section with its invariant for each part. In the end all *)
(* of it holds for the specification in which they are checked together.   *)
(***************************************************************************)
EXTENDS Parts, LANNetworking_proofs, Encodings_proofs, FiniteSetTheorems, SequenceTheorems

-----------------------------------------------------------------------------
(* The debug mutex.                                                        *)

Steps == {"out", "check", "recheck", "wait", "own", "in", "clear", "release"}

(* A thread holds the mutex from "own" to "release"; it is named as the    *)
(* owner after "own" and before "release", and asks again only with both.  *)
Has(t) == locking[t] \in {"own", "in", "recheck", "clear", "release"}
Named(t) == locking[t] \in {"in", "recheck", "clear"}

(* The owner is who is named, so no unlock is by another, and an alarm is  *)
(* raised by a thread that asks again.                                     *)
LockInv ==
  /\ locking \in [Callers -> Steps]
  /\ \A t \in Callers : Has(t) => Mutex_ = t
  /\ \A t \in Callers : Named(t) <=> Currentowner = t
  /\ Currentowner \in Callers \union {Nothing}
  /\ broken = "recursive" => \E t \in Callers : locking[t] = "recheck"
  /\ broken # "foreign"

(* By the steps of lock and unlock, each of which reads or writes once.    *)
LEMMA LockInvariance == Lock!Spec => []LockInv
<1> USE PartsAssumption DEF Lock!NobodyAssumption, Lock!Goto, Lock!Running, Lock!Break, Steps, Has, Named
<1>1. Lock!Init => LockInv
  BY DEF Lock!Init, LockInv
<1>2. LockInv /\ [Lock!Next]_(Lock!vars) => LockInv'
  <2> SUFFICES ASSUME LockInv, [Lock!Next]_(Lock!vars) PROVE LockInv'
    OBVIOUS
  <2> USE DEF LockInv
  <2>1. ASSUME NEW t \in Callers, Lock!Call(t) PROVE LockInv'
    BY <2>1 DEF Lock!Call
  <2>2. ASSUME NEW t \in Callers, Lock!Check(t) PROVE LockInv'
    BY <2>2 DEF Lock!Check
  <2>3. ASSUME NEW t \in Callers, Lock!TryLock(t) PROVE LockInv'
    BY <2>3 DEF Lock!TryLock
  <2>4. ASSUME NEW t \in Callers, Lock!Timeout(t) PROVE LockInv'
    BY <2>4 DEF Lock!Timeout
  <2>5. ASSUME NEW t \in Callers, Lock!Own(t) PROVE LockInv'
    BY <2>5 DEF Lock!Own
  <2>6. ASSUME NEW t \in Callers, Lock!Unlock(t) PROVE LockInv'
    BY <2>6 DEF Lock!Unlock
  <2>7. ASSUME NEW t \in Callers, Lock!Release(t) PROVE LockInv'
    BY <2>7 DEF Lock!Release
  <2>8. CASE UNCHANGED Lock!vars
    BY <2>8 DEF Lock!vars
  <2> QED
    BY <2>1, <2>2, <2>3, <2>4, <2>5, <2>6, <2>7, <2>8 DEF Lock!Next
<1> QED
  BY <1>1, <1>2, PTL DEF Lock!Spec

(* A thread that is inside is the owner and has the mutex, whatever others *)
(* read or write meanwhile; "recursive" is said only of a thread that asks *)
(* again, and "foreign" never (Debugmutex.hpp:36-39 and 50-53).            *)
THEOREM Alarms == Lock!Spec => []TrueAlarms
<1>1. LockInv => TrueAlarms
  BY DEF LockInv, TrueAlarms, Lock!TrueAlarms, Has, Named
<1> QED
  BY <1>1, LockInvariance, PTL

(* Every step of the debug mutex is a step of a mutex on Currentowner, or  *)
(* none: it is acquired when nobody has it and released by its owner       *)
(* (Debugmutex.hpp:34-57).                                                 *)
THEOREM Refinement == Lock!Spec => ImplementsMutex
<1> USE PartsAssumption DEF Lock!NobodyAssumption, Lock!Goto, Lock!Running, Lock!Break, Steps, Has, Named
<1>1. Lock!Init => Lock!Owner!Init
  BY DEF Lock!Init, Lock!Owner!Init
<1>2. LockInv /\ [Lock!Next]_(Lock!vars) => [Lock!Owner!Next]_Currentowner
  <2> SUFFICES ASSUME LockInv, [Lock!Next]_(Lock!vars), Currentowner' # Currentowner PROVE Lock!Owner!Next
    OBVIOUS
  <2> USE DEF LockInv, Lock!Owner!Next, Lock!Owner!Acquire, Lock!Owner!Release
  <2>1. ASSUME NEW t \in Callers, Lock!Own(t) PROVE Lock!Owner!Next
    BY <2>1 DEF Lock!Own
  <2>2. ASSUME NEW t \in Callers, Lock!Release(t) PROVE Lock!Owner!Next
    BY <2>2 DEF Lock!Release
  <2> QED
    BY <2>1, <2>2 DEF Lock!Next, Lock!Call, Lock!Check, Lock!TryLock, Lock!Timeout, Lock!Unlock, Lock!vars
<1> QED
  BY <1>1, <1>2, LockInvariance, PTL DEF Lock!Spec, ImplementsMutex, Lock!ImplementsMutex, Lock!Owner!Spec

-----------------------------------------------------------------------------
(* Callbacks on addresses.                                                 *)

(* Who holds the spinlock has something to register or is Poll, whose      *)
(* index is that of a watched address or one more; a callback runs only    *)
(* inside of Poll, for a watched address.                                  *)
WaitInv ==
  /\ Source \in Seq(Addresses)
  /\ asking \in [Threads -> Addresses \union {Nothing}]
  /\ Threadguard \in Threads => asking[Threadguard] # Nothing
  /\ Threadguard \in Threads \union {Background, Nothing}
  /\ watched \in Nat /\ (Threadguard = Background => watched \in 1 .. Len(Source) + 1)
  /\ calling => Threadguard = Background /\ watched <= Len(Source)

(* Every step of waiting on an address keeps its invariant.                *)
LEMMA WaitStep == ASSUME WaitInv, [Wait!Next]_(Wait!vars) PROVE WaitInv'
<1> USE PartsAssumption DEF WaitInv, Wait!WaitAssumption, Wait!Polling
<1>1. ASSUME NEW a \in Addresses, Wait!Write(a) PROVE WaitInv'
  BY <1>1 DEF Wait!Write
<1>2. ASSUME NEW t \in Threads, NEW a \in Addresses, Wait!onMemorywrite(t, a) PROVE WaitInv'
  BY <1>2 DEF Wait!onMemorywrite
<1>3. ASSUME NEW t \in Threads, Wait!Lock(t) PROVE WaitInv'
  BY <1>3 DEF Wait!Lock
<1>4. ASSUME NEW t \in Threads, Wait!Register(t) PROVE WaitInv'
  <2>1. asking[t] \in Addresses /\ Source' = Append(Source, asking[t]) /\ ~calling
    BY <1>4 DEF Wait!Register
  <2>2. Source' \in Seq(Addresses) /\ Len(Source') = Len(Source) + 1
    BY <2>1
  <2> QED BY <1>4, <2>1, <2>2 DEF Wait!Register
<1>5. CASE Wait!StartPoll
  BY <1>5 DEF Wait!StartPoll
<1>6. CASE Wait!Compare
  <2>1. watched \in 1 .. Len(Source)
    BY <1>6 DEF Wait!Compare
  <2> QED BY <1>6, <2>1 DEF Wait!Compare
<1>7. CASE Wait!CallbackReturns
  BY <1>7 DEF Wait!CallbackReturns
<1>8. CASE Wait!EndPoll
  BY <1>8 DEF Wait!EndPoll
<1>9. CASE UNCHANGED Wait!vars
  BY <1>9 DEF Wait!vars
<1> QED BY <1>1, <1>2, <1>3, <1>4, <1>5, <1>6, <1>7, <1>8, <1>9 DEF Wait!Next, Wait!Poll

(* So its invariant holds in every state.                                  *)
LEMMA WaitInvariance == Wait!Spec => []WaitInv
<1>1. Wait!Init => WaitInv
  BY PartsAssumption DEF Wait!Init, WaitInv, Wait!WaitAssumption
<1> QED BY <1>1, WaitStep, PTL DEF Wait!Spec

(* Poll's index, its list, and what was asked for.                         *)
CallbackIsWatched == calling => watched \in DOMAIN Source /\ Source[watched] \in Addresses
SourceIsStable == [][Threadguard = Background => Source' = Source]_(Wait!vars)
AskedIsKept == [][\A a \in Addresses : Wait!Asked(a) => Wait!Asked(a)']_(Wait!vars)

(* The callback that Poll calls is that of an address it watches, and the  *)
(* list does not change while it runs: Poll iterates what onMemorywrite    *)
(* appends to, under the spinlock (Waitonaddress.cpp:18-47).               *)
THEOREM CallbacksAreWatched == Wait!Spec => []CallbackIsWatched /\ SourceIsStable
<1>1. WaitInv => CallbackIsWatched
  BY DEF WaitInv, CallbackIsWatched
<1>2. WaitInv /\ [Wait!Next]_(Wait!vars) => [Threadguard = Background => Source' = Source]_(Wait!vars)
  BY PartsAssumption
     DEF WaitInv, Wait!WaitAssumption, Wait!Next, Wait!Poll, Wait!vars, Wait!Write, Wait!onMemorywrite, Wait!Lock,
         Wait!Register, Wait!StartPoll, Wait!Compare, Wait!CallbackReturns, Wait!EndPoll
<1> QED BY <1>1, <1>2, WaitInvariance, PTL DEF Wait!Spec, SourceIsStable

(* What was given to onMemorywrite is never forgotten: it waits for the    *)
(* spinlock or is watched from then on. This is what WriteNoticed has to   *)
(* rest on (Waitonaddress.cpp:25-30).                                      *)
THEOREM NothingAskedIsLost == Wait!Spec => AskedIsKept
<1>1. ASSUME WaitInv, [Wait!Next]_(Wait!vars), NEW a \in Addresses, Wait!Asked(a) PROVE Wait!Asked(a)'
  <2> USE PartsAssumption DEF WaitInv, Wait!WaitAssumption, Wait!Asked
  <2>1. ASSUME NEW t \in Threads, NEW b \in Addresses, Wait!onMemorywrite(t, b) PROVE Wait!Asked(a)'
    BY <1>1, <2>1 DEF Wait!onMemorywrite
  <2>2. ASSUME NEW t \in Threads, Wait!Register(t) PROVE Wait!Asked(a)'
    <3>1. Source' = Append(Source, asking[t]) /\ asking' = [asking EXCEPT ![t] = Nothing]
      BY <2>2 DEF Wait!Register
    <3>2. Source'[Len(Source) + 1] = asking[t] /\ \A n \in DOMAIN Source : n \in DOMAIN Source' /\ Source'[n] = Source[n]
      BY <1>1, <3>1
    <3>3. Len(Source) + 1 \in DOMAIN Source'
      BY <1>1, <3>1
    <3>4. CASE asking[t] = a
      BY <3>2, <3>3, <3>4
    <3>5. CASE asking[t] # a
      <4>1. ASSUME NEW u \in Threads, asking[u] = a PROVE asking'[u] = a
        BY <1>1, <3>1, <3>5, <4>1
      <4> QED BY <1>1, <3>2, <4>1
    <3> QED BY <3>4, <3>5
  <2>3. CASE UNCHANGED <<Source, asking>>
    BY <1>1, <2>3
  <2> QED BY <1>1, <2>1, <2>2, <2>3
      DEF Wait!Next, Wait!Poll, Wait!vars, Wait!Write, Wait!Lock, Wait!StartPoll, Wait!Compare, Wait!CallbackReturns, Wait!EndPoll
<1>2. WaitInv /\ [Wait!Next]_(Wait!vars) => [\A a \in Addresses : Wait!Asked(a) => Wait!Asked(a)']_(Wait!vars)
  BY <1>1
<1> QED BY <1>2, WaitInvariance, PTL DEF Wait!Spec, AskedIsKept

-----------------------------------------------------------------------------
(* The console.                                                            *)

(* The reader is behind in IDs, or shows what there is, or looks while a   *)
(* message is being added; IDs it has seen or read are no newer than the   *)
(* last one.                                                               *)
LogInv ==
  /\ LastmessageID \in Nat /\ seenID \in Nat /\ newID \in Nat \union {Log!None}
  /\ seenID <= LastmessageID /\ newID <= LastmessageID
  /\ \/ shown = Log!getMessages
     \/ seenID < LastmessageID
     \/ added # {}

(* Only AddLines changes what is shown, and only Count the last ID.        *)
LEMMA LogInvariance == Log!Spec => []LogInv
<1>1. Log!Init => LogInv
  <2>1. SubSeq(<< >>, 1, 0) = << >> /\ Len(<< >>) = 0
    OBVIOUS
  <2>2. Log!Init => Log!getMessages = << >>
    BY <2>1, PartsAssumption DEF Log!ConsoleAssumption, Log!Init, Log!getMessages
  <2> QED BY <2>2 DEF Log!Init, LogInv, Log!None
<1>2. LogInv /\ [Log!Next]_(Log!vars) => LogInv'
  <2> SUFFICES ASSUME LogInv, [Log!Next]_(Log!vars) PROVE LogInv'
    OBVIOUS
  <2> USE DEF LogInv, Log!None
  <2>1. ASSUME NEW t \in Threads, NEW count \in Lines, Log!addMessage(t, count) PROVE LogInv'
    BY <2>1 DEF Log!addMessage, Log!getMessages, Log!reader
  <2>2. ASSUME NEW t \in Threads, Log!Step(t) PROVE LogInv'
    BY <2>2 DEF Log!Step, Log!Count, Log!getMessages, Log!reader
  <2>3. ASSUME NEW t \in Threads, NEW c \in Names, NEW L \in BOOLEAN, Log!execCommand(t, c, L) PROVE LogInv'
    BY <2>3 DEF Log!execCommand, Log!getMessages, Log!reader
  <2>4. ASSUME NEW n \in Names, NEW Callback \in Lines, Log!addCommand(n, Callback) PROVE LogInv'
    BY <2>4 DEF Log!addCommand, Log!getMessages, Log!reader
  <2>5. CASE Log!LookAtID
    BY <2>5 DEF Log!LookAtID, Log!getMessages
  <2>6. CASE Log!Show
    BY <2>6 DEF Log!Show, Log!getMessages
  <2>7. CASE UNCHANGED Log!vars
    BY <2>7 DEF Log!vars, Log!getMessages, Log!reader
  <2> QED
    BY <2>1, <2>2, <2>3, <2>4, <2>5, <2>6, <2>7 DEF Log!Next
<1> QED
  BY <1>1, <1>2, PTL DEF Log!Spec

(* A reader that has seen the last ID shows what getMessages gives of the  *)
(* present log, which is its oldest lines where it is longer than the      *)
(* reader asks for, unless a message is just being added; for any number   *)
(* of threads and of lines in a message (Console.cpp:26-94).               *)
THEOREM ReaderIsCurrent == Log!Spec => []NothingOverlooked
<1>1. LogInv => NothingOverlooked
  BY DEF LogInv, NothingOverlooked, Log!NothingOverlooked
<1> QED
  BY <1>1, LogInvariance, PTL

-----------------------------------------------------------------------------
(* Prepared statements.                                                    *)

Evaluation == [use : Nat \ {0}, bindings : [1 .. Argcount -> Nat], by : {"caller", "again", "destructor"}]

QueryTypeOK ==
  /\ alive \in BOOLEAN /\ interrupted \in BOOLEAN
  /\ Argcount \in Nat /\ Argument \in Nat /\ given \in 0 .. Argcount
  /\ bindings \in [1 .. Argcount -> Nat]
  /\ RUN \in Nat /\ use \in Nat \ {0}
  /\ evaluations \in Seq(Evaluation)

(* While it lives, a statement that was not interrupted knows how many     *)
(* arguments it got in this use, all of which are of this use; RUN tells   *)
(* whether it was evaluated, and all evaluations are of earlier uses.      *)
CurrentUse ==
  /\ ~interrupted => Argument = given /\ \A k \in 1 .. given : bindings[k] = use
  /\ interrupted => use # 1
  /\ RUN = 0 <=> use = 1
  /\ use = 1 => evaluations = << >>
  /\ \A n \in DOMAIN evaluations : evaluations[n].use < use /\ evaluations[n].by \in {"caller", "again"}

QueryInv == QueryTypeOK /\ (alive => CurrentUse) /\ Query!RunsOnce

(* Nothing is bound, and the first use begins.                             *)
LEMMA QueryStart == ASSUME Query!Init PROVE QueryInv
<1> USE DEF Query!Init, Query!Unbound
<1>1. Argcount \in Nat /\ bindings \in [1 .. Argcount -> Nat]
  BY PartsAssumption DEF Query!StatementAssumption
<1>2. evaluations \in Seq(Evaluation) /\ DOMAIN evaluations = {}
  OBVIOUS
<1>3. QueryTypeOK
  <2>1. alive \in BOOLEAN /\ interrupted \in BOOLEAN
    BY Zenon
  <2>2. Argument \in Nat /\ RUN \in Nat /\ use \in Nat \ {0} /\ given \in 0 .. Argcount
    BY <1>1, SMT
  <2> QED BY <1>1, <1>2, <2>1, <2>2 DEF QueryTypeOK
<1>4. CurrentUse /\ Query!RunsOnce
  BY <1>2 DEF CurrentUse, Query!RunsOnce
<1> QED BY <1>3, <1>4 DEF QueryInv

(* An argument is bound, or refused because the statement was interrupted. *)
LEMMA QueryBind == ASSUME QueryInv, Query!Bind PROVE QueryInv'
<1> USE DEF QueryInv
<1>1. QueryTypeOK'
  <2>1. DOMAIN bindings = 1 .. Argcount /\ Argument + 1 \in Nat /\ given + 1 \in 0 .. Argcount
    BY DEF QueryTypeOK, Query!Bind
  <2>2. bindings' \in [1 .. Argcount -> Nat]
    BY <2>1 DEF QueryTypeOK, Query!Bind, Query!Unbound
  <2> QED BY <2>1, <2>2 DEF QueryTypeOK, Query!Bind, Evaluation
<1>2. CurrentUse'
  <2>1. ASSUME ~interrupted PROVE Argument' = given' /\ \A k \in 1 .. given' : bindings'[k] = use
    BY <2>1 DEF QueryTypeOK, CurrentUse, Query!Bind
  <2> QED BY <2>1 DEF CurrentUse, Query!Bind
<1>3. DOMAIN bindings' = DOMAIN bindings
  BY DEF QueryTypeOK, Query!Bind
<1> QED BY <1>1, <1>2, <1>3 DEF Query!RunsOnce, Query!Bind

(* What is run now has the arguments of this use, whoever starts it, and   *)
(* nothing was run in this use before.                                     *)
LEMMA QueryEvaluate ==
  ASSUME QueryInv, alive, given = Argcount, bindings' = bindings,
         NEW runs \in {<<Query!Run("caller")>>, <<Query!Run("caller"), Query!Run("again")>>,
                   <<Query!Run("destructor")>>},
         Query!Evaluate(runs), runs = <<Query!Run("destructor")>> => use = 1
  PROVE  /\ evaluations' \in Seq(Evaluation)
         /\ RUN' \in {RUN + 1, RUN + 2}
         /\ Len(evaluations') = Len(evaluations) + Len(runs)
         /\ \A k \in DOMAIN evaluations' : evaluations'[k].use <= use
         /\ runs # <<Query!Run("destructor")>> =>
              \A k \in DOMAIN evaluations' : evaluations'[k].by \in {"caller", "again"}
         /\ \A u \in 1 .. use : \E k \in DOMAIN evaluations' : evaluations'[k].use = u
         /\ \A i, j \in DOMAIN evaluations' :
              i < j /\ evaluations'[i].use = evaluations'[j].use =>
                evaluations'[i].by = "caller" /\ evaluations'[j].by = "again"
         /\ ~interrupted => \A i \in DOMAIN evaluations' :
              \A k \in DOMAIN bindings : evaluations'[i].bindings[k] = evaluations'[i].use
         /\ \A i \in DOMAIN evaluations' : evaluations'[i].by = "destructor" => evaluations'[i].use = 1
<1> USE DEF QueryInv
<1> DEFINE C == Query!Run("caller") A == Query!Run("again") D == Query!Run("destructor")
           L == Len(evaluations) n == Len(runs)
<1>0. /\ C \in Evaluation /\ A \in Evaluation /\ D \in Evaluation
      /\ \A r \in {C, A, D} : r.use = use /\ r.bindings = bindings
      /\ C.by = "caller" /\ A.by = "again" /\ D.by = "destructor"
  BY DEF QueryTypeOK, Evaluation, Query!Run
<1>1. evaluations \in Seq(Evaluation) /\ evaluations' = evaluations \o runs /\ RUN' = RUN + n
  BY DEF QueryTypeOK, Query!Evaluate
<1> HIDE DEF C, A, D
<1>2. /\ runs \in Seq(Evaluation) /\ n \in {1, 2} /\ DOMAIN runs = 1 .. n
      /\ \A k \in 1 .. n : runs[k] \in {C, A, D}
      /\ runs # <<D>> => \A k \in 1 .. n : runs[k] \in {C, A}
      /\ (\E k \in 1 .. n : runs[k] = D) => use = 1
      /\ \A k, l \in 1 .. n : k < l => runs[k] = C /\ runs[l] = A
  <2>1. runs \in {<<C>>, <<C, A>>, <<D>>} /\ (runs = <<D>> => use = 1) /\ C # D /\ A # D
    BY <1>0 DEF C, A, D
  <2> HIDE DEF Query!Evaluate
  <2>2. CASE runs = <<C>>
    BY <1>0, <2>1, <2>2
  <2>3. CASE runs = <<C, A>>
    BY <1>0, <2>1, <2>3
  <2>4. CASE runs = <<D>>
    BY <1>0, <2>1, <2>4
  <2> QED BY <2>1, <2>2, <2>3, <2>4
<1>3. /\ evaluations' \in Seq(Evaluation) /\ L \in Nat /\ n \in {1, 2}
      /\ DOMAIN evaluations = 1 .. L /\ DOMAIN evaluations' = 1 .. L + n /\ Len(evaluations') = L + n
      /\ \A k \in 1 .. L : evaluations'[k] = evaluations[k] /\ k \in 1 .. L + n
      /\ \A k \in 1 .. n : evaluations'[L + k] = runs[k] /\ L + k \in 1 .. L + n
  BY <1>1, <1>2
<1> HIDE DEF L, n
<1>4. \A k \in 1 .. L + n : \/ k \in 1 .. L /\ evaluations'[k] = evaluations[k]
                            \/ k - L \in 1 .. n /\ k > L /\ evaluations'[k] = runs[k - L]
  <2>1. ASSUME NEW k \in 1 .. L + n, ~(k \in 1 .. L) PROVE k - L \in 1 .. n /\ k > L /\ L + (k - L) = k
    BY <1>3, <2>1
  <2> QED BY <1>3, <2>1
<1>5. \A k \in 1 .. L + n : \/ k \in 1 .. L /\ evaluations'[k] = evaluations[k]
                            \/ /\ k > L /\ evaluations'[k].use = use /\ evaluations'[k].bindings = bindings
                               /\ evaluations'[k].by \in {"caller", "again", "destructor"}
                               /\ runs # <<D>> => evaluations'[k].by \in {"caller", "again"}
                               /\ evaluations'[k].by = "destructor" => use = 1
  <2>1. \A k \in 1 .. n : /\ runs[k].use = use /\ runs[k].bindings = bindings
                          /\ runs[k].by \in {"caller", "again", "destructor"}
                          /\ runs # <<D>> => runs[k].by \in {"caller", "again"}
                          /\ runs[k].by = "destructor" => use = 1
    BY <1>0, <1>2
  <2> QED BY <1>4, <2>1, Zenon
<1>6. use \in Nat /\ \A k \in 1 .. L : evaluations[k].use \in Nat
  <2>1. \A x \in Evaluation : x.use \in Nat
    BY DEF Evaluation
  <2>2. use \in Nat
    BY DEF QueryTypeOK
  <2> HIDE DEF Evaluation
  <2> QED BY <1>1, <1>3, <2>1, <2>2
<1>7. \A k \in 1 .. L : evaluations[k].use < use /\ evaluations[k].by \in {"caller", "again"}
  BY <1>3 DEF CurrentUse
<1>kept. \A k \in 1 .. L : evaluations'[k] = evaluations[k] /\ k \in 1 .. L + n
  BY <1>3
<1>8. \A u \in 1 .. use - 1 : \E i \in 1 .. L : evaluations'[i].use = u
  <2>1. \A u \in 1 .. use - 1 : \E i \in 1 .. L : evaluations[i].use = u
    BY <1>3 DEF Query!RunsOnce
  <2> QED BY <1>kept, <2>1, Zenon
<1>again. \A i, j \in 1 .. L : i < j /\ evaluations'[i].use = evaluations'[j].use
                                 => evaluations'[i].by = "caller" /\ evaluations'[j].by = "again"
  <2>1. \A i, j \in 1 .. L : i < j /\ evaluations[i].use = evaluations[j].use
                               => evaluations[i].by = "caller" /\ evaluations[j].by = "again"
    BY <1>3 DEF Query!RunsOnce
  <2> QED BY <1>kept, <2>1, Zenon
<1>bound. ASSUME ~interrupted
          PROVE  \A i \in 1 .. L : \A k \in DOMAIN bindings : evaluations'[i].bindings[k] = evaluations'[i].use
  <2>1. \A i \in 1 .. L : \A k \in DOMAIN bindings : evaluations[i].bindings[k] = evaluations[i].use
    BY <1>3, <1>bound DEF Query!RunsOnce
  <2> QED BY <1>kept, <2>1, Zenon
<1>9. ~interrupted => \A k \in DOMAIN bindings : bindings[k] = use
  BY DEF QueryTypeOK, CurrentUse
<1> HIDE DEF QueryInv
<1>10. \A k \in 1 .. L + n : evaluations'[k].use <= use
  BY <1>5, <1>6, <1>7
<1>11. /\ runs # <<D>> => \A k \in 1 .. L + n : evaluations'[k].by \in {"caller", "again"}
       /\ \A i \in 1 .. L + n : evaluations'[i].by = "destructor" => evaluations'[i].use = 1
  <2>1. \A k \in 1 .. L : evaluations[k].by \in {"caller", "again"} /\ evaluations[k].by # "destructor"
    BY <1>7
  <2> QED BY <1>5, <2>1, Zenon
<1>12. \A u \in 1 .. use : \E k \in 1 .. L + n : evaluations'[k].use = u
  <2>1. L + 1 \in 1 .. L + n /\ evaluations'[L + 1].use = use
    <3>1. 1 \in 1 .. n /\ runs[1].use = use
      BY <1>0, <1>2, <1>3
    <3> QED BY <1>3, <3>1, Zenon
  <2>2. \A u \in 1 .. use : u = use \/ u \in 1 .. use - 1
    BY <1>6
  <2> QED BY <1>kept, <1>8, <2>1, <2>2, Zenon
<1>13. ASSUME NEW i \in 1 .. L + n, NEW j \in 1 .. L + n,
              i < j, evaluations'[i].use = evaluations'[j].use
       PROVE  evaluations'[i].by = "caller" /\ evaluations'[j].by = "again"
  <2>1. CASE j \in 1 .. L
    <3>1. i \in 1 .. L
      BY <1>3, <1>13, <2>1
    <3> QED BY <1>again, <1>13, <2>1, <3>1, Zenon
  <2>2. CASE i \in 1 .. L /\ evaluations'[j].use = use
    <3>1. evaluations'[i].use < use /\ evaluations'[i].use \in Nat
      BY <1>3, <1>6, <1>7, <2>2, Zenon
    <3> QED BY <1>6, <1>13, <2>2, <3>1
  <2>3. CASE i - L \in 1 .. n /\ j - L \in 1 .. n /\ evaluations'[i] = runs[i - L] /\ evaluations'[j] = runs[j - L]
    <3>1. i - L < j - L
      BY <1>3, <1>13, <2>3
    <3>2. runs[i - L] = C /\ runs[j - L] = A
      BY <1>2, <2>3, <3>1, Zenon
    <3> QED BY <1>0, <2>3, <3>2, Zenon
  <2>4. ~(j \in 1 .. L) => /\ j - L \in 1 .. n /\ evaluations'[j] = runs[j - L] /\ evaluations'[j].use = use
    BY <1>4, <1>5, Zenon
  <2> QED BY <1>4, <2>1, <2>2, <2>3, <2>4, Zenon
<1>14. ~interrupted => \A i \in 1 .. L + n :
         \A k \in DOMAIN bindings : evaluations'[i].bindings[k] = evaluations'[i].use
  <2>1. ASSUME ~interrupted, NEW i \in 1 .. L + n
        PROVE  \A k \in DOMAIN bindings : evaluations'[i].bindings[k] = evaluations'[i].use
    <3>1. CASE i \in 1 .. L
      BY <1>bound, <2>1, <3>1, Zenon
    <3>2. CASE evaluations'[i].use = use /\ evaluations'[i].bindings = bindings
      BY <1>9, <2>1, <3>2, Zenon
    <3> QED BY <1>5, <3>1, <3>2, Zenon
  <2> QED BY <2>1, Zenon
<1>15. RUN' \in {RUN + 1, RUN + 2} /\ Len(evaluations') = Len(evaluations) + Len(runs)
  BY <1>1, <1>3 DEF L, n
<1> QED BY <1>3, <1>10, <1>11, <1>12, <1>13, <1>14, <1>15, Zenon DEF D

(* The end of a use, by the caller: what it evaluated is of this use,      *)
(* unless it is interrupted, in this use or before.                        *)
LEMMA QueryEndUse ==
  ASSUME QueryInv, NEW runs \in {<<Query!Run("caller")>>, <<Query!Run("caller"), Query!Run("again")>>},
         Query!EndUse(runs),
         \/ Argument' = 0 /\ interrupted' = interrupted
         \/ interrupted' = TRUE /\ Argument' = Argument
  PROVE  QueryInv'
<1> USE DEF QueryInv, Query!EndUse
<1>0. runs # <<Query!Run("destructor")>>
  BY DEF Query!Run
<1>1. /\ evaluations' \in Seq(Evaluation) /\ RUN' \in {RUN + 1, RUN + 2}
      /\ \A k \in DOMAIN evaluations' : evaluations'[k].use <= use /\ evaluations'[k].by \in {"caller", "again"}
      /\ \A u \in 1 .. use : \E k \in DOMAIN evaluations' : evaluations'[k].use = u
      /\ \A i, j \in DOMAIN evaluations' :
           i < j /\ evaluations'[i].use = evaluations'[j].use =>
             evaluations'[i].by = "caller" /\ evaluations'[j].by = "again"
      /\ ~interrupted => \A i \in DOMAIN evaluations' :
           \A k \in DOMAIN bindings : evaluations'[i].bindings[k] = evaluations'[i].use
  BY <1>0, QueryEvaluate
<1>2. use \in Nat \ {0} /\ RUN \in Nat /\ use' = use + 1 /\ given' = 0
  BY DEF QueryTypeOK
<1>3. QueryTypeOK'
  <2>1. Evaluation' = Evaluation
    BY DEF Evaluation
  <2>2. alive' \in BOOLEAN /\ interrupted' \in BOOLEAN /\ bindings' \in [1 .. Argcount' -> Nat]
    BY Zenon DEF QueryTypeOK
  <2>3. Argcount' \in Nat /\ Argument' \in Nat /\ given' \in 0 .. Argcount' /\ RUN' \in Nat /\ use' \in Nat \ {0}
    BY <1>1, <1>2, SMT DEF QueryTypeOK
  <2> QED BY <1>1, <2>1, <2>2, <2>3 DEF QueryTypeOK
<1>4. \A k \in DOMAIN evaluations' : evaluations'[k].use < use + 1
  <2>1. \A x \in Evaluation : x.use \in Nat
    BY DEF Evaluation
  <2> HIDE DEF Evaluation
  <2>2. \A k \in DOMAIN evaluations' : evaluations'[k].use \in Nat
    BY <1>1, <2>1
  <2> QED BY <1>1, <1>2, <2>2
<1>5. CurrentUse'
  BY <1>1, <1>2, <1>4 DEF CurrentUse
<1>6. Query!RunsOnce'
  <2>1. 1 .. use' - 1 = 1 .. use /\ use' # 1
    BY <1>2
  <2>2. \A i \in DOMAIN evaluations' : evaluations'[i].by # "destructor"
    BY <1>1
  <2>3. ~interrupted' => ~interrupted
    OBVIOUS
  <2> QED BY <1>1, <2>1, <2>2, <2>3, Zenon DEF Query!RunsOnce
<1> QED BY <1>3, <1>5, <1>6

(* The destructor evaluates what was never evaluated, and nothing else.    *)
LEMMA QueryDestroy == ASSUME QueryInv, Query!Destroy PROVE QueryInv'
<1> USE DEF QueryInv, Query!Destroy
<1>1. CASE RUN = 0 /\ Argcount = Argument
  <2>1. use = 1 /\ ~interrupted /\ given = Argcount /\ RUN = 0 /\ evaluations = << >>
    BY <1>1 DEF CurrentUse
  <2>2. /\ evaluations' \in Seq(Evaluation) /\ RUN' \in {RUN + 1, RUN + 2}
        /\ Len(evaluations') = Len(evaluations) + Len(<<Query!Run("destructor")>>)
        /\ \A i, j \in DOMAIN evaluations' :
             i < j /\ evaluations'[i].use = evaluations'[j].use =>
               evaluations'[i].by = "caller" /\ evaluations'[j].by = "again"
        /\ ~interrupted => \A i \in DOMAIN evaluations' :
             \A k \in DOMAIN bindings : evaluations'[i].bindings[k] = evaluations'[i].use
        /\ \A i \in DOMAIN evaluations' : evaluations'[i].by = "destructor" => evaluations'[i].use = 1
    BY <1>1, <2>1, QueryEvaluate
  <2>3. RUN' \in Nat /\ Len(evaluations') = 1 /\ 1 .. use' - 1 = {}
    BY <2>1, <2>2
  <2>4. QueryTypeOK'
    BY <1>1, <2>2, <2>3 DEF QueryTypeOK, Evaluation
  <2>5. Query!RunsOnce'
    BY <2>1, <2>2, <2>3, Zenon DEF Query!RunsOnce
  <2> QED BY <2>4, <2>5
<1>2. CASE ~(RUN = 0 /\ Argcount = Argument)
  <2>1. use = 1 => evaluations = << >> /\ given # Argcount
    BY <1>2 DEF CurrentUse
  <2>2. QueryTypeOK'
    BY <1>2 DEF QueryTypeOK, Evaluation
  <2>3. Query!RunsOnce'
    BY <1>2, <2>1 DEF Query!RunsOnce
  <2> QED BY <2>2, <2>3
<1> QED BY <1>1, <1>2

(* The cases of Next; an end of a use is common to three of them.          *)
LEMMA QueryInvariance == Query!Spec => []QueryInv
<1>1. QueryInv /\ [Query!Next]_(Query!vars) => QueryInv'
  <2> SUFFICES ASSUME QueryInv, [Query!Next]_(Query!vars) PROVE QueryInv'
    OBVIOUS
  <2>1. CASE Query!Extractmultiple
    BY <2>1, QueryEndUse DEF Query!Extractmultiple
  <2>2. CASE Query!Interrupt
    BY <2>2, QueryEndUse DEF Query!Interrupt
  <2>3. CASE Query!Extractsingle
    BY <2>3, QueryEndUse DEF Query!Extractsingle
  <2>4. CASE UNCHANGED Query!vars
    BY <2>4 DEF Query!vars, QueryInv, QueryTypeOK, CurrentUse, Query!RunsOnce, Evaluation
  <2> QED
    BY <2>1, <2>2, <2>3, <2>4, QueryBind, QueryDestroy DEF Query!Next
<1> QED
  BY <1>1, QueryStart, PTL DEF Query!Spec

(* A statement with any number of arguments runs its query once in a use,  *)
(* by the caller or, in a first use without output, when it goes out of    *)
(* scope, and with the arguments of that use unless it was interrupted.    *)
(* Only an extraction of a single row that finds none runs it twice        *)
(* (Databasewrapper.hpp:217-392).                                          *)
THEOREM EvaluatedOnce == Query!Spec => []RunsOnce
<1>1. QueryInv => RunsOnce
  BY DEF QueryInv, RunsOnce
<1> QED
  BY <1>1, QueryInvariance, PTL

-----------------------------------------------------------------------------
(* The plugin loader.                                                      *)

(* What the loader did when it has called k callbacks of the host.         *)
Called(k) == [n \in 1 .. k |-> <<"callback", n>>]

(* The table as the hook leaves it, until the loader calls ours; and once  *)
(* that has put it back, when the loader has called the callbacks before   *)
(* Index.                                                                  *)
Hooked ==
  /\ at = "callbacks" /\ Index = 0
  /\ table = [n \in 0 .. MaxCallbacks + 1 |->
                IF n = 0 THEN Plugin!TLSCallback
                ELSE IF n = 1 THEN Plugin!Null ELSE Plugin!Image(host.callbacks)[n]]
  /\ OriginalTLS = [n \in 1 .. host.callbacks |-> n]
  /\ events = << >>
Unhooked ==
  /\ at \in {"callbacks", "entry", "running"}
  /\ Index \in 1 .. MaxCallbacks + 1 /\ (host.callbacks > 0 => Index <= host.callbacks)
  /\ host.callbacks = 0 => Index = 1 /\ table[1] = Plugin!Null
  /\ at # "callbacks" => Index >= host.callbacks
  /\ \A n \in 0 .. host.callbacks : table[n] = Plugin!Image(host.callbacks)[n]
  /\ Pluginhandles \in Seq(Plugins)
  /\ events = Plugin!Notifystartup(Pluginhandles) \o Called(IF Index <= host.callbacks THEN Index ELSE host.callbacks)

(* Until the host is loaded nothing was changed; with a hook in the table, *)
(* nothing was changed in the code.                                        *)
PluginInv ==
  /\ host.callbacks \in 0 .. MaxCallbacks
  /\ at = "loading" =>
       /\ table = Plugin!Image(host.callbacks) /\ Index = 0
       /\ entrycode = "Original" /\ events = << >> /\ hook = ""
  /\ hook = "TLS" => entrycode = "Original" /\ (Hooked \/ Unhooked)

Once(s) == \A n, m \in DOMAIN s : n # m => s[n] # s[m]

(* No plugin is loaded twice.                                              *)
LEMMA LoadableAreSequences == ASSUME NEW f \in Plugin!Loadable PROVE f \in Seq(Plugins) /\ Once(f)
<1> SUFFICES ASSUME NEW S \in SUBSET Plugins, f \in Plugin!SetToSeqs(S) PROVE f \in Seq(Plugins) /\ Once(f)
  BY DEF Plugin!Loadable, Plugin!SetToAllKPermutations
<1>1. IsFiniteSet(Plugins)
  BY PartsAssumption, Zenon DEF Plugin!PluginAssumption, Plugin!IsFiniteSet, IsFiniteSet
<1>2. Plugin!Cardinality(S) = Cardinality(S)
  BY Zenon DEF Plugin!Cardinality, Cardinality
<1>3. Plugin!Cardinality(S) \in Nat
  BY <1>1, <1>2, FS_Subset, FS_CardinalityType
<1>4. f \in [1 .. Plugin!Cardinality(S) -> Plugins] /\ Once(f)
  BY DEF Plugin!SetToSeqs, Once
<1> QED BY <1>3, <1>4

(* What the loader finds in the memory of the host.                        *)
LEMMA ImageIs ==
  ASSUME NEW n \in 0 .. MaxCallbacks, NEW k \in 0 .. MaxCallbacks + 1
  PROVE  Plugin!Image(n)[k] = IF k < n THEN k + 1 ELSE IF k = n THEN 0 ELSE MaxCallbacks + 2
  BY DEF Plugin!Image, Plugin!Null, Plugin!Data

(* By assumption.                                                          *)
LEMMA BoundIsNat == MaxCallbacks \in Nat
  BY PartsAssumption DEF Plugin!PluginAssumption

(* Our callback becomes the only one.                                      *)
LEMMA HookIsInstalled == ASSUME PluginInv, Plugin!InstallTLSHook PROVE PluginInv'
<1> DEFINE c == host.callbacks
<1>1. /\ table = Plugin!Image(c) /\ Index = 0 /\ entrycode = "Original" /\ events = << >>
      /\ c \in 0 .. MaxCallbacks /\ MaxCallbacks \in Nat
  BY BoundIsNat DEF PluginInv, Plugin!InstallTLSHook
<1>2. DOMAIN table = 0 .. MaxCallbacks + 1
  BY <1>1 DEF Plugin!Image
<1>3. \A i \in DOMAIN table : table[i] = 0 /\ (\A j \in 0 .. i - 1 : table[j] # 0) <=> i = c
  BY <1>1, <1>2, ImageIs
<1>4. (CHOOSE i \in DOMAIN table : table[i] = 0 /\ \A j \in 0 .. i - 1 : table[j] # 0) = c
  BY <1>1, <1>2, <1>3
<1>5. OriginalTLS' = [n \in 1 .. c |-> n]
  <2>1. OriginalTLS' = [i \in 1 .. c |-> table[i - 1]]
    BY <1>4 DEF Plugin!InstallTLSHook, Plugin!Null
  <2>2. \A i \in 1 .. c : table[i - 1] = i
    BY <1>1, ImageIs
  <2> QED BY <2>1, <2>2
<1>6. table' = [n \in 0 .. MaxCallbacks + 1 |->
                  IF n = 0 THEN Plugin!TLSCallback ELSE IF n = 1 THEN Plugin!Null ELSE Plugin!Image(c)[n]]
  BY <1>1, <1>2 DEF Plugin!InstallTLSHook
<1> QED
  BY <1>1, <1>5, <1>6 DEF PluginInv, Hooked, Plugin!InstallTLSHook, Plugin!Image, Plugin!plugin


(* The loader is past the first word when our callback has put the table   *)
(* back, and ours has called what was there.                               *)
LEMMA HookIsRemoved ==
  ASSUME PluginInv, hook = "TLS", NEW loaded \in Plugin!Loadable, Plugin!OurCallback(loaded)
  PROVE  PluginInv'
<1> DEFINE c == host.callbacks
<1>1. c \in 0 .. MaxCallbacks /\ MaxCallbacks \in Nat /\ host' = host /\ hook' = "TLS"
      /\ entrycode' = "Original" /\ at = "callbacks" /\ at' = "callbacks" /\ Index' = Index + 1
  BY BoundIsNat DEF PluginInv, Plugin!OurCallback
<1>2. Hooked
  <2>1. ~Unhooked
    <3> SUFFICES ASSUME Unhooked PROVE FALSE
      OBVIOUS
    <3>1. table[Index] = MaxCallbacks + 1
      BY DEF Plugin!OurCallback, Plugin!TLSCallback
    <3>2. Index \in 0 .. c => table[Index] = Plugin!Image(c)[Index]
      BY DEF Unhooked
    <3>3. Index \in 0 .. c \/ (c = 0 /\ Index = 1)
      <4>1. Index \in 1 .. MaxCallbacks + 1 /\ (c > 0 => Index <= c) /\ (c = 0 => Index = 1)
        BY Zenon DEF Unhooked
      <4>2. c \in Nat
        BY <1>1
      <4> HIDE DEF c
      <4> QED BY <4>1, <4>2, BoundIsNat
    <3>4. Index \in 0 .. c => table[Index] <= c
      BY <1>1, <3>2, ImageIs
    <3> QED
      BY <1>1, <3>1, <3>3, <3>4 DEF Unhooked, Plugin!Null
  <2> QED BY <1>1, <2>1 DEF PluginInv
<1> DEFINE words == [table EXCEPT ![0] = Plugin!Null]
<1>3. /\ DOMAIN table = 0 .. MaxCallbacks + 1 /\ DOMAIN words = 0 .. MaxCallbacks + 1
      /\ DOMAIN OriginalTLS = 1 .. c
      /\ \A n \in 1 .. c : OriginalTLS[n] = n
  BY <1>1, <1>2 DEF Hooked
<1>4. \A n \in 0 .. MaxCallbacks + 1 :
        words[n] = IF n <= 1 THEN 0 ELSE Plugin!Image(c)[n]
  BY <1>1, <1>2, <1>3 DEF Hooked, Plugin!Null
<1>5. /\ DOMAIN table' = 0 .. MaxCallbacks + 1
      /\ \A n \in DOMAIN words : table'[n] = IF n + 1 \in DOMAIN OriginalTLS THEN OriginalTLS[n + 1] ELSE words[n]
  <2> HIDE DEF words
  <2>1. table' = [n \in DOMAIN words |-> IF n + 1 \in DOMAIN OriginalTLS THEN OriginalTLS[n + 1] ELSE words[n]]
    BY DEF Plugin!OurCallback, Plugin!Restored, words
  <2> QED BY <1>3, <2>1
<1> HIDE DEF words
<1>6. \A n \in 0 .. c : table'[n] = IF n < c THEN n + 1 ELSE 0
  <2> SUFFICES ASSUME NEW n \in 0 .. c PROVE table'[n] = IF n < c THEN n + 1 ELSE 0
    OBVIOUS
  <2>1. CASE n < c
    <3>1. n \in DOMAIN words /\ n + 1 \in DOMAIN OriginalTLS /\ n + 1 \in 1 .. c
      BY <1>1, <1>3, <2>1
    <3>2. table'[n] = OriginalTLS[n + 1]
      BY <1>5, <3>1
    <3> QED BY <1>3, <2>1, <3>1, <3>2
  <2>2. CASE n = c
    <3>1. table'[n] = words[n]
      BY <1>1, <1>3, <1>5, <2>2
    <3> QED BY <1>1, <1>4, <2>2, <3>1, ImageIs
  <2> QED BY <1>1, <2>1, <2>2
<1>7. \A n \in 0 .. c : table'[n] = Plugin!Image(c)[n]
  BY <1>1, <1>6, ImageIs
<1>8. c = 0 => table'[1] = 0
  BY <1>1, <1>3, <1>4, <1>5
<1>9. Pluginhandles' = loaded /\ loaded \in Seq(Plugins)
  BY LoadableAreSequences DEF Plugin!OurCallback, Plugin!Initialize
<1>10. events' = Plugin!Notifystartup(loaded) \o Called(IF 1 <= c THEN 1 ELSE c)
  <2>1. Plugin!Notifystartup(loaded) \in Seq({"startup"} \X Plugins)
    BY <1>9 DEF Plugin!Notifystartup
  <2>2. events' = (<< >> \o Plugin!Notifystartup(loaded)) \o
                    (IF table'[0] # 0 THEN << <<"callback", table'[0]>> >> ELSE << >>)
    BY <1>2 DEF Plugin!OurCallback, Hooked, Plugin!Null
  <2>3. << >> \o Plugin!Notifystartup(loaded) = Plugin!Notifystartup(loaded)
    BY <2>1
  <2>4. c = 0 \/ c > 0
    BY <1>1
  <2>5. CASE c = 0
    <3>1. table'[0] = 0 /\ Called(0) = << >>
      BY <1>1, <1>6, <2>5 DEF Called
    <3>2. (IF 1 <= c THEN 1 ELSE c) = 0
      BY <2>5
    <3> QED BY <2>2, <2>3, <3>1, <3>2, Zenon
  <2>6. CASE c > 0
    <3>1. table'[0] = 1 /\ table'[0] # 0
      BY <1>1, <1>6, <2>6
    <3>2. << <<"callback", 1>> >> = Called(1)
      BY DEF Called
    <3>3. (IF 1 <= c THEN 1 ELSE c) = 1
      BY <1>1, <2>6
    <3> QED BY <2>2, <2>3, <3>1, <3>2, <3>3, Zenon
  <2> QED BY <2>4, <2>5, <2>6
<1>11. Unhooked'
  <2>1. Index' = 1
    BY <1>1, <1>2 DEF Hooked
  <2>2. at' \in {"callbacks", "entry", "running"} /\ Index' \in 1 .. MaxCallbacks + 1 /\ (c > 0 => Index' <= c)
    BY <1>1, <2>1
  <2>3. (c = 0 => Index' = 1 /\ table'[1] = Plugin!Null) /\ (at' # "callbacks" => Index' >= c)
    BY <1>1, <1>8, <2>1 DEF Plugin!Null
  <2>4. \A n \in 0 .. host'.callbacks : table'[n] = Plugin!Image(host.callbacks)[n]
    BY <1>1, <1>7
  <2>5. Pluginhandles' \in Seq(Plugins) /\ events' = Plugin!Notifystartup(Pluginhandles') \o Called(IF Index' <= c THEN Index' ELSE c)
    BY <1>9, <1>10, <2>1, Zenon
  <2> QED
    BY <1>1, <2>2, <2>3, <2>4, <2>5, Zenon DEF Unhooked, Plugin!Image, Plugin!Notifystartup, Plugin!Null, Plugin!Data, Called
<1> QED
  BY <1>1, <1>11 DEF PluginInv

(* The loader calls the next callback of the host.                         *)
LEMMA CallbackIsCalled == ASSUME PluginInv, hook = "TLS", Plugin!HostCallback PROVE PluginInv'
<1> DEFINE c == host.callbacks
<1>1. /\ c \in 0 .. MaxCallbacks /\ MaxCallbacks \in Nat /\ at = "callbacks" /\ Index' = Index + 1
      /\ UNCHANGED <<host, hook, at, table, entrycode, OriginalTLS, Pluginhandles>>
      /\ table[Index] \in 1 .. MaxCallbacks /\ events' = Append(events, <<"callback", table[Index]>>)
  BY BoundIsNat DEF PluginInv, Plugin!HostCallback, Plugin!memory, Plugin!plugin
<1>2. Unhooked
  BY <1>1 DEF PluginInv, Hooked, Plugin!TLSCallback
<1>3. Index \in 1 .. c /\ table[Index] = Plugin!Image(c)[Index]
  BY <1>1, <1>2 DEF Unhooked, Plugin!Null
<1>4. Index < c /\ table[Index] = Index + 1
  BY <1>1, <1>3, ImageIs
<1>5. events' = Plugin!Notifystartup(Pluginhandles) \o Called(Index + 1)
  <2> DEFINE T == {"startup", "callback"} \X (Plugins \union Nat)
  <2>1. Plugin!Notifystartup(Pluginhandles) \in Seq(T)
    BY <1>2 DEF Unhooked, Plugin!Notifystartup
  <2>2. events = Plugin!Notifystartup(Pluginhandles) \o Called(Index)
    BY <1>1, <1>3, <1>4, <1>2 DEF Unhooked
  <2>3. Called(Index) \in Seq(T) /\ <<"callback", Index + 1>> \in T
    BY <1>3 DEF Called
  <2>4. Append(Called(Index), <<"callback", Index + 1>>) = Called(Index + 1)
    BY <1>3 DEF Called
  <2> HIDE DEF T
  <2>5. \A s, t \in Seq(T), e \in T : Append(s \o t, e) = s \o Append(t, e)
    OBVIOUS
  <2>6. Append(Plugin!Notifystartup(Pluginhandles) \o Called(Index), <<"callback", Index + 1>>)
          = Plugin!Notifystartup(Pluginhandles) \o Append(Called(Index), <<"callback", Index + 1>>)
    BY <2>1, <2>3, <2>5, Zenon
  <2> QED BY <1>1, <1>4, <2>2, <2>4, <2>6
<1>6. Unhooked'
  <2>1. at' \in {"callbacks", "entry", "running"} /\ Index' \in 1 .. MaxCallbacks + 1 /\ (c > 0 => Index' <= c)
    BY <1>1, <1>3, <1>4
  <2>2. (c = 0 => Index' = 1 /\ table'[1] = Plugin!Null) /\ (at' # "callbacks" => Index' >= c)
    BY <1>1, <1>3, <1>4
  <2>3. (\A n \in 0 .. host'.callbacks : table'[n] = Plugin!Image(host.callbacks)[n]) /\ Pluginhandles' \in Seq(Plugins)
    BY <1>1, <1>2, Zenon DEF Unhooked
  <2>4. (IF Index' <= c THEN Index' ELSE c) = Index + 1
    BY <1>1, <1>3, <1>4
  <2>5. events' = Plugin!Notifystartup(Pluginhandles') \o Called(IF Index' <= c THEN Index' ELSE c)
    BY <1>1, <1>5, <2>4, Zenon
  <2> QED
    BY <1>1, <2>1, <2>2, <2>3, <2>5, Zenon DEF Unhooked, Plugin!Image, Plugin!Notifystartup, Plugin!Null, Plugin!Data, Called
<1> QED
  BY <1>1, <1>6 DEF PluginInv

(* What notifies of the initialization touches nothing of this.            *)
LEMMA HostUnchanged ==
  ASSUME PluginInv, UNCHANGED <<host, hook, at, table, Index, entrycode, OriginalTLS, Pluginhandles, events>>
  PROVE  PluginInv'
  BY Zenon DEF PluginInv, Hooked, Unhooked, Plugin!Image, Plugin!Notifystartup, Plugin!Null, Plugin!Data,
       Plugin!TLSCallback, Called

(* The loader stops at the first word that is empty, after the last of the *)
(* host's callbacks.                                                       *)
LEMMA LoaderStops == ASSUME PluginInv, hook = "TLS", Plugin!EndCallbacks PROVE PluginInv'
<1> DEFINE c == host.callbacks
<1>1. /\ c \in 0 .. MaxCallbacks /\ MaxCallbacks \in Nat /\ at = "callbacks" /\ at' = "entry" /\ table[Index] = 0
      /\ UNCHANGED <<host, hook, Index, table, entrycode, OriginalTLS, Pluginhandles, events>>
  BY BoundIsNat DEF PluginInv, Plugin!EndCallbacks, Plugin!memory, Plugin!plugin, Plugin!Null
<1>2. Unhooked
  BY <1>1, BoundIsNat DEF PluginInv, Hooked, Plugin!TLSCallback
<1>3. Index \in 1 .. MaxCallbacks + 1 /\ \A n \in 0 .. c : table[n] = Plugin!Image(c)[n]
  BY <1>2, Zenon DEF Unhooked
<1>4. Index >= c
  BY <1>1, <1>3, ImageIs
<1>5. Unhooked'
  BY <1>1, <1>2, <1>4, Zenon DEF Unhooked, Plugin!Image, Plugin!Notifystartup, Plugin!Null, Plugin!Data, Called
<1> QED BY <1>1, <1>5 DEF PluginInv

(* The host runs when the loader has stopped.                              *)
LEMMA HostStarts == ASSUME PluginInv, hook = "TLS", Plugin!HostEntry PROVE PluginInv'
<1>1. /\ at = "entry" /\ at' = "running"
      /\ UNCHANGED <<host, hook, Index, table, entrycode, OriginalTLS, Pluginhandles, events>>
  BY DEF Plugin!HostEntry, Plugin!memory, Plugin!plugin
<1>2. Unhooked
  BY <1>1 DEF PluginInv, Hooked
<1>3. Unhooked'
  BY <1>1, <1>2, Zenon DEF Unhooked, Plugin!Image, Plugin!Notifystartup, Plugin!Null, Plugin!Data, Called
<1> QED BY <1>1, <1>3 DEF PluginInv

(* The cases of Next; with a hook on the entry point there is nothing to   *)
(* show.                                                                   *)
LEMMA PluginInvariance == Plugin!Spec => []PluginInv
<1>1. Plugin!Init => PluginInv
  <2> SUFFICES ASSUME Plugin!Init PROVE PluginInv
    OBVIOUS
  <2> PICK TLS \in BOOLEAN, n \in 0 .. MaxCallbacks : host = [TLS |-> TLS, callbacks |-> IF TLS THEN n ELSE 0]
    BY Zenon DEF Plugin!Init
  <2>1. host.callbacks = IF TLS THEN n ELSE 0
    OBVIOUS
  <2>2. host.callbacks \in 0 .. MaxCallbacks
    BY <2>1, BoundIsNat
  <2> QED BY <2>2 DEF Plugin!Init, PluginInv
<1>2. PluginInv /\ [Plugin!Next]_(Plugin!vars) => PluginInv'
  <2> SUFFICES ASSUME PluginInv, [Plugin!Next]_(Plugin!vars) PROVE PluginInv'
    OBVIOUS
  <2>1. CASE Plugin!InstallTLSHook
    BY <2>1, HookIsInstalled
  <2>2. CASE Plugin!InstallEPHook
    BY <2>2 DEF PluginInv, Plugin!InstallEPHook, Plugin!Callhook
  <2>3. ASSUME NEW loaded \in Plugin!Loadable, Plugin!Inject(loaded) PROVE PluginInv'
    BY <2>3 DEF PluginInv, Plugin!Inject
  <2>4. CASE Plugin!HostCallback
    <3>1. CASE hook = "TLS"
      BY <2>4, <3>1, CallbackIsCalled
    <3>2. CASE hook # "TLS"
      BY <2>4, <3>2 DEF PluginInv, Plugin!HostCallback
    <3> QED BY <3>1, <3>2
  <2>5. CASE Plugin!EndCallbacks
    BY <2>5, LoaderStops DEF PluginInv, Plugin!EndCallbacks
  <2>6. CASE Plugin!HostEntry
    BY <2>6, HostStarts DEF PluginInv, Plugin!HostEntry
  <2>7. ASSUME NEW loaded \in Plugin!Loadable, Plugin!OurCallback(loaded) PROVE PluginInv'
    <3>1. CASE hook = "TLS"
      BY <2>7, <3>1, HookIsRemoved
    <3>2. CASE hook # "TLS"
      BY <2>7, <3>2 DEF PluginInv, Plugin!OurCallback
    <3> QED BY <3>1, <3>2
  <2>8. ASSUME NEW loaded \in Plugin!Loadable, Plugin!PECallback(loaded) PROVE PluginInv'
    BY <2>8 DEF PluginInv, Plugin!PECallback
  <2>9. ASSUME NEW t \in Plugin!Notifiers, Plugin!Notifyinitialized(t) \/ Plugin!onInitialized(t) PROVE PluginInv'
    BY <2>9, HostUnchanged DEF Plugin!Notifyinitialized, Plugin!onInitialized, Plugin!memory
  <2>10. CASE UNCHANGED Plugin!vars
    BY <2>10, HostUnchanged DEF Plugin!vars, Plugin!memory, Plugin!plugin
  <2> QED
    BY <2>1, <2>2, <2>3, <2>4, <2>5, <2>6, <2>7, <2>8, <2>9, <2>10 DEF Plugin!Next, Plugin!Start, Plugin!Loader
<1> QED
  BY <1>1, <1>2, PTL DEF Plugin!Spec

(* With any number of callbacks and of plugins, the loader calls the       *)
(* host's callbacks once and in order, after all plugins were told, and    *)
(* leaves table and code as they were (Pluginloader.cpp:164-223).          *)
THEOREM HostIsUndisturbed == Plugin!Spec => []HostUndisturbed
<1>1. PluginInv => HostUndisturbed
  <2> SUFFICES ASSUME PluginInv, at = "running", hook = "TLS"
               PROVE  /\ \A n \in 0 .. host.callbacks : table[n] = Plugin!Image(host.callbacks)[n]
                      /\ entrycode = "Original"
                      /\ events = Plugin!Notifystartup(Pluginhandles) \o Called(host.callbacks)
    BY DEF HostUndisturbed, Plugin!HostUndisturbed, Called
  <2>1. host.callbacks \in 0 .. MaxCallbacks /\ entrycode = "Original" /\ Unhooked
    BY DEF PluginInv, Hooked
  <2>2. Index \in 1 .. MaxCallbacks + 1 /\ Index >= host.callbacks
    BY <2>1, Zenon DEF Unhooked
  <2>3. (IF Index <= host.callbacks THEN Index ELSE host.callbacks) = host.callbacks
    BY <2>1, <2>2, BoundIsNat
  <2> QED BY <2>1, <2>3, Zenon DEF Unhooked
<1> QED
  BY <1>1, PluginInvariance, PTL

(* Until a notifier came first, nothing is told; then the plugins that     *)
(* were told and those left to that notifier are all plugins in order.     *)
NotifyInv ==
  /\ Pluginhandles \in Seq(Plugins) /\ Once(Pluginhandles)
  /\ told \in Seq(Plugins) /\ notifying \in [Plugin!Notifiers -> Seq(Plugins)]
  /\ Initialized \in BOOLEAN
  /\ \A t \in Plugin!Notifiers : t \in waiting => notifying[t] = << >>
  /\ ~Initialized => told = << >> /\ \A t \in Plugin!Notifiers : notifying[t] = << >>
  /\ Initialized =>
       /\ at = "running"
       /\ \E t \in Plugin!Notifiers :
            told \o notifying[t] = Pluginhandles /\ \A u \in Plugin!Notifiers \ {t} : notifying[u] = << >>

(* One goes from those that are left to those that were told.              *)
LEMMA NextIsTold ==
  ASSUME NEW S, NEW s \in Seq(S), NEW t \in Seq(S), t # << >>
  PROVE  Append(s, Head(t)) \in Seq(S) /\ Tail(t) \in Seq(S) /\ Append(s, Head(t)) \o Tail(t) = s \o t
  OBVIOUS

(* One notifier takes all plugins when it finds Initialized unset.         *)
LEMMA NotifyInvariance == Plugin!Spec => []NotifyInv
<1>1. Plugin!Init => NotifyInv
  <2> SUFFICES ASSUME Plugin!Init PROVE NotifyInv
    OBVIOUS
  <2>1. Pluginhandles = << >> /\ told = << >> /\ notifying = [t \in Plugin!Notifiers |-> << >>] /\ Initialized = FALSE
    BY Zenon DEF Plugin!Init
  <2>2. << >> \in Seq(Plugins) /\ Once(<< >>)
    BY DEF Once
  <2> QED BY <2>1, <2>2, Zenon DEF NotifyInv
<1>2. NotifyInv /\ [Plugin!Next]_(Plugin!vars) => NotifyInv'
  <2> SUFFICES ASSUME NotifyInv, [Plugin!Next]_(Plugin!vars) PROVE NotifyInv'
    OBVIOUS
  <2> USE DEF Plugin!plugin
  <2>1. ASSUME UNCHANGED <<Pluginhandles, told, notifying, Initialized, waiting>>, at = "running" => at' = "running" PROVE NotifyInv'
    BY <2>1, Zenon DEF NotifyInv, Once, Plugin!Notifiers
  <2>2. ASSUME NEW loaded \in Plugin!Loadable, Plugin!Initialize(loaded), at # "running" PROVE NotifyInv'
    BY <2>2, LoadableAreSequences, Zenon DEF NotifyInv, Plugin!Initialize, Once, Plugin!Notifiers
  <2>3. CASE Plugin!InstallTLSHook \/ Plugin!InstallEPHook \/ Plugin!HostCallback \/ Plugin!EndCallbacks \/ Plugin!HostEntry
    BY <2>1, <2>3 DEF Plugin!InstallTLSHook, Plugin!InstallEPHook, Plugin!HostCallback, Plugin!EndCallbacks, Plugin!HostEntry
  <2>4. ASSUME NEW loaded \in Plugin!Loadable,
               Plugin!Inject(loaded) \/ Plugin!OurCallback(loaded) \/ Plugin!PECallback(loaded)
        PROVE  NotifyInv'
    BY <2>2, <2>4 DEF Plugin!Inject, Plugin!OurCallback, Plugin!PECallback
  <2>5. ASSUME NEW t \in Plugin!Notifiers, Plugin!Notifyinitialized(t) PROVE NotifyInv'
    <3>1. UNCHANGED <<at, Pluginhandles, told>> /\ Initialized' = TRUE /\ at = "running"
          /\ notifying' = [notifying EXCEPT ![t] = IF Initialized THEN << >> ELSE Pluginhandles]
      BY <2>5 DEF Plugin!Notifyinitialized
    <3>2. CASE Initialized
      <4>1. notifying[t] = << >> /\ notifying \in [Plugin!Notifiers -> Seq(Plugins)]
        BY <2>5, Zenon DEF NotifyInv, Plugin!Notifyinitialized
      <4>2. notifying' = notifying
        BY <3>1, <3>2, <4>1
      <4>3. \A u \in Plugin!Notifiers : u \in waiting' => notifying[u] = << >>
        BY <2>5, Zenon DEF NotifyInv, Plugin!Notifyinitialized
      <4>4. \E w \in Plugin!Notifiers :
              told \o notifying[w] = Pluginhandles /\ \A u \in Plugin!Notifiers \ {w} : notifying[u] = << >>
        BY <3>2, Zenon DEF NotifyInv
      <4> QED BY <3>1, <4>2, <4>3, <4>4, Zenon DEF NotifyInv, Once, Plugin!Notifiers
    <3>3. CASE ~Initialized
      <4>1. told \o Pluginhandles = Pluginhandles
        BY <3>3 DEF NotifyInv
      <4> QED BY <2>5, <3>1, <3>3, <4>1, Zenon DEF NotifyInv, Once, Plugin!Notifiers, Plugin!Notifyinitialized
    <3> QED BY <3>2, <3>3
  <2>6. ASSUME NEW t \in Plugin!Notifiers, Plugin!onInitialized(t) PROVE NotifyInv'
    <3>1. /\ UNCHANGED <<at, Pluginhandles, Initialized, waiting>> /\ at = "running"
          /\ notifying[t] # << >> /\ told' = Append(told, Head(notifying[t]))
          /\ notifying' = [notifying EXCEPT ![t] = Tail(notifying[t])]
      BY <2>6 DEF Plugin!onInitialized
    <3>2. Initialized /\ told \in Seq(Plugins) /\ notifying[t] \in Seq(Plugins) /\ t \notin waiting
      BY <3>1, Zenon DEF NotifyInv
    <3>3. /\ told' \in Seq(Plugins) /\ Tail(notifying[t]) \in Seq(Plugins)
          /\ told' \o Tail(notifying[t]) = told \o notifying[t]
      BY <3>1, <3>2, NextIsTold, Zenon
    <3>4. told \o notifying[t] = Pluginhandles /\ \A u \in Plugin!Notifiers \ {t} : notifying[u] = << >>
      BY <3>1, <3>2, Zenon DEF NotifyInv
    <3>5. notifying'[t] = Tail(notifying[t]) /\ \A u \in Plugin!Notifiers \ {t} : notifying'[u] = notifying[u]
      BY <3>1, Zenon DEF NotifyInv
    <3>6. notifying' \in [Plugin!Notifiers -> Seq(Plugins)]
      BY <3>1, <3>3, Zenon DEF NotifyInv
    <3>7. \E w \in Plugin!Notifiers : told' \o notifying'[w] = Pluginhandles' /\ \A u \in Plugin!Notifiers \ {w} : notifying'[u] = << >>
      BY <3>1, <3>3, <3>4, <3>5, Zenon
    <3>8. \A u \in Plugin!Notifiers : u \in waiting' => notifying'[u] = << >>
      BY <3>1, <3>2, <3>4, <3>5, Zenon
    <3> QED BY <3>1, <3>2, <3>3, <3>6, <3>7, <3>8, Zenon DEF NotifyInv, Once, Plugin!Notifiers
  <2>7. CASE UNCHANGED Plugin!vars
    BY <2>1, <2>7 DEF Plugin!vars
  <2> QED
    BY <2>3, <2>4, <2>5, <2>6, <2>7 DEF Plugin!Next, Plugin!Start, Plugin!Loader
<1> QED
  BY <1>1, <1>2, PTL DEF Plugin!Spec

(* No plugin is told twice that the host is initialized, however many      *)
(* wrappers call, and whether they or the timer are first                  *)
(* (Pluginloader.cpp:83-94 and 136-145).                                   *)
THEOREM NotifiedOnce == Plugin!Spec => []Once(told)
<1>1. NotifyInv => Once(told)
  <2> SUFFICES ASSUME NotifyInv PROVE Once(told)
    OBVIOUS
  <2>1. told \in Seq(Plugins) /\ Once(Pluginhandles)
    BY DEF NotifyInv
  <2>2. CASE told = << >>
    BY <2>2 DEF Once
  <2>3. CASE told # << >>
    <3>1. Initialized
      BY <2>3, Zenon DEF NotifyInv
    <3> PICK t \in Plugin!Notifiers : told \o notifying[t] = Pluginhandles
      BY <3>1, Zenon DEF NotifyInv
    <3>2. notifying[t] \in Seq(Plugins)
      BY DEF NotifyInv
    <3>3. \A n \in DOMAIN told : n \in DOMAIN Pluginhandles /\ Pluginhandles[n] = told[n]
      BY <2>1, <3>2
    <3> QED BY <2>1, <3>3, Zenon DEF Once
  <2> QED BY <2>2, <2>3
<1> QED
  BY <1>1, NotifyInvariance, PTL

-----------------------------------------------------------------------------
(* Responses of the JSON API.                                              *)

(* The slot that is k + 1 places after another, for k < Ringsize.          *)
After(slot, k) == IF slot + 1 + k < Ringsize THEN slot + 1 + k ELSE slot + 1 + k - Ringsize

(* How many responses were stored after p.                                 *)
Later(p) == stored - p.number

(* The head and the slots that are being stored to are behind the slot of  *)
(* p by no more places than there were responses since, and those that are *)
(* stored at the moment count as still to come.                            *)
Kept(p) ==
  /\ Results[p.slot] = p.response
  /\ \E k \in Nat : Ringhead = After(p.slot, k) /\ k + Cardinality(JSON!Storing) <= Later(p)
  /\ \A t \in JSON!Storing : \E k \in Nat : Slot[t] = After(p.slot, k) /\ k + Cardinality(JSON!Storing) <= Later(p)

(* The bound of Kept holds for every response that is still promised and   *)
(* did not race; a thread that did not race stores alone.                  *)
ResponsesInv ==
  /\ Results \in [JSON!Slots -> Responses \union {Empty}]
  /\ Ringhead \in JSON!Slots
  /\ Response \in [Threads -> Responses \union {Empty}]
  /\ Slot \in [Threads -> JSON!Slots \union {JSON!None}]
  /\ stored \in Nat
  /\ IsFiniteSet(JSON!Storing)
  /\ \A t \in JSON!Storing : Response[t] # Empty
  /\ \A t \in JSON!Storing : t \notin raced => JSON!Storing = {t} /\ Ringhead = Slot[t] /\ Results[Slot[t]] = Response[t]
  /\ \A p \in returned : p.slot \in JSON!Slots /\ p.number \in Nat /\ p.number <= stored
  /\ \A p \in returned : Later(p) < Ringsize /\ ~p.raced => Kept(p)

(* The index arithmetic, without overflow, is a step to the next slot.     *)
LEMMA AdvanceIsNext ==
  ASSUME NEW s \in JSON!Slots
  PROVE  JSON!Advance(s) = After(s, 0) /\ JSON!Advance(s) \in JSON!Slots
<1>1. Ringsize \in Nat \ {0}
  BY PartsAssumption DEF JSON!ResponsesAssumption
<1>2. CASE s + 1 < Ringsize
  <2>1. (s + 1) % Ringsize = s + 1
    BY <1>1, <1>2 DEF JSON!Slots
  <2> QED
    BY <1>1, <1>2, <2>1 DEF JSON!Advance, JSON!Slots, After
<1>3. CASE s + 1 = Ringsize
  <2>1. Ringsize % Ringsize = 0
    BY <1>1
  <2> QED
    BY <1>1, <1>3, <2>1 DEF JSON!Advance, JSON!Slots, After
<1> QED
  BY <1>1, <1>2, <1>3 DEF JSON!Slots

(* Fewer than Ringsize steps do not come back to the slot.                 *)
LEMMA AdvanceIsAfter ==
  ASSUME NEW s \in JSON!Slots, NEW k \in Nat, k + 1 < Ringsize
  PROVE  After(s, k) \in JSON!Slots /\ After(s, k) # s /\ JSON!Advance(After(s, k)) = After(s, k + 1)
<1>1. Ringsize \in Nat \ {0}
  BY PartsAssumption DEF JSON!ResponsesAssumption
<1>2. After(s, k) \in JSON!Slots /\ After(s, k) # s
  BY <1>1 DEF JSON!Slots, After
<1>3. JSON!Advance(After(s, k)) = After(After(s, k), 0)
  BY <1>2, AdvanceIsNext
<1> QED
  BY <1>1, <1>2, <1>3 DEF JSON!Slots, After

(* No response was given.                                                  *)
LEMMA ResponsesStart == JSON!Init => ResponsesInv
<1> SUFFICES ASSUME JSON!Init PROVE ResponsesInv
  OBVIOUS
<1>1. JSON!Storing = {}
  BY DEF JSON!Init, JSON!Storing
<1>2. IsFiniteSet(JSON!Storing)
  BY <1>1, FS_EmptySet
<1>3. Ringhead \in JSON!Slots
  BY PartsAssumption DEF JSON!Init, JSON!Slots, JSON!ResponsesAssumption
<1> QED
  BY <1>1, <1>2, <1>3 DEF JSON!Init, ResponsesInv

(* Generic responses are not stored; others are about to be.               *)
LEMMA ResponsesRequest ==
  ASSUME ResponsesInv, NEW t \in Threads, NEW r \in Responses \union {JSON!Generic}, JSON!JSONRequest(t, r)
  PROVE  ResponsesInv'
<1> USE DEF ResponsesInv, JSON!JSONRequest
<1>1. JSON!Storing' = JSON!Storing /\ t \notin JSON!Storing
  BY DEF JSON!Storing
<1>2. Response' \in [Threads -> Responses \union {Empty}]
  BY DEF JSON!Generic
<1>3. \A u \in JSON!Storing : Response'[u] = Response[u]
  BY <1>1 DEF JSON!Storing
<1>4. \A p \in returned : Kept(p) => Kept(p)'
  BY <1>1 DEF Kept, Later
<1> QED
  BY <1>1, <1>2, <1>3, <1>4 DEF Later, JSON!Slots

(* A response is written behind the head, so to none that is kept; two at  *)
(* once have raced.                                                        *)
LEMMA ResponsesStore ==
  ASSUME ResponsesInv, NEW t \in Threads, JSON!Store(t)
  PROVE  ResponsesInv'
<1> USE DEF ResponsesInv
<1>1. JSON!Storing' = JSON!Storing \union {t} /\ t \notin JSON!Storing
  BY DEF JSON!Storing, JSON!Store, JSON!Slots, JSON!None
<1>2. IsFiniteSet(JSON!Storing') /\ Cardinality(JSON!Storing') = Cardinality(JSON!Storing) + 1
  BY <1>1, FS_AddElement
<1>3. Cardinality(JSON!Storing) \in Nat
  BY FS_CardinalityType
<1>4. Results' \in [JSON!Slots -> Responses \union {Empty}] /\ Slot' \in [Threads -> JSON!Slots \union {JSON!None}]
      /\ stored' \in Nat /\ Ringhead' \in JSON!Slots /\ Response' \in [Threads -> Responses \union {Empty}]
  BY DEF JSON!Store
<1>5. \A u \in JSON!Storing' : Response'[u] # Empty
  BY <1>1 DEF JSON!Store
<1>6. ASSUME NEW u \in JSON!Storing', u \notin raced'
      PROVE  JSON!Storing' = {u} /\ Ringhead' = Slot'[u] /\ Results'[Slot'[u]] = Response'[u]
  <2>1. JSON!Storing = {} /\ u = t
    BY <1>1, <1>6 DEF JSON!Store
  <2> QED
    BY <1>1, <2>1 DEF JSON!Store
<1>7. \A p \in returned' : p.slot \in JSON!Slots /\ p.number \in Nat /\ p.number <= stored'
  BY DEF JSON!Store
<1>8. ASSUME NEW p \in returned', Later(p)' < Ringsize, ~p.raced
      PROVE  Kept(p)'
  <2>1. p \in returned /\ Later(p)' = Later(p) + 1 /\ Later(p) \in Nat /\ Later(p) < Ringsize
    BY <1>8, PartsAssumption DEF JSON!Store, Later, JSON!ResponsesAssumption
  <2>2. Kept(p)
    BY <2>1, <1>8
  <2>3. PICK k \in Nat : Ringhead = After(p.slot, k) /\ k + Cardinality(JSON!Storing) <= Later(p)
    BY <2>2 DEF Kept
  <2>4. Ringhead # p.slot
    <3>1. k + 1 < Ringsize
      BY <1>3, <1>8, <2>1, <2>3, PartsAssumption DEF JSON!ResponsesAssumption
    <3> QED
      BY <2>1, <2>3, <3>1, AdvanceIsAfter
  <2>5. Results'[p.slot] = p.response
    BY <2>1, <2>2, <2>4 DEF Kept, JSON!Store
  <2>6. k + Cardinality(JSON!Storing') <= Later(p)'
    BY <1>2, <1>3, <2>1, <2>3
  <2>7. Ringhead' = After(p.slot, k) /\ Slot'[t] = After(p.slot, k)
    BY <2>3 DEF JSON!Store
  <2>8. ASSUME NEW u \in JSON!Storing'
        PROVE  \E j \in Nat : Slot'[u] = After(p.slot, j) /\ j + Cardinality(JSON!Storing') <= Later(p)'
    <3>1. CASE u = t
      BY <3>1, <2>6, <2>7
    <3>2. CASE u # t
      <4>1. PICK j \in Nat : Slot[u] = After(p.slot, j) /\ j + Cardinality(JSON!Storing) <= Later(p)
        BY <1>1, <2>2, <3>2 DEF Kept
      <4>2. Slot'[u] = Slot[u]
        BY <3>2 DEF JSON!Store
      <4>3. j + Cardinality(JSON!Storing') <= Later(p)'
        BY <1>2, <1>3, <2>1, <4>1
      <4> QED
        BY <4>1, <4>2, <4>3
    <3> QED
      BY <3>1, <3>2
  <2> QED
    BY <2>5, <2>6, <2>7, <2>8 DEF Kept, After
<1> QED
  BY <1>2, <1>4, <1>5, <1>6, <1>7, <1>8

(* The head moves by one, from where the thread saw it, and there is one   *)
(* more response.                                                          *)
LEMMA ResponsesReturn ==
  ASSUME ResponsesInv, NEW t \in Threads, JSON!Return(t)
  PROVE  ResponsesInv'
<1> USE DEF ResponsesInv
<1> DEFINE q == [slot |-> Slot[t], response |-> Response[t], number |-> stored, raced |-> t \in raced]
<1>1. JSON!Storing' = JSON!Storing \ {t} /\ t \in JSON!Storing
  BY DEF JSON!Storing, JSON!Return, JSON!Slots, JSON!None
<1>2. IsFiniteSet(JSON!Storing') /\ Cardinality(JSON!Storing') = Cardinality(JSON!Storing) - 1
  BY <1>1, FS_RemoveElement
<1>3. Cardinality(JSON!Storing) \in Nat /\ Cardinality(JSON!Storing') \in Nat
  BY <1>2, FS_CardinalityType
<1>4. Slot[t] \in JSON!Slots
  BY <1>1 DEF JSON!Storing
<1>5. Results' \in [JSON!Slots -> Responses \union {Empty}] /\ Slot' \in [Threads -> JSON!Slots \union {JSON!None}]
      /\ stored' \in Nat /\ Ringhead' \in JSON!Slots /\ Response' \in [Threads -> Responses \union {Empty}]
  BY <1>4, AdvanceIsNext DEF JSON!Return
<1>6. \A u \in JSON!Storing' : Response'[u] # Empty
  BY <1>1 DEF JSON!Return
<1>7. ASSUME NEW u \in JSON!Storing', u \notin raced'
      PROVE  FALSE
  BY <1>1, <1>7 DEF JSON!Return
<1>8. returned' = returned \union {q}
  BY DEF JSON!Return
<1>9. \A p \in returned' : p.slot \in JSON!Slots /\ p.number \in Nat /\ p.number <= stored'
  BY <1>4, <1>8 DEF JSON!Return
<1>10. ASSUME NEW p \in returned, Later(p)' < Ringsize, ~p.raced
       PROVE  Kept(p)'
  <2>1. Later(p)' = Later(p) /\ Later(p) \in Nat
    BY DEF JSON!Return, Later
  <2>2. Kept(p)
    BY <2>1, <1>10
  <2>3. PICK head \in JSON!Slots : /\ Ringhead' = JSON!Advance(head)
                                   /\ \E k \in Nat : head = After(p.slot, k) /\ k + Cardinality(JSON!Storing) <= Later(p)
    BY <1>1, <1>4, <2>2 DEF Kept, JSON!Return
  <2>4. PICK k \in Nat : head = After(p.slot, k) /\ k + Cardinality(JSON!Storing) <= Later(p)
    BY <2>3
  <2>6. k + 1 + Cardinality(JSON!Storing') <= Later(p)' /\ k + 1 < Ringsize
    BY <1>2, <1>3, <1>10, <2>1, <2>4, PartsAssumption DEF JSON!ResponsesAssumption
  <2>7. Ringhead' = After(p.slot, k + 1)
    BY <2>3, <2>4, <2>6, AdvanceIsAfter
  <2>8. ASSUME NEW u \in JSON!Storing'
        PROVE  \E j \in Nat : Slot'[u] = After(p.slot, j) /\ j + Cardinality(JSON!Storing') <= Later(p)'
    <3>1. PICK j \in Nat : Slot[u] = After(p.slot, j) /\ j + Cardinality(JSON!Storing) <= Later(p)
      BY <1>1, <2>2 DEF Kept
    <3>2. Slot'[u] = Slot[u]
      BY <1>1 DEF JSON!Return, JSON!Storing
    <3> QED
      BY <1>2, <1>3, <2>1, <3>1, <3>2
  <2>9. Results'[p.slot] = p.response
    BY <2>2 DEF Kept, JSON!Return
  <2> QED
    BY <2>6, <2>7, <2>8, <2>9 DEF Kept, After
<1>11. ASSUME NEW p \in {q}, ~p.raced
       PROVE  Kept(p)'
  <2>1. p.slot = Slot[t] /\ p.response = Response[t] /\ p.number = stored /\ t \notin raced
    <3>1. p.slot = Slot[t] /\ p.response = Response[t] /\ p.number = stored
      OBVIOUS
    <3>2. p = q /\ q.raced = (t \in raced)
      <4>1. p = q
        OBVIOUS
      <4> QED
        BY <4>1, Zenon
    <3> QED
      BY <1>11, <3>1, <3>2
  <2>2. JSON!Storing = {t} /\ Ringhead = Slot[t] /\ Results[Slot[t]] = Response[t]
    BY <1>1, <2>1
  <2>3. Later(p)' = 0
    BY <2>1 DEF JSON!Return, Later
  <2>4. JSON!Storing' = {} /\ Cardinality(JSON!Storing') = 0
    BY <1>1, <2>2, FS_EmptySet
  <2>5. Ringhead' = After(p.slot, 0)
    BY <1>4, <2>1, <2>2, AdvanceIsNext DEF JSON!Return
  <2>6. Results'[p.slot] = p.response
    BY <2>1, <2>2 DEF JSON!Return
  <2> QED
    BY <2>3, <2>4, <2>5, <2>6 DEF Kept, After
<1>12. \A p \in returned' : Later(p)' < Ringsize /\ ~p.raced => Kept(p)'
  BY <1>8, <1>10, <1>11
<1> HIDE DEF q
<1> QED
  BY <1>2, <1>5, <1>6, <1>7, <1>9, <1>12

(* The cases of Next.                                                      *)
LEMMA ResponsesInvariance == JSON!Spec => []ResponsesInv
<1>1. ResponsesInv /\ [JSON!Next]_(JSON!vars) => ResponsesInv'
  <2>1. ResponsesInv /\ UNCHANGED JSON!vars => ResponsesInv'
    BY DEF JSON!vars, ResponsesInv, Kept, Later, JSON!Storing
  <2> QED
    BY <2>1, ResponsesRequest, ResponsesStore, ResponsesReturn DEF JSON!Next
<1> QED
  BY <1>1, ResponsesStart, PTL DEF JSON!Spec

(* What a plugin was given reads the same until Ringsize more are stored,  *)
(* for every number of threads and responses, if it was stored without a   *)
(* race (JSONAPI.cpp:15 and 33-64).                                        *)
THEOREM ResponsesAreKept == JSON!Spec => []ResponsesLive
<1>1. ResponsesInv => ResponsesLive
  BY DEF ResponsesInv, ResponsesLive, JSON!ResponsesLive, Kept, Later
<1> QED
  BY <1>1, ResponsesInvariance, PTL

-----------------------------------------------------------------------------
(* The byte buffer.                                                        *)

(* What can be written: a value of a type, or none.                        *)
Entries == UNION {{[type |-> Type, value |-> Value] : Value \in Buffer!Values[Type] \union {Buffer!Absent}} : Type \in Buffer!Types}

CellsOf(entry) == Buffer!Cells(entry.type, entry.value)

(* Where the next write, or the next read, is.                             *)
Place(offset) ==
  IF ~reading THEN offset[Len(written) + 1]
  ELSE IF Len(results) <= Len(written) THEN offset[Len(results) + 1]
  ELSE offset[Len(written) + 1] + Len(results) - Len(written)

(* Where each written value starts, and where the next one would.          *)
Layout(offset) ==
  /\ offset[1] = 0
  /\ \A n \in 1 .. Len(written) :
       /\ offset[n + 1] = offset[n] + Len(CellsOf(written[n]))
       /\ offset[n + 1] <= offset[Len(written) + 1]
       /\ \A k \in 1 .. Len(CellsOf(written[n])) : Internalbuffer[offset[n] + k] = CellsOf(written[n])[k]
  /\ offset[Len(written) + 1] <= Len(Internalbuffer)
  /\ \A k \in offset[Len(written) + 1] + 1 .. Len(Internalbuffer) : Internalbuffer[k] = 0
  /\ Internaliterator = Place(offset)

(* The cells before the iterator are the values that were written, those   *)
(* behind it what the buffer had at the start; each result is the value at *)
(* its place.                                                              *)
BufferInv ==
  /\ Internalbuffer \in Seq(Nat) /\ Internaliterator \in Nat
  /\ written \in Seq(Entries)
  /\ results \in Seq([type : Buffer!Types, value : Seq(Nat)])
  /\ reading \in BOOLEAN /\ (~reading => results = << >>)
  /\ \E offset \in [1 .. Len(written) + 1 -> Nat] : Layout(offset)
  /\ ReadsBack

(* s is a and b, one behind the other.                                     *)
Joined(s, a, b) ==
  /\ s \in Seq(Nat) /\ Len(s) = Len(a) + Len(b) /\ Len(a) \in Nat /\ Len(b) \in Nat
  /\ \A k \in 1 .. Len(a) : s[k] = a[k]
  /\ \A k \in 1 .. Len(b) : s[Len(a) + k] = b[k]

(* Concatenation by its items.                                             *)
LEMMA TwoConcatenated ==
  ASSUME NEW a \in Seq(Nat), NEW b \in Seq(Nat)
  PROVE  Joined(a \o b, a, b)
BY DEF Joined

(* The same of three sequences...                                          *)
LEMMA ThreeConcatenated ==
  ASSUME NEW a \in Seq(Nat), NEW b \in Seq(Nat), NEW c \in Seq(Nat), NEW s, s = a \o b \o c
  PROVE  /\ s \in Seq(Nat) /\ Len(s) = Len(a) + Len(b) + Len(c)
         /\ Len(a) \in Nat /\ Len(b) \in Nat /\ Len(c) \in Nat
         /\ \A k \in 1 .. Len(a) : s[k] = a[k]
         /\ \A k \in 1 .. Len(b) : s[Len(a) + k] = b[k]
         /\ \A k \in 1 .. Len(c) : s[Len(a) + Len(b) + k] = c[k]
<1>1. PICK ab : ab = a \o b /\ Joined(ab, a, b)
  BY TwoConcatenated
<1>2. Joined(ab \o c, ab, c)
  <2>1. ab \in Seq(Nat)
    BY <1>1, Zenon DEF Joined
  <2> QED
    BY <2>1, TwoConcatenated
<1>3. Joined(s, ab, c)
  BY <1>1, <1>2, Zenon
<1>4. s \in Seq(Nat)
  BY <1>3, Zenon DEF Joined
<1>5. /\ Len(ab) = Len(a) + Len(b) /\ Len(a) \in Nat /\ Len(b) \in Nat
      /\ \A k \in 1 .. Len(a) : ab[k] = a[k]
      /\ \A k \in 1 .. Len(b) : ab[Len(a) + k] = b[k]
  BY <1>1, Zenon DEF Joined
<1>6. /\ Len(s) = Len(ab) + Len(c) /\ Len(c) \in Nat
      /\ \A k \in 1 .. Len(ab) : s[k] = ab[k]
      /\ \A k \in 1 .. Len(c) : s[Len(ab) + k] = c[k]
  BY <1>3, Zenon DEF Joined
<1>7. ASSUME NEW k \in 1 .. Len(a) PROVE s[k] = a[k]
  BY <1>5, <1>6
<1>8. ASSUME NEW k \in 1 .. Len(b) PROVE s[Len(a) + k] = b[k]
  <2>1. Len(a) + k \in 1 .. Len(ab)
    BY <1>5
  <2> QED
    BY <1>5, <1>6, <2>1
<1>9. ASSUME NEW k \in 1 .. Len(c) PROVE s[Len(a) + Len(b) + k] = c[k]
  BY <1>5, <1>6
<1> QED
  BY <1>4, <1>5, <1>6, <1>7, <1>8, <1>9

(* s is a, b, c and d, one behind the other.                               *)
Concatenation(s, a, b, c, d) ==
  /\ s \in Seq(Nat) /\ Len(s) = Len(a) + Len(b) + Len(c) + Len(d)
  /\ Len(a) \in Nat /\ Len(b) \in Nat /\ Len(c) \in Nat /\ Len(d) \in Nat
  /\ \A k \in 1 .. Len(a) : s[k] = a[k]
  /\ \A k \in 1 .. Len(b) : s[Len(a) + k] = b[k]
  /\ \A k \in 1 .. Len(c) : s[Len(a) + Len(b) + k] = c[k]
  /\ \A k \in 1 .. Len(d) : s[Len(a) + Len(b) + Len(c) + k] = d[k]

(* ...and of four.                                                         *)
LEMMA FourConcatenated ==
  ASSUME NEW a \in Seq(Nat), NEW b \in Seq(Nat), NEW c \in Seq(Nat), NEW d \in Seq(Nat), NEW s, s = a \o b \o c \o d
  PROVE  Concatenation(s, a, b, c, d)
<1>1. PICK ab : ab = a \o b /\ Joined(ab, a, b)
  BY TwoConcatenated
<1>2. PICK abc : abc = ab \o c /\ Joined(abc, ab, c)
  <2>1. ab \in Seq(Nat)
    BY <1>1, Zenon DEF Joined
  <2> QED
    BY <2>1, TwoConcatenated
<1>3. Joined(abc \o d, abc, d)
  <2>1. abc \in Seq(Nat)
    BY <1>2, Zenon DEF Joined
  <2> QED
    BY <2>1, TwoConcatenated
<1>4. s = abc \o d
  BY <1>1, <1>2, Zenon
<1>5. Joined(s, abc, d)
  BY <1>3, <1>4, Zenon
<1>6. s \in Seq(Nat)
  BY <1>5, Zenon DEF Joined
<1>7. /\ Len(ab) = Len(a) + Len(b) /\ Len(a) \in Nat /\ Len(b) \in Nat
      /\ \A k \in 1 .. Len(a) : ab[k] = a[k]
      /\ \A k \in 1 .. Len(b) : ab[Len(a) + k] = b[k]
  BY <1>1, Zenon DEF Joined
<1>8. /\ Len(abc) = Len(ab) + Len(c) /\ Len(c) \in Nat
      /\ \A k \in 1 .. Len(ab) : abc[k] = ab[k]
      /\ \A k \in 1 .. Len(c) : abc[Len(ab) + k] = c[k]
  BY <1>2, Zenon DEF Joined
<1>9. /\ Len(s) = Len(abc) + Len(d) /\ Len(d) \in Nat
      /\ \A k \in 1 .. Len(abc) : s[k] = abc[k]
      /\ \A k \in 1 .. Len(d) : s[Len(abc) + k] = d[k]
  BY <1>5, Zenon DEF Joined
<1>10. ASSUME NEW k \in 1 .. Len(a) PROVE s[k] = a[k]
  BY <1>7, <1>8, <1>9
<1>11. ASSUME NEW k \in 1 .. Len(b) PROVE s[Len(a) + k] = b[k]
  <2>1. Len(a) + k \in 1 .. Len(ab) /\ Len(a) + k \in 1 .. Len(abc)
    BY <1>7, <1>8
  <2> QED
    BY <1>7, <1>8, <1>9, <2>1
<1>12. ASSUME NEW k \in 1 .. Len(c) PROVE s[Len(a) + Len(b) + k] = c[k]
  <2>1. Len(ab) + k \in 1 .. Len(abc)
    BY <1>7, <1>8
  <2> QED
    BY <1>7, <1>8, <1>9, <2>1
<1>13. ASSUME NEW k \in 1 .. Len(d) PROVE s[Len(a) + Len(b) + Len(c) + k] = d[k]
  BY <1>7, <1>8, <1>9
<1> QED
  BY <1>6, <1>7, <1>8, <1>9, <1>10, <1>11, <1>12, <1>13 DEF Concatenation

(* The n items of s behind its m-th.                                       *)
LEMMA ItemsBehind ==
  ASSUME NEW s \in Seq(Nat), NEW m \in Nat, NEW n \in Nat, m + n <= Len(s)
  PROVE  /\ SubSeq(s, m + 1, m + n) \in Seq(Nat) /\ Len(SubSeq(s, m + 1, m + n)) = n
         /\ \A k \in 1 .. n : SubSeq(s, m + 1, m + n)[k] = s[m + k]
<1>1. \A k \in m + 1 .. m + n : s[k] \in Nat
  OBVIOUS
<1> QED
  BY <1>1, SubSeqProperties

(* Functions on 1 .. m are sequences of length m.                          *)
LEMMA BoundedSequence ==
  ASSUME NEW S, S \subseteq Nat, NEW m \in Nat, NEW s \in [1 .. m -> S]
  PROVE  s \in Seq(Nat) /\ Len(s) = m /\ \A k \in 1 .. m : s[k] \in S
<1>1. s \in [1 .. m -> Nat]
  OBVIOUS
<1>2. s \in Seq(Nat)
  BY <1>1, SeqDef
<1> QED
  BY <1>2, LenProperties

(* The types whose values a buffer holds.                                  *)
Typenames == {"blob", "string", "integer", "array"}

(* The IDs of the types, which are different and not 0.                    *)
LEMMA TypesOfValues ==
  /\ Buffer!Types = Typenames
  /\ Buffer!toID["blob"] = 1 /\ Buffer!toID["string"] = 2 /\ Buffer!toID["integer"] = 11 /\ Buffer!toID["array"] = 111
BY DEF Buffer!Types, Buffer!toID, Typenames, Buffer!BB_BLOB, Buffer!BB_ASCIISTRING, Buffer!BB_UINT32, Buffer!BB_ARRAY

(* Values are sequences of numbers, strings have no zero in them, and none *)
(* is the value that stands for absence.                                   *)
LEMMA ValuesAreSequences ==
  ASSUME NEW Type \in Buffer!Types, NEW Value \in Buffer!Values[Type]
  PROVE  /\ Value \in Seq(Nat) /\ Value # Buffer!Absent
         /\ Type = "string" => \A k \in 1 .. Len(Value) : Value[k] # 0
         /\ Type = "integer" => Len(Value) = 1
<1> USE PartsAssumption DEF Buffer!BytebufferAssumption
<1>1. Items \subseteq Nat /\ 0 \notin Items
  OBVIOUS
<1>2. ASSUME NEW S, S \subseteq Nat, NEW s \in Buffer!BoundedSeq(S, MaxLength)
      PROVE  s \in Seq(S) /\ s \in Seq(Nat) /\ s # Buffer!Absent /\ \A k \in 1 .. Len(s) : s[k] \in S
  <2>1. PICK m \in 0 .. MaxLength : s \in [1 .. m -> S]
    BY <1>2 DEF Buffer!BoundedSeq, Buffer!SeqOf
  <2>2. s \in Seq(S) /\ Len(s) = m /\ s \in Seq(Nat)
    <3>1. m \in Nat
      OBVIOUS
    <3>2. s \in Seq(Nat) /\ Len(s) = m
      BY <1>2, <2>1, <3>1, BoundedSequence, Zenon
    <3> QED
      BY <2>1, <3>1, <3>2, SeqDef
  <2>3. \A k \in 1 .. m : s[k] \in S
    BY <2>1
  <2>4. s # Buffer!Absent
    <3>1. Buffer!Absent[1] \notin Nat /\ Len(Buffer!Absent) = 1
      BY DEF Buffer!Absent
    <3> QED
      BY <1>2, <2>2, <2>3, <3>1
  <2> QED
    BY <2>2, <2>3, <2>4
<1>3. CASE Type \in {"blob", "string"}
  <2>1. Value \in Buffer!BoundedSeq(Items, MaxLength)
    BY <1>3 DEF Buffer!Values
  <2> QED
    BY <1>1, <1>2, <1>3, <2>1
<1>4. CASE Type = "array"
  <2>1. Value \in Buffer!BoundedSeq(Buffer!Numbers, MaxLength) /\ Buffer!Numbers \subseteq Nat
    BY <1>1, <1>4 DEF Buffer!Values, Buffer!Numbers
  <2> QED
    BY <1>2, <1>4, <2>1
<1>5. CASE Type = "integer"
  <2>1. PICK n \in Buffer!Numbers : Value = <<n>>
    BY <1>5 DEF Buffer!Values
  <2>2. Buffer!Numbers \subseteq Nat
    BY <1>1 DEF Buffer!Numbers
  <2>3. n \in Nat
    BY <2>1, <2>2, Zenon
  <2> QED
    BY <1>5, <2>1, <2>2 DEF Buffer!Absent
<1> QED
  BY <1>3, <1>4, <1>5, TypesOfValues DEF Typenames

(* How many cells are before the value.                                    *)
FirstCell(Type) == 1 + Len(Buffer!Header(Type, 0))

(* The cells of a value: its ID, its length if it has one, itself, and the *)
(* end of a string.                                                        *)
LEMMA CellsShape ==
  ASSUME NEW Type \in Buffer!Types, NEW Value \in Buffer!Values[Type], NEW cells, cells = Buffer!Cells(Type, Value)
  PROVE  /\ cells \in Seq(Nat)
         /\ Len(cells) = FirstCell(Type) + Len(Value) + Len(Buffer!Terminator(Type))
         /\ FirstCell(Type) \in Nat \ {0} /\ Len(Buffer!Terminator(Type)) = (IF Type = "string" THEN 1 ELSE 0)
         /\ cells[1] = Buffer!toID[Type]
         /\ \A k \in 1 .. Len(Value) : cells[FirstCell(Type) + k] = Value[k]
         /\ Type = "string" => cells[FirstCell(Type) + Len(Value) + 1] = 0
         /\ Type \in {"blob", "array"} => cells[FirstCell(Type)] = Len(Value)
<1> DEFINE id == <<Buffer!toID[Type]>>
           header == Buffer!Header(Type, Len(Value))
           terminator == Buffer!Terminator(Type)
<1>1. Value \in Seq(Nat) /\ Value # Buffer!Absent /\ Len(Value) \in Nat
  BY ValuesAreSequences
<1>2. id \in Seq(Nat) /\ Len(id) = 1 /\ id[1] = Buffer!toID[Type]
  BY TypesOfValues DEF Typenames
<1>3. /\ header \in Seq(Nat) /\ FirstCell(Type) = 1 + Len(header)
      /\ Type \in {"blob", "array"} => Len(header) >= 1 /\ header[Len(header)] = Len(Value)
  <2>1. CASE Type = "integer"
    BY <2>1 DEF Buffer!Header, FirstCell
  <2>4. CASE Type = "string"
    BY <2>4 DEF Buffer!Header, FirstCell
  <2>2. CASE Type = "blob"
    BY <1>1, <2>2 DEF Buffer!Header, FirstCell, Buffer!BB_UINT32
  <2>3. CASE Type = "array"
    BY <1>1, <2>3 DEF Buffer!Header, FirstCell, Buffer!BB_UINT32
  <2> QED
    BY <2>1, <2>2, <2>3, <2>4, TypesOfValues DEF Typenames
<1>4. terminator \in Seq(Nat) /\ Len(terminator) = (IF Type = "string" THEN 1 ELSE 0) /\ (Type = "string" => terminator[1] = 0)
  BY DEF Buffer!Terminator
<1>5. cells = id \o header \o Value \o terminator
  BY <1>1 DEF Buffer!Cells
<1> HIDE DEF id, header, terminator
<1>6. /\ cells \in Seq(Nat) /\ Len(cells) = Len(id) + Len(header) + Len(Value) + Len(terminator)
      /\ Len(id) \in Nat /\ Len(header) \in Nat /\ Len(Value) \in Nat /\ Len(terminator) \in Nat
      /\ \A k \in 1 .. Len(id) : cells[k] = id[k]
      /\ \A k \in 1 .. Len(header) : cells[Len(id) + k] = header[k]
      /\ \A k \in 1 .. Len(Value) : cells[Len(id) + Len(header) + k] = Value[k]
      /\ \A k \in 1 .. Len(terminator) : cells[Len(id) + Len(header) + Len(Value) + k] = terminator[k]
  <2>1. id \in Seq(Nat) /\ header \in Seq(Nat) /\ Value \in Seq(Nat) /\ terminator \in Seq(Nat)
    BY <1>1, <1>2, <1>3, <1>4
  <2> QED
    <3>1. Concatenation(cells, id, header, Value, terminator)
      BY <1>5, <2>1, FourConcatenated
    <3> QED
      BY <3>1, Zenon DEF Concatenation
<1>7. cells[1] = Buffer!toID[Type]
  BY <1>2, <1>6
<1>8. \A k \in 1 .. Len(Value) : cells[FirstCell(Type) + k] = Value[k]
  <2>1. FirstCell(Type) = Len(id) + Len(header)
    BY <1>2, <1>3
  <2> QED
    BY <1>6, <2>1, Zenon
<1>9. Type = "string" => cells[FirstCell(Type) + Len(Value) + 1] = 0
  BY <1>2, <1>3, <1>4, <1>6
<1>10. Type \in {"blob", "array"} => cells[FirstCell(Type)] = Len(Value)
  <2> SUFFICES ASSUME Type \in {"blob", "array"} PROVE cells[FirstCell(Type)] = Len(Value)
    OBVIOUS
  <2>1. Len(header) \in 1 .. Len(header) /\ header[Len(header)] = Len(Value) /\ FirstCell(Type) = Len(id) + Len(header)
    BY <1>2, <1>3, <1>6
  <2> QED
    BY <1>6, <2>1
<1>11. FirstCell(Type) \in Nat \ {0} /\ Len(cells) = FirstCell(Type) + Len(Value) + Len(terminator)
  <2>1. Len(header) \in Nat /\ Len(cells) = Len(id) + Len(header) + Len(Value) + Len(terminator)
    BY <1>6, Zenon
  <2>2. FirstCell(Type) = 1 + Len(header) /\ Len(id) = 1
    BY <1>2, <1>3, Zenon
  <2> QED
    BY <2>1, <2>2
<1>12. Buffer!Terminator(Type) = terminator
  BY DEF terminator
<1> QED
  BY <1>4, <1>6, <1>7, <1>8, <1>9, <1>10, <1>11, <1>12

(* An absent value is a zero.                                              *)
LEMMA AbsentCells ==
  ASSUME NEW Type
  PROVE  Buffer!Cells(Type, Buffer!Absent) = <<0>>
BY DEF Buffer!Cells, Buffer!BB_NONE

(* What a write leaves of the buffer b at place n, which may have to grow. *)
LEMMA Overwritten ==
  ASSUME NEW b \in Seq(Nat), NEW n \in 0 .. Len(b), NEW c \in Seq(Nat), NEW s
  PROVE  s = SubSeq(b, 1, n) \o c \o SubSeq(b, n + Len(c) + 1, Len(b)) =>
         /\ s \in Seq(Nat) /\ n + Len(c) <= Len(s)
         /\ \A k \in 1 .. n : s[k] = b[k]
         /\ \A k \in 1 .. Len(c) : s[n + k] = c[k]
         /\ \A k \in n + Len(c) + 1 .. Len(s) : k <= Len(b) /\ s[k] = b[k]
<1>1. ASSUME s = SubSeq(b, 1, n) \o c \o SubSeq(b, n + Len(c) + 1, Len(b))
      PROVE  /\ s \in Seq(Nat) /\ n + Len(c) <= Len(s)
             /\ \A k \in 1 .. n : s[k] = b[k]
             /\ \A k \in 1 .. Len(c) : s[n + k] = c[k]
             /\ \A k \in n + Len(c) + 1 .. Len(s) : k <= Len(b) /\ s[k] = b[k]
  <2>1. PICK a : a = SubSeq(b, 1, n)
    OBVIOUS
  <2>2. PICK m : m = n + Len(c)
    OBVIOUS
  <2>3. PICK d : d = SubSeq(b, m + 1, Len(b))
    OBVIOUS
  <2>4. s = a \o c \o d
    BY <1>1, <2>1, <2>2, <2>3
  <2>5. Len(b) \in Nat /\ Len(c) \in Nat /\ m \in Nat /\ n \in Nat
    BY <2>2
  <2>6. a \in Seq(Nat) /\ Len(a) = n /\ \A k \in 1 .. n : a[k] = b[k]
    BY <2>1, <2>5
  <2>7. /\ d \in Seq(Nat) /\ (m < Len(b) => Len(d) = Len(b) - m) /\ (m >= Len(b) => Len(d) = 0)
        /\ \A k \in 1 .. Len(b) - m : d[k] = b[m + k]
    <3>1. m + 1 \in Int /\ Len(b) \in Int /\ \A k \in m + 1 .. Len(b) : b[k] \in Nat
      BY <2>5
    <3>2. /\ d \in Seq(Nat) /\ Len(d) = (IF m + 1 <= Len(b) THEN Len(b) - (m + 1) + 1 ELSE 0)
          /\ \A k \in 1 .. Len(b) - (m + 1) + 1 : d[k] = b[m + 1 + k - 1]
      BY <2>3, <3>1, SubSeqProperties
    <3> QED
      BY <2>5, <3>2
  <2>8. a \in Seq(Nat) /\ d \in Seq(Nat)
    BY <2>6, <2>7
  <2>9. /\ s \in Seq(Nat) /\ Len(s) = Len(a) + Len(c) + Len(d)
        /\ \A k \in 1 .. Len(a) : s[k] = a[k]
        /\ \A k \in 1 .. Len(c) : s[Len(a) + k] = c[k]
        /\ \A k \in 1 .. Len(d) : s[Len(a) + Len(c) + k] = d[k]
    <3>1. \A x \in Seq(Nat), y \in Seq(Nat) : s = x \o c \o y =>
             /\ s \in Seq(Nat) /\ Len(s) = Len(x) + Len(c) + Len(y)
             /\ \A k \in 1 .. Len(x) : s[k] = x[k]
             /\ \A k \in 1 .. Len(c) : s[Len(x) + k] = c[k]
             /\ \A k \in 1 .. Len(y) : s[Len(x) + Len(c) + k] = y[k]
      BY ThreeConcatenated
    <3> QED
      BY <2>4, <2>8, <3>1, Zenon
  <2>12. Len(a) = n /\ Len(s) = n + Len(c) + Len(d) /\ Len(d) \in Nat
    BY <2>5, <2>6, <2>7, <2>9
  <2>10. ASSUME NEW k \in n + Len(c) + 1 .. Len(s)
         PROVE  k <= Len(b) /\ s[k] = b[k]
    <3>1. m < Len(b) /\ Len(d) = Len(b) - m /\ k - m \in 1 .. Len(d) /\ k \in Nat
      BY <2>2, <2>5, <2>7, <2>12
    <3>2. s[m + (k - m)] = d[k - m]
      BY <2>2, <2>9, <2>12, <3>1
    <3>3. d[k - m] = b[m + (k - m)]
      BY <2>7, <3>1
    <3>4. m + (k - m) = k
      BY <2>5, <3>1
    <3> QED
      BY <2>5, <3>1, <3>2, <3>3, <3>4
  <2>11. n + Len(c) <= Len(s)
    BY <2>2, <2>5, <2>12
  <2> QED
    BY <2>6, <2>9, <2>10, <2>11, <2>12
<1> QED
  BY <1>1

(* What was written takes at least one cell.                               *)
LEMMA EntryCells ==
  ASSUME NEW entry \in Entries
  PROVE  /\ entry.type \in Buffer!Types /\ (entry.value # Buffer!Absent => entry.value \in Buffer!Values[entry.type])
         /\ entry = [type |-> entry.type, value |-> entry.value]
         /\ CellsOf(entry) \in Seq(Nat) /\ Len(CellsOf(entry)) \in Nat \ {0}
<1>1. PICK Type \in Buffer!Types : entry \in {[type |-> Type, value |-> Value] : Value \in Buffer!Values[Type] \union {Buffer!Absent}}
  BY DEF Entries
<1>2. PICK Value \in Buffer!Values[Type] \union {Buffer!Absent} : entry = [type |-> Type, value |-> Value]
  BY <1>1
<1>3. entry.type = Type /\ entry.value = Value
  BY <1>2
<1>4. CASE Value = Buffer!Absent
  <2>1. CellsOf(entry) = <<0>>
    BY <1>3, <1>4, AbsentCells DEF CellsOf
  <2> QED
    <3>1. <<0>> \in Seq(Nat) /\ Len(<<0>>) = 1
      OBVIOUS
    <3>2. CellsOf(entry) \in Seq(Nat) /\ Len(CellsOf(entry)) \in Nat \ {0}
      BY <2>1, <3>1
    <3> QED
      BY <1>2, <1>3, <1>4, <3>2
<1>5. CASE Value # Buffer!Absent
  <2>1. Value \in Buffer!Values[Type] /\ Value \in Seq(Nat)
    BY <1>2, <1>5, ValuesAreSequences
  <2>2. CellsOf(entry) = Buffer!Cells(Type, Value)
    BY <1>3 DEF CellsOf
  <2>3. /\ Buffer!Cells(Type, Value) \in Seq(Nat)
        /\ Len(Buffer!Cells(Type, Value)) = FirstCell(Type) + Len(Value) + Len(Buffer!Terminator(Type))
        /\ FirstCell(Type) \in Nat \ {0} /\ Len(Buffer!Terminator(Type)) = (IF Type = "string" THEN 1 ELSE 0)
    BY <2>1, CellsShape
  <2>4. Len(Buffer!Terminator(Type)) \in Nat /\ Len(Value) \in Nat
    BY <2>1, <2>3
  <2> QED
    BY <1>2, <1>3, <2>1, <2>2, <2>3, <2>4
<1> QED
  BY <1>4, <1>5

(* The buffer has zeros or nothing.                                        *)
LEMMA BufferStart == Buffer!Init => BufferInv
<1> SUFFICES ASSUME Buffer!Init PROVE BufferInv
  OBVIOUS
<1>1. PICK size \in Nat : Internalbuffer = [k \in 1 .. size |-> 0]
  BY PartsAssumption DEF Buffer!Init, Buffer!BytebufferAssumption
<1>2. Internalbuffer \in Seq(Nat) /\ Len(Internalbuffer) = size /\ \A k \in 1 .. size : Internalbuffer[k] = 0
  BY <1>1, BoundedSequence, SeqDef
<1>3. written = << >> /\ results = << >> /\ reading = FALSE /\ Internaliterator = 0
  BY DEF Buffer!Init
<1>4. written \in Seq(Entries) /\ Len(written) = 0 /\ results \in Seq([type : Buffer!Types, value : Seq(Nat)]) /\ Len(results) = 0
  BY <1>3
<1>5. ReadsBack
  BY <1>3 DEF ReadsBack, Buffer!ReadsBack
<1>6. PICK offset : offset = [n \in 1 .. Len(written) + 1 |-> 0]
  OBVIOUS
<1>7. offset \in [1 .. Len(written) + 1 -> Nat] /\ offset[1] = 0
  BY <1>4, <1>6
<1>8. Layout(offset)
  BY <1>2, <1>3, <1>4, <1>7 DEF Layout, Place
<1> QED
  BY <1>2, <1>3, <1>4, <1>5, <1>7, <1>8 DEF BufferInv

(* A value is put behind the others; the next offset is behind it.         *)
LEMMA BufferWrite ==
  ASSUME BufferInv, NEW Type \in Buffer!Types, NEW Value \in Buffer!Values[Type] \union {Buffer!Absent}, Buffer!Write(Type, Value)
  PROVE  BufferInv'
<1> DEFINE entry == [type |-> Type, value |-> Value]
           last == Len(written) + 1
<1>1. PICK cells : cells = Buffer!Cells(Type, Value)
  OBVIOUS
<1>2. entry \in Entries /\ cells = CellsOf(entry)
  BY <1>1 DEF Entries, CellsOf
<1>3. cells \in Seq(Nat) /\ Len(cells) \in Nat \ {0}
  BY <1>2, EntryCells
<1>4. ~reading /\ reading' = reading /\ results' = results /\ written' = Append(written, entry) /\ results = << >>
  BY DEF Buffer!Write, BufferInv
<1>5. /\ Internalbuffer' = SubSeq(Internalbuffer, 1, Internaliterator) \o cells \o
                           SubSeq(Internalbuffer, Internaliterator + Len(cells) + 1, Len(Internalbuffer))
      /\ Internaliterator' = Internaliterator + Len(cells)
  BY <1>1 DEF Buffer!Write, Buffer!rawWrite
<1>6. PICK offset \in [1 .. Len(written) + 1 -> Nat] : Layout(offset)
  BY DEF BufferInv
<1>7. Internalbuffer \in Seq(Nat) /\ Internaliterator \in Nat /\ written \in Seq(Entries) /\ Len(written) \in Nat
  BY DEF BufferInv
<1>8. Internaliterator = offset[last] /\ offset[last] <= Len(Internalbuffer) /\ offset[last] \in Nat /\ offset[1] = 0
      /\ \A k \in offset[last] + 1 .. Len(Internalbuffer) : Internalbuffer[k] = 0
  BY <1>4, <1>6, <1>7 DEF Layout, Place
<1>9. Internaliterator \in 0 .. Len(Internalbuffer)
  BY <1>7, <1>8
<1>10. /\ Internalbuffer' \in Seq(Nat) /\ Internaliterator + Len(cells) <= Len(Internalbuffer')
       /\ \A k \in 1 .. Internaliterator : Internalbuffer'[k] = Internalbuffer[k]
       /\ \A k \in 1 .. Len(cells) : Internalbuffer'[Internaliterator + k] = cells[k]
       /\ \A k \in Internaliterator + Len(cells) + 1 .. Len(Internalbuffer') :
             k <= Len(Internalbuffer) /\ Internalbuffer'[k] = Internalbuffer[k]
  <2>1. \A i \in 0 .. Len(Internalbuffer) : \A new :
          new = SubSeq(Internalbuffer, 1, i) \o cells \o SubSeq(Internalbuffer, i + Len(cells) + 1, Len(Internalbuffer)) =>
          /\ new \in Seq(Nat) /\ i + Len(cells) <= Len(new)
          /\ \A k \in 1 .. i : new[k] = Internalbuffer[k]
          /\ \A k \in 1 .. Len(cells) : new[i + k] = cells[k]
          /\ \A k \in i + Len(cells) + 1 .. Len(new) : k <= Len(Internalbuffer) /\ new[k] = Internalbuffer[k]
    <3>1. Internalbuffer \in Seq(Nat) /\ cells \in Seq(Nat)
      BY <1>3, <1>7
    <3> QED
      BY <3>1, Overwritten
  <2> QED
    BY <1>5, <1>9, <2>1, Zenon
<1>11. written' \in Seq(Entries) /\ Len(written') = last /\ written'[last] = entry
       /\ \A n \in 1 .. Len(written) : written'[n] = written[n]
  BY <1>2, <1>4, <1>7
<1> HIDE DEF entry
<1>12. PICK next : next = [n \in 1 .. last + 1 |-> IF n <= last THEN offset[n] ELSE offset[last] + Len(cells)]
  OBVIOUS
<1>13. /\ next \in [1 .. Len(written') + 1 -> Nat] /\ next[1] = 0
       /\ next[last + 1] = offset[last] + Len(cells)
       /\ \A n \in 1 .. last : next[n] = offset[n]
  BY <1>3, <1>7, <1>8, <1>11, <1>12
<1>14. Internaliterator' = next[last + 1]
  BY <1>5, <1>8, <1>13
<1>15. \A k \in next[last + 1] + 1 .. Len(Internalbuffer') : Internalbuffer'[k] = 0
  <2> SUFFICES ASSUME NEW k \in next[last + 1] + 1 .. Len(Internalbuffer') PROVE Internalbuffer'[k] = 0
    OBVIOUS
  <2>1. k \in Internaliterator + Len(cells) + 1 .. Len(Internalbuffer')
    BY <1>8, <1>13
  <2>2. k <= Len(Internalbuffer) /\ Internalbuffer'[k] = Internalbuffer[k]
    BY <1>10, <2>1
  <2>3. k \in offset[last] + 1 .. Len(Internalbuffer)
    BY <1>3, <1>8, <2>1, <2>2
  <2> QED
    BY <1>8, <2>2, <2>3
<1>16. ASSUME NEW n \in 1 .. Len(written')
       PROVE  /\ next[n + 1] = next[n] + Len(CellsOf(written'[n]))
              /\ next[n + 1] <= next[last + 1]
              /\ \A k \in 1 .. Len(CellsOf(written'[n])) : Internalbuffer'[next[n] + k] = CellsOf(written'[n])[k]
  <2>1. CASE n = last
    <3>1. CellsOf(written'[n]) = cells /\ next[n] = offset[last] /\ next[n + 1] = offset[last] + Len(cells)
      BY <1>2, <1>7, <1>11, <1>13, <2>1
    <3>2. \A k \in 1 .. Len(cells) : Internalbuffer'[offset[last] + k] = cells[k]
      BY <1>8, <1>10
    <3> QED
      BY <1>3, <1>8, <1>13, <2>1, <3>1, <3>2
  <2>2. CASE n \in 1 .. Len(written)
    <3>1. /\ offset[n + 1] = offset[n] + Len(CellsOf(written[n])) /\ offset[n + 1] <= offset[last]
          /\ \A k \in 1 .. Len(CellsOf(written[n])) : Internalbuffer[offset[n] + k] = CellsOf(written[n])[k]
      BY <1>6, <2>2 DEF Layout, Place
    <3>2. next[n] = offset[n] /\ next[n + 1] = offset[n + 1] /\ written'[n] = written[n] /\ offset[n] \in Nat /\ offset[n + 1] \in Nat
      <4>1. n \in 1 .. last /\ n + 1 \in 1 .. last
        BY <1>7, <2>2
      <4>2. offset[n] \in Nat /\ offset[n + 1] \in Nat
        BY <4>1
      <4> QED
        BY <1>11, <1>13, <2>2, <4>1, <4>2
    <3>3. Len(CellsOf(written[n])) \in Nat
      BY <1>7, <2>2, EntryCells
    <3>4. ASSUME NEW k \in 1 .. Len(CellsOf(written[n]))
          PROVE  Internalbuffer'[offset[n] + k] = CellsOf(written[n])[k]
      <4>1. offset[n] + k \in 1 .. Internaliterator
        <5>1. PICK length \in Nat : length = Len(CellsOf(written[n]))
          BY <3>3
        <5>2. PICK place \in Nat, end \in Nat : place = offset[n] /\ end = Internaliterator
          BY <1>7, <3>2
        <5>3. place + length <= end
          BY <1>8, <3>1, <5>1, <5>2, Zenon
        <5>4. k \in 1 .. length
          BY <5>1, Zenon
        <5>5. place + k \in 1 .. end
          BY <5>3, <5>4
        <5> QED
          BY <5>2, <5>5, Zenon
      <4> QED
        BY <1>10, <3>1, <4>1
    <3> QED
      BY <1>3, <1>8, <1>13, <3>1, <3>2, <3>4
  <2> QED
    BY <1>7, <1>11, <2>1, <2>2
<1>17. Layout(next)'
  BY <1>4, <1>5, <1>8, <1>10, <1>11, <1>13, <1>14, <1>15, <1>16 DEF Layout, Place
<1>18. ReadsBack'
  BY <1>4 DEF ReadsBack, Buffer!ReadsBack
<1>19. results' \in Seq([type : Buffer!Types, value : Seq(Nat)]) /\ reading' \in BOOLEAN /\ (~reading' => results' = << >>)
  BY <1>4 DEF BufferInv
<1>20. Internaliterator' \in Nat
  BY <1>3, <1>5, <1>7
<1> QED
  BY <1>10, <1>11, <1>13, <1>17, <1>18, <1>19, <1>20 DEF BufferInv

(* The reader begins at offset 0.                                          *)
LEMMA BufferRewind ==
  ASSUME BufferInv, Buffer!Rewind
  PROVE  BufferInv'
<1> USE DEF BufferInv, Buffer!Rewind
<1>1. PICK offset \in [1 .. Len(written) + 1 -> Nat] : Layout(offset)
  OBVIOUS
<1>2. results = << >> /\ Len(results) = 0 /\ Len(written) \in Nat
  OBVIOUS
<1>3. Layout(offset)'
  BY <1>1, <1>2 DEF Layout, Place
<1>4. ReadsBack'
  BY <1>2 DEF ReadsBack, Buffer!ReadsBack
<1> QED
  BY <1>1, <1>3, <1>4

(* What a reader is at: the cells of the value it did not read yet.        *)
LEMMA AtValue ==
  ASSUME BufferInv, reading, Len(results) < Len(written), NEW entry, entry = written[Len(results) + 1]
  PROVE  /\ entry \in Entries
         /\ Internaliterator + Len(CellsOf(entry)) <= Len(Internalbuffer)
         /\ \A k \in 1 .. Len(CellsOf(entry)) : Internalbuffer[Internaliterator + k] = CellsOf(entry)[k]
         /\ Buffer!Peek = CellsOf(entry)[1]
<1>1. PICK offset \in [1 .. Len(written) + 1 -> Nat] : Layout(offset)
  BY DEF BufferInv
<1>2. PICK n : n = Len(results) + 1
  OBVIOUS
<1>3. n \in 1 .. Len(written) /\ Len(written) \in Nat /\ Len(Internalbuffer) \in Nat /\ Internaliterator \in Nat
  BY <1>2 DEF BufferInv
<1>4. entry = written[n] /\ entry \in Entries
  BY <1>2, <1>3 DEF BufferInv
<1>5. Len(CellsOf(entry)) \in Nat \ {0}
  BY <1>4, EntryCells
<1>6. Internaliterator = offset[n]
  BY <1>1, <1>2, <1>3 DEF Layout, Place
<1>7. /\ offset[n + 1] = offset[n] + Len(CellsOf(entry)) /\ offset[n + 1] <= offset[Len(written) + 1]
      /\ \A k \in 1 .. Len(CellsOf(entry)) : Internalbuffer[offset[n] + k] = CellsOf(entry)[k]
      /\ offset[Len(written) + 1] <= Len(Internalbuffer)
  BY <1>1, <1>3, <1>4 DEF Layout, Place
<1>8. offset[Len(written) + 1] \in Nat /\ offset[n + 1] \in Nat
  BY <1>3
<1>9. Internaliterator + Len(CellsOf(entry)) <= Len(Internalbuffer)
  BY <1>3, <1>5, <1>6, <1>7, <1>8
<1>10. Internalbuffer[Internaliterator + 1] = CellsOf(entry)[1] /\ Internaliterator < Len(Internalbuffer)
  BY <1>3, <1>5, <1>6, <1>7, <1>9
<1>11. Buffer!Peek = CellsOf(entry)[1]
  BY <1>3, <1>10 DEF Buffer!Peek, Buffer!Cell
<1> QED
  BY <1>4, <1>6, <1>7, <1>9, <1>11

(* Behind the last value there are zeros, or nothing.                      *)
LEMMA AtTheEnd ==
  ASSUME BufferInv, reading, Len(results) >= Len(written)
  PROVE  Buffer!Peek = 0
<1>1. PICK offset \in [1 .. Len(written) + 1 -> Nat] : Layout(offset)
  BY DEF BufferInv
<1>2. Len(written) \in Nat /\ Len(results) \in Nat /\ Len(Internalbuffer) \in Nat /\ Internaliterator \in Nat
  BY DEF BufferInv
<1>3. offset[Len(written) + 1] \in Nat
  BY <1>2
<1>4. Internaliterator = offset[Len(written) + 1] + Len(results) - Len(written)
  <2>1. Internaliterator = Place(offset)
    BY <1>1 DEF Layout
  <2> QED
    BY <1>2, <1>3, <2>1 DEF Place
<1>5. Internaliterator < Len(Internalbuffer) => Internalbuffer[Internaliterator + 1] = 0
  <2>1. \A k \in offset[Len(written) + 1] + 1 .. Len(Internalbuffer) : Internalbuffer[k] = 0
    BY <1>1 DEF Layout
  <2> QED
    BY <1>2, <1>3, <1>4, <2>1
<1> QED
  BY <1>2, <1>5 DEF Buffer!Peek, Buffer!Cell, Buffer!BB_NONE

(* A read that gives the next value, or the default where there is none,   *)
(* and goes behind it.                                                     *)
LEMMA BufferMoves ==
  ASSUME BufferInv, reading, NEW Type \in Buffer!Types, NEW Value \in Seq(Nat),
         UNCHANGED <<Internalbuffer, written, reading>>,
         results' = Append(results, [type |-> Type, value |-> Value]),
         Internaliterator' = Internaliterator + (IF Len(results) < Len(written) THEN Len(CellsOf(written[Len(results) + 1])) ELSE 1),
         IF Len(results) < Len(written) /\ written[Len(results) + 1].value # Buffer!Absent
         THEN [type |-> Type, value |-> Value] = written[Len(results) + 1] ELSE Value = Buffer!Default(Type)
  PROVE  BufferInv'
<1>1. PICK offset \in [1 .. Len(written) + 1 -> Nat] : Layout(offset)
  BY DEF BufferInv
<1>2. PICK m : m = Len(results)
  OBVIOUS
<1>3. /\ m \in Nat /\ Len(written) \in Nat /\ Internaliterator \in Nat /\ written \in Seq(Entries)
      /\ results \in Seq([type : Buffer!Types, value : Seq(Nat)])
  BY <1>2 DEF BufferInv
<1>4. [type |-> Type, value |-> Value] \in [type : Buffer!Types, value : Seq(Nat)]
  OBVIOUS
<1>5. /\ results' \in Seq([type : Buffer!Types, value : Seq(Nat)]) /\ Len(results') = m + 1
      /\ results'[m + 1] = [type |-> Type, value |-> Value]
      /\ \A n \in 1 .. m : results'[n] = results[n]
  BY <1>2, <1>3, <1>4
<1>6. m < Len(written) => Len(CellsOf(written[m + 1])) \in Nat
  <2> SUFFICES ASSUME m < Len(written) PROVE Len(CellsOf(written[m + 1])) \in Nat
    OBVIOUS
  <2>1. written[m + 1] \in Entries
    BY <1>3
  <2> QED
    BY <2>1, EntryCells
<1>7. Internaliterator' \in Nat
  BY <1>2, <1>3, <1>6
<1>8. Internaliterator' = IF m + 1 <= Len(written) THEN offset[m + 1 + 1] ELSE offset[Len(written) + 1] + (m + 1) - Len(written)
  <2>1. CASE m < Len(written)
    <3>1. Internaliterator = Place(offset) /\ offset[m + 1 + 1] = offset[m + 1] + Len(CellsOf(written[m + 1]))
      <4>1. m + 1 \in 1 .. Len(written)
        BY <1>3, <2>1
      <4> QED
        BY <1>1, <4>1 DEF Layout
    <3>2. Internaliterator = offset[m + 1]
      BY <1>2, <1>3, <2>1, <3>1 DEF Place
    <3> QED
      BY <1>2, <1>3, <2>1, <3>1, <3>2
  <2>2. CASE m >= Len(written)
    <3>1. Len(written) + 1 \in 1 .. Len(written) + 1
      BY <1>3
    <3>2. offset[Len(written) + 1] \in Nat
      BY <3>1
    <3>3. Internaliterator = Place(offset)
      BY <1>1 DEF Layout
    <3>4. Internaliterator = offset[Len(written) + 1] + m - Len(written)
      BY <1>2, <1>3, <2>2, <3>2, <3>3 DEF Place
    <3> QED
      BY <1>2, <1>3, <2>2, <3>2, <3>4
  <2> QED
    BY <1>3, <2>1, <2>2
<1>9. Layout(offset)'
  BY <1>1, <1>5, <1>8 DEF Layout, Place
<1>10. ReadsBack'
  <2> SUFFICES ASSUME NEW n \in DOMAIN results'
               PROVE  IF n <= Len(written) /\ written[n].value # Buffer!Absent THEN results'[n] = written[n]
                      ELSE results'[n].value = Buffer!Default(results'[n].type)
    BY DEF ReadsBack, Buffer!ReadsBack
  <2>1. n \in 1 .. m + 1
    BY <1>5
  <2>2. CASE n \in 1 .. m
    <3>1. IF n <= Len(written) /\ written[n].value # Buffer!Absent THEN results[n] = written[n]
          ELSE results[n].value = Buffer!Default(results[n].type)
      BY <1>2, <1>3, <2>2 DEF BufferInv, ReadsBack, Buffer!ReadsBack
    <3> QED
      BY <1>5, <2>2, <3>1
  <2>3. CASE n = m + 1
    BY <1>2, <1>3, <1>5, <2>3
  <2>4. n \in 1 .. m \/ n = m + 1
    BY <1>3, <2>1
  <2> QED
    BY <2>2, <2>3, <2>4, Zenon
<1> QED
  BY <1>1, <1>3, <1>5, <1>7, <1>9, <1>10 DEF BufferInv

(* Different types have different IDs.                                     *)
LEMMA Unequal ==
  ASSUME NEW T1 \in Buffer!Types, NEW T2 \in Buffer!Types
  PROVE  Buffer!toID[T1] # 0 /\ (Buffer!toID[T1] = Buffer!toID[T2] => T1 = T2) /\ Buffer!toID[T1] \in Nat
BY TypesOfValues DEF Typenames

(* A zero is an absent value, or behind the last one.                      *)
LEMMA BufferReadNone ==
  ASSUME BufferInv, NEW Type \in Buffer!Types, Buffer!ReadNone(Type)
  PROVE  BufferInv'
<1>1. /\ reading /\ Buffer!Peek = 0 /\ UNCHANGED <<Internalbuffer, written, reading>>
      /\ Internaliterator' = Internaliterator + 1
      /\ results' = Append(results, [type |-> Type, value |-> Buffer!Default(Type)])
  BY DEF Buffer!ReadNone, Buffer!BB_NONE, Buffer!Advance, Buffer!Result
<1>2. PICK Value : Value = Buffer!Default(Type)
  OBVIOUS
<1>3. Value \in Seq(Nat)
  BY <1>2 DEF Buffer!Default
<1>4. Len(results) \in Nat /\ Len(written) \in Nat
  BY DEF BufferInv
<1>5. ASSUME Len(results) < Len(written)
      PROVE  Len(CellsOf(written[Len(results) + 1])) = 1 /\ written[Len(results) + 1].value = Buffer!Absent
  <2>1. PICK entry : entry = written[Len(results) + 1]
    OBVIOUS
  <2>2. entry \in Entries /\ CellsOf(entry)[1] = 0
    BY <1>1, <1>5, <2>1, AtValue
  <2>3. entry.value = Buffer!Absent
    <3> SUFFICES ASSUME entry.value # Buffer!Absent PROVE FALSE
      OBVIOUS
    <3>1. entry.type \in Buffer!Types /\ entry.value \in Buffer!Values[entry.type]
      BY <2>2, EntryCells
    <3>2. CellsOf(entry)[1] = Buffer!toID[entry.type]
      BY <3>1, CellsShape DEF CellsOf
    <3> QED
      BY <2>2, <3>1, <3>2, Unequal
  <2>4. CellsOf(entry) = <<0>>
    BY <2>3, AbsentCells DEF CellsOf
  <2> QED
    BY <2>1, <2>3, <2>4
<1>6. results' = Append(results, [type |-> Type, value |-> Value])
  BY <1>1, <1>2
<1>7. Internaliterator' = Internaliterator + (IF Len(results) < Len(written) THEN Len(CellsOf(written[Len(results) + 1])) ELSE 1)
  BY <1>1, <1>5
<1>8. IF Len(results) < Len(written) /\ written[Len(results) + 1].value # Buffer!Absent
      THEN [type |-> Type, value |-> Value] = written[Len(results) + 1] ELSE Value = Buffer!Default(Type)
  BY <1>2, <1>5
<1> QED
  BY <1>1, <1>3, <1>6, <1>7, <1>8, BufferMoves

(* The string behind the iterator ends where the written one does.         *)
LEMMA StrlenIsLength ==
  ASSUME Internalbuffer \in Seq(Nat), Internaliterator \in Nat, NEW n \in Nat,
         Internaliterator + n + 2 <= Len(Internalbuffer),
         \A k \in 1 .. n : Internalbuffer[Internaliterator + 1 + k] # 0,
         Internalbuffer[Internaliterator + 1 + (n + 1)] = 0
  PROVE  Buffer!Strlen = n
<1> DEFINE Ends(k) == Buffer!Cell(k) = 0 /\ \A l \in 1 .. k - 1 : Buffer!Cell(l) # 0
           End == CHOOSE k \in 1 .. Len(Internalbuffer) : Ends(k)
<1>1. Len(Internalbuffer) \in Nat
  OBVIOUS
<1>3. Buffer!Cell(n + 1) = 0 /\ \A k \in 1 .. n : Buffer!Cell(k) # 0
  BY Zenon DEF Buffer!Cell
<1>4. End \in 1 .. Len(Internalbuffer) /\ Ends(End)
  <2>1. n + 1 \in 1 .. Len(Internalbuffer) /\ n + 1 - 1 = n
    BY <1>1
  <2>2. Ends(n + 1)
    BY <1>3, <2>1
  <2> QED
    BY <2>1, <2>2
<1>5. Buffer!Strlen = End - 1
  BY DEF Buffer!Strlen
<1> HIDE DEF End
<1>6. End = n + 1
  <2>1. End \in 1 .. n => FALSE
    BY <1>3, <1>4
  <2>2. n + 1 \in 1 .. End - 1 => FALSE
    BY <1>3, <1>4
  <2> QED
    BY <1>4, <2>1, <2>2
<1> QED
  BY <1>5, <1>6

(* An ID of the type that is asked for is the beginning of the next value, *)
(* and the length behind it is the one of that value.                      *)
LEMMA BufferReadValue ==
  ASSUME BufferInv, NEW Type \in Buffer!Types, Buffer!ReadValue(Type)
  PROVE  BufferInv'
<1> DEFINE start == 1 + Len(Buffer!Header(Type, 0))
           count == IF Type = "integer" THEN 1 ELSE IF Type = "string" THEN Buffer!Strlen ELSE Buffer!Cell(start - 1)
<1>1. /\ reading /\ Buffer!Peek = Buffer!toID[Type] /\ UNCHANGED <<Internalbuffer, written, reading>>
      /\ Internaliterator' = Internaliterator + (start + count + Len(Buffer!Terminator(Type)))
      /\ results' = Append(results, [type |-> Type, value |-> Buffer!Many(start, count)])
  BY DEF Buffer!ReadValue, Buffer!Advance, Buffer!Result
<1>2. Len(results) \in Nat /\ Len(written) \in Nat /\ Internalbuffer \in Seq(Nat) /\ Internaliterator \in Nat
  BY DEF BufferInv
<1>3. Len(results) < Len(written)
  BY <1>1, <1>2, AtTheEnd, Unequal
<1>4. PICK entry : entry = written[Len(results) + 1]
  OBVIOUS
<1>5. PICK cells : cells = CellsOf(entry)
  OBVIOUS
<1>6. /\ entry \in Entries /\ cells[1] = Buffer!toID[Type]
      /\ Internaliterator + Len(cells) <= Len(Internalbuffer)
      /\ \A k \in 1 .. Len(cells) : Internalbuffer[Internaliterator + k] = cells[k]
  BY <1>1, <1>3, <1>4, <1>5, AtValue
<1>7. entry.value # Buffer!Absent
  <2> SUFFICES ASSUME entry.value = Buffer!Absent PROVE FALSE
    OBVIOUS
  <2>1. cells = <<0>>
    BY <1>5, AbsentCells DEF CellsOf
  <2> QED
    BY <1>6, <2>1, Unequal
<1>8. entry.type \in Buffer!Types /\ entry.value \in Buffer!Values[entry.type] /\ entry = [type |-> entry.type, value |-> entry.value]
  BY <1>6, <1>7, EntryCells
<1>9. cells = Buffer!Cells(entry.type, entry.value)
  BY <1>5 DEF CellsOf
<1>10. entry.type = Type
  <2>1. cells[1] = Buffer!toID[entry.type]
    BY <1>8, <1>9, CellsShape
  <2> QED
    BY <1>6, <1>8, <2>1, Unequal
<1>11. PICK Value : Value = entry.value
  OBVIOUS
<1>12. Value \in Buffer!Values[Type] /\ entry = [type |-> Type, value |-> Value] /\ cells = Buffer!Cells(Type, Value)
  BY <1>8, <1>9, <1>10, <1>11
<1>13. /\ Value \in Seq(Nat) /\ Len(Value) \in Nat
       /\ Type = "string" => \A k \in 1 .. Len(Value) : Value[k] # 0
       /\ Type = "integer" => Len(Value) = 1
  BY <1>12, ValuesAreSequences
<1>14. /\ start \in Nat \ {0} /\ Len(Buffer!Terminator(Type)) = (IF Type = "string" THEN 1 ELSE 0)
       /\ Len(cells) = start + Len(Value) + Len(Buffer!Terminator(Type))
       /\ \A k \in 1 .. Len(Value) : cells[start + k] = Value[k]
       /\ Type = "string" => cells[start + Len(Value) + 1] = 0
       /\ Type \in {"blob", "array"} => cells[start] = Len(Value)
  BY <1>12, CellsShape DEF FirstCell
<1>15. Type = "string" => start = 1
  BY DEF Buffer!Header
<1> HIDE DEF start, count
<1>16. Len(Buffer!Terminator(Type)) \in Nat
  BY <1>14
<1>17. count = Len(Value)
  <2>1. CASE Type = "integer"
    BY <1>13, <2>1 DEF count
  <2>2. CASE Type = "string"
    <3>1. Len(cells) = Len(Value) + 2 /\ Len(cells) \in Nat
      BY <1>13, <1>14, <1>15, <2>2
    <3>2. ASSUME NEW k \in 1 .. Len(Value) PROVE Internalbuffer[Internaliterator + 1 + k] # 0
      <4>1. 1 + k \in 1 .. Len(cells)
        BY <1>13, <3>1
      <4>2. Internalbuffer[Internaliterator + (1 + k)] = cells[1 + k]
        BY <1>6, <4>1
      <4>3. Internaliterator + (1 + k) = Internaliterator + 1 + k
        BY <1>2
      <4>4. cells[1 + k] = Value[k] /\ Value[k] # 0
        BY <1>13, <1>14, <1>15, <2>2
      <4> QED
        BY <4>2, <4>3, <4>4
    <3>3. Internalbuffer[Internaliterator + 1 + (Len(Value) + 1)] = 0
      <4>1. Len(Value) + 2 \in 1 .. Len(cells) /\ cells[Len(Value) + 2] = 0
        BY <1>13, <1>14, <1>15, <2>2, <3>1
      <4>2. Internalbuffer[Internaliterator + (Len(Value) + 2)] = 0
        BY <1>6, <4>1, Zenon
      <4>3. Internaliterator + (Len(Value) + 2) = Internaliterator + 1 + (Len(Value) + 1)
        BY <1>2, <1>13
      <4> QED
        BY <4>2, <4>3, Zenon
    <3>4. Internaliterator + Len(Value) + 2 <= Len(Internalbuffer)
      BY <1>2, <1>6, <1>13, <3>1
    <3>5. Buffer!Strlen = Len(Value)
      BY <1>2, <1>13, <3>2, <3>3, <3>4, StrlenIsLength
    <3> QED
      BY <2>2, <3>5 DEF count
  <2>3. CASE Type \in {"blob", "array"}
    <3>1. start \in 1 .. Len(cells)
      BY <1>13, <1>14, <1>16
    <3>2. Internalbuffer[Internaliterator + start] = Len(Value)
      BY <1>6, <1>14, <2>3, <3>1
    <3>3. Buffer!Cell(start - 1) = Len(Value)
      BY <1>2, <1>14, <3>2 DEF Buffer!Cell
    <3> QED
      BY <2>3, <3>3 DEF count
  <2> QED
    BY <2>1, <2>2, <2>3, TypesOfValues DEF Typenames
<1>18. Buffer!Many(start, count) = Value
  <2>1. PICK s : s = SubSeq(Internalbuffer, Internaliterator + 1 + start, Internaliterator + start + Len(Value))
    OBVIOUS
  <2>2. ASSUME NEW k \in 1 .. Len(Value)
        PROVE  Internalbuffer[Internaliterator + start + k] = Value[k] /\ start + k \in 1 .. Len(cells)
    <3>1. start + k \in 1 .. Len(cells)
      BY <1>13, <1>14, <1>16
    <3>2. Internalbuffer[Internaliterator + (start + k)] = cells[start + k]
      BY <1>6, <3>1
    <3>3. Internaliterator + (start + k) = Internaliterator + start + k
      BY <1>2, <1>14
    <3> QED
      BY <1>14, <3>1, <3>2, <3>3
  <2>3. PICK m \in Nat : m = Internaliterator + start
    BY <1>2, <1>14
  <2>4. m + Len(Value) <= Len(Internalbuffer)
    <3>1. Len(cells) = start + Len(Value) + Len(Buffer!Terminator(Type))
      BY <1>14
    <3> QED
      BY <1>2, <1>6, <1>13, <1>14, <1>16, <2>3, <3>1
  <2>5. s = SubSeq(Internalbuffer, m + 1, m + Len(Value))
    <3>1. Internaliterator + 1 + start = m + 1
      BY <1>2, <1>14, <2>3
    <3> QED
      BY <2>1, <2>3, <3>1, Zenon
  <2>6. Internalbuffer \in Seq(Nat) /\ Len(Value) \in Nat
    BY <1>2, <1>13
  <2>7. s \in Seq(Nat) /\ Len(s) = Len(Value) /\ \A k \in 1 .. Len(Value) : s[k] = Internalbuffer[m + k]
    BY <2>4, <2>5, <2>6, ItemsBehind
  <2>8. \A k \in 1 .. Len(s) : s[k] = Value[k]
    BY <2>2, <2>3, <2>7
  <2>9. s = Value
    BY <1>13, <2>7, <2>8, SeqEqual
  <2> QED
    BY <1>17, <2>1, <2>9 DEF Buffer!Many
<1>19. results' = Append(results, [type |-> Type, value |-> Value])
  BY <1>1, <1>18
<1>20. Internaliterator' = Internaliterator + (IF Len(results) < Len(written) THEN Len(CellsOf(written[Len(results) + 1])) ELSE 1)
  BY <1>1, <1>3, <1>4, <1>5, <1>14, <1>17
<1>21. IF Len(results) < Len(written) /\ written[Len(results) + 1].value # Buffer!Absent
       THEN [type |-> Type, value |-> Value] = written[Len(results) + 1] ELSE Value = Buffer!Default(Type)
  BY <1>3, <1>4, <1>7, <1>12
<1> QED
  BY <1>1, <1>13, <1>19, <1>20, <1>21, BufferMoves

(* The cases of Next; reads of another type change nothing.                *)
LEMMA BufferInvariance == Buffer!Spec => []BufferInv
<1>1. BufferInv /\ [Buffer!Next]_(Buffer!vars) => BufferInv'
  <2>1. BufferInv /\ UNCHANGED Buffer!vars => BufferInv'
    <3> SUFFICES ASSUME BufferInv, UNCHANGED Buffer!vars PROVE BufferInv'
      OBVIOUS
    <3>1. UNCHANGED <<Internalbuffer, Internaliterator, written, results, reading>>
      BY DEF Buffer!vars
    <3>2. \A offset : Layout(offset) => Layout(offset)'
      BY <3>1, Zenon DEF Layout, Place
    <3>3. ReadsBack'
      BY <3>1, Zenon DEF BufferInv, ReadsBack, Buffer!ReadsBack
    <3> QED
      BY <3>1, <3>2, <3>3 DEF BufferInv
  <2>2. \A Type \in Buffer!Types : BufferInv /\ Buffer!Read(Type) => BufferInv'
    BY <2>1, BufferReadNone, BufferReadValue DEF Buffer!Read, Buffer!ReadOther
  <2>3. BufferInv /\ Buffer!ReadAssert => BufferInv'
    <3> SUFFICES ASSUME BufferInv, Buffer!ReadAssert PROVE BufferInv'
      OBVIOUS
    <3>1. UNCHANGED <<Internalbuffer, Internaliterator, written, results, reading>>
      BY DEF Buffer!ReadAssert
    <3>2. \A offset : Layout(offset) => Layout(offset)'
      BY <3>1, Zenon DEF Layout, Place
    <3>3. ReadsBack'
      BY <3>1, Zenon DEF BufferInv, ReadsBack, Buffer!ReadsBack
    <3> QED
      BY <3>1, <3>2, <3>3 DEF BufferInv
  <2> QED
    BY <2>1, <2>2, <2>3, BufferWrite, BufferRewind DEF Buffer!Next
<1> QED
  BY <1>1, BufferStart, PTL DEF Buffer!Spec

(* Blobs, strings, integers and arrays of integers that were written are   *)
(* what the reads that move on give, in the same order and with their own  *)
(* types, for values and buffers of any length, whatever other reads fail  *)
(* in between and even if an assertion ends the process at a string        *)
(* (Bytebuffer.hpp:203-438, without the arrays of strings).                *)
THEOREM ValuesReadBack == Buffer!Spec => []ReadsBack
<1>1. BufferInv => ReadsBack
  BY DEF BufferInv
<1> QED
  BY <1>1, BufferInvariance, PTL

-----------------------------------------------------------------------------
(* All parts.                                                              *)

(* Whatever part runs, the behaviour is one of every part, most of them    *)
(* stuttering: what holds for the specification of one holds here.         *)
THEOREM EachPart ==
  PartsSpec => Spec /\ Lock!Spec /\ Wait!Spec /\ Plugin!Spec /\ Log!Spec /\ JSON!Spec
                 /\ Query!Spec /\ Buffer!Spec /\ Key!Spec /\ Text!Spec
<1>1. PartsInit => Init /\ Lock!Init /\ Wait!Init /\ Plugin!Init /\ Log!Init /\ JSON!Init
                     /\ Query!Init /\ Buffer!Init /\ Key!Init /\ Text!Init
  BY Zenon DEF PartsInit
<1>2. [PartsNext]_allVars => [Next]_vars
  BY Zenon DEF PartsNext, allVars, vars
<1>3. [PartsNext]_allVars => [Lock!Next]_(Lock!vars)
  BY Zenon DEF PartsNext, allVars, lockVars, Lock!vars
<1>4. [PartsNext]_allVars => [Wait!Next]_(Wait!vars)
  BY Zenon DEF PartsNext, allVars, waitVars, Wait!vars
<1>5. [PartsNext]_allVars => [Plugin!Next]_(Plugin!vars)
  BY Zenon DEF PartsNext, allVars, pluginVars, Plugin!vars, Plugin!memory, Plugin!plugin
<1>6. [PartsNext]_allVars => [Log!Next]_(Log!vars)
  BY Zenon DEF PartsNext, allVars, logVars, Log!vars, Log!reader
<1>7. [PartsNext]_allVars => [JSON!Next]_(JSON!vars)
  BY Zenon DEF PartsNext, allVars, jsonVars, JSON!vars
<1>8. [PartsNext]_allVars => [Query!Next]_(Query!vars)
  BY Zenon DEF PartsNext, allVars, queryVars, Query!vars
<1>9. [PartsNext]_allVars => [Buffer!Next]_(Buffer!vars)
  BY Zenon DEF PartsNext, allVars, bufferVars, Buffer!vars
<1>10. [PartsNext]_allVars => [Key!Next]_(Key!vars)
  BY Zenon DEF PartsNext, allVars, keyVars, Key!vars
<1>11. [PartsNext]_allVars => [Text!Next]_(Text!vars)
  BY Zenon DEF PartsNext, allVars, textVars, Text!vars
<1> QED
  BY <1>1, <1>2, <1>3, <1>4, <1>5, <1>6, <1>7, <1>8, <1>9, <1>10, <1>11, PTL
     DEF PartsSpec, Spec, Lock!Spec, Wait!Spec, Plugin!Spec, Log!Spec, JSON!Spec, Query!Spec, Buffer!Spec, Key!Spec, Text!Spec

(* What is checked for all parts together holds for any instance of them:  *)
(* every invariant, with the exceptions that each states, and that the     *)
(* debug mutex implements a mutex (the sections above, Encodings_proofs    *)
(* and LANNetworking_proofs).                                              *)
COROLLARY AllParts ==
  PartsSpec =>
    /\ [](TypeOK /\ SentOnce /\ OvertakenOnlyIfBlocked)
    /\ [](TrueAlarms /\ NothingOverlooked /\ RunsOnce /\ HostUndisturbed)
    /\ [](ResponsesLive /\ ReadsBack /\ PayloadSurvives /\ KeySurvives)
    /\ ImplementsMutex
<1>1. NetworkAssumption
  BY PartsAssumption
<1>2. Spec => []TypeOK /\ []SentOnce /\ []OvertakenOnlyIfBlocked
  BY <1>1, TypeCorrect, PacketsAreSentOnce, QueueKeepsOrder, PTL
<1> QED
  BY <1>2, EachPart, Alarms, Refinement, ReaderIsCurrent, EvaluatedOnce, HostIsUndisturbed,
     ResponsesAreKept, ValuesReadBack, PayloadsSurvive, KeysSurvive, PTL
=============================================================================
