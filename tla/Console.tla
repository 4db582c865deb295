------------------------------ MODULE Console ------------------------------
(***************************************************************************)
(* Communication/Console.cpp: a log of the last lines, to which any thread *)
(* adds messages of one or more lines, and commands that any thread runs.  *)
(* Writelock guards the log, so the lines of a message are added in one    *)
(* step; LastmessageID is counted after the lock is released. A reader     *)
(* (external: a plugin that shows the log) looks at LastmessageID and gets *)
(* the log only when it changed.                                           *)
(*                                                                         *)
(* Commands has no lock; here nothing is added to it while a thread runs a *)
(* command. Handlers are known by the number of lines they print.          *)
(***************************************************************************)
EXTENDS Integers, Sequences, SequencesExt, FiniteSets

CONSTANTS
  Threads,
  Names,        (* Spellings of commands,...                                *)
  Upper,        (* ...and what they are in upper case.                      *)
  Lines,        (* How many lines messages have and handlers print.         *)
  Loglimit,     (* 128: lines in the log.                                   *)
  Maxcount,     (* How many lines the reader asks for.                      *)
  MaxMessages   (* Bound: messages.                                         *)

ConsoleAssumption ==
  /\ Lines \subseteq Nat \ {0} /\ Loglimit \in Nat \ {0} /\ Maxcount \in Nat
  /\ MaxMessages \in Nat

VARIABLES
  Consolelog,   (* A line is <<number of its message, number in it>>.       *)
  LastmessageID,
  Commands,     (* The handlers of each name.                               *)
  todo,         (* For each thread, how many lines each message will have   *)
                (* that the code it is in is still to add.                  *)
  added,        (* The threads that added and have yet to count.            *)
  shown, seenID, (* The reader: what it got last, and the ID it had read,... *)
  newID,        (* ...and one that differs, before it gets the log.         *)
  total         (* History: messages so far.                                *)

reader == <<shown, seenID, newID>>
vars == <<Consolelog, LastmessageID, Commands, todo, added, reader, total>>

None == -1

Init ==
  /\ Consolelog = << >> /\ LastmessageID = 0
  /\ Commands = [n \in Names |-> {}]
  /\ todo = [t \in Threads |-> << >>] /\ added = {}
  /\ shown = << >> /\ seenID = 0 /\ newID = None
  /\ total = 0

Newest(n, s) == IF Len(s) > n THEN SubSeq(s, Len(s) - n + 1, Len(s)) ELSE s

Idle(t) == todo[t] = << >> /\ t \notin added

addMessage(t, count) ==
  /\ Idle(t)
  /\ todo' = [todo EXCEPT ![t] = <<count>>]
  /\ UNCHANGED <<Consolelog, LastmessageID, Commands, added, reader, total>>

(* The lines of a message and then, without the lock, the ID.              *)
AddLines(t) ==
  /\ total < MaxMessages
  /\ total' = total + 1
  /\ Consolelog' = Newest(Loglimit, Consolelog \o [k \in 1 .. Head(todo[t]) |-> <<total', k>>])
Count == LastmessageID' = LastmessageID + 1

Step_CountFirst(t) ==
  /\ todo[t] # << >>
  /\ \/ t \notin added /\ Count /\ added' = added \union {t} /\ UNCHANGED <<Consolelog, total, todo>>
     \/ t \in added /\ AddLines(t) /\ added' = added \ {t} /\ todo' = [todo EXCEPT ![t] = Tail(@)] /\ UNCHANGED LastmessageID
  /\ UNCHANGED <<Commands, reader>>
Step(t) ==
  /\ \/ /\ t \notin added /\ todo[t] # << >>
        /\ AddLines(t)
        /\ added' = added \union {t} /\ todo' = [todo EXCEPT ![t] = Tail(@)]
        /\ UNCHANGED LastmessageID
     \/ /\ t \in added
        /\ Count
        /\ added' = added \ {t}
        /\ UNCHANGED <<Consolelog, total, todo>>
  /\ UNCHANGED <<Commands, reader>>

addCommand(n, Callback) ==
  /\ \A t \in Threads : Idle(t)
  /\ Callback \notin Commands[n]
  /\ Commands' = [Commands EXCEPT ![n] = @ \union {Callback}]
  /\ UNCHANGED <<Consolelog, LastmessageID, todo, added, reader, total>>

(* Findcommand ignores case, and finds the first of several spellings.     *)
Findcommand(Command) == {n \in Names : Commands[n] # {} /\ Upper[n] = Upper[Command]}

(* execCommand: an error, or the echo if wanted and then the handlers.     *)
execCommand(t, Command, Log) ==
  /\ Idle(t)
  /\ \/ Findcommand(Command) = {} /\ todo' = [todo EXCEPT ![t] = <<1>>]
     \/ \E n \in Findcommand(Command) : \E Handlers \in SetToSeqs(Commands[n]) :
          todo' = [todo EXCEPT ![t] = (IF Log THEN <<1>> ELSE << >>) \o Handlers]
  /\ UNCHANGED <<Consolelog, LastmessageID, Commands, added, reader, total>>

-----------------------------------------------------------------------------
(* getMessages goes from the oldest line to the newest.                    *)
getMessages == SubSeq(Consolelog, 1, IF Len(Consolelog) < Maxcount THEN Len(Consolelog) ELSE Maxcount)

LookAtID ==
  /\ newID = None /\ LastmessageID # seenID
  /\ newID' = LastmessageID
  /\ UNCHANGED <<Consolelog, LastmessageID, Commands, todo, added, shown, seenID, total>>

Show ==
  /\ newID # None
  /\ shown' = getMessages
  /\ seenID' = newID /\ newID' = None
  /\ UNCHANGED <<Consolelog, LastmessageID, Commands, todo, added, total>>

Next ==
  \/ \E t \in Threads :
       \/ \E count \in Lines : addMessage(t, count)
       \/ Step(t)
       \/ \E c \in Names, Log \in BOOLEAN : execCommand(t, c, Log)
  \/ \E n \in Names, Callback \in Lines : addCommand(n, Callback)
  \/ LookAtID \/ Show

Spec == Init /\ [][Next]_vars

-----------------------------------------------------------------------------
(* A reader that compares IDs overlooks nothing: when it has seen the last *)
(* one, it shows what getMessages gives, but for messages that are just    *)
(* being added; whoever adds messages or runs commands meanwhile           *)
(* (Console.cpp:26-94; Communication.hpp:50, "Useful for checking for new  *)
(* messages"). That getMessages gives the oldest lines of a log that is    *)
(* longer than what is asked for (line 77) is not the reader's doing.      *)
NothingOverlooked == seenID = LastmessageID /\ added = {} => shown = getMessages
=============================================================================
