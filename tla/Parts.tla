------------------------------- MODULE Parts -------------------------------
(***************************************************************************)
(* The smaller parts, which share no state: in each behaviour one of them  *)
(* runs, and the others keep one of their initial states. The network is   *)
(* extended, as LANNetworking_proofs does, and the others are instances;   *)
(* wherever one of their constants is missing here, it is the network's.   *)
(***************************************************************************)
EXTENDS LANNetworking

CONSTANTS
  Candidates,                                         (* Parts to choose    *)
  Addresses,                                          (* Waitonaddress      *)
  Plugins, Timer, Wrappers, MaxCallbacks,             (* Pluginloader       *)
  Names, Upper, Lines, Loglimit, Maxcount, MaxMessages,  (* Console         *)
  Responses, Empty, Ringsize, MaxResponses,           (* JSONAPI            *)
  MaxArgs, MaxUses,                                   (* Statement          *)
  Items, MaxLength, MaxValues, Sizes,                 (* Bytebuffer         *)
  Keysize, Keys,                                      (* Base58             *)
  Base, Radix, Pad, Payloads                          (* Base85             *)

VARIABLES
  part,
  Currentowner, Mutex_, locking, broken,
  host, hook, at, table, Index, entrycode, EPTrampoline, OriginalTLS,
  Pluginhandles, Initialized, waiting, notifying, events, told,
  differs, Source, Threadguard, asking, watched, calling,
  Consolelog, LastmessageID, Commands, todo, added, shown, seenID, newID, total,
  Results, Ringhead, Response, Slot, returned, stored, raced,
  alive, Argcount, Argument, bindings, RUN, use, given, interrupted, evaluations,
  Internalbuffer, Internaliterator, written, results, reading, aborted,
  key, Publickey, PK,
  payload, Data, Payload, handed

lockVars    == <<Currentowner, Mutex_, locking, broken>>
pluginVars  == <<host, hook, at, table, Index, entrycode, EPTrampoline, OriginalTLS,
                 Pluginhandles, Initialized, waiting, notifying, events, told>>
waitVars    == <<differs, Source, Threadguard, asking, watched, calling>>
logVars     == <<Consolelog, LastmessageID, Commands, todo, added, shown, seenID, newID, total>>
jsonVars    == <<Results, Ringhead, Response, Slot, returned, stored, raced>>
queryVars   == <<alive, Argcount, Argument, bindings, RUN, use, given, interrupted, evaluations>>
bufferVars  == <<Internalbuffer, Internaliterator, written, results, reading, aborted>>
keyVars     == <<key, Publickey, PK>>
textVars    == <<payload, Data, Payload, handed>>

allVars == <<part, vars, lockVars, pluginVars, waitVars, logVars, jsonVars, queryVars, bufferVars, keyVars, textVars>>

Lock    == INSTANCE Debugmutex WITH Threads <- Callers, Nobody <- Nothing, pc <- locking
Wait    == INSTANCE Waitonaddress WITH Nobody <- Nothing, i <- watched
Plugin  == INSTANCE Pluginloader WITH todo <- notifying
Log     == INSTANCE Console
JSON    == INSTANCE JSONAPI WITH Backlog <- Ringsize
Query   == INSTANCE Statement WITH Index <- Argument
Buffer  == INSTANCE Bytebuffer
Key     == INSTANCE Base58
Text    == INSTANCE Base85

ASSUME PartsAssumption ==
  /\ NetworkAssumption /\ Lock!NobodyAssumption /\ Wait!WaitAssumption /\ Plugin!PluginAssumption
  /\ Log!ConsoleAssumption /\ JSON!ResponsesAssumption /\ Query!StatementAssumption
  /\ Buffer!BytebufferAssumption /\ Key!Base58Assumption /\ Text!Base85Assumption

(* One initial state is enough for a part that does not run.               *)
Idle == [size |-> CHOOSE n \in Sizes : TRUE, key |-> CHOOSE k \in Keys : TRUE, payload |-> CHOOSE p \in Payloads : TRUE]

PartsInit ==
  /\ part \in Candidates
  /\ Init /\ Lock!Init /\ Wait!Init /\ Log!Init /\ JSON!Init
  /\ Plugin!Init /\ (part # "Pluginloader" => host = [TLS |-> FALSE, callbacks |-> 0])
  /\ Query!Init /\ (part # "Statement" => Argcount = 0)
  /\ Buffer!Init /\ (part # "Bytebuffer" => Len(Internalbuffer) = Idle.size)
  /\ (part # "Base58" => key = Idle.key) /\ Key!Init
  /\ (part # "Base85" => payload = Idle.payload) /\ Text!Init

PartsNext ==
  /\ IF part = "LANNetworking" THEN Next ELSE UNCHANGED vars
  /\ IF part = "Debugmutex" THEN Lock!Next ELSE UNCHANGED lockVars
  /\ IF part = "Waitonaddress" THEN Wait!Next ELSE UNCHANGED waitVars
  /\ IF part = "Pluginloader" THEN Plugin!Next ELSE UNCHANGED pluginVars
  /\ IF part = "Console" THEN Log!Next ELSE UNCHANGED logVars
  /\ IF part = "JSONAPI" THEN JSON!Next ELSE UNCHANGED jsonVars
  /\ IF part = "Statement" THEN Query!Next ELSE UNCHANGED queryVars
  /\ IF part = "Bytebuffer" THEN Buffer!Next ELSE UNCHANGED bufferVars
  /\ IF part = "Base58" THEN Key!Next ELSE UNCHANGED keyVars
  /\ IF part = "Base85" THEN Text!Next ELSE UNCHANGED textVars
  /\ UNCHANGED part

(* Threads go on where the code is ours, the background thread runs its    *)
(* tasks in every frame and, asleep between two, leaves the spinlock to    *)
(* others; timers end, and a detached thread never stops trying.           *)
Fairness ==
  /\ WF_pluginVars(part = "Pluginloader" /\ Plugin!Progress)
  /\ \A t \in Callers :
       /\ WF_lockVars(part = "Debugmutex" /\ Lock!Progress(t))
       /\ WF_vars(part = "LANNetworking" /\ (Push(t) \/ Publish(t)))
  /\ WF_vars(part = "LANNetworking" /\ Poll)
  /\ \A p \in Packets : WF_vars(part = "LANNetworking" /\ Retry(p))
  /\ WF_waitVars(part = "Waitonaddress" /\ Wait!StartPoll)
  /\ WF_waitVars(part = "Waitonaddress" /\ Wait!Poll)
  /\ \A t \in Threads :
       /\ SF_waitVars(part = "Waitonaddress" /\ Wait!Lock(t))
       /\ WF_waitVars(part = "Waitonaddress" /\ Wait!Register(t))

PartsSpec == PartsInit /\ [][PartsNext]_allVars /\ Fairness

-----------------------------------------------------------------------------
(* The properties of the instances, which explain them; those of the       *)
(* network have their names from there.                                    *)

(* A debug mutex ends the process only for a reason (Debugmutex.hpp).      *)
TrueAlarms == Lock!TrueAlarms

(* Its unguarded owner is a lock of its own (Debugmutex.hpp).              *)
ImplementsMutex == Lock!ImplementsMutex

(* Who asks for it gets it, or the process ends (Debugmutex.hpp).          *)
NobodyWaitsForever == Lock!NobodyWaitsForever

(* The host's TLS callbacks run as without us (Pluginloader.cpp).          *)
HostUndisturbed == Plugin!HostUndisturbed

(* Loaded plugins are initialized, and once (Pluginloader.cpp).            *)
PluginsNotified == Plugin!PluginsNotified

(* The trampoline has the code of the entry point (Hooking.hpp:51).        *)
CodeIsSaved == Plugin!CodeIsSaved

(* An address that goes on to differ is noticed (Waitonaddress.cpp).       *)
WriteNoticed == Wait!WriteNoticed

(* A reader that compares IDs overlooks no message (Console.cpp).          *)
NothingOverlooked == Log!NothingOverlooked

(* A response lives until N others are stored (JSONAPI.cpp).               *)
ResponsesLive == JSON!ResponsesLive

(* A statement is evaluated once for a use, or twice for a single row that *)
(* is not there (Databasewrapper.hpp).                                     *)
RunsOnce == Query!RunsOnce

(* Values of the types a buffer can give back are read as they were        *)
(* written, if they are read (Bytebuffer.hpp).                             *)
ReadsBack == Buffer!ReadsBack

(* A key with a text of full length survives the database (Base58.hpp).    *)
KeySurvives == Key!KeySurvives

(* So does every key without a leading zero (Unittests.cpp:157).           *)
EveryKeySurvives == Key!EveryKeySurvives

(* Poll, and a handler that decodes what it is handed, get the payload     *)
(* back (Base85.hpp).                                                      *)
PayloadSurvives == Text!PayloadSurvives
=============================================================================
