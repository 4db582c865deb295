---------------------------- MODULE Pluginloader ----------------------------
(***************************************************************************)
(* Backend/Pluginloader.cpp: plugins are loaded once the host's libraries  *)
(* are, by taking over the host's first TLS callback or else its entry     *)
(* point (Callhook in Utilities/Hacking/Hooking.hpp), or at once if the    *)
(* library was injected; they are told about the start, and once more when *)
(* the host is ready or three seconds later.                               *)
(*                                                                         *)
(* The loader of the operating system calls the TLS callbacks one by one,  *)
(* in one thread, until it finds a Null, and then the entry point. New     *)
(* threads start after that. Code is what is there: Original, Jump or      *)
(* Zeros. Broadcast changes nothing and is left out.                       *)
(***************************************************************************)
EXTENDS Integers, Sequences, SequencesExt, FiniteSets

CONSTANTS
  Plugins,      (* The files in ./Ayria/Plugins.                            *)
  Timer,        (* The thread that waits for three seconds.                 *)
  Wrappers,     (* The threads that call onInitialized.                     *)
  MaxCallbacks  (* Bound: the host's TLS callbacks.                         *)

PluginAssumption == MaxCallbacks \in Nat /\ Timer \notin Wrappers /\ IsFiniteSet(Plugins)

(* Words of memory: 1 .. MaxCallbacks are the host's callbacks.            *)
Null == 0
TLSCallback == MaxCallbacks + 1
Data == MaxCallbacks + 2

Notifiers == {Timer} \union Wrappers

VARIABLES
  host,         (* The host: has it a TLS directory, how many callbacks.    *)
  hook, at,     (* How the library was started; what the host is doing.     *)
  table, Index, (* The words from AddressOfCallBacks; where the loader is.  *)
  entrycode, EPTrampoline,
  OriginalTLS, Pluginhandles, Initialized,
  waiting, todo,  (* Threads about to call Notifyinitialized; what is left   *)
                  (* for those that are in it.                              *)
  events,       (* History: the host's callbacks, the plugins' starts,...   *)
  told          (* ...and the plugins that were told of the initialization. *)

memory == <<table, entrycode, EPTrampoline, OriginalTLS>>
plugin == <<Pluginhandles, Initialized, waiting, todo, told>>
vars   == <<host, hook, at, Index, memory, plugin, events>>

Image(n) == [i \in 0 .. MaxCallbacks + 1 |-> IF i < n THEN i + 1 ELSE IF i = n THEN Null ELSE Data]

Init ==
  /\ \E TLS \in BOOLEAN, n \in 0 .. MaxCallbacks :
       host = [TLS |-> TLS, callbacks |-> IF TLS THEN n ELSE 0]
  /\ table = Image(host.callbacks) /\ Index = 0
  /\ hook = "" /\ at = "loading"
  /\ entrycode = "Original" /\ EPTrampoline = "Zeros"
  /\ OriginalTLS = << >> /\ Pluginhandles = << >> /\ Initialized = FALSE
  /\ waiting = Wrappers /\ todo = [t \in Notifiers |-> << >>]
  /\ events = << >> /\ told = << >>

-----------------------------------------------------------------------------
(* Initialize: whatever loads, in the order of the set, is told at once.   *)
Notifystartup(loaded) == [i \in DOMAIN loaded |-> <<"startup", loaded[i]>>]
Loadable == SetToAllKPermutations(Plugins)

Initialize_NoTimer(loaded) == Pluginhandles' = loaded /\ UNCHANGED <<Initialized, waiting, todo, told>>
Initialize(loaded) ==
  /\ Pluginhandles' = loaded
  /\ waiting' = waiting \union {Timer}
  /\ UNCHANGED <<Initialized, todo, told>>

InstallTLSHook ==
  /\ at = "loading" /\ host.TLS
  /\ LET n == CHOOSE i \in DOMAIN table : table[i] = Null /\ \A j \in 0 .. i - 1 : table[j] # Null IN
       OriginalTLS' = [i \in 1 .. n |-> table[i - 1]]
  /\ table' = [table EXCEPT ![0] = TLSCallback, ![1] = Null]
  /\ hook' = "TLS" /\ at' = "callbacks"
  /\ UNCHANGED <<host, Index, entrycode, EPTrampoline, plugin, events>>

(* InstallEPHook, if the code can be taken apart. Callhook copies the new, *)
(* empty trampoline over the code, not the code into the trampoline.       *)
Callhook ==
  /\ entrycode' = "Jump"
  /\ UNCHANGED <<table, EPTrampoline, OriginalTLS>>
InstallEPHook ==
  /\ at = "loading" /\ ~host.TLS
  /\ \/ Callhook /\ hook' = "EP" /\ at' = "callbacks"
     \/ UNCHANGED memory /\ hook' = "none" /\ at' = "refused"
  /\ UNCHANGED <<host, Index, plugin, events>>

(* Injected into a running host. *)
Inject(loaded) ==
  /\ at = "loading"
  /\ hook' = "injected" /\ at' = "running"
  /\ Initialize(loaded) /\ events' = Notifystartup(loaded)
  /\ UNCHANGED <<host, Index, memory>>

-----------------------------------------------------------------------------
(* The loader calls the next callback of the table; the host's,...         *)
HostCallback ==
  /\ at = "callbacks" /\ table[Index] \in 1 .. MaxCallbacks
  /\ events' = Append(events, <<"callback", table[Index]>>)
  /\ Index' = Index + 1
  /\ UNCHANGED <<host, hook, at, memory, plugin>>

(* ...or ours: no TLS while the plugins load, then the table is restored,  *)
(* and the first of the host's called, which the loader is past.           *)
Restored_First(words) == [words EXCEPT ![0] = IF OriginalTLS = << >> THEN Null ELSE OriginalTLS[1]]
Restored(words) == [i \in DOMAIN words |-> IF i + 1 \in DOMAIN OriginalTLS THEN OriginalTLS[i + 1] ELSE words[i]]

OurCallback(loaded) ==
  /\ at = "callbacks" /\ table[Index] = TLSCallback
  /\ Initialize(loaded)
  /\ table' = Restored([table EXCEPT ![0] = Null])
  /\ events' = events \o Notifystartup(loaded) \o
       (IF table'[0] # Null THEN << <<"callback", table'[0]>> >> ELSE << >>)
  /\ Index' = Index + 1
  /\ UNCHANGED <<host, hook, at, entrycode, EPTrampoline, OriginalTLS>>

EndCallbacks ==
  /\ at = "callbacks" /\ table[Index] = Null
  /\ at' = "entry"
  /\ UNCHANGED <<host, hook, Index, memory, plugin, events>>

HostEntry ==
  /\ at = "entry" /\ entrycode = "Original"
  /\ at' = "running"
  /\ UNCHANGED <<host, hook, Index, memory, plugin, events>>

(* The code is restored from the trampoline, which then goes on with it.   *)
PECallback(loaded) ==
  /\ at = "entry" /\ entrycode = "Jump"
  /\ entrycode' = EPTrampoline
  /\ Initialize(loaded) /\ events' = events \o Notifystartup(loaded)
  /\ at' = IF EPTrampoline = "Original" THEN "running" ELSE "crashed"
  /\ UNCHANGED <<host, hook, table, Index, EPTrampoline, OriginalTLS>>

-----------------------------------------------------------------------------
(* Notifyinitialized: the first caller notifies, the others return. The    *)
(* wrappers call it once the application is done loading.                  *)
Notifyinitialized_NoFlag(t) ==
  /\ at = "running" /\ t \in waiting
  /\ waiting' = waiting \ {t}
  /\ Initialized' = TRUE
  /\ todo' = [todo EXCEPT ![t] = Pluginhandles]
  /\ UNCHANGED <<host, hook, at, Index, memory, Pluginhandles, events, told>>
Notifyinitialized(t) ==
  /\ at = "running" /\ t \in waiting
  /\ waiting' = waiting \ {t}
  /\ Initialized' = TRUE
  /\ todo' = [todo EXCEPT ![t] = IF Initialized THEN << >> ELSE Pluginhandles]
  /\ UNCHANGED <<host, hook, at, Index, memory, Pluginhandles, events, told>>

onInitialized(t) ==
  /\ at = "running" /\ todo[t] # << >>
  /\ told' = Append(told, Head(todo[t]))
  /\ todo' = [todo EXCEPT ![t] = Tail(@)]
  /\ UNCHANGED <<host, hook, at, Index, memory, Pluginhandles, Initialized, waiting, events>>

Start == InstallTLSHook \/ InstallEPHook \/ \E loaded \in Loadable : Inject(loaded)
Loader == HostCallback \/ EndCallbacks \/ HostEntry \/ \E loaded \in Loadable : OurCallback(loaded) \/ PECallback(loaded)

Next == Start \/ Loader \/ \E t \in Notifiers : Notifyinitialized(t) \/ onInitialized(t)

Spec == Init /\ [][Next]_vars

(* The sleep ends, and threads go on; no wrapper needs to call.            *)
Progress == Notifyinitialized(Timer) \/ \E t \in Notifiers : onInitialized(t)

-----------------------------------------------------------------------------
(* Whatever the number of callbacks, the host runs as it would without us: *)
(* the loader calls each of its callbacks once, in order, and only after   *)
(* all plugins were told of the start, although the table changes under    *)
(* the loader; then table and code are as they were (Pluginloader.cpp:164- *)
(* 223). Not claimed of the word behind an empty table (line 217).         *)
HostUndisturbed ==
  at = "running" /\ hook = "TLS" =>
    /\ \A i \in 0 .. host.callbacks : table[i] = Image(host.callbacks)[i]
    /\ entrycode = "Original"
    /\ events = Notifystartup(Pluginhandles) \o [i \in 1 .. host.callbacks |-> <<"callback", i>>]

(* Every plugin that was loaded is initialized in the end, also where no   *)
(* wrapper ever calls, and only once, whoever calls first, the timer or    *)
(* the wrappers (Pluginloader.cpp:83-94 and 136-145).                      *)
Calls(p) == Cardinality({n \in DOMAIN told : told[n] = p})
PluginsNotified ==
  \A p \in Plugins : (p \in ToSet(Pluginhandles) /\ at = "running" ~> [](Calls(p) = 1))

(* "Save the original code." (Hooking.hpp:51), which PECallback is to put  *)
(* back "in-case the app does integrity checking" (Pluginloader.cpp:193).  *)
CodeIsSaved == hook = "EP" => EPTrampoline = "Original"
=============================================================================
