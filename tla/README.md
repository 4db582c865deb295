# Ayria in TLA+

Ayria is a library that is loaded into a host application. It replicates a
database between the clients of a network: every client signs its messages,
multicasts them, and stores what it receives in an SQLite database; plugins and
services read from there. This directory models the parts of `src/` that carry
that logic, checks them with TLC on small instances and proves what matters
most with TLAPS for all instances.

    tlc -config MCSynchronization.cfg MCSynchronization.tla
    tlapm Synchronization_proofs.tla

`PROJECT.json` lists all runs (`runs`) and the modules with proofs (`theorems`).

## The system

| Part (`src/...`) | State | Operations | Interacts with | What is hard about it | What makes it correct |
|---|---|---|---|---|---|
| `Ayria/Backend/Backgroundtasks.cpp` | recurring and initial tasks, a termination flag, one lock | `addPeriodictask`, `addStartuptask`, `Initialize`, `Terminate`, the frame loop | runs everybody's `Poll` | threads add tasks while the loop runs; a 32 bit clock that rolls over; callbacks run under the lock | no task early, late or lost; the vector never changes under the loop; nobody waits forever |
| `Ayria/Backend/Synchronization.cpp` | tables Account and Syncpacket, rows to process, handlers | `Createmessage`, `Storemessage`, `Register`, `Poll`, `CleanupDB` at exit | fed by LANNetworking and services, calls their handlers | separate SQL statements interleave; duplicates; two ways for the process to end | nothing stored is forgotten, handlers see a packet once, account times are exact |
| `Ayria/Backend/LANNetworking.cpp` | socket, queue of delayed packets | `PublishLAN`, `Publish`, `Poll`, `Initialize` | network, Synchronization | loss, duplication, reordering, own echoes; retrying threads; an unguarded queue | only genuine packets of others are stored; what is queued is sent |
| `Ayria/Backend/Database.cpp` | the connection, gathered changes, handlers | SQLite's hook, `Register`, `Poll`, `Open`, clean-up | every SQL statement; handlers of services | hooks run in any thread, `Poll` in one; handlers change rows again | every change reaches the handlers once and in order |
| `Ayria/Backend/Waitonaddress.cpp` | watched addresses | `onMemorywrite`, `Poll` | host memory, callbacks | callbacks under a spinlock | a difference triggers its callback |
| `Ayria/Backend/Pluginloader.cpp`, `Utilities/Hacking/` | hooks, saved code, plugins | install and remove hooks, `Broadcast` | host's loader and entry point | the host runs half-patched code; hooks fire at most once | original code is restored, plugins start once and are told in order |
| `Ayria/Backend/Configuration.cpp`, `Ayria/Appmain.cpp` | settings, the start order | load, save at exit, `DllMain` | everything | order of start and exit | settings survive; nothing runs before what it needs |
| `Ayria/Communication/Console.cpp` | a ring of 128 lines, commands | add and read lines, add and run commands | plugins, JSON API, `Terminate` | commands are unguarded, the log is guarded; commands add commands | last 128 lines, in order, filters |
| `Ayria/Communication/JSONAPI.cpp`, `Notifications.cpp` | endpoints, a ring of 16 responses, subscriptions | request, subscribe, publish | plugins | pointers into the ring outlive their slot | a response stays valid for as long as promised; each subscriber is called once |
| `Utilities/Threading/` | a flag; an owner and a timed mutex | lock, unlock | Backgroundtasks, Console, Logging | two implementations of one thing, chosen by the build | mutual exclusion, recursion is detected |
| `Utilities/Containers/Ringbuffer.hpp` | Head, Size, Storage | insert, read, iterate | Console, JSONAPI | index arithmetic in the narrowest type | holds the last N values |
| `Utilities/Containers/Bytebuffer.hpp` | bytes and a cursor | typed read and write | Database, services | failed reads, types, the end of the buffer | what was written is read back |
| `Utilities/Encoding/`, `Strings/` | none | encode, decode, tokenize | Synchronization, everything | partial blocks, sizes, padding | decode after encode is the identity |
| `Utilities/Wrappers/` | a prepared statement; a log file | bind, evaluate, destroy; append | Database, everything | a destructor that executes | each statement is executed exactly once |
| `Utilities/Crypto/`, `Ayria/Frontend/` | - | sign, verify, hash; draw | | arithmetic; output | |

`Utilities/Wrappers/sqlite3.c` is vendored. `PROJECT.json` lists every part
with its status, and every hazard with its line and the properties about it.

## The modules

| Module | Models | Its state in the code |
|---|---|---|
| `Recentlog` | what a user of `Ringbuffer_t` is promised | - |
| `Ringbuffer` | `Ringbuffer.hpp` | `HeadSlot` is `Head` (renamed because TLC gives `Head` a meaning of its own), `Size`, `Storage` |
| `Ringbuffer_proofs` | theorems about it | |
| `Inbox` | what Synchronization promises about the packets of a node | - |
| `Synchronization` | `Synchronization.cpp`, and the receiving loop of `LANNetworking.cpp` | the tables, `Modifiedrows`, `Messagehandlers`; `pc`, `Packet`, `RowID`, `Seen` are the frame of `Storemessage` in each thread; `Rows` is Poll's local; `task` is what Background is in |
| `Synchronization_proofs` | theorems about it, and that it implements `Inbox` | |
| `Backgroundtasks` | `Backgroundtasks.cpp` | the members of `Singleton_t`; `at`, `Index`, `Currenttime` are the frame of `Backgroundthread`; `adding` is an `addPeriodictask` under way |
| `Database` | hook, `Register` and `Poll` of `Database.cpp` | `Modifiedrows`, `Deletedrows`, `onModifiedCB`; `Modified`, `Deleted` and `Rows` are what Poll's loops have yet to visit |
| `Appmain` | `DllMain`, `Configuration.cpp`, `Logging.cpp`, and opening and saving in `Database.cpp`, over several sessions | the four files; `exits` is what the C runtime still has to run; `Pendingwrite`, `Pendingcount`, `Configuration`, `modifiedConfig`, `DBConnection` as in the code |
| `LANNetworking` | the sending half of `LANNetworking.cpp`, and its `Poll` | `Packetqueue`, `Broadcastsocket`; `pc`, `Packet`, `Try` are the frame of `PublishLAN` in each caller; `retrying` are the detached threads |
| `Debugmutex`, `Mutex` | `Debugmutex.hpp`; what a lock promises | `Currentowner`; `Mutex_` is the timed mutex in it |
| `Waitonaddress` | `Waitonaddress.cpp` | `Source`, `Threadguard`; `i` and `calling` are Poll's |
| `Pluginloader` | `Pluginloader.cpp`, `Callhook` of `Hooking.hpp` | `Pluginhandles`, `Initialized`, `OriginalTLS`, `EPTrampoline`; `table` and `entrycode` are words of the host |
| `Console` | `Console.cpp` | `Consolelog`, `LastmessageID`, `Commands` |
| `JSONAPI` | `JSONRequest` of `JSONAPI.cpp` | `Results` and `Ringhead` are the ring |
| `Statement` | `Statement_t` of `Databasewrapper.hpp` | `Argcount`, `Index`; `bindings` and `RUN` are SQLite's |
| `Bytebuffer` | typed reads and writes of `Bytebuffer.hpp` | `Internalbuffer`, `Internaliterator` |
| `Base58`, `Base85` | the two encodings as `Synchronization.cpp` uses them | the column of the database |
| `Encodings_proofs` | theorems about them | |
| `Parts` | all from `LANNetworking` on, as instances side by side | `part` says which of them runs |
| `..._proofs` | theorems about the module of that name | |
| `MC...` | the instances TLC checks | |

Names ending in `_Something` (`MarkRow_Inverted`, ...) stand directly before the
definition they vary: each is the code with one plausible mistake, and each
property is violated when one of them takes the place of the original. They are
not part of any specification.

### Synchronization

`Storemessage` has no transaction and takes no lock, so each of its SQL
statements is an action. The background thread runs it for every packet it
receives, other threads (and handlers, in the background thread) for packets
they create. `InsertRow` is a successful INSERT. `InsertDuplicate` is one that
fails on `UNIQUE (Publickey, Signature)`: the code then inserts a local
variable it never wrote into `Modifiedrows`, which is a choice over all rowids
(and 0, for every number that is no rowid). `Poll` takes one row per step;
handlers are the calls counted in `calls`.

The network (`Arrive`, external) delivers any packet at any time or never, at
most `MaxCopies` times, in any order, and packets that only claim to be by their
author. Our own packets arrive too: they are multicast to ourselves.

The process ends in one of two ways. `Abort` is a requested termination:
`std::terminate` at the end of a frame. `CleanupDB` and `ExitPoll` are a normal
exit of the host on Windows, where the other threads are gone before the
handlers of `atexit` run, in reverse order of their registration. A packet is
pruned only if no other table refers to it; which ones are referred to is open.

Abstracted: payloads and their coding, the contents of signatures (a set of
`Genuine` packets), and which packets are `Old`. That `Createmessage` stamps with
`high_resolution_clock` and `CleanupDB` compares with `system_clock`, clocks
that need not share an epoch, makes `Old` an arbitrary set.

### Backgroundtasks

One frame is: read the clock, take the lock, visit each task (`RunTask` or
`SkipTask`), release it, look at the termination flag, sleep. Other threads call
`addPeriodictask` at any time and wait for the lock in `AddLock`. `Initialize`
runs the startup tasks in any order (they are added by static constructors of
different files), one of which starts the thread. Clock arithmetic is modulo
`Modulus`, which stands for 2^32; `Init` starts the clock anywhere. The history
variables `since` and `frameAge` count real ticks and never roll over: the
properties compare what the code computes from its clock with them.

A frame takes at most `MaxFrame` ticks. That is an assumption: callbacks must be
short against the roll-over. It does not hold while the receiving loop of
LANNetworking never runs dry (a hazard). Callbacks do not call
`addPeriodictask`, as none in `src/` does.

### Database

A change is its number in `changes`, so that loss, repetition and reordering
show. Poll's two swaps are two steps. A hook in another thread that falls
between them races with the swap on an unguarded hash map: `RacingHook` loses
the change. `NextTable` takes up a table, of the deletions as long as there are
any, and skips it as a whole if nobody asks for it at that moment; `Callback` is
one row, for all its handlers. Handlers and other tasks change rows in between,
and those changes wait for the next Poll.

The data of a row is left out. The hook stores a view of a buffer that is freed
when it returns (`Database.cpp:63`, `Bytebuffer.hpp:188-194`), so what handlers
get of it is undefined; the hazards name it.

### Appmain

A session begins with `DllMain` (log, configuration, identity; the database is
opened by the first statement, on disk or else in memory) and ends with a crash
or with the exit handlers, one action each, in reverse order of registration:
those of Synchronization, the configuration, the log, the connection. `Abort`
is possible between any two of them. The files stay for the next session.

A message or a row is a number. Which `Hardware` answers differs from session to
session, and so does the flag for a random identity. Every file can fail: to be
read (`Readfile` then gives nothing), to be opened for writing, and to be written
once it is open and emptied (`Writefile`). The code looks at none of these results,
which has consequences the properties name as their exceptions:

* A configuration that cannot be read in one session counts as absent: `Load`
  takes the defaults and saves them over it (`Forcesaved`, `Configuration.cpp:59`).
* `Saveconfig` at exit is two steps, because `fopen` empties the file: a crash or a
  failing write between them leaves no settings. `spoilt` remembers either case;
  in every other, the file gives what was saved last (`SettingsSurvive`).
* A seed is used whether or not it was stored, and one that cannot be read is
  replaced (`Configuration.cpp:141-148`): `unstored` and `unread` in the history of
  identities. In every other case the identity stays (`IdentityIsStable`).
* A database in memory that cannot be saved at exit is lost, without a word if it
  is the backup that fails (`Database.cpp:149-154`): `unsaved`.

In `Load` a forced save is one step, since a session that crashes there leaves what
a failing write leaves. `Modify` is external: nothing in `src/` sets
`modifiedConfig` yet.

### The parts

`Parts` runs one of these at a time; they share no state. Each has its
interface to the others as external actions.

* `LANNetworking`. `Publish` tries up to `Tries` times, one step each, and then
  leaves the packet to a detached thread (`Retry`). `PublishLAN` with a delay
  pushes into the queue without a lock: `RacingPush` loses the packet when the
  push overlaps another push or `Pop`. `Initialize` may come late or fail; then
  nothing polls. Received packets are whole or too short; what becomes of the
  whole ones is in `Synchronization`.
* `Debugmutex`. Each read and write of `Currentowner` is a step, since it is
  accessed without the lock. Code under the lock may lock again or never end.
* `Waitonaddress`. One comparison, or one callback, per step, with the spinlock
  held throughout. Memory changes at any time. Callbacks return and do not
  register others: that would wait for the lock of their own thread, and no
  callback in `src/` does it. The build is one without assertions: with them
  the second registration ends the process, for line 28 compares three sizes
  with the result of a comparison (`a == b == c == d`).
* `Pluginloader`. The host has no TLS directory, or one with up to three
  callbacks, and its loader walks the table word by word while the library
  changes it. The word that is overwritten behind an empty table
  (`Pluginloader.cpp:217`) is in the model and not claimed to be restored. That the
  loader calls with our own module handle (line 184) is taken as true.
* `Console`. The lines of a message are added under the lock, the ID is counted
  after it: two steps. Handlers print lines, which is all that is kept of them.
  Commands are added only while none runs, for `Commands` has no lock. Names
  that differ only in case hide each other.
* `JSONAPI`. `emplace_back` into the ring is two steps without a lock, and the
  second may use the head from before the first.
* `Statement`. A use gives all arguments and evaluates, or leaves it to the
  destructor. In a release build too many or too few arguments are not refused
  by the wrapper. `evaluations` has one entry for each run of the query: the
  extraction of a single row steps twice, "to verify that there's indeed only one",
  and so runs a query without rows a second time (`Databasewrapper.hpp:223-227`).
  `RunsOnce` names this case and excludes it everywhere else.
* `Bytebuffer`. A cell is a byte or an integer. The buffer owns its memory and
  starts with any of `Sizes` zeros. A string that is empty or starts with another
  character than a letter or a digit fails an assertion when it is read
  (`Bytebuffer.hpp:367-368`): `ReadAssert` is a build with assertions, which ends
  there, `ReadValue` one without, which reads the string. Arrays are of integers.
  Arrays of strings can be written but not read (lines 336-337 copy bytes over
  objects) and are left out.
* `Base58`, `Base85`. A value goes into the database as text and is decoded
  again by `Poll`. Characters are their digits; the NUL that fills the array of a
  key is 255, as in the code's table. `Base85!Decode_inplace` is the decoder
  `RFC1924::Decode` calls. It copies a rest with the length of all that is left of
  the text, so that bytes from behind the block get into the buffer (line 202);
  they are behind the part that is returned. What `Poll` decodes is a local it
  does not use: the handlers are handed the column as it is (`handed`,
  `Synchronization.cpp:84` and `89`), although `Backend.hpp:27` calls it `Payload`. No
  handler is registered in `src/`, and one that is has to decode it. `PayloadSurvives`
  is about the local, and about a handler that does.

## The runs

| Run | Checks | Instance, and why it is enough |
|---|---|---|
| `ringbuffer` | `TypeOK`; `KeepsTheLastN` (refinement of `Recentlog`) | capacity 3 as in the unit test, 4 values, indexes of 8 bits: Head passes the end, the buffer fills, every order of values |
| `synchronization` | `TypeOK`, `NothingForgotten`, `SeenIsExact`, `ImplementsInbox` | one packet of ours, two of a peer (the second older, and prunable) and a forged one, an application thread beside Background; nothing arrives twice. Two threads are enough for every race of `Storemessage`; two packets of one author for the order of their times |
| `synchronization_copies` | `NothingForgotten`, `ReceivedGetsHandled` (liveness) | each datagram may arrive twice, so a duplicate marks arbitrary rows |
| `synchronization_lost` | violates `SeenIsExact` | two threads create one message each |
| `synchronization_ours` | violates `OursAreNotProcessed` | a packet of ours and one of a peer that arrives twice |
| `synchronization_prune` | violates `PrunedOnlyIfProcessed` | one old packet |
| `backgroundtasks` | `TypeOK`, `Punctual`, `NoChangeWhileIterating`, `NeverEarly`, `TerminationHappens`, `CallsReturn` | periods 1 and 2, frames of up to 2 ticks, roll-over after 8: the clock rolls over between any two steps; one task is added twice by two threads |
| `database` | `TypeOK`, `NoChangeLost`, `InOrder`, `ChangeIsDelivered` | three changes by Background (in and outside of handlers) and another thread, one watched and one ignored table |
| `appmain` | `TypeOK`, `LogIsComplete`, `SettingsSurvive`, `IdentityIsStable`, `RowsSurvive` | three sessions: one that leaves files, one that spoils them, one that finds them so; a computer that may or may not answer with one hardware identity (which is enough: what answers is compared with what answered, and nothing answers is the case of the seed); every combination of files that fail; batches of two and three messages, so that a batch is written, one is pending and one comes after the flush; one row each |
| `parts` | 16 properties, below | see below |
| `entrypoint` | violates `CodeIsSaved` | the plugin loader alone |
| `key` | violates `EveryKeySurvives` | `Base58` alone |

The run `parts` (57,691 states), with two threads beside Background:

| Part | Properties | Instance |
|---|---|---|
| `LANNetworking` | `TypeOK`, `SentOnce`, `OvertakenOnlyIfBlocked`, `QueuedGetsSent` | two packets can overtake each other; two tries: one that goes on and one that gives up |
| `Debugmutex` | `TrueAlarms`, `ImplementsMutex`, `NobodyWaitsForever` | three threads: an owner, one that leaves, one that reads `Currentowner` in between |
| `Waitonaddress` | `WriteNoticed` | two addresses, two threads |
| `Pluginloader` | `HostUndisturbed`, `PluginsNotified` | two plugins, up to three callbacks (none, the two words the hook overwrites, one more), two wrappers and the timer |
| `Console` | `NothingOverlooked` | messages of two lines, a log of three, of which the reader gets two: messages are cut at both ends |
| `JSONAPI` | `ResponsesLive` | two slots, four responses: each slot is reused |
| `Statement` | `RunsOnce` | up to two arguments, three uses: one before, one interrupted, one after; each may be the extraction of a row that is not there |
| `Bytebuffer` | `ReadsBack` | two values of all types; the items are the IDs of a string, an integer and an array, so content looks like prefixes; the last is also a letter (`'o'`), so strings pass the assertion or not |
| `Base58` | `KeySurvives` | keys of five bytes, which decode to five as 32 do to 32 (`Base58Assumption`): all of five byte values, the lowest digit and the highest among them; a key with a leading zero is not claimed to survive |
| `Base85` | `PayloadSurvives` | base 16 in radix 10, which leave a rest of every length the same room as 256 in 85 do (`Base85Assumption`, which holds of both); every length up to seven: the rest of seven bytes is the first that is copied from behind its block |

Deadlock is not checked where the system may stop: after the end of the process,
or when the bounds (`MaxRow`, `MaxCopies`, `MaxCalls`, `MaxChanges`, `MaxSessions`
and those of the parts) are used up.

**Fairness.** The background thread runs every task again and again: strong
fairness of `StartReceive` and `StartPoll` in `Synchronization`, since the two
exclude each other, is what `Punctual` and `TerminationHappens` show of
`Backgroundtasks`. A thread inside `Storemessage`, a task or a frame goes on
(weak). `AddLock` is strongly fair: a spinlock promises no turn, but Background
sleeps for most of a frame without it. In `Database` and in the parts, Poll is
repeated and goes on (weak): one task of the loop. The lock of `Waitonaddress`
is strongly fair, for the same reason as `AddLock`. In `Debugmutex` the steps of
lock and unlock go on and the ten seconds end, but not the code under the lock.
The plugin loader's timer ends; wrappers need not call. Detached threads do not
stop trying. A receiving loop that never runs dry starves what is queued, so
`QueuedGetsSent` is claimed unless datagrams arrive without end (`Flooded`).
Nothing else is assumed of the network, of users, or of `Register`.

### What the violated runs show

* `synchronization_lost`: two threads that create messages at the same time read
  the same `Lastseen`; the later UPDATE writes back a smaller one. With at most
  one creating thread it cannot happen (`SeenStaysExact` below).
* `synchronization_ours`: a packet that arrives twice marks whatever row the
  uninitialised `RowID` names, possibly one of ours, and handlers get it. For
  the same reason a packet may be handled twice.
* `synchronization_prune`: `atexit(Poll)` is registered before
  `atexit(CleanupDB)` and therefore runs after it; old packets that still wait
  are deleted unseen.
* `entrypoint`: `Callhook` says "Save the original code." and copies the other
  way round (`Hooking.hpp:52`): the trampoline of the entry point stays empty and
  the host's code is lost. Only a host without TLS directory gets there.
* `key`: a key whose text is shorter than 44 characters (about 6 % of all keys
  of 32 bytes) is decoded with the NULs behind it, each of which counts as the
  digit 255: handlers get another key. `KeySurvives` holds of the others.

## What is proved

`tlapm` proves, for every value of the constants:

* `Ringbuffer_proofs!TypeCorrect`: Head stays in the array, Size within N.
* `Ringbuffer_proofs!RingbufferKeepsTheLastN`: a ring buffer implements
  `Recentlog`, if `2 * N <= Modulus` (`SumSurvives`). The template asks only for
  `N < Modulus`; for a capacity of 129 to 255 in 8 bits `Advance` is wrong. No
  capacity in the program (3, 16, 128) is. The argument: k steps back from the
  slot after Head are k - 1 steps back from Head (`AdvanceBack`), so the value at
  position k moves to k + 1 with every insertion (`PushInserts`).
* `Synchronization_proofs!TypeCorrect`: types, with `FramesOK`, what a thread
  inside `Storemessage` may rely on.
* `Synchronization_proofs!NothingIsForgotten`: `NothingForgotten` is inductive
  together with `TypeInv`, in particular with the fact that Poll's local set is
  empty outside of Poll, without which `StartPoll` would overwrite rows.
* `Synchronization_proofs!SeenStaysExact`: with one creating thread
  (`OneCreator`), `SeenIsExact`. It says nothing while a `Storemessage` runs, so
  it is not inductive. `SeenInv` adds what holds in between: a thread about to
  UPDATE holds the account's current span (`FramesSeen`, by `Exclusive`: no two
  threads are in `Storemessage` for the same key), every stored packet is in the
  span or its thread on the way to put it there (`SpanCovers`), and the ends of
  the span are times of known packets (`SpanAttained`).
* `Synchronization_proofs!SynchronizationImplementsInbox`: if no datagram arrives twice
  (`NoCopies`), `Synchronization` implements `Inbox`. `InsertRow` is a `Store`,
  `PollRow` and `ExitPoll` are a `HandleAll`, `CleanupDB` is a `Prune`, all else a
  stutter. That a packet goes to handlers at most once needs `InboxInv`: a row
  is marked, in Poll's hands or taken up, never two of these (`RowsOK`); a handled
  packet's row was taken up (`CallsOK`); and while the process runs, what a
  thread is about to insert is new (`FreshOK`), because what is stored or on its
  way is no longer on the socket (`OnceOK`). The last is what a copy breaks: see
  the run `synchronization_ours`.
* `Synchronization_proofs!OursAreSafe`, `HandledAtMostOnce`: what `Inbox` promises
  its users (`InboxHandles`, proved of `Inbox` alone), `Synchronization` promises
  too. The first is `OursAreNotProcessed`, the property that run violates: with
  `NoCopies` it holds for every instance, so copies are all that breaks it.
* `Database_proofs!NoChangeIsLost`, `DeliveredInOrder`: the queues hold one
  table's changes of one kind each (`Origin`); a change is in one of them, among
  Poll's rows, with the handlers that were registered before it, or lost (the
  inductive form of `NoChangeLost`). Lost are changes of hooks that ran between the
  two swaps of a Poll, nothing else;
  and of two changes of one kind, the one nearer to the handlers was made first
  (`OrderInv`: from the gathering queue through Poll's queue and rows to what was
  delivered). The last is what makes "in order" survive a Poll that runs while
  the next changes gather.
* `Backgroundtasks_proofs!TasksAreNeverEarly`, `TasksArePunctual`,
  `ListIsStable`: the state keeps clock values modulo `Modulus`, the properties
  speak of real ticks. `ClockOK` relates the two by congruence (`Same`), `AgeOK`
  bounds the real age of every task by where the loop is (`Ahead` of it or
  `Passed`), and with `Period + MaxFrame < Modulus` the two give that a modular
  difference is the real age (`DueIsAge`). Without `AgeOK` a task could be older
  than the clock can tell.
* `Appmain_proofs`: `TypeCorrect`, `LogStaysComplete`, `SettingsAreSafe`,
  `OneIdentity`, `RowsAreSafe`, with the exceptions the properties name. `exits` is
  one of six stacks (`SessionOK`), which
  gives the order of the handlers; every identity by a seed is by the one in the
  file now (`IdentityOK`); the rows of a session are where its connection is
  (`DataOK`); file and pending messages are increasing and have as many entries
  as the counter says (`LogOK`). The flush at exit works by setting the counter
  to 99, so it needs batches of at most 100 (`AppmainAssumption`).
* `LANNetworking_proofs!PacketsAreSentOnce`, `QueueKeepsOrder`: a packet is with
  its caller, in the queue, with a thread of its own, sent, dropped or lost, and
  in one of these only (`Places`); the exception is the one that Poll has just
  published, which is still in the queue until `Pop`. The queue is the end of all
  that was queued, and every packet before it was tried (`QueueOK`), so a packet
  that is sent now can have overtaken only those that were retried or failed.
  That the network gets at most one copy of a packet from us is what `NoCopies`
  assumes of the sender's half.

`Encodings_proofs` is about the two encodings of the database's text columns:

* `PayloadsSurvive`: `PayloadSurvives`, for payloads of any length. What is copied from
  behind a block comes behind the result (`DecodedInPlace`), and decoding undoes
  encoding (`DecodeUndoesEncode`) block by block: four bytes and five digits are
  the same number (`FullBlock`); of a rest the digits that are cut off and filled
  in again differ by less than a byte that is kept (`CutOff`), if the filling item
  is large enough. That it is, is `Base85Assumption`, which TLC evaluates and which
  holds of 256, 85 and the code's 'u' (117).
* `KeysSurvive`: `KeySurvives`, for keys of any length: decoding a text undoes
  encoding the key (`EncodingInverted`, with `KeyInv`). A sequence of digits
  represents a number if there are quotients that lead from the number to 0,
  one digit at a time (`Represents`), and no two sequences represent the same
  number in one base (`SameDigits`). `Shift` multiplies the number by the one base
  and adds an item in the other (`ShiftRepresents`): the new quotients are the
  old ones times the base, plus the carry of that place. So `Convert` represents
  what its items are worth (`ConvertRepresents`): the text is the number of the
  key in base 58, and what is decoded from it is that number in base 256, as the
  key itself is (`ReversedRepresents`). A text of full length and a key without
  leading zero are what make the lengths agree; the run `key` shows what happens
  to the others.

The library's induction theorems take an operator and cannot be cited, so
`Encodings_proofs` proves its own for sets of numbers: a non-empty set has a least
member (`WFMin`), hence `StrongInduction` and `Induction`. The recursive functions of
`Base58` are CHOOSE expressions to the prover; that a function with their equation
exists is `Recursion`, also by induction, over how far it is defined.

`Parts_proofs` has a section for each of the other parts:

* `Alarms`, `Refinement`: `TrueAlarms`, and `Currentowner` by itself implements
  `Mutex`, for any number of threads. A thread is named as the owner only while
  it holds the mutex, from "in" to "clear" (`LockInv`): it writes its id after it
  got the mutex and clears it before it gives it up.
* `CallbacksAreWatched`, `NothingAskedIsLost`: the safety half of `WriteNoticed`.
  Who holds the spinlock has something to register or is Poll, and a callback
  runs only inside of Poll, with its index in the list (`WaitInv`): the list does
  not change under the loop, and what was given to `onMemorywrite` waits for the
  lock or is watched from then on.
* `ReaderIsCurrent`: `NothingOverlooked`, for any log, threads and messages: the
  reader shows what `getMessages` gives of the log as it is, which is its oldest
  `Maxcount` lines and not the newest (`Console.cpp:77`). A reader that shows something else is behind in IDs, or a message is being added
  (`LogInv`); the ID is counted after the lines are in, which is what it needs.
* `EvaluatedOnce`: `RunsOnce`, for any number of arguments and uses, with the
  second run of a single row that is not there as its exception. While a
  statement lives and was not interrupted, its bindings up to `Argcount` are of
  this use, and all evaluations are of earlier ones (`CurrentUse`).
* `HostIsUndisturbed`: `HostUndisturbed`, for any number of callbacks and
  plugins. Before our callback the table is the hook's (`Hooked`), after it the
  host's again, and the loader has called the callbacks before its `Index`
  (`Unhooked`), although it is already past the word that is put back.
  `NotifiedOnce` is the safety half of `PluginsNotified`: what was told and what
  one notifier has left are all plugins, in order (`NotifyInv`).
* `ResponsesAreKept`: `ResponsesLive`, for a ring of any size, any responses and
  threads. A response stays where it is because the head, and the slots that are
  being written, are behind it by no more places than responses were stored since,
  those counted that are under way (`Kept`). Generic answers do not move the head.
* `ValuesReadBack`: `ReadsBack`, for values and buffers of any length, of the types
  above and of reads that are completed. There are
  offsets at which the cells of each value lie, one behind the other (`Layout`),
  and the iterator is at the offset of the next value (`Place`); a read of another
  type moves nothing or, behind the last value, finds a default.
* `EachPart`: a behaviour of `PartsSpec` is one of each part's specification.
  `AllParts` states the invariants the run `parts` checks, all of them, and
  `ImplementsMutex` of `PartsSpec`, the specification of that run.

The assumptions are those of the modules (`CapacityAssumption`,
`WidthAssumption`, `PacketAssumption`, `BoundAssumption`, `TablesAssumption`,
`TimeAssumption`, `AppmainAssumption`, `NetworkAssumption`, and `PartsAssumption`,
the conjunction of those of the parts) and what the theorems name.

Only model-checked: all liveness (`ReceivedGetsHandled`, `TerminationHappens`,
`CallsReturn`, `ChangeIsDelivered`, `QueuedGetsSent`, `NobodyWaitsForever`,
`WriteNoticed`, and that `PluginsNotified` happens at all), which is out of the
prover's reach. Every invariant, action property and refinement that a passing
run checks has a theorem.

## Not modelled

* `Utilities/Wrappers/sqlite3.c` and `.h` are vendored, and about 236,000 of the
  repository's 253,000 lines of C and C++. What the code relies on is external:
  the hook, statements, `UNIQUE`.
* `Utilities/Crypto`: arithmetic on curves and bit mixing, of which a bounded
  instance shows nothing. `Synchronization` has a set of genuine packets; the
  hardware ids of `HWID.cpp` are `Hardware` in `Appmain`.
* `Ayria/Frontend`: drawing through GDI, without state that outlives a frame.
* `QOI`, `Base64`, UTF8, JSON and the string helpers: stateless, and nothing that
  is modelled calls them.
* `Protobuffer` and the views of `Bytebuffer.hpp`: no caller in `src/`.
* `Statement_t` that is moved: `Query` returns a local by name, and whether it is
  moved is the compiler's choice; its moved-from destructor would use a null
  statement.
* `Notifications.cpp`: an insertion into a set and a loop over it, unguarded
  like `Commands` of the console; only plugins call it.
* Colours, filters and default commands of the console; the error text of
  `JSONAPI`, a static string that grows; patterns, protection ranges and the
  disassembler of `Utilities/Hacking`.
* A log of the last session that cannot be removed (`Newlog` takes `std::remove` to
  succeed), to which the new session would append.
* Assertions, but for those of `Bytebuffer` on strings: the build is otherwise one
  without them (and, for `Debugmutex`, one with that mutex). A configuration cut
  short, for instance, ends a build with assertions in `JSON::Parse`.
* The contents of messages, settings and rows, throughout.

## Plan

Done, in this order: the ring buffer, Synchronization and its `Inbox`, the task
loop, the change pump, the life of the process, the smaller parts, and the
proofs above. Left:

1. Several nodes of `Inbox` over `LANNetworking`: what the nodes agree on without
   retransmission.
2. `Synchronization` after a crash, over the files of `Appmain`: packets that are
   stored and will never be processed.
3. `Protobuffer`, when something uses it.
