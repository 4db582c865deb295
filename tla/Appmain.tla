------------------------------- MODULE Appmain -------------------------------
(***************************************************************************)
(* The life of the library in its host, over several sessions: DllMain     *)
(* (Appmain.cpp), the configuration and the identity (Configuration.cpp),  *)
(* the connection to the database (Database.cpp) and the log (Logging.cpp),*)
(* with the files they leave behind. A session ends by a normal exit,      *)
(* which runs the exit handlers in reverse order of their registration, or *)
(* at once (a crash, or std::terminate in Backgroundtasks.cpp:108).        *)
(*                                                                         *)
(* Settings stand for the flags and the user name, a message for a line,   *)
(* a row for what a service stores. Every file can fail to be opened, for  *)
(* reading or for writing, and to be written once it is open. The code     *)
(* takes a file it cannot read for one that is not there, and looks at no  *)
(* result of a write. A text cut short has no last bracket and is empty to *)
(* JSON::Parse; the 32 bytes of a seed are written whole or not at all.    *)
(***************************************************************************)
EXTENDS Integers, Sequences, SequencesExt, FiniteSets

CONSTANTS
  Hardware,             (* What HWID can identify the computer by, in the   *)
                        (* order setPublickey_HWID asks.                    *)
  Settings, Default,    (* Configurations; the one without a file.          *)
  Empty,
  Batch,                (* 5: messages written at a time.                   *)
  MaxSessions, MaxMessages, MaxRows  (* Bounds: sessions; in each, messages *)
                        (* and rows.                                        *)

ASSUME AppmainAssumption ==
  /\ Hardware \in Seq(STRING)
  /\ Default \in Settings /\ Empty \notin Settings
  /\ Batch \in 1 .. 100 /\ MaxSessions \in Nat /\ MaxMessages \in Nat /\ MaxRows \in Nat

VARIABLES
  Logfile, Configfile, Cryptoseed, Clientfile,  (* The files in ./Ayria.    *)
  running, exits,       (* Whether the process runs; what its exit has to   *)
                        (* run, from the last to the first.                 *)
  Pendingwrite, Pendingcount, Configuration, modifiedConfig, Publickey,
  DBConnection, Memory, (* Where the database is; its rows in memory.       *)
  session,              (* History: the number of this session,...          *)
  messages, missed, late,  (* ...its messages, those in a batch that could not be *)
                        (* written and those after the last write,...       *)
  rows, unsaved,        (* ...its rows, and those it could not save,...     *)
  settled, spoilt,      (* ...the settings last saved, whether their file was *)
                        (* emptied or overwritten since,...                 *)
  ended, identities     (* ...how the last one ended, and by what each      *)
                        (* session was identified.                          *)

files   == <<Logfile, Configfile, Cryptoseed, Clientfile>>
log     == <<Pendingwrite, Pendingcount, messages, missed, late>>
config  == <<Configuration, modifiedConfig, settled, spoilt>>
data    == <<DBConnection, Memory, rows, unsaved>>
vars == <<Logfile, Configfile, Cryptoseed, Clientfile, running, exits, Pendingwrite, Pendingcount,
          Configuration, modifiedConfig, Publickey, DBConnection, Memory, session, messages,
          missed, late, rows, unsaved, settled, spoilt, ended, identities>>

Rows == (1 .. MaxSessions) \X (1 .. MaxRows)
Keys == [by : ToSet(Hardware) \union {"seed", "random"}, made : 0 .. MaxSessions]

TypeOK ==
  /\ Logfile \in Seq(Nat) /\ Pendingwrite \in Seq(Nat) /\ Pendingcount \in 0 .. Batch - 1
  /\ Configfile \in Settings \union {Empty} /\ {Configuration, settled} \subseteq Settings
  /\ modifiedConfig \in BOOLEAN /\ spoilt \in BOOLEAN
  /\ Cryptoseed \in 0 .. MaxSessions /\ Publickey \in Keys
  /\ exits \in Seq({"connection", "log", "config", "write", "handlers"}) /\ running \in BOOLEAN
  /\ DBConnection \in {"none", "disk", "memory"}
  /\ \A S \in {Clientfile, Memory, rows, unsaved} : S \subseteq Rows
  /\ session \in 0 .. MaxSessions /\ messages \in Nat
  /\ missed \union late \subseteq 1 .. messages
  /\ ended \in {"", "exit", "abort"}

Init ==
  /\ Logfile = << >> /\ Configfile = Empty /\ Cryptoseed = 0 /\ Clientfile = {}
  /\ running = FALSE /\ exits = << >> /\ Pendingwrite = << >> /\ Pendingcount = 0
  /\ Configuration = Default /\ modifiedConfig = FALSE /\ Publickey = [by |-> "random", made |-> 0]
  /\ DBConnection = "none" /\ Memory = {}
  /\ session = 0 /\ messages = 0 /\ missed = {} /\ late = {} /\ rows = {} /\ unsaved = {}
  /\ settled = Default /\ spoilt = FALSE /\ ended = "" /\ identities = << >>

-----------------------------------------------------------------------------
(* What is read of a file, and what may be in it after a write.            *)
Readfile(file, opens, none) == IF opens THEN file ELSE none
Writefile(old, new, none)   == {old, none, new}

(* setPublickey_HWID takes the first thing that answers. Without any it    *)
(* takes the seed in a file, or a new one that it tries to store there.    *)
Answering(answers) == Hardware[SelectInSeq(Hardware, LAMBDA h : h \in answers)]
setPublickey_HWID_NoSeed(answers, opens, now) ==
  IF answers # {} THEN Publickey' = [by |-> Answering(answers), made |-> 0] /\ UNCHANGED Cryptoseed
  ELSE Publickey' = [by |-> "seed", made |-> now] /\ Cryptoseed' \in Writefile(Cryptoseed, now, 0)
setPublickey_HWID(answers, opens, now) ==
  LET seed == Readfile(Cryptoseed, opens, 0) IN
  IF answers # {} THEN Publickey' = [by |-> Answering(answers), made |-> 0] /\ UNCHANGED Cryptoseed
  ELSE IF seed # 0 THEN Publickey' = [by |-> "seed", made |-> seed] /\ UNCHANGED Cryptoseed
  ELSE Publickey' = [by |-> "seed", made |-> now] /\ Cryptoseed' \in Writefile(Cryptoseed, now, 0)

setPublickey_RNG(now) == Publickey' = [by |-> "random", made |-> now] /\ UNCHANGED Cryptoseed

(* Load: the configuration, which is saved if none was read, the identity, *)
(* and a handler that saves changes.                                       *)
Effective(file) == IF file = Empty THEN Default ELSE file
Forcesaved_Always(found) == Writefile(Configfile, Effective(found), Empty)
Forcesaved(found) == IF found = Empty THEN Writefile(Configfile, Default, Empty) ELSE {Configfile}
Load(readable, answers, randID) ==
  LET found == Readfile(Configfile, "config" \in readable, Empty)
      opens == "seed" \in readable
  IN
  /\ Configuration' = Effective(found) /\ modifiedConfig' = FALSE
  /\ Configfile' \in Forcesaved(found)
  /\ spoilt' = (spoilt \/ (found # Configfile /\ Configfile' # Configfile))
  /\ UNCHANGED settled
  /\ IF randID THEN setPublickey_RNG(session + 1) ELSE setPublickey_HWID(answers, opens, session + 1)
  /\ identities' = Append(identities,
       [answers |-> answers, randID |-> randID, key |-> Publickey',
        unread   |-> Publickey'.by = "seed" /\ Cryptoseed # 0 /\ ~opens,
        unstored |-> Publickey'.by = "seed" /\ Cryptoseed' # Publickey'.made])

(* Open, by the first statement: on disk or else in memory.                *)
Open(onDisk) ==
  /\ DBConnection' = IF onDisk THEN "disk" ELSE "memory"
  /\ Memory' = {} /\ rows' = {} /\ unsaved' = {}

(* Logging::Initialize.                                                    *)
Newlog ==
  /\ Logfile' = << >> /\ Pendingwrite' = << >> /\ Pendingcount' = 0
  /\ messages' = 0 /\ missed' = {} /\ late' = {}

(* DllMain. The connection's destructor is registered when the library is  *)
(* loaded, the handlers of Synchronization last, by a startup task.        *)
DllMain(readable, answers, randID, onDisk) ==
  /\ ~running /\ session < MaxSessions
  /\ running' = TRUE /\ session' = session + 1 /\ ended' = ""
  /\ Newlog /\ Load(readable, answers, randID) /\ Open(onDisk)
  /\ exits' = <<"connection", "log", "config", "handlers">>
  /\ UNCHANGED Clientfile

-----------------------------------------------------------------------------
(* toLogfile: a batch is appended to the log or, if that cannot be opened, *)
(* dropped. The count is what decides, and is 99 at exit.                  *)
toLogfile_Keep(pending, count, opens) ==
  IF count < Batch THEN Pendingwrite' = pending /\ Pendingcount' = count /\ UNCHANGED <<Logfile, missed>>
  ELSE /\ Pendingwrite' = (IF opens THEN << >> ELSE pending) /\ Pendingcount' = 0
       /\ Logfile' = (IF opens THEN Logfile \o pending ELSE Logfile)
       /\ UNCHANGED missed
toLogfile_Late(pending, count, opens) ==
  IF count <= Batch THEN Pendingwrite' = pending /\ Pendingcount' = count /\ UNCHANGED <<Logfile, missed>>
  ELSE /\ Pendingwrite' = << >> /\ Pendingcount' = 0
       /\ Logfile' = (IF opens THEN Logfile \o pending ELSE Logfile)
       /\ missed' = (IF opens THEN missed ELSE missed \union ToSet(pending))
toLogfile(pending, count, opens) ==
  IF count < Batch THEN Pendingwrite' = pending /\ Pendingcount' = count /\ UNCHANGED <<Logfile, missed>>
  ELSE /\ Pendingwrite' = << >> /\ Pendingcount' = 0
       /\ Logfile' = (IF opens THEN Logfile \o pending ELSE Logfile)
       /\ missed' = (IF opens THEN missed ELSE missed \union ToSet(pending))

Log(opens) ==
  /\ messages' = messages + 1
  /\ toLogfile(Append(Pendingwrite, messages'), Pendingcount + 1, opens)
  /\ late' = IF Contains(exits, "log") THEN late ELSE late \union {messages'}

(* Any thread, any time; exit handlers as well.                            *)
Infoprint(opens) ==
  /\ running /\ Contains(exits, "handlers") /\ messages < MaxMessages
  /\ Log(opens)
  /\ UNCHANGED <<Configfile, Cryptoseed, Clientfile, running, exits, config, Publickey, data, session, ended, identities>>

(* A service stores a row: on disk it is there at once.                    *)
Store ==
  /\ running /\ Contains(exits, "handlers") /\ Cardinality(rows) < MaxRows
  /\ LET row == <<session, Cardinality(rows) + 1>> IN
       /\ rows' = rows \union {row}
       /\ Clientfile' = IF DBConnection = "disk" THEN Clientfile \union {row} ELSE Clientfile
       /\ Memory' = IF DBConnection = "memory" THEN Memory \union {row} ELSE Memory
  /\ UNCHANGED <<Logfile, Configfile, Cryptoseed, running, exits, log, config, Publickey, DBConnection,
                 unsaved, session, ended, identities>>

(* A service changes the settings and says so.                             *)
Modify(s) ==
  /\ running /\ Last(exits) = "handlers"
  /\ Configuration' = s /\ modifiedConfig' = TRUE
  /\ UNCHANGED <<files, running, exits, log, settled, spoilt, Publickey, data, session, ended,
                 identities>>

-----------------------------------------------------------------------------
(* The exit handlers, the last registered first. Those of Synchronization  *)
(* are modelled there.                                                     *)
Exit(handler) == running /\ exits # << >> /\ Last(exits) = handler

Handlers ==
  /\ Exit("handlers")
  /\ exits' = Front(exits)
  /\ UNCHANGED <<files, running, log, config, Publickey, data, session, ended, identities>>

(* Saveconfig: Writefile empties the file, if it opens, and then writes it.*)
TruncateConfig(opens) ==
  /\ Exit("config")
  /\ IF modifiedConfig /\ opens
     THEN Configfile' = Empty /\ spoilt' = TRUE /\ exits' = Append(Front(exits), "write")
     ELSE exits' = Front(exits) /\ UNCHANGED <<Configfile, spoilt>>
  /\ UNCHANGED <<Logfile, Cryptoseed, Clientfile, running, log, Configuration, modifiedConfig, settled, Publickey,
                 data, session, ended, identities>>
WriteConfig(written) ==
  /\ Exit("write")
  /\ IF written THEN Configfile' = Configuration /\ settled' = Configuration /\ spoilt' = FALSE
                ELSE UNCHANGED <<Configfile, settled, spoilt>>
  /\ exits' = Front(exits)
  /\ UNCHANGED <<Logfile, Cryptoseed, Clientfile, running, log, Configuration, modifiedConfig, Publickey, data,
                 session, ended, identities>>

FlushLog(opens) ==
  /\ Exit("log")
  /\ toLogfile(Pendingwrite, 99 + 1, opens)
  /\ exits' = Front(exits)
  /\ UNCHANGED <<Configfile, Cryptoseed, Clientfile, running, messages, late, config, Publickey, data,
                 session, ended, identities>>

(* CleanupDB: a database in memory replaces the one on disk. It says so    *)
(* when that cannot be opened, and nothing when the backup fails.          *)
CleanupDB_IfNew(opens, saves) ==
  LET memory == DBConnection = "memory" IN
  /\ Exit("connection")
  /\ Clientfile' = IF memory /\ opens /\ saves /\ Clientfile = {} THEN Memory ELSE Clientfile
  /\ unsaved' = IF memory /\ ~(opens /\ saves) THEN Memory ELSE unsaved
  /\ IF memory /\ ~opens THEN Log(TRUE) ELSE UNCHANGED <<log, Logfile>>
  /\ exits' = Front(exits) /\ running' = FALSE /\ ended' = "exit" /\ DBConnection' = "none" /\ Memory' = {}
  /\ UNCHANGED <<Configfile, Cryptoseed, config, Publickey, rows, session, identities>>
CleanupDB(opens, saves) ==
  LET memory == DBConnection = "memory" IN
  /\ Exit("connection")
  /\ Clientfile' = IF memory /\ opens /\ saves THEN Memory ELSE Clientfile
  /\ unsaved' = IF memory /\ ~(opens /\ saves) THEN Memory ELSE unsaved
  /\ IF memory /\ ~opens THEN Log(TRUE) ELSE UNCHANGED <<log, Logfile>>
  /\ exits' = Front(exits) /\ running' = FALSE /\ ended' = "exit" /\ DBConnection' = "none" /\ Memory' = {}
  /\ UNCHANGED <<Configfile, Cryptoseed, config, Publickey, rows, session, identities>>

Abort ==
  /\ running
  /\ running' = FALSE /\ ended' = "abort" /\ exits' = << >> /\ DBConnection' = "none" /\ Memory' = {}
  /\ unsaved' = Memory
  /\ UNCHANGED <<files, log, config, Publickey, rows, session, identities>>

Next ==
  \/ \E readable \in SUBSET {"config", "seed"}, answers \in SUBSET ToSet(Hardware), randID, onDisk \in BOOLEAN :
       DllMain(readable, answers, randID, onDisk)
  \/ \E opens \in BOOLEAN : Infoprint(opens) \/ FlushLog(opens) \/ TruncateConfig(opens) \/ WriteConfig(opens)
  \/ \E opens, saves \in BOOLEAN : CleanupDB(opens, saves)
  \/ Store \/ \E s \in Settings : Modify(s)
  \/ Handlers \/ Abort

Spec == Init /\ [][Next]_vars

-----------------------------------------------------------------------------
(* The log holds the messages of the session in order, however it ends. It *)
(* misses batches it could not write, fewer than Batch at the end of a     *)
(* crash, and after a normal exit only what is logged after the flush, as  *)
(* a failure to save the database is (Logging.cpp:46-91,                   *)
(* Database.cpp:158-161).                                                  *)
LogIsComplete ==
  LET kept == Logfile \o Pendingwrite IN
  /\ IsInjective(kept) /\ ToSet(kept) = (1 .. messages) \ missed
  /\ \A i, j \in DOMAIN kept : i < j => kept[i] < kept[j]
  /\ Len(Pendingwrite) < Batch
  /\ ended = "exit" => ToSet(Pendingwrite) \subseteq late

(* The settings last saved stay in the file, whatever sessions follow,     *)
(* until others are saved. They are lost, to the defaults and never to     *)
(* settings of before, only by a session that cannot read the file and     *)
(* overwrites it with the defaults (Configuration.cpp:33 and 59), and by a *)
(* save that empties the file and is not completed, because the process or *)
(* the write fails (Filesystem.hpp:138-146).                               *)
SettingsSurvive ==
  Effective(Configfile) = settled \/ (spoilt /\ Effective(Configfile) = Default)

(* The rows of a session are in the file once it ended, unless it crashed  *)
(* with the database in memory or could not save it; rows of an earlier    *)
(* session stay there, unless a database in memory was saved over them     *)
(* (Database.cpp:133-194).                                                 *)
RowsSurvive ==
  [][/\ (ended' # ended /\ ended' # "" => rows \ unsaved' \subseteq Clientfile')
     /\ (Clientfile \subseteq Clientfile' \/ (DBConnection = "memory" /\ Clientfile' = rows))]_vars

(* Sessions on a computer that answers alike have one identity, whatever   *)
(* answered in those between. Where nothing answers it is by the seed, and *)
(* a new one only if in the first or since, the seed was made and not      *)
(* stored, or was there and not read (Configuration.cpp:80-152).           *)
IdentityIsStable ==
  \A i, j \in DOMAIN identities :
    /\ i < j /\ identities[i].answers = identities[j].answers
    /\ ~identities[i].randID /\ ~identities[j].randID
    => \/ identities[i].key = identities[j].key
       \/ /\ identities[i].answers = {}
          /\ \E k \in i .. j : (identities[k].unstored /\ k < j) \/ (identities[k].unread /\ k > i)
=============================================================================
