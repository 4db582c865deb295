---------------------------- MODULE Appmain_proofs ----------------------------
(***************************************************************************)
(* For any hardware, settings, size of a batch and number of sessions: what*)
(* the files keep of a session, however it ends.                           *)
(***************************************************************************)
EXTENDS Appmain, FiniteSetTheorems, WellFoundedInduction, SequenceTheorems, TLAPS

-----------------------------------------------------------------------------
(* What the assumption of the module gives, piece by piece.                *)
LEMMA Constants ==
  /\ MaxSessions \in Nat /\ MaxMessages \in Nat /\ MaxRows \in Nat
  /\ Batch \in Nat /\ Batch > 0 /\ Batch <= 100
  /\ Default \in Settings /\ Empty \notin Settings /\ Hardware \in Seq(STRING)
BY AppmainAssumption DEF AppmainAssumption

(* The types of the session, of the seed and of the key.                   *)
LEMMA SessionTypes ==
  ASSUME TypeOK
  PROVE  /\ session \in 0 .. MaxSessions /\ session \in Nat /\ Cryptoseed \in 0 .. MaxSessions
         /\ Publickey \in Keys
<1>1. session \in 0 .. MaxSessions /\ Cryptoseed \in 0 .. MaxSessions /\ Publickey \in Keys
  BY Zenon DEF TypeOK
<1> QED BY <1>1, Constants

(* Where a session is in its end.                                          *)
Exits ==
  {<< >>, <<"connection">>, <<"connection", "log">>, <<"connection", "log", "write">>,
   <<"connection", "log", "config">>, <<"connection", "log", "config", "handlers">>}

SessionOK ==
  /\ exits \in Exits
  /\ running <=> exits # << >>
  /\ running => session > 0 /\ ended = "" /\ DBConnection \in {"disk", "memory"}

(* What was put at the end of a sequence is what Front takes away.         *)
LEMMA FrontIs ==
  ASSUME NEW S, NEW s \in Seq(S), NEW e \in S
  PROVE  Append(s, e) \in Seq(S) /\ Front(Append(s, e)) = s
<1> DEFINE f == Front(Append(s, e))
<1>1. /\ Append(s, e) \in Seq(S) /\ Len(Append(s, e)) = Len(s) + 1
      /\ \A i \in 1 .. Len(s) : Append(s, e)[i] = s[i] /\ s[i] \in S
  OBVIOUS
<1>2. f = SubSeq(Append(s, e), 1, Len(s)) /\ Len(s) \in Nat
  BY <1>1 DEF Front
<1>3. /\ f \in Seq(S) /\ Len(f) = Len(s)
      /\ \A i \in 1 .. Len(s) : f[i] = s[i]
  BY <1>1, <1>2, SubSeqProperties
<1> QED BY <1>1, <1>3, SeqEqual

(* What is left of each list of exit handlers when its last one has run.   *)
LEMMA ExitsEnd ==
  /\ Front(<<"connection", "log", "config", "handlers">>) = <<"connection", "log", "config">>
  /\ Front(<<"connection", "log", "config">>) = <<"connection", "log">>
  /\ Front(<<"connection", "log", "write">>) = <<"connection", "log">>
  /\ Front(<<"connection", "log">>) = <<"connection">>
  /\ Front(<<"connection">>) = << >>
  /\ Append(<<"connection", "log">>, "write") = <<"connection", "log", "write">>
<1>1. /\ <<"connection">> = Append(<< >>, "connection")
      /\ <<"connection", "log">> = Append(<<"connection">>, "log")
      /\ <<"connection", "log", "config">> = Append(<<"connection", "log">>, "config")
      /\ <<"connection", "log", "write">> = Append(<<"connection", "log">>, "write")
      /\ <<"connection", "log", "config", "handlers">> = Append(<<"connection", "log", "config">>, "handlers")
  OBVIOUS
<1> DEFINE S == {"connection", "log", "config", "write", "handlers"}
           c1 == Append(<< >>, "connection") c2 == Append(c1, "log") c3 == Append(c2, "config")
           w3 == Append(c2, "write") c4 == Append(c3, "handlers")
<1>2. "connection" \in S /\ "log" \in S /\ "config" \in S /\ "write" \in S /\ "handlers" \in S
  OBVIOUS
<1> HIDE DEF S
<1>3. << >> \in Seq(S)
  OBVIOUS
<1>4. c1 \in Seq(S) /\ Front(c1) = << >>
  BY <1>2, <1>3, FrontIs
<1> HIDE DEF c1
<1>5. c2 \in Seq(S) /\ Front(c2) = c1
  BY <1>2, <1>4, FrontIs
<1> HIDE DEF c2
<1>6. c3 \in Seq(S) /\ Front(c3) = c2
  BY <1>2, <1>5, FrontIs
<1>7. Front(w3) = c2
  BY <1>2, <1>5, FrontIs
<1> HIDE DEF c3
<1>8. Front(c4) = c3
  BY <1>2, <1>6, FrontIs
<1>9. /\ c1 = <<"connection">> /\ c2 = <<"connection", "log">> /\ c3 = <<"connection", "log", "config">>
      /\ w3 = <<"connection", "log", "write">> /\ c4 = <<"connection", "log", "config", "handlers">>
  BY <1>1 DEF c1, c2, c3
<1> HIDE DEF w3, c4
<1> QED BY <1>1, <1>4, <1>5, <1>6, <1>7, <1>8, <1>9, Zenon

(* The handler each list ends with, which is the one that runs next.       *)
LEMMA ExitsLast ==
  /\ Last(<<"connection", "log", "config", "handlers">>) = "handlers"
  /\ Last(<<"connection", "log", "config">>) = "config"
  /\ Last(<<"connection", "log", "write">>) = "write"
  /\ Last(<<"connection", "log">>) = "log"
  /\ Last(<<"connection">>) = "connection"
BY DEF Last

(* Running the last handler leads from one such list to another.           *)
LEMMA ExitsStep ==
  ASSUME exits \in Exits, exits # << >>
  PROVE  /\ Front(exits) \in Exits
         /\ Front(exits) = << >> <=> Last(exits) = "connection"
         /\ Last(exits) = "config" => Append(Front(exits), "write") = <<"connection", "log", "write">>
         /\ Last(exits) \in {"handlers", "config", "write"} => Front(exits) \notin {<< >>, <<"connection">>}
         /\ Last(exits) = "connection" <=> exits = <<"connection">>
<1> HIDE DEF Exits
<1>1. CASE exits = <<"connection", "log", "config", "handlers">>
  BY <1>1, ExitsEnd, ExitsLast DEF Exits
<1>2. CASE exits = <<"connection", "log", "config">>
  <2>1. Front(exits) = <<"connection", "log">> /\ Last(exits) = "config"
    BY <1>2, ExitsEnd, ExitsLast, Zenon
  <2>2. Append(Front(exits), "write") = <<"connection", "log", "write">>
    BY <2>1, ExitsEnd, Zenon
  <2>3. <<"connection", "log">> \in Exits /\ <<"connection", "log">> \notin {<< >>, <<"connection">>}
    BY DEF Exits
  <2>4. exits # <<"connection">>
    BY <1>2
  <2> HIDE <1>2
  <2> QED BY <2>1, <2>2, <2>3, <2>4
<1>3. CASE exits = <<"connection", "log", "write">>
  BY <1>3, ExitsEnd, ExitsLast DEF Exits
<1>4. CASE exits = <<"connection", "log">>
  BY <1>4, ExitsEnd, ExitsLast DEF Exits
<1>5. CASE exits = <<"connection">>
  BY <1>5, ExitsEnd, ExitsLast DEF Exits
<1> QED BY <1>1, <1>2, <1>3, <1>4, <1>5 DEF Exits

(* A start of the process begins the next session, within the bound.       *)
LEMMA NewSession ==
  ASSUME TypeOK, NEW readable, NEW answers, NEW randID, NEW onDisk, DllMain(readable, answers, randID, onDisk)
  PROVE  /\ session' = session + 1 /\ session' > 0
         /\ session + 1 \in 1 .. MaxSessions /\ session + 1 \in 0 .. MaxSessions
<1>1. session' = session + 1 /\ session < MaxSessions
  BY DEF DllMain
<1>2. session \in Nat /\ MaxSessions \in Nat
  BY SessionTypes, Constants, Zenon
<1> HIDE DEF DllMain, TypeOK
<1> QED BY <1>1, <1>2

(* Every step keeps the session and its exit handlers consistent.          *)
LEMMA SessionStep ==
  ASSUME TypeOK, SessionOK, [Next]_vars PROVE SessionOK'
<1> USE DEF SessionOK
<1>1. CASE UNCHANGED vars
  BY <1>1 DEF vars
<1>2. ASSUME NEW readable, NEW answers, NEW randID, NEW onDisk, DllMain(readable, answers, randID, onDisk) PROVE SessionOK'
  <2>1. /\ <<"connection", "log", "config", "handlers">> \in Exits
        /\ <<"connection", "log", "config", "handlers">> # << >>
    BY DEF Exits
  <2>2. session' > 0
    BY <1>2, NewSession, Zenon
  <2>3. DBConnection' \in {"disk", "memory"}
    BY <1>2 DEF DllMain, Open
  <2> QED BY <1>2, <2>1, <2>2, <2>3 DEF DllMain
<1>3. ASSUME NEW opens, Infoprint(opens) PROVE SessionOK'
  BY <1>3 DEF Infoprint, data
<1>4. ASSUME NEW opens, FlushLog(opens) PROVE SessionOK'
  BY <1>4, ExitsStep DEF FlushLog, Exit, data
<1>5. ASSUME NEW opens, NEW saves, CleanupDB(opens, saves) PROVE SessionOK'
  BY <1>5, ExitsStep DEF CleanupDB, Exit
<1>6. CASE Store
  BY <1>6 DEF Store
<1>7. ASSUME NEW s, Modify(s) PROVE SessionOK'
  BY <1>7 DEF Modify, data
<1>8. CASE Handlers
  BY <1>8, ExitsStep DEF Handlers, Exit, data
<1>9. ASSUME NEW opens, TruncateConfig(opens) PROVE SessionOK'
  <2>1. <<"connection", "log", "write">> \in Exits /\ <<"connection", "log", "write">> # << >>
    BY DEF Exits
  <2> QED BY <1>9, <2>1, ExitsStep DEF TruncateConfig, Exit, data
<1>10. ASSUME NEW written, WriteConfig(written) PROVE SessionOK'
  BY <1>10, ExitsStep DEF WriteConfig, Exit, data
<1>11. CASE Abort
  BY <1>11 DEF Abort, Exits
<1> QED BY <1>1, <1>2, <1>3, <1>4, <1>5, <1>6, <1>7, <1>8, <1>9, <1>10, <1>11 DEF Next

-----------------------------------------------------------------------------
(* A save under way shows in what the exit has to run.                     *)
SettingsOK ==
  /\ SettingsSurvive
  /\ exits = <<"connection", "log", "write">> => spoilt /\ Configfile = Empty

(* The types of the configuration file and of what is read from it.        *)
LEMMA ConfigTypes ==
  ASSUME TypeOK
  PROVE  /\ Configfile \in Settings \union {Empty} /\ Configuration \in Settings /\ settled \in Settings
         /\ modifiedConfig \in BOOLEAN /\ spoilt \in BOOLEAN
BY Zenon DEF TypeOK

(* Loading keeps the settings that were settled, or marks the file as      *)
(* spoilt.                                                                 *)
LEMMA LoadStep ==
  ASSUME TypeOK, SettingsSurvive, NEW readable, NEW answers, NEW randID, Load(readable, answers, randID)
  PROVE  /\ SettingsSurvive'
         /\ Configfile' \in Settings \union {Empty} /\ Configuration' \in Settings /\ settled' \in Settings
         /\ modifiedConfig' \in BOOLEAN /\ spoilt' \in BOOLEAN
<1> DEFINE found == Readfile(Configfile, "config" \in readable, Empty)
<1>1. /\ Configuration' = Effective(found) /\ modifiedConfig' = FALSE
      /\ Configfile' \in Forcesaved(found)
      /\ spoilt' = (spoilt \/ (found # Configfile /\ Configfile' # Configfile))
      /\ settled' = settled
  BY DEF Load
<1>2. found \in {Configfile, Empty}
  BY DEF Readfile
<1> HIDE DEF found
<1>3. Configfile' = Configfile \/ (found = Empty /\ Configfile' \in {Empty, Default})
  BY <1>1 DEF Forcesaved, Writefile
<1>4. Effective(Default) = Default /\ Effective(Empty) = Default
  BY DEF Effective
<1>5. /\ Configfile' \in Settings \union {Empty} /\ Configuration' \in Settings /\ settled' \in Settings
      /\ modifiedConfig' \in BOOLEAN /\ spoilt' \in BOOLEAN
  BY <1>1, <1>2, <1>3, Constants, ConfigTypes DEF Effective
<1>6. SettingsSurvive'
  <2>1. Effective(Configfile)' = Effective(Configfile')
    BY DEF Effective
  <2>2. CASE Configfile' = Configfile
    BY <1>1, <2>1, <2>2 DEF SettingsSurvive
  <2>3. CASE Configfile' # Configfile
    <3>1. Effective(Configfile') = Default /\ found = Empty
      BY <1>3, <1>4, <2>3
    <3>2. CASE Configfile = Empty
      BY <1>1, <1>4, <2>1, <3>1, <3>2 DEF SettingsSurvive
    <3>3. CASE Configfile # Empty
      BY <1>1, <2>1, <2>3, <3>1, <3>3 DEF SettingsSurvive
    <3> QED BY <3>2, <3>3
  <2> QED BY <2>2, <2>3
<1> QED BY <1>5, <1>6

(* Every step keeps the settings safe: the file, what is in memory, and    *)
(* what is settled agree.                                                  *)
LEMMA ConfigStep ==
  ASSUME TypeOK, SessionOK, SettingsOK, [Next]_vars
  PROVE  /\ SettingsOK'
         /\ Configfile' \in Settings \union {Empty} /\ Configuration' \in Settings /\ settled' \in Settings
         /\ modifiedConfig' \in BOOLEAN /\ spoilt' \in BOOLEAN
<1> DEFINE Write == <<"connection", "log", "write">>
           Types == /\ Configfile' \in Settings \union {Empty} /\ Configuration' \in Settings
                    /\ settled' \in Settings /\ modifiedConfig' \in BOOLEAN /\ spoilt' \in BOOLEAN
           Good == SettingsOK' /\ Types
<1>0. /\ Configfile \in Settings \union {Empty} /\ Configuration \in Settings /\ settled \in Settings
      /\ modifiedConfig \in BOOLEAN /\ spoilt \in BOOLEAN
  BY ConfigTypes
<1>1. ASSUME UNCHANGED <<Configfile, settled, spoilt>>, Configuration' \in Settings, modifiedConfig' \in BOOLEAN,
             exits' = Write => exits = Write
      PROVE  Good
  BY <1>0, <1>1 DEF SettingsOK, SettingsSurvive, Effective
<1>2. ASSUME NEW readable, NEW answers, NEW randID, NEW onDisk, DllMain(readable, answers, randID, onDisk)
      PROVE  Good
  <2>1. Load(readable, answers, randID) /\ exits' = <<"connection", "log", "config", "handlers">>
    BY <1>2 DEF DllMain
  <2>2. exits' # Write
    BY <2>1
  <2> QED BY <2>1, <2>2, LoadStep DEF SettingsOK
<1>3. ASSUME exits \in Exits, exits # << >>, exits' = Front(exits) PROVE exits' # Write
  BY <1>3, ExitsEnd DEF Exits
<1>4. ASSUME NEW opens, TruncateConfig(opens) PROVE Good
  <2>1. exits \in Exits /\ exits # << >>
    BY <1>4 DEF TruncateConfig, Exit, SessionOK
  <2>2. Configuration' = Configuration /\ modifiedConfig' = modifiedConfig /\ settled' = settled
    BY <1>4 DEF TruncateConfig
  <2>3. CASE Configfile' = Empty /\ spoilt' = TRUE
    BY <1>0, <2>2, <2>3 DEF SettingsOK, SettingsSurvive, Effective
  <2>4. CASE exits' = Front(exits) /\ UNCHANGED <<Configfile, spoilt>>
    BY <1>0, <1>1, <1>3, <2>1, <2>2, <2>4
  <2> QED BY <1>4, <2>3, <2>4 DEF TruncateConfig
<1>5. ASSUME NEW written, WriteConfig(written) PROVE Good
  <2>1. exits \in Exits /\ exits # << >> /\ exits' = Front(exits)
    BY <1>5 DEF WriteConfig, Exit, SessionOK
  <2>2. Configuration' = Configuration /\ modifiedConfig' = modifiedConfig /\ exits' # Write
    BY <1>3, <1>5, <2>1 DEF WriteConfig
  <2>3. CASE Configfile' = Configuration /\ settled' = Configuration /\ spoilt' = FALSE
    BY <1>0, <2>2, <2>3, Constants DEF SettingsOK, SettingsSurvive, Effective
  <2>4. CASE UNCHANGED <<Configfile, settled, spoilt>>
    BY <1>0, <1>1, <2>2, <2>4
  <2> QED BY <1>5, <2>3, <2>4 DEF WriteConfig
<1>6. ASSUME NEW opens, NEW saves, Infoprint(opens) \/ FlushLog(opens) \/ CleanupDB(opens, saves) PROVE Good
  <2>1. UNCHANGED <<Configfile, settled, spoilt, Configuration, modifiedConfig>>
    BY <1>6 DEF Infoprint, FlushLog, CleanupDB, config
  <2>2. exits' = exits \/ (exits \in Exits /\ exits # << >> /\ exits' = Front(exits))
    BY <1>6 DEF Infoprint, FlushLog, CleanupDB, Exit, SessionOK
  <2> QED BY <1>0, <1>1, <1>3, <2>1, <2>2
<1>7. CASE Store \/ Handlers \/ \E s \in Settings : Modify(s)
  <2>1. UNCHANGED <<Configfile, settled, spoilt>> /\ Configuration' \in Settings /\ modifiedConfig' \in BOOLEAN
    BY <1>0, <1>7 DEF Store, Handlers, Modify, config, files
  <2>2. exits' = exits \/ (exits \in Exits /\ exits # << >> /\ exits' = Front(exits))
    BY <1>7 DEF Store, Handlers, Modify, Exit, SessionOK
  <2> QED BY <1>1, <1>3, <2>1, <2>2
<1>8. CASE Abort
  <2>1. UNCHANGED <<Configfile, settled, spoilt, Configuration, modifiedConfig>> /\ exits' = << >>
    BY <1>8 DEF Abort, config, files
  <2> QED BY <1>0, <1>1, <2>1
<1>9. CASE UNCHANGED vars
  BY <1>0, <1>1, <1>9 DEF vars
<1> QED BY <1>2, <1>4, <1>5, <1>6, <1>7, <1>8, <1>9 DEF Next

-----------------------------------------------------------------------------
(* An identity by the seed is by the one that is in its file, or there has *)
(* been trouble with the file since.                                       *)
Since(i) ==
  \E k \in i .. Len(identities) : identities[k].unstored \/ (identities[k].unread /\ k > i)

Identified(i) ==
  ~identities[i].randID =>
    IF identities[i].answers # {}
    THEN identities[i].key = [by |-> Answering(identities[i].answers), made |-> 0]
    ELSE (Cryptoseed # 0 /\ identities[i].key = [by |-> "seed", made |-> Cryptoseed]) \/ Since(i)

Identity ==
  [answers : SUBSET ToSet(Hardware), randID : BOOLEAN, key : Keys, unread : BOOLEAN, unstored : BOOLEAN]

IdentityOK ==
  /\ identities \in Seq(Identity)
  /\ \A i \in DOMAIN identities : Identified(i)
  /\ IdentityIsStable

(* A set of numbers that is not empty has a least one.                     *)
LEMMA FirstExists ==
  ASSUME NEW I \in SUBSET Nat, I # {} PROVE Min(I) \in I
<1>1. PICK x \in I : \A y \in I : <<y, x>> \notin OpToRel(<, Nat)
  BY WFMin, NatLessThanWellFounded, Zenon
<1>2. ASSUME NEW y \in I PROVE x <= y
  <2>1. y < x => <<y, x>> \in OpToRel(<, Nat)
    BY Zenon DEF OpToRel
  <2>2. ~(y < x)
    BY <1>1, <2>1, Zenon
  <2> QED BY <2>2
<1> QED BY <1>2 DEF Min

(* The identifier taken is one of those that answered.                     *)
LEMMA FirstAnswers ==
  ASSUME NEW answers \in SUBSET ToSet(Hardware), answers # {}
  PROVE  Answering(answers) \in ToSet(Hardware)
<1> DEFINE I == {i \in 1 .. Len(Hardware) : Hardware[i] \in answers}
<1>1. Hardware \in Seq(STRING) /\ Len(Hardware) \in Nat /\ DOMAIN Hardware = 1 .. Len(Hardware)
  BY Constants
<1>2. I # {} /\ I \in SUBSET Nat
  BY <1>1 DEF ToSet
<1>3. Min(I) \in DOMAIN Hardware
  BY <1>1, <1>2, FirstExists
<1>4. Answering(answers) = Hardware[Min(I)]
  BY <1>2 DEF Answering, SelectInSeq
<1> QED BY <1>3, <1>4 DEF ToSet

(* What setPublickey_HWID identifies by.                                   *)
LEMMA KeyIs ==
  ASSUME TypeOK, NEW answers \in SUBSET ToSet(Hardware), NEW opens \in BOOLEAN,
         session + 1 \in 1 .. MaxSessions, setPublickey_HWID(answers, opens, session + 1)
  PROVE  /\ Publickey' \in Keys /\ Cryptoseed' \in 0 .. MaxSessions
         /\ answers # {} => Publickey' = [by |-> Answering(answers), made |-> 0] /\ Cryptoseed' = Cryptoseed
         /\ answers = {} => /\ Publickey' = [by |-> "seed", made |-> Publickey'.made] /\ Publickey'.made # 0
                            /\ opens /\ Cryptoseed # 0 => Publickey'.made = Cryptoseed /\ Cryptoseed' = Cryptoseed
<1> DEFINE seed == Readfile(Cryptoseed, opens, 0)
           now == session + 1
<1>1. Cryptoseed \in 0 .. MaxSessions /\ 0 \in 0 .. MaxSessions
  BY SessionTypes, Constants
<1>2. now \in 1 .. MaxSessions /\ now \in 0 .. MaxSessions /\ now # 0
  BY Constants
<1>3. CASE answers # {}
  BY <1>1, <1>3, FirstAnswers DEF setPublickey_HWID, Keys
<1>4. CASE answers = {} /\ seed # 0
  <2>1. seed = Cryptoseed
    BY <1>4 DEF Readfile
  <2> QED BY <1>1, <1>4, <2>1 DEF setPublickey_HWID, Keys
<1>5. CASE answers = {} /\ seed = 0
  <2>1. ~(opens /\ Cryptoseed # 0)
    BY <1>5 DEF Readfile
  <2>2. Publickey' = [by |-> "seed", made |-> now] /\ Cryptoseed' \in {Cryptoseed, 0, now}
    BY <1>5 DEF setPublickey_HWID, Writefile
  <2> HIDE DEF now, seed
  <2> QED BY <1>1, <1>2, <1>5, <2>1, <2>2 DEF Keys
<1> QED BY <1>3, <1>4, <1>5

(* What Load adds to the identities.                                       *)
Identifies(entry, answers, randID) ==
  /\ identities' = Append(identities, entry) /\ entry.answers = answers /\ entry.key = Publickey'
  /\ entry.randID = randID
  /\ Publickey' \in Keys /\ Cryptoseed' \in 0 .. MaxSessions
  /\ randID \/ answers # {} => Cryptoseed' = Cryptoseed
  /\ ~randID /\ answers # {} => entry.key = [by |-> Answering(answers), made |-> 0]
  /\ ~randID /\ answers = {} =>
       /\ entry.unstored \/ (Cryptoseed' # 0 /\ entry.key = [by |-> "seed", made |-> Cryptoseed'])
       /\ Cryptoseed = 0 \/ entry.unread
          \/ (Cryptoseed' = Cryptoseed /\ entry.key = [by |-> "seed", made |-> Cryptoseed])

(* Loading adds to the identities the one this session uses, with what     *)
(* went wrong in it.                                                       *)
LEMMA LoadIdentity ==
  ASSUME TypeOK, NEW readable, NEW answers \in SUBSET ToSet(Hardware), NEW randID \in BOOLEAN,
         session + 1 \in 1 .. MaxSessions, Load(readable, answers, randID)
  PROVE  \E entry \in Identity : Identifies(entry, answers, randID)
<1> DEFINE opens == "seed" \in readable
           entry == [answers |-> answers, randID |-> randID, key |-> Publickey',
                     unread   |-> Publickey'.by = "seed" /\ Cryptoseed # 0 /\ ~opens,
                     unstored |-> Publickey'.by = "seed" /\ Cryptoseed' # Publickey'.made]
<1>1. /\ IF randID THEN setPublickey_RNG(session + 1) ELSE setPublickey_HWID(answers, opens, session + 1)
      /\ identities' = Append(identities, entry)
  BY DEF Load
<1>2. opens \in BOOLEAN
  OBVIOUS
<1> HIDE DEF opens
<1>3. CASE randID
  <2>1. Publickey' = [by |-> "random", made |-> session + 1] /\ Cryptoseed' = Cryptoseed
    BY <1>1, <1>3 DEF setPublickey_RNG
  <2>2. session + 1 \in 0 .. MaxSessions /\ Cryptoseed \in 0 .. MaxSessions
    BY SessionTypes, Constants
  <2>3. Publickey' \in Keys
    BY <2>1, <2>2 DEF Keys
  <2>4. entry \in Identity
    BY <2>3 DEF Identity
  <2>5. entry.answers = answers /\ entry.key = Publickey' /\ entry.randID = randID
    OBVIOUS
  <2> HIDE DEF entry
  <2> QED BY <1>1, <1>3, <2>1, <2>2, <2>3, <2>4, <2>5 DEF Identifies
<1>4. CASE ~randID
  <2>1. /\ Publickey' \in Keys /\ Cryptoseed' \in 0 .. MaxSessions
        /\ answers # {} => Publickey' = [by |-> Answering(answers), made |-> 0] /\ Cryptoseed' = Cryptoseed
        /\ answers = {} => /\ Publickey' = [by |-> "seed", made |-> Publickey'.made] /\ Publickey'.made # 0
                           /\ opens /\ Cryptoseed # 0 => Publickey'.made = Cryptoseed /\ Cryptoseed' = Cryptoseed
    BY <1>1, <1>2, <1>4, KeyIs
  <2>2. entry \in Identity
    BY <2>1 DEF Identity
  <2>3. entry.answers = answers /\ entry.key = Publickey' /\ entry.randID = randID
    OBVIOUS
  <2>4. answers = {} => /\ entry.unread <=> Cryptoseed # 0 /\ ~opens
                        /\ entry.unstored <=> Cryptoseed' # Publickey'.made
    <3>1. answers = {} => Publickey'.by = "seed"
      BY <2>1
    <3> QED BY <3>1
  <2> HIDE DEF entry
  <2>5. answers = {} =>
          /\ entry.unstored \/ (Cryptoseed' # 0 /\ entry.key = [by |-> "seed", made |-> Cryptoseed'])
          /\ Cryptoseed = 0 \/ entry.unread
             \/ (Cryptoseed' = Cryptoseed /\ entry.key = [by |-> "seed", made |-> Cryptoseed])
    BY <2>1, <2>3, <2>4
  <2> QED BY <1>1, <1>4, <2>1, <2>2, <2>3, <2>5 DEF Identifies
<1> QED BY <1>3, <1>4

(* Every step keeps the identities consistent with each other and with     *)
(* the stored seed.                                                        *)
LEMMA IdentityStep ==
  ASSUME TypeOK, IdentityOK, [Next]_vars PROVE IdentityOK'
<1> USE DEF IdentityOK
<1>1. CASE UNCHANGED <<identities, Cryptoseed>>
  BY <1>1 DEF Identified, Since, IdentityIsStable
<1>2. ASSUME NEW readable, NEW answers \in SUBSET ToSet(Hardware), NEW randID \in BOOLEAN, NEW onDisk \in BOOLEAN,
             DllMain(readable, answers, randID, onDisk)
      PROVE  IdentityOK'
  <2>1. Load(readable, answers, randID) /\ session + 1 \in 1 .. MaxSessions
    BY <1>2, NewSession, Zenon DEF DllMain
  <2>1a. PICK entry \in Identity : Identifies(entry, answers, randID)
    BY <2>1, LoadIdentity
  <2>2. /\ identities' = Append(identities, entry) /\ entry.answers = answers /\ entry.key = Publickey'
        /\ entry.randID = randID
        /\ Publickey' \in Keys /\ Cryptoseed' \in 0 .. MaxSessions
        /\ randID \/ answers # {} => Cryptoseed' = Cryptoseed
        /\ ~randID /\ answers # {} => entry.key = [by |-> Answering(answers), made |-> 0]
        /\ ~randID /\ answers = {} =>
             /\ entry.unstored \/ (Cryptoseed' # 0 /\ entry.key = [by |-> "seed", made |-> Cryptoseed'])
             /\ Cryptoseed = 0 \/ entry.unread
                \/ (Cryptoseed' = Cryptoseed /\ entry.key = [by |-> "seed", made |-> Cryptoseed])
    BY <2>1a DEF Identifies
  <2>0. PICK new \in Nat : new = Len(identities) + 1
    <3>1. Len(identities) + 1 \in Nat
      OBVIOUS
    <3> QED BY <3>1
  <2>3. /\ identities' \in Seq(Identity) /\ Len(identities') = new /\ identities'[new] = entry
        /\ new \in Nat /\ DOMAIN identities' = 1 .. new /\ Len(identities) < new
        /\ DOMAIN identities = 1 .. Len(identities) /\ Len(identities) \in Nat
        /\ \A i \in 1 .. Len(identities) : identities'[i] = identities[i]
        /\ \A i \in 1 .. new : i = new \/ (i \in 1 .. Len(identities) /\ i < new /\ new \in i .. new)
    BY <2>0, <2>2
  <2>4. ASSUME NEW i \in 1 .. Len(identities)
        PROVE  /\ Since(i) => Since(i)'
               /\ Since(i) => \E k \in i .. new : (identities'[k].unstored /\ k < new) \/ (identities'[k].unread /\ k > i)
    <3>1. SUFFICES ASSUME NEW k \in i .. Len(identities),
                          identities[k].unstored \/ (identities[k].unread /\ k > i)
                   PROVE  /\ Since(i)'
                          /\ \E m \in i .. new : (identities'[m].unstored /\ m < new) \/ (identities'[m].unread /\ m > i)
      BY DEF Since
    <3>2. k \in i .. new /\ k < new /\ k \in 1 .. Len(identities)
      BY <2>3
    <3>3. identities'[k] = identities[k]
      BY <2>3, <3>2
    <3>4. Since(i)' <=> \E m \in i .. new : identities'[m].unstored \/ (identities'[m].unread /\ m > i)
      BY <2>3 DEF Since
    <3> QED BY <3>1, <3>2, <3>3, <3>4
  <2>5. ASSUME NEW i \in 1 .. Len(identities) PROVE Identified(i)'
    <3>1. identities'[i] = identities[i] /\ Identified(i) /\ new \in i .. new /\ new > i
      BY <2>3
    <3>2. entry.unread => Since(i)'
      BY <2>3, <3>1, Zenon DEF Since
    <3>3. Cryptoseed = 0 \/ Cryptoseed' = Cryptoseed \/ entry.unread
      BY <2>2
    <3> QED BY <2>4, <3>1, <3>2, <3>3, Zenon DEF Identified
  <2>6. Identified(new)'
    <3>1. new \in new .. new
      BY <2>3
    <3>2. entry.unstored => Since(new)'
      BY <2>3, <3>1, Zenon DEF Since
    <3> QED BY <2>2, <2>3, <3>2, Zenon DEF Identified
  <2>7. ASSUME NEW i \in 1 .. Len(identities), NEW j \in 1 .. Len(identities), i < j,
               identities'[i].answers = identities'[j].answers, ~identities'[i].randID, ~identities'[j].randID
        PROVE  \/ identities'[i].key = identities'[j].key
               \/ /\ identities'[i].answers = {}
                  /\ \E k \in i .. j : (identities'[k].unstored /\ k < j) \/ (identities'[k].unread /\ k > i)
    <3>1. \A k \in i .. j : identities'[k] = identities[k]
      <4>1. \A k \in i .. j : k \in 1 .. Len(identities)
        BY <2>3
      <4> QED BY <2>3, <4>1
    <3>2. identities'[i] = identities[i] /\ identities'[j] = identities[j]
      BY <2>3
    <3>3. \/ identities[i].key = identities[j].key
          \/ /\ identities[i].answers = {}
             /\ \E k \in i .. j : (identities[k].unstored /\ k < j) \/ (identities[k].unread /\ k > i)
      BY <2>3, <2>7, <3>2, Zenon DEF IdentityIsStable
    <3> QED BY <3>1, <3>2, <3>3, Zenon
  <2>8. ASSUME NEW i \in 1 .. Len(identities),
               identities'[i].answers = identities'[new].answers, ~identities'[i].randID, ~identities'[new].randID
        PROVE  \/ identities'[i].key = identities'[new].key
               \/ /\ identities'[i].answers = {}
                  /\ \E k \in i .. new : (identities'[k].unstored /\ k < new) \/ (identities'[k].unread /\ k > i)
    <3>1. /\ identities'[i] = identities[i] /\ Identified(i) /\ new \in i .. new /\ new > i
          /\ identities[i].answers = answers /\ ~identities[i].randID /\ ~randID
      BY <2>2, <2>3, <2>8
    <3>2. CASE answers # {}
      BY <2>2, <2>3, <3>1, <3>2, Zenon DEF Identified
    <3>3. CASE answers = {}
      <4>1. CASE Since(i)
        BY <2>4, <3>1, <3>3, <4>1, Zenon
      <4>2. CASE Cryptoseed # 0 /\ identities[i].key = [by |-> "seed", made |-> Cryptoseed]
        <5>1. entry.unread \/ entry.key = [by |-> "seed", made |-> Cryptoseed]
          BY <2>2, <3>1, <3>3, <4>2
        <5> QED BY <2>3, <3>1, <3>3, <4>2, <5>1, Zenon
      <4> QED BY <3>1, <3>3, <4>1, <4>2, Zenon DEF Identified
    <3> QED BY <3>2, <3>3
  <2>9. \A i \in DOMAIN identities' : Identified(i)'
    BY <2>3, <2>5, <2>6, Zenon
  <2>10. IdentityIsStable'
    <3>1. SUFFICES ASSUME NEW i \in DOMAIN identities', NEW j \in DOMAIN identities', i < j,
                          identities'[i].answers = identities'[j].answers,
                          ~identities'[i].randID, ~identities'[j].randID
                   PROVE  \/ identities'[i].key = identities'[j].key
                          \/ /\ identities'[i].answers = {}
                             /\ \E k \in i .. j : (identities'[k].unstored /\ k < j) \/ (identities'[k].unread /\ k > i)
      BY DEF IdentityIsStable
    <3>2. i \in 1 .. Len(identities) /\ (j = new \/ j \in 1 .. Len(identities))
      BY <2>3, <3>1
    <3>3. CASE j = new
      BY <2>8, <3>1, <3>2, <3>3
    <3>4. CASE j \in 1 .. Len(identities)
      BY <2>7, <3>1, <3>2, <3>4
    <3> QED BY <3>2, <3>3, <3>4
  <2> QED BY <2>3, <2>9, <2>10
<1>3. ASSUME NEW opens, NEW saves, \/ Infoprint(opens) \/ FlushLog(opens) \/ CleanupDB(opens, saves)
      PROVE  UNCHANGED <<identities, Cryptoseed>>
  BY <1>3 DEF Infoprint, FlushLog, CleanupDB
<1>4. ASSUME Store \/ \E s \in Settings : Modify(s) PROVE UNCHANGED <<identities, Cryptoseed>>
  BY <1>4 DEF Store, Modify, files
<1>5. ASSUME Handlers \/ Abort \/ \E opens \in BOOLEAN : TruncateConfig(opens) \/ WriteConfig(opens)
      PROVE  UNCHANGED <<identities, Cryptoseed>>
  BY <1>5 DEF Handlers, TruncateConfig, WriteConfig, Abort, files
<1>6. CASE UNCHANGED vars
  BY <1>1, <1>6 DEF vars
<1> QED BY <1>1, <1>2, <1>3, <1>4, <1>5, <1>6 DEF Next

-----------------------------------------------------------------------------
(* The rows of this session are where the connection is.                   *)
DataOK ==
  /\ DBConnection = "disk" => rows \subseteq Clientfile /\ Memory = {}
  /\ DBConnection = "memory" => Memory = rows
  /\ IsFiniteSet(rows) /\ Cardinality(rows) <= MaxRows

(* Every step keeps the rows of the connection with those of its file.     *)
LEMMA DataStep ==
  ASSUME TypeOK, SessionOK, DataOK, [Next]_vars PROVE DataOK'
<1> USE DEF DataOK
<1>1. ASSUME UNCHANGED data, Clientfile \subseteq Clientfile' PROVE DataOK'
  BY <1>1 DEF data
<1>2. ASSUME NEW readable, NEW answers, NEW randID, NEW onDisk, DllMain(readable, answers, randID, onDisk) PROVE DataOK'
  <2>1. Memory' = {} /\ rows' = {} /\ DBConnection' \in {"disk", "memory"}
    BY <1>2 DEF DllMain, Open
  <2> QED BY <2>1, FS_EmptySet, Constants
<1>3. CASE Store
  <2> DEFINE row == <<session, Cardinality(rows) + 1>>
  <2>1. /\ rows' = rows \union {row} /\ Cardinality(rows) < MaxRows
        /\ Clientfile' = IF DBConnection = "disk" THEN Clientfile \union {row} ELSE Clientfile
        /\ Memory' = IF DBConnection = "memory" THEN Memory \union {row} ELSE Memory
        /\ DBConnection' = DBConnection
    BY <1>3 DEF Store
  <2> HIDE DEF row
  <2>2. IsFiniteSet(rows') /\ Cardinality(rows') <= MaxRows
    <3>1. IsFiniteSet(rows') /\ Cardinality(rows') \in {Cardinality(rows), Cardinality(rows) + 1}
      BY <2>1, FS_AddElement
    <3> QED BY <2>1, <3>1, FS_CardinalityType, Constants
  <2> QED BY <2>1, <2>2
<1>4. ASSUME NEW opens, NEW saves, CleanupDB(opens, saves) PROVE DataOK'
  BY <1>4 DEF CleanupDB
<1>5. CASE Abort
  BY <1>5 DEF Abort
<1>6. ASSUME NEW opens, FlushLog(opens) \/ Infoprint(opens) PROVE DataOK'
  BY <1>1, <1>6 DEF FlushLog, Infoprint
<1>7. CASE Handlers \/ (\E s \in Settings : Modify(s))
          \/ \E opens \in BOOLEAN : TruncateConfig(opens) \/ WriteConfig(opens)
  BY <1>1, <1>7 DEF Handlers, TruncateConfig, WriteConfig, Modify, files
<1>8. CASE UNCHANGED vars
  BY <1>1, <1>8 DEF vars, data
<1> QED BY <1>2, <1>3, <1>4, <1>5, <1>6, <1>7, <1>8 DEF Next

(* A session that ends has its rows in the file, except those it could     *)
(* not save; and the file only grows, or is replaced by the rows in        *)
(* memory.                                                                 *)
LEMMA RowsStep ==
  ASSUME TypeOK, SessionOK, DataOK, [Next]_vars
  PROVE  /\ ended' # ended /\ ended' # "" => rows \ unsaved' \subseteq Clientfile'
         /\ Clientfile \subseteq Clientfile' \/ (DBConnection = "memory" /\ Clientfile' = rows)
<1> DEFINE Survive == /\ ended' # ended /\ ended' # "" => rows \ unsaved' \subseteq Clientfile'
                      /\ Clientfile \subseteq Clientfile' \/ (DBConnection = "memory" /\ Clientfile' = rows)
<1> USE DEF DataOK
<1>1. ASSUME NEW opens, NEW saves, CleanupDB(opens, saves) PROVE Survive
  BY <1>1 DEF CleanupDB, Exit, SessionOK
<1>2. CASE Abort
  BY <1>2 DEF Abort, files, SessionOK
<1>3. CASE Store
  BY <1>3 DEF Store
<1>4. ASSUME NEW readable, NEW answers, NEW randID, NEW onDisk, DllMain(readable, answers, randID, onDisk) PROVE Survive
  BY <1>4 DEF DllMain
<1>5. ASSUME NEW opens, FlushLog(opens) \/ Infoprint(opens) PROVE Survive
  BY <1>5 DEF FlushLog, Infoprint
<1>6. CASE Handlers \/ (\E s \in Settings : Modify(s))
          \/ \E opens \in BOOLEAN : TruncateConfig(opens) \/ WriteConfig(opens)
  BY <1>6 DEF Handlers, TruncateConfig, WriteConfig, Modify, files
<1>7. CASE UNCHANGED vars
  BY <1>7 DEF vars
<1> QED BY <1>1, <1>2, <1>3, <1>4, <1>5, <1>6, <1>7 DEF Next

-----------------------------------------------------------------------------
(* What is kept is in order, and the count is the number of what waits.    *)
Increasing(s) == \A i, j \in DOMAIN s : i < j => s[i] < s[j]

LogOK ==
  /\ Increasing(Logfile \o Pendingwrite)
  /\ ToSet(Logfile \o Pendingwrite) = (1 .. messages) \ missed
  /\ missed \subseteq 1 .. messages
  /\ Pendingcount = Len(Pendingwrite) /\ Len(Pendingwrite) < Batch
  /\ exits \in {<< >>, <<"connection">>} /\ ended # "abort" => ToSet(Pendingwrite) \subseteq late

(* The types of the log and of what waits for it.                          *)
LEMMA LogTypes ==
  ASSUME TypeOK
  PROVE  /\ Logfile \in Seq(Nat) /\ Pendingwrite \in Seq(Nat) /\ messages \in Nat
         /\ missed \union late \subseteq 1 .. messages
BY Zenon DEF TypeOK

(* Where the elements of two sequences are in their concatenation.         *)
LEMMA ConcatParts ==
  ASSUME NEW a \in Seq(Nat), NEW b \in Seq(Nat)
  PROVE  /\ a \o b \in Seq(Nat) /\ Len(a \o b) = Len(a) + Len(b)
         /\ \A i \in DOMAIN a : i \in DOMAIN (a \o b) /\ (a \o b)[i] = a[i]
         /\ \A j \in DOMAIN b : Len(a) + j \in DOMAIN (a \o b) /\ (a \o b)[Len(a) + j] = b[j]
OBVIOUS

(* An element of a concatenation is in one of its parts.                   *)
LEMMA ConcatSplit ==
  ASSUME NEW a \in Seq(Nat), NEW b \in Seq(Nat), NEW i \in DOMAIN (a \o b)
  PROVE  i \in DOMAIN a \/ (i - Len(a) \in DOMAIN b /\ (a \o b)[i] = b[i - Len(a)])
OBVIOUS

(* The elements of a concatenation are those of its parts.                 *)
LEMMA ConcatSet ==
  ASSUME NEW a \in Seq(Nat), NEW b \in Seq(Nat)
  PROVE  ToSet(a \o b) = ToSet(a) \union ToSet(b)
<1>1. ASSUME NEW x \in ToSet(a \o b) PROVE x \in ToSet(a) \union ToSet(b)
  <2>1. PICK i \in DOMAIN (a \o b) : (a \o b)[i] = x
    BY DEF ToSet
  <2>2. (i \in DOMAIN a /\ a[i] = x) \/ (i - Len(a) \in DOMAIN b /\ b[i - Len(a)] = x)
    <3>1. i \in DOMAIN a => (a \o b)[i] = a[i]
      BY ConcatParts, Zenon
    <3>2. i \in DOMAIN a \/ (i - Len(a) \in DOMAIN b /\ (a \o b)[i] = b[i - Len(a)])
      BY ConcatSplit, Zenon
    <3> QED BY <2>1, <3>1, <3>2, Zenon
  <2> QED BY <2>2 DEF ToSet
<1>2. ASSUME NEW x \in ToSet(a) PROVE x \in ToSet(a \o b)
  <2>1. PICK i \in DOMAIN a : a[i] = x
    BY DEF ToSet
  <2>2. i \in DOMAIN (a \o b) /\ (a \o b)[i] = x
    BY <2>1, ConcatParts, Zenon
  <2> QED BY <2>2 DEF ToSet
<1>3. ASSUME NEW x \in ToSet(b) PROVE x \in ToSet(a \o b)
  <2>1. PICK j \in DOMAIN b : b[j] = x
    BY DEF ToSet
  <2>2. Len(a) + j \in DOMAIN (a \o b) /\ (a \o b)[Len(a) + j] = x
    BY <2>1, ConcatParts, Zenon
  <2> QED BY <2>2 DEF ToSet
<1> QED BY <1>1, <1>2, <1>3

(* Without its end, an increasing sequence increases, and has the          *)
(* elements that are not in the end.                                       *)
LEMMA DropEnd ==
  ASSUME NEW a \in Seq(Nat), NEW b \in Seq(Nat), Increasing(a \o b)
  PROVE  Increasing(a) /\ ToSet(a) = ToSet(a \o b) \ ToSet(b)
<1>1. Increasing(a)
  <2>1. ASSUME NEW i \in DOMAIN a, NEW j \in DOMAIN a, i < j PROVE a[i] < a[j]
    <3>1. i \in DOMAIN (a \o b) /\ j \in DOMAIN (a \o b) /\ (a \o b)[i] = a[i] /\ (a \o b)[j] = a[j]
      BY ConcatParts, Zenon
    <3> QED BY <2>1, <3>1 DEF Increasing
  <2> QED BY <2>1 DEF Increasing
<1>2. ToSet(a) \intersect ToSet(b) = {}
  <2>1. ASSUME NEW i \in DOMAIN a, NEW j \in DOMAIN b PROVE a[i] # b[j]
    <3>1. /\ i \in DOMAIN (a \o b) /\ (a \o b)[i] = a[i]
          /\ Len(a) + j \in DOMAIN (a \o b) /\ (a \o b)[Len(a) + j] = b[j]
      BY ConcatParts, Zenon
    <3>2. i < Len(a) + j /\ a[i] \in Nat /\ b[j] \in Nat
      OBVIOUS
    <3>3. a[i] < b[j]
      BY <3>1, <3>2 DEF Increasing
    <3> QED BY <3>2, <3>3
  <2> QED BY <2>1 DEF ToSet
<1> QED BY <1>1, <1>2, ConcatSet

(* The next message, put at the end, keeps the order and adds itself       *)
(* alone.                                                                  *)
LEMMA GrowEnd ==
  ASSUME TypeOK, LogOK
  PROVE  /\ Append(Pendingwrite, messages + 1) \in Seq(Nat)
         /\ ToSet(Append(Pendingwrite, messages + 1)) = ToSet(Pendingwrite) \union {messages + 1}
         /\ Increasing(Logfile \o Append(Pendingwrite, messages + 1))
         /\ ToSet(Logfile \o Append(Pendingwrite, messages + 1)) = (1 .. messages + 1) \ missed
<1> DEFINE n == messages + 1  e == <<n>>
<1>0. Logfile \in Seq(Nat) /\ Pendingwrite \in Seq(Nat) /\ messages \in Nat
  BY LogTypes
<1>1. e \in Seq(Nat) /\ ToSet(e) = {n} /\ n \in Nat
  BY <1>0 DEF ToSet
<1>2. Append(Pendingwrite, n) = Pendingwrite \o e
  BY <1>0, <1>1, AppendIsConcat
<1>3. Logfile \o Append(Pendingwrite, n) = (Logfile \o Pendingwrite) \o e
  <2>1. Logfile \o (Pendingwrite \o e) = (Logfile \o Pendingwrite) \o e
    BY <1>0, <1>1, ConcatAssociative
  <2> QED BY <1>2, <2>1, Zenon
<1>4. Append(Pendingwrite, n) \in Seq(Nat) /\ ToSet(Append(Pendingwrite, n)) = ToSet(Pendingwrite) \union {n}
  BY <1>0, <1>1, <1>2, ConcatSet, ConcatParts
<1>5. ToSet(Logfile \o Append(Pendingwrite, n)) = ((1 .. messages) \ missed) \union {n}
  <2>1. ToSet((Logfile \o Pendingwrite) \o e) = ToSet(Logfile \o Pendingwrite) \union ToSet(e)
    BY <1>0, <1>1, ConcatSet, ConcatParts, Zenon
  <2>2. ToSet(Logfile \o Pendingwrite) = (1 .. messages) \ missed
    BY DEF LogOK
  <2> QED BY <1>1, <1>3, <2>1, <2>2, Zenon
<1>6. ((1 .. messages) \ missed) \union {n} = (1 .. n) \ missed
  BY <1>0 DEF LogOK
<1>7. Increasing((Logfile \o Pendingwrite) \o e)
  <2> DEFINE s == Logfile \o Pendingwrite
  <2>1. s \in Seq(Nat) /\ \A i \in DOMAIN s : s[i] \in ToSet(s)
    BY <1>0, ConcatParts DEF ToSet
  <2>2. ToSet(s) = (1 .. messages) \ missed /\ Increasing(s)
    BY DEF LogOK
  <2>3. \A i \in DOMAIN s : s[i] < n
    BY <1>0, <2>1, <2>2
  <2> HIDE DEF s
  <2>4. s \o e = Append(s, n)
    BY <1>1, <2>1, AppendIsConcat
  <2>5. Increasing(Append(s, n))
    BY <1>1, <2>1, <2>2, <2>3 DEF Increasing
  <2> QED BY <2>4, <2>5 DEF s
<1> QED BY <1>3, <1>4, <1>5, <1>6, <1>7

(* toLogfile, of what waits and has m messages with the log.               *)
Logged(m) ==
  /\ Logfile' \in Seq(Nat) /\ Pendingwrite' \in Seq(Nat)
  /\ Increasing(Logfile' \o Pendingwrite')
  /\ ToSet(Logfile' \o Pendingwrite') = (1 .. m) \ missed' /\ missed' \subseteq 1 .. m
  /\ Pendingcount' = Len(Pendingwrite') /\ Len(Pendingwrite') < Batch

(* Writing the log, or failing to, keeps its order, and what the failing   *)
(* write drops is missed.                                                  *)
LEMMA WriteLog ==
  ASSUME NEW m \in Nat, NEW pending \in Seq(Nat), NEW count \in Nat, NEW opens, Logfile \in Seq(Nat),
         Increasing(Logfile \o pending), ToSet(Logfile \o pending) = (1 .. m) \ missed, missed \subseteq 1 .. m,
         count = Len(pending) \/ count >= Batch, toLogfile(pending, count, opens)
  PROVE  /\ Logged(m) /\ Pendingwrite' \in {<< >>, pending}
         /\ count >= Batch => Pendingwrite' = << >>
<1> USE Constants
<1>1. CASE count < Batch
  <2>1. Pendingwrite' = pending /\ Pendingcount' = count /\ Logfile' = Logfile /\ missed' = missed
    BY <1>1 DEF toLogfile
  <2>2. count = Len(pending) /\ ~(count >= Batch)
    BY <1>1
  <2> QED BY <1>1, <2>1, <2>2 DEF Logged
<1>2. CASE ~(count < Batch)
  <2>1. /\ Pendingwrite' = << >> /\ Pendingcount' = 0
        /\ \/ Logfile' = Logfile \o pending /\ missed' = missed
           \/ Logfile' = Logfile /\ missed' = missed \union ToSet(pending)
    BY <1>2 DEF toLogfile
  <2>2. Logfile' \in Seq(Nat)
    BY <2>1, ConcatParts
  <2>3. Logfile' \o Pendingwrite' = Logfile'
    BY <2>1, <2>2
  <2>4. CASE Logfile' = Logfile \o pending /\ missed' = missed
    BY <2>1, <2>2, <2>3, <2>4 DEF Logged
  <2>5. CASE Logfile' = Logfile /\ missed' = missed \union ToSet(pending)
    <3>1. Increasing(Logfile) /\ ToSet(Logfile) = ToSet(Logfile \o pending) \ ToSet(pending)
      BY DropEnd
    <3>2. ToSet(pending) \subseteq 1 .. m
      BY ConcatSet
    <3>3. ToSet(Logfile) = (1 .. m) \ (missed \union ToSet(pending))
      BY <3>1
    <3>4. Logfile' \o Pendingwrite' = Logfile
      BY <2>3, <2>5
    <3>5. missed' \subseteq 1 .. m /\ missed' = missed \union ToSet(pending)
      BY <2>5, <3>2
    <3>6. Len(Pendingwrite') = 0 /\ Pendingwrite' \in Seq(Nat) /\ 0 < Batch
      BY <2>1
    <3>7. Logged(m)
      BY <2>1, <2>2, <3>1, <3>3, <3>4, <3>5, <3>6 DEF Logged
    <3> QED BY <2>1, <3>7
  <2> QED BY <2>1, <2>4, <2>5
<1> QED BY <1>1, <1>2

(* A message that is logged keeps the order, and is late when the log has  *)
(* ended.                                                                  *)
LEMMA LogMessage ==
  ASSUME TypeOK, LogOK, NEW opens, Log(opens)
  PROVE  /\ messages' = messages + 1 /\ Logged(messages')
         /\ ToSet(Pendingwrite') \subseteq ToSet(Pendingwrite) \union {messages'}
         /\ late' = IF Contains(exits, "log") THEN late ELSE late \union {messages'}
<1> DEFINE pending == Append(Pendingwrite, messages + 1)
<1>1. /\ messages' = messages + 1 /\ toLogfile(pending, Pendingcount + 1, opens)
      /\ late' = IF Contains(exits, "log") THEN late ELSE late \union {messages'}
  BY DEF Log
<1>2. /\ Logfile \in Seq(Nat) /\ Pendingwrite \in Seq(Nat) /\ messages \in Nat /\ messages + 1 \in Nat
  BY LogTypes
<1>3. /\ pending \in Seq(Nat) /\ ToSet(pending) = ToSet(Pendingwrite) \union {messages + 1}
      /\ Increasing(Logfile \o pending)
      /\ ToSet(Logfile \o pending) = (1 .. messages + 1) \ missed
  BY GrowEnd
<1>4. Pendingcount + 1 = Len(pending) /\ Pendingcount + 1 \in Nat /\ missed \subseteq 1 .. messages + 1
  BY <1>2 DEF LogOK
<1> HIDE DEF pending
<1>5. Logged(messages + 1) /\ Pendingwrite' \in {<< >>, pending}
  BY <1>1, <1>2, <1>3, <1>4, WriteLog
<1>6. ToSet(Pendingwrite') \subseteq ToSet(Pendingwrite) \union {messages + 1}
  <2>1. ToSet(<< >>) = {}
    BY DEF ToSet
  <2> QED BY <1>3, <1>5, <2>1, Zenon
<1>7. Logged(messages')
  BY <1>1, <1>5 DEF Logged
<1> QED BY <1>1, <1>6, <1>7

(* The log has ended exactly when its handler is no longer in the list.    *)
LEMMA LogEnds ==
  ASSUME exits \in Exits
  PROVE  /\ Contains(exits, "log") <=> exits \notin {<< >>, <<"connection">>}
         /\ Contains(exits, "handlers") => exits \notin {<< >>, <<"connection">>}
BY DEF Exits, Contains

(* A step that leaves the log alone keeps what is known of it.             *)
LEMMA LogKept ==
  ASSUME TypeOK, LogOK, UNCHANGED <<Logfile, Pendingwrite, Pendingcount, messages, missed, late>>,
         exits' \in {<< >>, <<"connection">>} /\ ended' # "abort" =>
           exits \in {<< >>, <<"connection">>} /\ ended # "abort"
  PROVE  LogOK'
BY DEF LogOK

(* Every step keeps the log in order and without unexplained gaps.         *)
LEMMA LogStep ==
  ASSUME TypeOK, SessionOK, LogOK, [Next]_vars
  PROVE  /\ LogOK'
         /\ Logfile' \in Seq(Nat) /\ Pendingwrite' \in Seq(Nat) /\ messages' \in Nat
         /\ missed' \union late' \subseteq 1 .. messages'
<1> DEFINE Types == /\ Logfile' \in Seq(Nat) /\ Pendingwrite' \in Seq(Nat) /\ messages' \in Nat
                    /\ missed' \union late' \subseteq 1 .. messages'
           Same == UNCHANGED <<Logfile, Pendingwrite, Pendingcount, messages, missed, late>>
<1>0. Same => Types
  BY LogTypes
<1>1. ASSUME NEW readable, NEW answers, NEW randID, NEW onDisk, DllMain(readable, answers, randID, onDisk)
      PROVE  LogOK' /\ Types
  <2>1. /\ Logfile' = << >> /\ Pendingwrite' = << >> /\ Pendingcount' = 0
        /\ messages' = 0 /\ missed' = {} /\ late' = {}
    BY <1>1 DEF DllMain, Newlog
  <2>2. Logfile' \o Pendingwrite' = << >>
    BY <2>1
  <2>3. ToSet(<< >>) = {} /\ Increasing(<< >>)
    BY DEF ToSet, Increasing
  <2>4. 1 .. 0 = {} /\ << >> \in Seq(Nat) /\ Len(<< >>) = 0
    OBVIOUS
  <2>5. Types
    BY <2>1, <2>4
  <2>6. ToSet(Logfile' \o Pendingwrite') = (1 .. messages') \ missed'
    BY <2>1, <2>2, <2>3, <2>4
  <2> QED BY <2>1, <2>2, <2>3, <2>4, <2>5, <2>6, Constants DEF LogOK
<1>2. ASSUME NEW opens, Infoprint(opens) PROVE LogOK' /\ Types
  <2>1. Log(opens) /\ exits' = exits /\ Contains(exits, "handlers")
    BY <1>2 DEF Infoprint
  <2>2. exits' \notin {<< >>, <<"connection">>} /\ Contains(exits, "log")
    BY <2>1, LogEnds DEF SessionOK
  <2>3. messages' = messages + 1 /\ Logged(messages') /\ late' = late
    BY <2>1, <2>2, LogMessage
  <2>4. Types
    <3>1. messages' \in Nat /\ 1 .. messages \subseteq 1 .. messages'
      BY <2>3, LogTypes
    <3> QED BY <2>3, <3>1, LogTypes DEF Logged
  <2> QED BY <2>2, <2>3, <2>4 DEF LogOK, Logged
<1>3. ASSUME NEW opens, FlushLog(opens) PROVE LogOK' /\ Types
  <2>1. toLogfile(Pendingwrite, 99 + 1, opens) /\ messages' = messages /\ late' = late
    BY <1>3 DEF FlushLog
  <2>2. 99 + 1 \in Nat /\ 99 + 1 >= Batch
    BY Constants
  <2>3. Logged(messages) /\ Pendingwrite' = << >>
    BY <2>1, <2>2, LogTypes, WriteLog DEF LogOK
  <2>4. Types
    BY <2>1, <2>3, LogTypes DEF Logged
  <2>5. ToSet(Pendingwrite') \subseteq late'
    BY <2>3 DEF ToSet
  <2>6. Logged(messages')
    BY <2>1, <2>3 DEF Logged
  <2> QED BY <2>4, <2>5, <2>6 DEF LogOK, Logged
<1>4. ASSUME NEW opens, NEW saves, CleanupDB(opens, saves) PROVE LogOK' /\ Types
  <2>1. exits = <<"connection">> /\ ended # "abort" /\ ended' = "exit"
    BY <1>4, ExitsStep DEF CleanupDB, Exit, SessionOK
  <2>2. CASE Log(TRUE)
    <3>1. ~Contains(exits, "log")
      BY <2>1, LogEnds DEF SessionOK
    <3>2. /\ messages' = messages + 1 /\ Logged(messages') /\ late' = late \union {messages'}
          /\ ToSet(Pendingwrite') \subseteq ToSet(Pendingwrite) \union {messages'}
      BY <2>2, <3>1, LogMessage
    <3>3. ToSet(Pendingwrite) \subseteq late
      BY <2>1 DEF LogOK
    <3>4. messages' \in Nat /\ 1 .. messages \subseteq 1 .. messages' /\ messages' \in 1 .. messages'
      BY <3>2, LogTypes
    <3>5. Types
      BY <3>2, <3>4, LogTypes DEF Logged
    <3>6. ToSet(Pendingwrite') \subseteq late'
      BY <3>2, <3>3
    <3> QED BY <3>2, <3>5, <3>6 DEF LogOK, Logged
  <2>3. CASE Same
    BY <1>0, <2>1, <2>3, LogKept
  <2> QED BY <1>4, <2>2, <2>3 DEF CleanupDB, log
<1>5. CASE Handlers \/ \E opens \in BOOLEAN : TruncateConfig(opens) \/ WriteConfig(opens)
  <2>1. Same
    BY <1>5 DEF Handlers, TruncateConfig, WriteConfig, files, log
  <2>2. <<"connection", "log", "write">> \notin {<< >>, <<"connection">>}
    OBVIOUS
  <2>3. exits' \notin {<< >>, <<"connection">>}
    BY <1>5, <2>2, ExitsStep DEF Handlers, TruncateConfig, WriteConfig, Exit, SessionOK
  <2> QED BY <1>0, <2>1, <2>3, LogKept
<1>6. CASE Abort
  <2>1. Same /\ ended' = "abort"
    BY <1>6 DEF Abort, files, log
  <2> QED BY <1>0, <2>1, LogKept
<1>7. CASE Store \/ \E s \in Settings : Modify(s)
  <2>1. Same /\ exits' = exits /\ ended' = ended
    BY <1>7 DEF Store, Modify, files, log
  <2> QED BY <1>0, <2>1, LogKept
<1>8. CASE UNCHANGED vars
  <2>1. Same /\ exits' = exits /\ ended' = ended
    BY <1>8 DEF vars
  <2> QED BY <1>0, <2>1, LogKept
<1> QED BY <1>1, <1>2, <1>3, <1>4, <1>5, <1>6, <1>7, <1>8 DEF Next
-----------------------------------------------------------------------------
(* Every step keeps the types of the rows.                                 *)
LEMMA RowTypes ==
  ASSUME TypeOK, SessionOK, DataOK, [Next]_vars
  PROVE  /\ Clientfile' \subseteq Rows /\ Memory' \subseteq Rows
         /\ rows' \subseteq Rows /\ unsaved' \subseteq Rows
         /\ DBConnection' \in {"none", "disk", "memory"}
<1> DEFINE Types == /\ Clientfile' \subseteq Rows /\ Memory' \subseteq Rows
                    /\ rows' \subseteq Rows /\ unsaved' \subseteq Rows
                    /\ DBConnection' \in {"none", "disk", "memory"}
<1>0. /\ Clientfile \subseteq Rows /\ Memory \subseteq Rows /\ rows \subseteq Rows /\ unsaved \subseteq Rows
      /\ DBConnection \in {"none", "disk", "memory"}
  BY DEF TypeOK
<1>1. ASSUME NEW readable, NEW answers, NEW randID, NEW onDisk, DllMain(readable, answers, randID, onDisk) PROVE Types
  BY <1>0, <1>1 DEF DllMain, Open
<1>2. CASE Store
  <2> DEFINE row == <<session, Cardinality(rows) + 1>>
  <2>1. /\ rows' = rows \union {row} /\ Cardinality(rows) < MaxRows /\ running
        /\ Clientfile' \in {Clientfile, Clientfile \union {row}} /\ Memory' \in {Memory, Memory \union {row}}
        /\ UNCHANGED <<DBConnection, unsaved>>
    BY <1>2 DEF Store
  <2>2. session \in 0 .. MaxSessions /\ session \in Nat /\ MaxSessions \in Nat /\ MaxRows \in Nat
    BY SessionTypes, Constants, Zenon
  <2>3. Cardinality(rows) \in Nat
    BY FS_CardinalityType DEF DataOK
  <2>4. session > 0
    BY <2>1 DEF SessionOK
  <2>5. session \in 1 .. MaxSessions /\ Cardinality(rows) + 1 \in 1 .. MaxRows
    BY <2>1, <2>2, <2>3, <2>4
  <2>6. row \in Rows
    BY <2>5 DEF Rows
  <2> HIDE DEF row
  <2> QED BY <1>0, <2>1, <2>6
<1>3. ASSUME NEW opens, NEW saves, Infoprint(opens) \/ FlushLog(opens) \/ CleanupDB(opens, saves) PROVE Types
  BY <1>0, <1>3 DEF Infoprint, FlushLog, CleanupDB, data
<1>4. CASE Abort
  BY <1>0, <1>4 DEF Abort, files
<1>5. CASE Handlers \/ (\E s \in Settings : Modify(s))
          \/ \E opens \in BOOLEAN : TruncateConfig(opens) \/ WriteConfig(opens)
  BY <1>0, <1>5 DEF Handlers, TruncateConfig, WriteConfig, Modify, files, data
<1>6. CASE UNCHANGED vars
  BY <1>0, <1>6 DEF vars
<1> QED BY <1>1, <1>2, <1>3, <1>4, <1>5, <1>6 DEF Next

(* Every step keeps the types of the session, the seed and the key.        *)
LEMMA SessionTypesStep ==
  ASSUME TypeOK, [Next]_vars
  PROVE  /\ running' \in BOOLEAN /\ session' \in 0 .. MaxSessions /\ ended' \in {"", "exit", "abort"}
         /\ Cryptoseed' \in 0 .. MaxSessions /\ Publickey' \in Keys
<1> DEFINE Types == /\ running' \in BOOLEAN /\ session' \in 0 .. MaxSessions /\ ended' \in {"", "exit", "abort"}
                    /\ Cryptoseed' \in 0 .. MaxSessions /\ Publickey' \in Keys
<1>0. /\ running \in BOOLEAN /\ session \in 0 .. MaxSessions /\ ended \in {"", "exit", "abort"}
      /\ Cryptoseed \in 0 .. MaxSessions /\ Publickey \in Keys
  BY Zenon DEF TypeOK
<1>1. ASSUME NEW readable, NEW answers \in SUBSET ToSet(Hardware), NEW randID \in BOOLEAN, NEW onDisk,
             DllMain(readable, answers, randID, onDisk)
      PROVE  Types
  <2>1. session' = session + 1 /\ session + 1 \in 0 .. MaxSessions
    BY <1>1, NewSession, Zenon
  <2>2. running' = TRUE /\ ended' = ""
    BY <1>1 DEF DllMain
  <2>3. Load(readable, answers, randID) /\ session + 1 \in 1 .. MaxSessions
    BY <1>1, NewSession, Zenon DEF DllMain
  <2>4. Publickey' \in Keys /\ Cryptoseed' \in 0 .. MaxSessions
    BY <2>3, LoadIdentity DEF Identifies
  <2> QED BY <2>1, <2>2, <2>4
<1>2. ASSUME NEW opens, NEW saves, Infoprint(opens) \/ FlushLog(opens) \/ CleanupDB(opens, saves) PROVE Types
  BY <1>0, <1>2 DEF Infoprint, FlushLog, CleanupDB
<1>3. CASE Store \/ Handlers \/ Abort \/ (\E s \in Settings : Modify(s))
          \/ \E opens \in BOOLEAN : TruncateConfig(opens) \/ WriteConfig(opens)
  BY <1>0, <1>3 DEF Store, Handlers, Abort, TruncateConfig, WriteConfig, Modify, files
<1>4. CASE UNCHANGED vars
  BY <1>0, <1>4 DEF vars
<1> QED BY <1>1, <1>2, <1>3, <1>4 DEF Next

(* The lists of exit handlers are sequences of their names.                *)
LEMMA ExitsType ==
  Exits \subseteq Seq({"connection", "log", "config", "write", "handlers"})
BY DEF Exits

AppInv == TypeOK /\ SessionOK /\ SettingsOK /\ IdentityOK /\ DataOK /\ LogOK

(* Every step keeps the type invariant.                                    *)
LEMMA TypeStep == ASSUME AppInv, [Next]_vars PROVE TypeOK'
<1> USE DEF AppInv
<1>1. /\ Logfile' \in Seq(Nat) /\ Pendingwrite' \in Seq(Nat) /\ messages' \in Nat
      /\ missed' \union late' \subseteq 1 .. messages' /\ LogOK'
  BY LogStep
<1>2. Pendingcount' \in 0 .. Batch - 1
  BY <1>1, Constants DEF LogOK
<1>3. exits' \in Seq({"connection", "log", "config", "write", "handlers"})
  BY SessionStep, ExitsType DEF SessionOK
<1>4. \A S \in {Clientfile', Memory', rows', unsaved'} : S \subseteq Rows
  BY RowTypes
<1>5. DBConnection' \in {"none", "disk", "memory"}
  BY RowTypes
<1> HIDE DEF AppInv
<1>6. /\ Configfile' \in Settings \union {Empty} /\ {Configuration', settled'} \subseteq Settings
      /\ modifiedConfig' \in BOOLEAN /\ spoilt' \in BOOLEAN
  BY ConfigStep DEF AppInv
<1> QED BY <1>1, <1>2, <1>3, <1>4, <1>5, <1>6, SessionTypesStep, Zenon DEF TypeOK, AppInv

(* Whatever is true of a session stays true through crashes, exits and     *)
(* files that cannot be opened (Appmain.cpp:70-126).                       *)
THEOREM Invariance == Spec => []AppInv
<1>1. Init => AppInv
  <2> SUFFICES ASSUME Init PROVE AppInv
    OBVIOUS
  <2>0. /\ Logfile = << >> /\ Pendingwrite = << >> /\ Pendingcount = 0 /\ messages = 0 /\ missed = {} /\ late = {}
        /\ running = FALSE /\ exits = << >> /\ session = 0 /\ ended = "" /\ identities = << >>
        /\ DBConnection = "none" /\ Memory = {} /\ rows = {} /\ unsaved = {} /\ Clientfile = {}
        /\ Configfile = Empty /\ Configuration = Default /\ settled = Default /\ modifiedConfig = FALSE
        /\ spoilt = FALSE
        /\ Cryptoseed = 0 /\ Publickey = [by |-> "random", made |-> 0]
    BY DEF Init
  <2> HIDE DEF Init
  <2>1. TypeOK
    <3>1. << >> \in Seq(Nat) /\ << >> \in Seq({"connection", "log", "config", "write", "handlers"})
      OBVIOUS
    <3>2. 0 \in 0 .. Batch - 1 /\ 0 \in 0 .. MaxSessions /\ 0 \in Nat
      BY Constants
    <3>3. Publickey \in Keys
      BY <2>0, <3>2 DEF Keys
    <3>4. /\ Configfile \in Settings \union {Empty} /\ {Configuration, settled} \subseteq Settings
          /\ modifiedConfig \in BOOLEAN /\ spoilt \in BOOLEAN
      BY <2>0, Constants
    <3>5. \A S \in {Clientfile, Memory, rows, unsaved} : S \subseteq Rows
      BY <2>0
    <3>6. missed \union late \subseteq 1 .. messages
      BY <2>0
    <3>7. running \in BOOLEAN /\ DBConnection \in {"none", "disk", "memory"} /\ ended \in {"", "exit", "abort"}
      BY <2>0
    <3> QED BY <2>0, <3>1, <3>2, <3>3, <3>4, <3>5, <3>6, <3>7, Zenon DEF TypeOK
  <2>2. SessionOK
    <3>1. << >> \in Exits
      BY DEF Exits
    <3> QED BY <2>0, <3>1, Zenon DEF SessionOK
  <2>3. SettingsOK
    <3>1. Configfile = Empty /\ settled = Default /\ exits = << >>
      BY <2>0, Zenon
    <3> QED BY <3>1 DEF SettingsOK, SettingsSurvive, Effective
  <2>4. IdentityOK
    <3>1. identities = << >>
      BY <2>0, Zenon
    <3> QED BY <3>1 DEF IdentityOK, IdentityIsStable
  <2>5. DataOK
    <3>1. rows = {} /\ DBConnection = "none"
      BY <2>0, Zenon
    <3>2. IsFiniteSet({}) /\ Cardinality({}) <= MaxRows
      BY FS_EmptySet, Constants
    <3> QED BY <3>1, <3>2 DEF DataOK
  <2>6. LogOK
    <3>1. Logfile \o Pendingwrite = << >> /\ Len(Pendingwrite) = 0 /\ 0 < Batch
      <4>1. Logfile = << >> /\ Pendingwrite = << >>
        BY <2>0, Zenon
      <4> QED BY <4>1, Constants
    <3>2. ToSet(<< >>) = {} /\ Increasing(<< >>)
      BY DEF ToSet, Increasing
    <3>3. 1 .. messages = {}
      <4>1. messages = 0
        BY <2>0, Zenon
      <4> QED BY <4>1
    <3>4. missed = {} /\ Pendingwrite = << >> /\ Pendingcount = 0
      BY <2>0, Zenon
    <3> QED BY <3>1, <3>2, <3>3, <3>4 DEF LogOK
  <2> QED BY <2>1, <2>2, <2>3, <2>4, <2>5, <2>6 DEF AppInv
<1>2. AppInv /\ [Next]_vars => AppInv'
  BY TypeStep, SessionStep, ConfigStep, IdentityStep, DataStep, LogStep DEF AppInv
<1> QED BY <1>1, <1>2, PTL DEF Spec

(* Every variable has its type (Appmain.cpp:70-126).                       *)
THEOREM TypeCorrect == Spec => []TypeOK
<1>1. AppInv => TypeOK
  BY DEF AppInv
<1> QED BY <1>1, Invariance, PTL

(* The log misses only what could not be written and, after a crash, the   *)
(* end of a batch (Logging.cpp:46-91), for batches of up to 100 messages.  *)
THEOREM LogStaysComplete == Spec => []LogIsComplete
<1>1. AppInv => LogIsComplete
  <2> SUFFICES ASSUME AppInv PROVE LogIsComplete
    OBVIOUS
  <2>1. (Logfile \o Pendingwrite) \in Seq(Nat)
    BY LogTypes, ConcatParts DEF AppInv
  <2>2. IsInjective(Logfile \o Pendingwrite)
    <3> DEFINE s == Logfile \o Pendingwrite
    <3>1. \A i \in DOMAIN s : s[i] \in Nat /\ i \in Nat
      BY <2>1
    <3>2. \A i, j \in DOMAIN s : i < j => s[i] < s[j]
      BY DEF AppInv, LogOK, Increasing
    <3> HIDE DEF s
    <3>3. \A i, j \in DOMAIN s : s[i] = s[j] => i = j
      BY <3>1, <3>2
    <3> QED BY <3>3 DEF IsInjective, s
  <2>3. ended = "exit" => ToSet(Pendingwrite) \subseteq late
    <3>1. ended = "exit" => exits = << >>
      BY DEF AppInv, SessionOK
    <3> QED BY <3>1 DEF AppInv, LogOK
  <2> QED BY <2>2, <2>3 DEF LogIsComplete, AppInv, LogOK, Increasing
<1> QED BY <1>1, Invariance, PTL

(* The settings last saved stay, but for a file that is overwritten unread *)
(* or a save that is not completed (Configuration.cpp:14-59).              *)
THEOREM SettingsAreSafe == Spec => []SettingsSurvive
<1>1. AppInv => SettingsSurvive
  BY DEF AppInv, SettingsOK
<1> QED BY <1>1, Invariance, PTL

(* One computer, one identity, unless it is by a seed that was not stored  *)
(* or not read (Configuration.cpp:80-152).                                 *)
THEOREM OneIdentity == Spec => []IdentityIsStable
<1>1. AppInv => IdentityIsStable
  BY DEF AppInv, IdentityOK
<1> QED BY <1>1, Invariance, PTL

(* Rows outlive their session (Database.cpp:133-194).                      *)
THEOREM RowsAreSafe == Spec => RowsSurvive
<1>1. AppInv /\ [Next]_vars =>
        [/\ (ended' # ended /\ ended' # "" => rows \ unsaved' \subseteq Clientfile')
         /\ (Clientfile \subseteq Clientfile' \/ (DBConnection = "memory" /\ Clientfile' = rows))]_vars
  BY RowsStep DEF AppInv
<1> QED BY <1>1, Invariance, PTL DEF Spec, RowsSurvive
=============================================================================
