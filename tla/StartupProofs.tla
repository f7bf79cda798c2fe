--------------------------- MODULE StartupProofs ---------------------------
(***************************************************************************)
(* Proofs about Startup: the settings keep their types and limits over     *)
(* every edit of the file and every option, and the sessions keep theirs   *)
(* over every crash, restart and change of the database file, for every    *)
(* number of handlers, browsers, seconds, crashes, edits and options.      *)
(***************************************************************************)
EXTENDS Startup, TLAPS

-----------------------------------------------------------------------------
(* Settings.                                                               *)

ReadNames == {"builtin", "given", "long", "cut", "empty", Absent}

(* A setting has its type, a number of a limited setting is in its limits; *)
(* and so a file only has names and flags the loader makes such values of. *)
SettingsOf(c) ==
  /\ DOMAIN c = C!Settings
  /\ \A s \in C!Flags : c[s] \in {0, 1}
  /\ \A s \in C!Numbers : c[s] \in Int
  /\ \A s \in C!Names : c[s] \in DbNames \cup {"empty"}
  /\ C!Between(c["PORT"], 1024, 65535)
  /\ C!Between(c["LOGIN_EXPIRATION"], 1800, 172800)
  /\ C!Between(c["MAX_REQ_BUF_SIZE"], 1024, 172800)

FileOf(f) ==
  /\ DOMAIN f = C!Keys
  /\ \A k \in C!Flags : f[k] \in {0, 1, Text, Absent}
  /\ \A k \in C!Numbers : f[k] \in Int \cup {Text, Absent}
  /\ \A k \in C!Names \cup {"DB_PATH", "LOG_PATH"} : f[k] \in ReadNames

SettingsInv ==
  /\ phase \in {"down", "arguments", "serving"}
  /\ SettingsOf(conf)
  /\ args \in 0..MaxArgs /\ edits \in 0..MaxEdits
  /\ phase = "down" => conf = C!Builtin /\ args = 0
  /\ dirs \subseteq C!Modes
  /\ DOMAIN file = C!Modes
  /\ \A m \in C!Modes : file[m] # Absent => FileOf(file[m]) /\ m \in dirs

LEMMA Limits ==
  ASSUME NEW n \in Int
  PROVE  /\ C!FileAccepts("PORT", n) => C!Between(n, 1024, 65535)
         /\ C!FileAccepts("LOGIN_EXPIRATION", n) => C!Between(n, 1800, 172800)
         /\ C!FileAccepts("MAX_REQ_BUF_SIZE", n) => C!Between(n, 1024, 172800)
         /\ C!ArgumentAccepts("PORT", n) => C!Between(n, 1024, 65535)
         /\ C!ArgumentAccepts("LOGIN_EXPIRATION", n) => C!Between(n, 1800, 172800)
         /\ C!ArgumentAccepts("MAX_REQ_BUF_SIZE", n) => C!Between(n, 1024, 172800)
  BY DEF C!FileAccepts, C!ArgumentAccepts, C!Between

LEMMA SettingNames ==
  /\ C!Settings = C!Flags \cup C!Numbers \cup C!Names
  /\ C!Flags \cap C!Numbers = {} /\ C!Flags \cap C!Names = {} /\ C!Numbers \cap C!Names = {}
  /\ C!Settings \subseteq C!Keys
  /\ {"PORT", "LOGIN_EXPIRATION", "MAX_REQ_BUF_SIZE"} \subseteq C!Numbers
  /\ {"DEV_MODE", "DEBUG_MODE", "LOG_MODE"} = C!Flags
  /\ {"DB_PATH", "LOG_PATH"} \cap C!Settings = {}
  /\ {"SERVERS_PATH", "DB_NAME", "LOG_FILE"} = C!Names
  /\ C!Keys = C!Settings \cup {"DB_PATH", "LOG_PATH"}
  BY DEF C!Settings, C!Flags, C!Numbers, C!Names, C!Keys

LEMMA BuiltinType ==
  SettingsOf(C!Builtin)
<1>1. DOMAIN C!Builtin = C!Settings
  BY DEF C!Builtin, C!Settings, C!Flags, C!Numbers, C!Names
<1>2. \A s \in C!Flags : C!Builtin[s] \in {0, 1}
  BY DEF C!Builtin, C!Flags
<1>3. \A s \in C!Numbers : C!Builtin[s] \in Int
  BY DEF C!Builtin, C!Numbers
<1>4. \A s \in C!Names : C!Builtin[s] \in DbNames \cup {"empty"}
  BY DEF C!Builtin, C!Names, DbNames
<1> QED
  BY <1>1, <1>2, <1>3, <1>4 DEF SettingsOf, C!Builtin, C!Between

(* What the loader makes of a file that does not make it throw.            *)
LEMMA ReadType ==
  ASSUME NEW c, SettingsOf(c), NEW f, FileOf(f), ~C!Throws(f)
  PROVE  SettingsOf(C!Read(c, f))
<1> DEFINE r == C!Read(c, f)
<1>1. DOMAIN r = C!Settings
  BY DEF C!Read
<1>2. ASSUME NEW s \in C!Flags PROVE r[s] \in {0, 1}
  <2>1. s \in C!Settings /\ s \notin C!Numbers /\ s \notin C!Names
    BY SettingNames
  <2>2. f[s] # Text
    BY <1>2 DEF C!Throws
  <2>3. r[s] = IF f[s] # Absent THEN f[s] ELSE c[s]
    BY <2>1, SettingNames DEF C!Read
  <2> QED
    BY <2>2, <2>3 DEF FileOf, SettingsOf
<1>3. ASSUME NEW s \in C!Numbers
      PROVE  r[s] \in Int /\ (r[s] = c[s] \/ C!FileAccepts(s, r[s]))
  <2>1. s \in C!Settings /\ s \notin C!Flags /\ s \notin C!Names
    BY SettingNames
  <2>2. f[s] # Text /\ f[s] \in Int \cup {Text, Absent} /\ c[s] \in Int
    BY <1>3 DEF C!Throws, FileOf, SettingsOf
  <2>3. r[s] = IF f[s] # Absent THEN (IF C!FileAccepts(s, f[s]) THEN f[s] ELSE c[s]) ELSE c[s]
    BY <2>1, SettingNames DEF C!Read
  <2> HIDE DEF r
  <2> QED
    BY <2>2, <2>3
<1>4. ASSUME NEW s \in C!Names PROVE r[s] \in DbNames \cup {"empty"}
  <2>1. \A n \in ReadNames : n # Absent => C!SetPath(n) \in DbNames \cup {"empty"}
    BY DEF ReadNames, C!SetPath, DbNames
  <2>2. f[s] \in ReadNames /\ f["LOG_PATH"] \in ReadNames /\ c[s] \in DbNames \cup {"empty"}
    BY <1>4 DEF FileOf, SettingsOf
  <2>3. r[s] \in {c[s], "empty"} \/ (f[s] # Absent /\ r[s] = C!SetPath(f[s]))
        \/ (f["LOG_PATH"] # Absent /\ r[s] = C!SetPath(f["LOG_PATH"]))
    BY <1>4, SettingNames DEF C!Read
  <2> QED
    BY <2>1, <2>2, <2>3
<1>5. /\ C!Between(r["PORT"], 1024, 65535)
      /\ C!Between(r["LOGIN_EXPIRATION"], 1800, 172800)
      /\ C!Between(r["MAX_REQ_BUF_SIZE"], 1024, 172800)
  <2> HIDE DEF r
  <2> QED
    BY <1>3, Limits, SettingNames DEF SettingsOf
<1>6. SettingsOf(r)
  <2> HIDE DEF r
  <2> QED
    BY <1>1, <1>2, <1>3, <1>4, <1>5 DEF SettingsOf
<1> QED
  BY <1>6

LEMMA WrittenType ==
  ASSUME NEW c, SettingsOf(c)
  PROVE  FileOf(C!Written(c))
<1> DEFINE w == C!Written(c)
<1>1. DOMAIN w = C!Keys /\ \A k \in C!Keys : w[k] = IF k \in C!Settings THEN c[k] ELSE Absent
  BY DEF C!Written
<1> HIDE DEF w
<1>2. \A k \in C!Settings : w[k] = c[k]
  BY <1>1, SettingNames
<1>3. w["DB_PATH"] = Absent /\ w["LOG_PATH"] = Absent
  BY <1>1, SettingNames
<1>4. \A k \in C!Flags : w[k] \in {0, 1}
  BY <1>2, SettingNames DEF SettingsOf
<1>5. \A k \in C!Numbers : w[k] \in Int
  BY <1>2, SettingNames DEF SettingsOf
<1>6. \A k \in C!Names : w[k] \in ReadNames
  BY <1>2, SettingNames DEF SettingsOf, ReadNames, DbNames
<1>7. FileOf(w)
  BY <1>1, <1>3, <1>4, <1>5, <1>6 DEF FileOf, ReadNames
<1> QED
  BY <1>7 DEF w

(* A line a person may write.                                              *)
LEMMA EditType ==
  ASSUME NEW f, FileOf(f), NEW k \in FileKeys, NEW v \in C!Values(k)
  PROVE  FileOf([f EXCEPT ![k] = v])
<1>1. FileKeys \subseteq C!Keys
  BY StartupAssumption DEF C!ConfigAssumption
<1>2. k \in C!Flags => v \in {0, 1, Text}
  BY DEF C!Values, C!Flags
<1>3. k \in C!Numbers => v \in Int \cup {Text}
  BY SettingNames DEF C!Values, C!Numbers
<1>4. k \in C!Names \cup {"DB_PATH", "LOG_PATH"} => v \in {"given", "long"}
  BY DEF C!Values, C!Flags, C!Names
<1> DEFINE g == [f EXCEPT ![k] = v]
<1>5. DOMAIN g = C!Keys /\ k \in C!Keys /\ g[k] = v /\ \A j \in C!Keys : j # k => g[j] = f[j]
  BY <1>1 DEF FileOf
<1> HIDE DEF g
<1>6. \A j \in C!Flags : g[j] \in {0, 1, Text, Absent}
  BY <1>2, <1>5, SettingNames DEF FileOf
<1>7. \A j \in C!Numbers : g[j] \in Int \cup {Text, Absent}
  BY <1>3, <1>5, SettingNames DEF FileOf
<1>8. \A j \in C!Names \cup {"DB_PATH", "LOG_PATH"} : g[j] \in ReadNames
  BY <1>4, <1>5, SettingNames DEF FileOf, ReadNames
<1>9. FileOf(g)
  BY <1>5, <1>6, <1>7, <1>8 DEF FileOf
<1> QED
  BY <1>9 DEF g

(* An option leaves settings of their types, in their limits.              *)
LEMMA ArgumentType ==
  ASSUME NEW s \in C!Settings, NEW v, NEW c, SettingsOf(c),
         s \in C!Flags => v \in {0, 1},
         s \in C!Numbers => v \in Int /\ C!ArgumentAccepts(s, v),
         s \in C!Names => v \in DbNames \cup {"empty"}
  PROVE  SettingsOf([c EXCEPT ![s] = v])
<1> DEFINE d == [c EXCEPT ![s] = v]
<1>1. DOMAIN d = C!Settings /\ d[s] = v /\ \A j \in C!Settings : j # s => d[j] = c[j]
  BY DEF SettingsOf
<1> HIDE DEF d
<1>2. \A j \in C!Flags : d[j] \in {0, 1}
  BY <1>1, SettingNames DEF SettingsOf
<1>3. \A j \in C!Numbers : d[j] \in Int
  BY <1>1, SettingNames DEF SettingsOf
<1>4. \A j \in C!Names : d[j] \in DbNames \cup {"empty"}
  BY <1>1, SettingNames DEF SettingsOf
<1>5. /\ C!Between(d["PORT"], 1024, 65535)
      /\ C!Between(d["LOGIN_EXPIRATION"], 1800, 172800)
      /\ C!Between(d["MAX_REQ_BUF_SIZE"], 1024, 172800)
  BY <1>1, Limits, SettingNames DEF SettingsOf
<1>6. SettingsOf(d)
  BY <1>1, <1>2, <1>3, <1>4, <1>5 DEF SettingsOf
<1> QED
  BY <1>6 DEF d

LEMMA SettingsInvType ==
  SettingsInv => C!TypeOK
  BY DEF SettingsInv, SettingsOf, FileOf, C!TypeOK, DbNames

LEMMA Bounds == MaxArgs \in Nat /\ MaxEdits \in Nat
  BY StartupAssumption DEF C!ConfigAssumption

LEMMA SettingsInvInit ==
  C!Init => SettingsInv
<1> SUFFICES ASSUME C!Init PROVE SettingsInv
  OBVIOUS
<1>1. phase = "down" /\ conf = C!Builtin /\ args = 0 /\ edits = 0 /\ dirs = {}
      /\ file = [m \in C!Modes |-> Absent]
  BY DEF C!Init
<1> QED
  BY <1>1, Bounds, BuiltinType DEF SettingsInv

(* Whatever ends the process takes the settings back to the built-in ones. *)
LEMMA DownKeeps ==
  ASSUME SettingsInv, C!Down, UNCHANGED <<file, dirs, edits>>
  PROVE  SettingsInv'
<1>1. phase' = "down" /\ conf' = C!Builtin /\ args' = 0
  BY DEF C!Down
<1>2. SettingsOf(conf')
  BY <1>1, BuiltinType
<1> QED
  BY <1>1, <1>2, Bounds DEF SettingsInv, SettingsOf

LEMMA LoadKeeps ==
  ASSUME SettingsInv, C!Load
  PROVE  SettingsInv'
<1> DEFINE m == C!Mode(conf)
<1>1. m \in C!Modes
  BY DEF C!Mode, C!Modes
<1>2. dirs' = dirs \cup {m} /\ UNCHANGED <<args, edits>>
  BY DEF C!Load
<1>3. CASE file[m] = Absent
  <2>1. file' = [file EXCEPT ![m] = C!Written(conf)] /\ phase' = "arguments" /\ conf' = conf
    BY <1>3 DEF C!Load
  <2>2. FileOf(C!Written(conf))
    BY WrittenType DEF SettingsInv
  <2>3. DOMAIN file' = C!Modes
    BY <2>1 DEF SettingsInv
  <2>4. ASSUME NEW n \in C!Modes, file'[n] # Absent PROVE FileOf(file'[n]) /\ n \in dirs'
    <3>1. n = m => file'[n] = C!Written(conf)
      BY <1>1, <2>1 DEF SettingsInv
    <3>2. n # m => file'[n] = file[n]
      BY <2>1 DEF SettingsInv
    <3> QED
      BY <1>2, <2>2, <2>4, <3>1, <3>2 DEF SettingsInv
  <2>5. SettingsOf(conf')
    BY <2>1 DEF SettingsInv
  <2> HIDE DEF m
  <2> QED
    BY <1>1, <1>2, <2>1, <2>3, <2>4, <2>5 DEF SettingsInv
<1>4. CASE file[m] # Absent
  <2>1. file' = file
        /\ \/ phase' = phase /\ conf' = conf
           \/ ~C!Throws(file[m]) /\ phase' = "arguments" /\ conf' = C!Read(conf, file[m])
    BY <1>4 DEF C!Load
  <2>2. SettingsOf(conf')
    BY <1>1, <1>4, <2>1, ReadType DEF SettingsInv
  <2> HIDE DEF m
  <2> QED
    BY <1>1, <1>2, <2>1, <2>2 DEF SettingsInv
<1> QED
  BY <1>3, <1>4

LEMMA ArgumentKeeps ==
  ASSUME SettingsInv, NEW o \in Options, C!Argument(o)
  PROVE  SettingsInv'
<1>1. CASE o.name = "-help"
  BY <1>1, DownKeeps DEF C!Argument
<1>2. CASE o.name # "-help"
  <2>1. /\ args < MaxArgs /\ args' = args + 1 /\ phase = "arguments" /\ phase' = phase
        /\ UNCHANGED <<file, dirs, edits>>
    BY <1>2 DEF C!Argument
  <2>2. args' \in 0..MaxArgs
    BY <2>1, Bounds DEF SettingsInv
  <2>3. SettingsOf(conf)
    BY DEF SettingsInv
  <2>4. SettingsOf(conf')
    <3>1. CASE o.name \in C!Numbers
      <4>1. conf' = IF C!ArgumentAccepts(o.name, o.value) THEN [conf EXCEPT ![o.name] = o.value] ELSE conf
        BY <1>2, <3>1 DEF C!Argument, C!Numbers, C!Names
      <4>2. o.value \in Int
        BY <3>1, StartupAssumption DEF C!ConfigAssumption
      <4> QED
        BY <2>3, <3>1, <4>1, <4>2, SettingNames, ArgumentType
    <3>2. CASE o.name \in C!Names
      <4>1. conf' = [conf EXCEPT ![o.name] = C!SetPath(o.value)]
        BY <1>2, <3>2 DEF C!Argument, C!Numbers, C!Names
      <4>2. C!SetPath(o.value) \in DbNames
        BY <3>2, StartupAssumption DEF C!ConfigAssumption, C!SetPath, DbNames
      <4> QED
        BY <2>3, <3>2, <4>1, <4>2, SettingNames, ArgumentType
    <3>3. CASE o.name \notin C!Numbers \cup C!Names
      <4>1. \/ conf' = conf
            \/ \E s \in C!Flags : conf' = [conf EXCEPT ![s] = 0] \/ conf' = [conf EXCEPT ![s] = 1]
        <5>1. CASE o.name = "-prod"
          BY <1>2, <3>3, <5>1, SettingNames DEF C!Argument
        <5>2. CASE o.name = "-nodebug"
          BY <1>2, <3>3, <5>2, SettingNames DEF C!Argument
        <5>3. CASE o.name = "-logfile"
          BY <1>2, <3>3, <5>3, SettingNames DEF C!Argument
        <5>4. CASE o.name \notin {"-prod", "-nodebug", "-logfile"}
          BY <1>2, <3>3, <5>4 DEF C!Argument
        <5> QED
          BY <5>1, <5>2, <5>3, <5>4
      <4> QED
        BY <2>3, <4>1, SettingNames, ArgumentType
    <3> QED
      BY <3>1, <3>2, <3>3
  <2> QED
    BY <2>1, <2>2, <2>4 DEF SettingsInv
<1> QED
  BY <1>1, <1>2

LEMMA EditKeeps ==
  ASSUME SettingsInv, NEW m \in C!Modes, NEW k \in FileKeys, NEW v \in C!Values(k), C!Edit(m, k, v)
  PROVE  SettingsInv'
<1>1. /\ file[m] # Absent /\ edits < MaxEdits /\ edits' = edits + 1
      /\ file' = [file EXCEPT ![m] = [file[m] EXCEPT ![k] = v]]
      /\ UNCHANGED <<phase, conf, args, dirs>>
  BY DEF C!Edit
<1>2. FileOf([file[m] EXCEPT ![k] = v])
  BY <1>1, EditType DEF SettingsInv
<1>3. edits' \in 0..MaxEdits
  BY <1>1, Bounds DEF SettingsInv
<1>4. DOMAIN file' = C!Modes
  BY <1>1 DEF SettingsInv
<1>5. ASSUME NEW n \in C!Modes, file'[n] # Absent PROVE FileOf(file'[n]) /\ n \in dirs'
  <2>1. n = m => file'[n] = [file[m] EXCEPT ![k] = v]
    BY <1>1 DEF SettingsInv
  <2>2. n # m => file'[n] = file[n]
    BY <1>1 DEF SettingsInv
  <2> QED
    BY <1>1, <1>2, <1>5, <2>1, <2>2 DEF SettingsInv
<1> QED
  BY <1>1, <1>3, <1>4, <1>5 DEF SettingsInv

LEMMA OpenKeeps ==
  ASSUME SettingsInv, C!OpenDatabase
  PROVE  SettingsInv' /\ (phase' = "serving" => conf' = conf /\ conf.DB_NAME \in DbNames)
<1>1. CASE C!Mode(conf) \in dirs /\ conf.DB_NAME # "empty"
  <2>1. phase' = "serving" /\ UNCHANGED <<conf, args, file, dirs, edits>>
    BY <1>1 DEF C!OpenDatabase
  <2>2. conf.DB_NAME \in DbNames
    BY <1>1, SettingNames DEF SettingsInv, SettingsOf
  <2> QED
    BY <2>1, <2>2 DEF SettingsInv
<1>2. CASE ~(C!Mode(conf) \in dirs /\ conf.DB_NAME # "empty")
  <2>1. C!Down /\ UNCHANGED <<file, dirs, edits>>
    BY <1>2 DEF C!OpenDatabase
  <2> QED
    BY <2>1, DownKeeps DEF C!Down
<1> QED
  BY <1>1, <1>2

-----------------------------------------------------------------------------
(* Sessions.                                                               *)

(* The file opened last is the one its settings name; what is kept of the  *)
(* others has the type of a file.                                          *)
FilesInv ==
  /\ opened \in DbNames /\ home \in [Browsers -> DbNames]
  /\ disk \in [DbNames -> [schema : BOOLEAN, admin : BOOLEAN, tokens : SUBSET Instants]]
  /\ disk[opened] = NewFile
  /\ main # "down" => phase = "serving" /\ opened = conf.DB_NAME

(* Handlers run in a process that is ready.  A row that is being inserted  *)
(* is not there yet and has the lock; one that was inserted and not yet    *)
(* answered with is known to its handler alone.                            *)
PendingInv ==
  /\ \A h \in Handlers : at[h] # "idle" => main = "ready" /\ client[h] \in Browsers
  /\ \A h \in Handlers : at[h] = "inserted" => writer = h /\ second[h] \notin tokens
  /\ \A h \in Handlers : at[h] = "reply" => second[h] \in tokens
  /\ \A h, g \in Handlers :
       at[h] = "reply" /\ at[g] = "reply" /\ second[h] = second[g] => h = g
  /\ \A h \in Handlers, b \in Browsers :
       at[h] = "reply" /\ cookie[b] = second[h] => home[b] # opened

SessionInv ==
  /\ TypeOK /\ FilesInv /\ PendingInv
  /\ CookieIsDurable /\ SessionsAreDistinct

Untils == {0} \cup {t + CookieAge : t \in Instants}

LEMMA TimeType ==
  /\ None \notin Instants /\ None \notin Browsers /\ None \notin Handlers
  /\ 0 \in Instants /\ Instants \subseteq Nat
  BY AccountsAssumption

LEMMA SessionInvInit ==
  StartupInit => SessionInv
<1> SUFFICES ASSUME StartupInit PROVE SessionInv
  OBVIOUS
<1>1. Init /\ opened = "builtin" /\ disk = [n \in DbNames |-> NewFile]
      /\ home = [b \in Browsers |-> "builtin"]
  BY DEF StartupInit
<1>2. TypeOK
  <2>1. 0 \in 0..MaxCrashes /\ 0 \in Untils
    BY AccountsAssumption DEF Untils
  <2>2. until \in [Browsers -> Untils]
    BY <1>1, <2>1 DEF Init
  <2> QED
    BY <1>1, <2>1, <2>2, TimeType DEF Init, TypeOK, Untils
<1>3. FilesInv
  BY <1>1 DEF FilesInv, NewFile, DbNames, Init
<1> QED
  BY <1>1, <1>2, <1>3 DEF SessionInv, PendingInv, CookieIsDurable, SessionsAreDistinct, Init

(* A step of one handler that neither inserts nor answers with a token.    *)
LEMMA QuietStep ==
  ASSUME SessionInv, NEW h \in Handlers,
         NEW to \in {"idle", "credentials", "stamp", "insert", "lookup", "check", "granted", "refused"},
         NEW b \in Browsers \cup {None}, NEW t \in Instants,
         at[h] \notin {"inserted", "reply"},
         to # "idle" => main = "ready" /\ b \in Browsers,
         at' = [at EXCEPT ![h] = to], client' = [client EXCEPT ![h] = b],
         second' = [second EXCEPT ![h] = t],
         UNCHANGED <<fileVars, now, mainVars, browserVars, settingVars, opened, disk, home>>
  PROVE  SessionInv'
<1> USE DEF fileVars, mainVars, browserVars, settingVars
<1>1. TypeOK' /\ \A g \in Handlers \ {h} : at'[g] = at[g] /\ client'[g] = client[g] /\ second'[g] = second[g]
  BY DEF SessionInv, TypeOK
<1>2. at'[h] = to /\ client'[h] = b
  BY DEF SessionInv, TypeOK
<1>3. FilesInv'
  BY DEF SessionInv, FilesInv
<1>4. PendingInv'
  BY <1>1, <1>2 DEF SessionInv, PendingInv
<1>5. CookieIsDurable' /\ SessionsAreDistinct'
  BY DEF SessionInv, CookieIsDurable, SessionsAreDistinct, Content, Current
<1> QED
  BY <1>1, <1>3, <1>4, <1>5 DEF SessionInv

(* The process starts, or it ends with no handler at work.                 *)
LEMMA MainStep ==
  ASSUME SessionInv, main # "ready",
         main' \in {"down", "opened", "begun", "committed", "ready"},
         schema' \in BOOLEAN, admin' \in BOOLEAN,
         UNCHANGED <<tokens, writer, now, crashes, handlerVars, browserVars, opened, disk, home>>,
         main' # "down" => main # "down" /\ UNCHANGED settingVars
  PROVE  SessionInv'
<1> USE DEF handlerVars, browserVars, settingVars
<1>1. \A h \in Handlers : at[h] = "idle"
  BY DEF SessionInv, PendingInv
<1>2. TypeOK'
  BY DEF SessionInv, TypeOK
<1>3. FilesInv'
  BY DEF SessionInv, FilesInv
<1>4. PendingInv'
  BY <1>1 DEF SessionInv, PendingInv
<1>5. CookieIsDurable' /\ SessionsAreDistinct'
  BY DEF SessionInv, CookieIsDurable, SessionsAreDistinct, Content, Current
<1> QED
  BY <1>2, <1>3, <1>4, <1>5 DEF SessionInv

LEMMA CrashStep ==
  ASSUME SessionInv, Crash, UNCHANGED <<opened, disk, home>>
  PROVE  SessionInv'
<1> USE DEF browserVars
<1>1. /\ main' = "down" /\ crashes < MaxCrashes /\ crashes' = crashes + 1 /\ writer' = None /\ Idle
      /\ UNCHANGED <<schema, admin, tokens, now, browserVars>>
  BY DEF Crash
<1>2. crashes' \in 0..MaxCrashes
  BY <1>1, AccountsAssumption DEF SessionInv, TypeOK
<1>3. \A h \in Handlers : at'[h] = "idle"
  BY <1>1 DEF Idle
<1>4. TypeOK'
  BY <1>1, <1>2, TimeType DEF SessionInv, TypeOK, Idle
<1>5. FilesInv'
  BY <1>1 DEF SessionInv, FilesInv
<1>6. PendingInv'
  BY <1>3 DEF PendingInv
<1>7. CookieIsDurable' /\ SessionsAreDistinct'
  BY <1>1 DEF SessionInv, CookieIsDurable, SessionsAreDistinct, Content, Current
<1> QED
  BY <1>4, <1>5, <1>6, <1>7 DEF SessionInv

(* The row of a login: fresh when the INSERT begins, on disk when it ends. *)
LEMMA InsertStep ==
  ASSUME SessionInv, NEW h \in Handlers, at[h] = "insert", writer = None, second[h] \notin tokens,
         at' = [at EXCEPT ![h] = "inserted"], writer' = h,
         UNCHANGED <<schema, admin, tokens, now, mainVars, client, second, browserVars,
                     settingVars, opened, disk, home>>
  PROVE  SessionInv'
<1> USE DEF mainVars, browserVars, settingVars
<1>1. \A g \in Handlers \ {h} : at'[g] = at[g]
  BY DEF SessionInv, TypeOK
<1>2. at'[h] = "inserted"
  BY DEF SessionInv, TypeOK
<1>3. TypeOK'
  BY <1>2 DEF SessionInv, TypeOK
<1>4. FilesInv'
  BY DEF SessionInv, FilesInv
<1>5. \A g \in Handlers : at[g] # "inserted"
  <2> SUFFICES ASSUME NEW g \in Handlers, at[g] = "inserted" PROVE FALSE
    OBVIOUS
  <2>1. writer = g
    BY DEF SessionInv, PendingInv
  <2> QED
    BY <2>1, TimeType
<1>6. PendingInv'
  BY <1>1, <1>2, <1>5 DEF SessionInv, PendingInv
<1>7. CookieIsDurable' /\ SessionsAreDistinct'
  BY DEF SessionInv, CookieIsDurable, SessionsAreDistinct, Content, Current
<1> QED
  BY <1>3, <1>4, <1>6, <1>7 DEF SessionInv

LEMMA CommitStep ==
  ASSUME SessionInv, NEW h \in Handlers,
         at[h] = "inserted", at' = [at EXCEPT ![h] = "reply"],
         tokens' = tokens \cup {second[h]}, writer' = None,
         UNCHANGED <<schema, admin, now, mainVars, client, second, browserVars,
                     settingVars, opened, disk, home>>
  PROVE  SessionInv'
<1> USE DEF mainVars, browserVars, settingVars
<1>1. /\ at[h] = "inserted" /\ at' = [at EXCEPT ![h] = "reply"]
      /\ tokens' = tokens \cup {second[h]} /\ writer' = None
      /\ UNCHANGED <<schema, admin, now, main, crashes, client, second, cookie, until>>
  OBVIOUS
<1>2. /\ at'[h] = "reply" /\ \A g \in Handlers \ {h} : at'[g] = at[g]
      /\ second[h] \in Instants /\ second[h] \notin tokens /\ writer = h
  BY <1>1 DEF SessionInv, TypeOK, PendingInv
<1>3. TypeOK'
  BY <1>1, <1>2 DEF SessionInv, TypeOK
<1>4. FilesInv'
  BY <1>1 DEF SessionInv, FilesInv
<1>5. Content(opened) = Current /\ Current.tokens = tokens /\ Current'.tokens = tokens'
  BY DEF Content, Current
<1>6. \A b \in Browsers : cookie[b] = second[h] => home[b] # opened
  <2> SUFFICES ASSUME NEW b \in Browsers, cookie[b] = second[h], home[b] = opened PROVE FALSE
    OBVIOUS
  <2>1. cookie[b] # None
    BY <1>2, TimeType
  <2>2. cookie[b] \in tokens
    BY <1>5, <2>1 DEF SessionInv, CookieIsDurable
  <2> QED
    BY <1>2, <2>2
<1>7. \A g \in Handlers \ {h} : at[g] # "inserted" /\ (at[g] = "reply" => second[g] # second[h])
  BY <1>2 DEF SessionInv, PendingInv
<1>8. PendingInv'
  BY <1>1, <1>2, <1>6, <1>7 DEF SessionInv, PendingInv
<1>9. \A n \in DbNames : Content(n).tokens \subseteq Content(n)'.tokens
  BY <1>1, <1>5 DEF Content, Current
<1>10. CookieIsDurable' /\ SessionsAreDistinct'
  BY <1>1, <1>9 DEF SessionInv, CookieIsDurable, SessionsAreDistinct, FilesInv
<1> QED
  BY <1>3, <1>4, <1>8, <1>10 DEF SessionInv

(* A row that could not be committed is rolled back, and its lock with it. *)
LEMMA RollbackStep ==
  ASSUME SessionInv, NEW h \in Handlers, Fail(h, "inserted"), writer' = None,
         UNCHANGED <<schema, admin, tokens, settingVars, opened, disk, home>>
  PROVE  SessionInv'
<1> USE DEF mainVars, browserVars, settingVars
<1>1. /\ at[h] = "inserted" /\ at' = [at EXCEPT ![h] = "idle"]
      /\ client' = [client EXCEPT ![h] = None] /\ second' = [second EXCEPT ![h] = 0]
      /\ UNCHANGED <<now, mainVars, browserVars>>
  BY DEF Fail
<1>2. /\ at'[h] = "idle" /\ writer = h
      /\ \A g \in Handlers \ {h} : at'[g] = at[g] /\ client'[g] = client[g] /\ second'[g] = second[g]
  BY <1>1 DEF SessionInv, TypeOK, PendingInv
<1>3. TypeOK'
  BY <1>1, TimeType DEF SessionInv, TypeOK
<1>4. FilesInv'
  BY <1>1 DEF SessionInv, FilesInv
<1>5. \A g \in Handlers \ {h} : at[g] # "inserted"
  BY <1>2 DEF SessionInv, PendingInv
<1>6. PendingInv'
  BY <1>1, <1>2, <1>5 DEF SessionInv, PendingInv
<1>7. CookieIsDurable' /\ SessionsAreDistinct'
  BY <1>1 DEF SessionInv, CookieIsDurable, SessionsAreDistinct, Content, Current
<1> QED
  BY <1>3, <1>4, <1>6, <1>7 DEF SessionInv

LEMMA ReplyStep ==
  ASSUME SessionInv, NEW h \in Handlers, Reply(h), UNCHANGED <<settingVars, opened, disk>>,
         home' = [b \in Browsers |-> IF cookie'[b] # cookie[b] THEN opened ELSE home[b]]
  PROVE  SessionInv'
<1> USE DEF fileVars, mainVars, browserVars, settingVars
<1>1. /\ at[h] = "reply" /\ at' = [at EXCEPT ![h] = "idle"]
      /\ client' = [client EXCEPT ![h] = None] /\ second' = [second EXCEPT ![h] = 0]
      /\ UNCHANGED <<schema, admin, tokens, writer, now, main, crashes>>
      /\ \/ /\ cookie' = [cookie EXCEPT ![client[h]] = second[h]]
            /\ until' = [until EXCEPT ![client[h]] = now + CookieAge]
         \/ UNCHANGED <<cookie, until>>
  BY DEF Reply, Step
<1>2. /\ client[h] \in Browsers /\ second[h] \in Instants /\ second[h] \in tokens
      /\ \A b \in Browsers : cookie[b] = second[h] => home[b] # opened
      /\ \A g \in Handlers \ {h} : at[g] = "reply" => second[g] # second[h]
  BY <1>1 DEF SessionInv, TypeOK, PendingInv
<1>3. /\ at'[h] = "idle"
      /\ \A g \in Handlers \ {h} : at'[g] = at[g] /\ client'[g] = client[g] /\ second'[g] = second[g]
  BY <1>1 DEF SessionInv, TypeOK
<1>4. now + CookieAge \in Untils
  BY DEF SessionInv, TypeOK, Untils
<1>5. TypeOK'
  <2>1. cookie' \in [Browsers -> Instants \cup {None}] /\ until' \in [Browsers -> Untils]
    BY <1>1, <1>2, <1>4 DEF SessionInv, TypeOK, Untils
  <2>2. writer # None => writer \in Handlers \ {h}
    BY <1>1 DEF SessionInv, TypeOK
  <2> QED
    BY <1>1, <1>3, <2>1, <2>2, TimeType DEF SessionInv, TypeOK, Untils
<1>6. \A b \in Browsers : \/ cookie'[b] = cookie[b] /\ home'[b] = home[b]
                          \/ b = client[h] /\ cookie'[b] = second[h] /\ home'[b] = opened
  BY <1>1, <1>2 DEF SessionInv, TypeOK
<1>7. FilesInv'
  <2>1. home' \in [Browsers -> DbNames]
    BY DEF SessionInv, FilesInv
  <2> QED
    BY <1>1, <2>1 DEF SessionInv, FilesInv
<1>8. PendingInv'
  BY <1>1, <1>2, <1>3, <1>6 DEF SessionInv, PendingInv
<1>9. Content(opened).tokens = tokens /\ \A n : Content(n)' = Content(n)
  BY <1>1 DEF Content, Current
<1>10. CookieIsDurable'
  BY <1>2, <1>6, <1>9 DEF SessionInv, CookieIsDurable
<1>11. SessionsAreDistinct'
  BY <1>2, <1>6 DEF SessionInv, SessionsAreDistinct
<1> QED
  BY <1>5, <1>7, <1>8, <1>10, <1>11 DEF SessionInv

-----------------------------------------------------------------------------
Inv == SettingsInv /\ SessionInv

(* No process runs while it settles.                                       *)
LEMMA SettleStep ==
  ASSUME Inv, Settle
  PROVE  Inv'
<1>1. main = "down" /\ UNCHANGED <<accountVars, opened, disk, home>>
  BY DEF Settle
<1>2. SettingsInv'
  <2>1. LateOptions \subseteq Options
    BY StartupAssumption
  <2> QED
    BY <2>1, LoadKeeps, ArgumentKeeps, EditKeeps DEF Inv, Settle
<1>3. SessionInv'
  BY <1>1 DEF Inv, SessionInv, TypeOK, FilesInv, PendingInv, CookieIsDurable, SessionsAreDistinct,
              Content, Current, accountVars, vars, fileVars, mainVars, handlerVars, browserVars
<1> QED
  BY <1>2, <1>3 DEF Inv

(* Opening a file puts the other one away and changes neither.             *)
LEMMA OpenKeepsFiles ==
  ASSUME Inv, OpenSettled
  PROVE  \A n \in DbNames : Content(n)'.tokens = Content(n).tokens
<1>1. C!OpenDatabase
  BY DEF OpenSettled
<1>2. phase' = "serving" => conf' = conf /\ conf.DB_NAME \in DbNames
  BY <1>1, OpenKeeps DEF Inv
<1>3. CASE phase' = "serving"
  <2>1. /\ opened' = conf.DB_NAME /\ tokens' = Content(conf.DB_NAME).tokens
        /\ disk' = [disk EXCEPT ![opened] = Current, ![conf.DB_NAME] = NewFile]
    BY <1>3 DEF OpenSettled
  <2>2. \A n \in DbNames \ {conf.DB_NAME} : disk'[n] = Content(n)
    BY <1>2, <1>3, <2>1 DEF Inv, SessionInv, FilesInv, Content
  <2> QED
    BY <2>1, <2>2 DEF Content, Current
<1>4. CASE phase' # "serving"
  BY <1>4 DEF OpenSettled, Content, Current
<1> QED
  BY <1>3, <1>4

LEMMA OpenStep ==
  ASSUME Inv, OpenSettled
  PROVE  Inv'
<1> USE DEF handlerVars, browserVars
<1>1. C!OpenDatabase /\ UNCHANGED <<writer, now, crashes, handlerVars, browserVars, home>>
  BY DEF OpenSettled
<1>2. SettingsInv' /\ (phase' = "serving" => conf' = conf /\ conf.DB_NAME \in DbNames)
  BY <1>1, OpenKeeps DEF Inv
<1>3. CASE phase' = "serving"
  <2> DEFINE name == conf.DB_NAME
  <2>1. /\ main' = "opened" /\ opened' = name
        /\ disk' = [disk EXCEPT ![opened] = Current, ![name] = NewFile]
        /\ schema' = Content(name).schema /\ admin' = Content(name).admin
        /\ tokens' = Content(name).tokens
    BY <1>3 DEF OpenSettled
  <2>2. name \in DbNames /\ opened \in DbNames /\ DOMAIN disk = DbNames
    BY <1>2, <1>3 DEF Inv, SessionInv, FilesInv
  <2>3. Current \in [schema : BOOLEAN, admin : BOOLEAN, tokens : SUBSET Instants]
        /\ NewFile \in [schema : BOOLEAN, admin : BOOLEAN, tokens : SUBSET Instants]
    BY DEF Inv, SessionInv, TypeOK, Current, NewFile
  <2>4. \A n \in DbNames :
          Content(n) \in [schema : BOOLEAN, admin : BOOLEAN, tokens : SUBSET Instants]
    BY <2>3 DEF Inv, SessionInv, FilesInv, Content
  <2>5. disk'[name] = NewFile /\ \A n \in DbNames \ {name} : disk'[n] = Content(n)
    BY <2>1, <2>2 DEF Content
  <2>6. phase = "arguments" /\ main = "down"
    BY <1>1 DEF C!OpenDatabase, Inv, SessionInv, FilesInv
  <2>7. \A h \in Handlers : at[h] = "idle"
    BY <2>6 DEF Inv, SessionInv, PendingInv
  <2>8. TypeOK'
    BY <1>1, <2>1, <2>2, <2>4 DEF Inv, SessionInv, TypeOK
  <2>9. FilesInv'
    <3>1. disk' \in [DbNames -> [schema : BOOLEAN, admin : BOOLEAN, tokens : SUBSET Instants]]
      BY <2>1, <2>2, <2>3 DEF Inv, SessionInv, FilesInv
    <3>2. home' = home /\ conf' = conf
      BY <1>1, <1>2, <1>3
    <3> QED
      BY <1>3, <2>1, <2>2, <2>5, <3>1, <3>2 DEF Inv, SessionInv, FilesInv
  <2>10. PendingInv'
    BY <1>1, <2>7 DEF PendingInv
  <2>11. \A n \in DbNames : Content(n)'.tokens = Content(n).tokens
    BY <2>1, <2>5 DEF Content, Current
  <2>12. CookieIsDurable' /\ SessionsAreDistinct'
    BY <1>1, <2>11 DEF Inv, SessionInv, FilesInv, CookieIsDurable, SessionsAreDistinct
  <2> QED
    BY <1>2, <2>8, <2>9, <2>10, <2>12 DEF Inv, SessionInv
<1>4. CASE phase' # "serving"
  <2>1. UNCHANGED <<main, schema, admin, tokens, opened, disk>>
    BY <1>4 DEF OpenSettled
  <2>2. main = "down"
    BY <1>1 DEF C!OpenDatabase, Inv, SessionInv, FilesInv
  <2>3. SessionInv'
    BY <1>1, <2>1, <2>2 DEF Inv, SessionInv, TypeOK, FilesInv, PendingInv, CookieIsDurable,
                           SessionsAreDistinct, Content, Current
  <2> QED
    BY <1>2, <2>3 DEF Inv
<1> QED
  BY <1>3, <1>4

(* The process at work: each action of Accounts is one of the steps above. *)
LEMMA RunStep ==
  ASSUME Inv, Run
  PROVE  Inv'
<1> USE DEF fileVars, mainVars, handlerVars, browserVars
<1>1. /\ main # "down" /\ UNCHANGED <<opened, disk>>
      /\ main' # "down" => UNCHANGED settingVars
      /\ main' = "down" => C!Exit
      /\ home' = [b \in Browsers |-> IF cookie'[b] # cookie[b] THEN opened ELSE home[b]]
  BY DEF Run
<1>2. SettingsInv'
  <2>1. CASE main' = "down"
    BY <1>1, <2>1, DownKeeps DEF Inv, C!Exit
  <2>2. CASE main' # "down"
    BY <1>1, <2>2 DEF Inv, SettingsInv, SettingsOf, settingVars
  <2> QED
    BY <2>1, <2>2
<1>3. cookie' = cookie => home' = home
  BY <1>1 DEF Inv, SessionInv, FilesInv
<1>4. SessionInv
  BY DEF Inv
<1>5. CASE CheckSchema \/ CreateSchema \/ AddAdmin
  <2>1. /\ main # "ready" /\ main' \in {"down", "opened", "begun", "committed", "ready"}
        /\ schema' \in BOOLEAN /\ admin' \in BOOLEAN
        /\ UNCHANGED <<tokens, writer, now, crashes, handlerVars, browserVars>>
    BY <1>4, <1>5 DEF CheckSchema, CreateSchema, AddAdmin, SessionInv, TypeOK
  <2> QED
    BY <1>1, <1>2, <1>3, <1>4, <2>1, MainStep DEF Inv
<1>6. CASE Crash
  <2>1. cookie' = cookie
    BY <1>6 DEF Crash
  <2> QED
    BY <1>1, <1>2, <1>3, <1>4, <1>6, <2>1, CrashStep DEF Inv
<1>7. ASSUME NEW h \in Handlers, LoginStep(h) \/ TokenStep(h, conf.LOGIN_EXPIRATION)
      PROVE  SessionInv'
  <2> DEFINE Quiet(to, b, t) ==
        /\ at[h] \notin {"inserted", "reply"}
        /\ at' = [at EXCEPT ![h] = to]
        /\ client' = [client EXCEPT ![h] = b] /\ second' = [second EXCEPT ![h] = t]
        /\ UNCHANGED <<fileVars, now, mainVars, browserVars>>
  <2>1. /\ at \in [Handlers -> {"idle", "credentials", "stamp", "insert", "inserted", "reply",
                                "lookup", "check", "granted", "refused"}]
        /\ client = [client EXCEPT ![h] = client[h]] /\ second = [second EXCEPT ![h] = second[h]]
        /\ second[h] \in Instants /\ now \in Instants /\ 0 \in Instants
        /\ at[h] # "idle" => main = "ready" /\ client[h] \in Browsers
    BY <1>4, TimeType DEF SessionInv, TypeOK, PendingInv
  <2>2. ASSUME main' = main PROVE UNCHANGED settingVars
    BY <1>1, <2>2
  <2>3. ASSUME NEW to \in {"idle", "credentials", "stamp", "insert", "lookup", "check", "granted", "refused"},
               NEW b \in Browsers \cup {None}, NEW t \in Instants, Quiet(to, b, t),
               to # "idle" => main = "ready" /\ b \in Browsers
        PROVE  SessionInv'
    BY <1>1, <1>3, <1>4, <2>2, <2>3, QuietStep
  <2>4. ASSUME NEW from \in {"credentials", "stamp", "insert", "lookup", "granted", "refused"},
               Fail(h, from), UNCHANGED fileVars
        PROVE  SessionInv'
    <3>1. Quiet("idle", None, 0)
      BY <2>4 DEF Fail
    <3> HIDE DEF Quiet
    <3> QED
      BY <2>1, <2>3, <3>1
  <2>5. ASSUME NEW from \in {"credentials", "lookup", "check"}, NEW to \in {"stamp", "check", "granted", "refused"},
               Step(h, from, to), UNCHANGED <<fileVars, now, mainVars, client, second, browserVars>>
        PROVE  SessionInv'
    <3>1. Quiet(to, client[h], second[h]) /\ main = "ready" /\ client[h] \in Browsers
      BY <2>1, <2>5 DEF Step
    <3> HIDE DEF Quiet
    <3> QED
      BY <2>1, <2>3, <3>1
  <2>6. CASE ValidateUser(h)
    BY <2>4, <2>5, <2>6 DEF ValidateUser, Busy
  <2>7. CASE Stamp(h)
    <3>1. CASE Step(h, "stamp", "insert")
      <4>1. Quiet("insert", client[h], now) /\ main = "ready" /\ client[h] \in Browsers
        <5>1. ~Fail(h, "stamp")
          BY <2>1, <3>1 DEF Step, Fail
        <5> QED
          BY <2>1, <2>7, <3>1, <5>1 DEF Stamp, Busy, Step
      <4> HIDE DEF Quiet
      <4> QED
        BY <2>1, <2>3, <4>1
    <3>2. CASE Fail(h, "stamp") /\ UNCHANGED fileVars
      BY <2>4, <3>2
    <3> QED
      BY <2>7, <3>1, <3>2 DEF Stamp, Busy
  <2>8. CASE BeginInsert(h)
    <3>1. CASE Step(h, "insert", "inserted")
      <4>1. /\ at[h] = "insert" /\ writer = None /\ second[h] \notin tokens
            /\ at' = [at EXCEPT ![h] = "inserted"] /\ writer' = h
            /\ UNCHANGED <<schema, admin, tokens, now, mainVars, client, second, browserVars>>
        <5>1. ~Fail(h, "insert")
          BY <2>1, <3>1 DEF Step, Fail
        <5> QED
          BY <2>8, <3>1, <5>1 DEF BeginInsert, Step
      <4> QED
        BY <1>1, <1>3, <1>4, <2>2, <4>1, InsertStep
    <3>2. CASE Fail(h, "insert") /\ UNCHANGED fileVars
      BY <2>4, <3>2
    <3> QED
      BY <2>8, <3>1, <3>2 DEF BeginInsert
  <2>9. CASE CommitInsert(h)
    <3>1. UNCHANGED <<main, cookie>> /\ writer' = None
      BY <2>9 DEF CommitInsert, Fail
    <3>2. CASE Fail(h, "inserted") /\ UNCHANGED tokens
      <4>1. UNCHANGED <<schema, admin>>
        BY <2>9 DEF CommitInsert
      <4> QED
        BY <1>1, <1>3, <1>4, <2>2, <3>1, <3>2, <4>1, RollbackStep
    <3>3. CASE ~(Fail(h, "inserted") /\ UNCHANGED tokens)
      <4>1. /\ at[h] = "inserted" /\ at' = [at EXCEPT ![h] = "reply"]
            /\ tokens' = tokens \cup {second[h]}
            /\ UNCHANGED <<schema, admin, now, mainVars, client, second, browserVars>>
        BY <2>9, <3>3 DEF CommitInsert, Step
      <4> QED
        BY <1>1, <1>3, <1>4, <2>2, <3>1, <4>1, CommitStep
    <3> QED
      BY <3>2, <3>3
  <2>10. CASE Reply(h)
    <3>1. main' = main
      BY <2>10 DEF Reply
    <3> QED
      BY <1>1, <1>4, <2>2, <2>10, <3>1, ReplyStep
  <2>11. CASE LookUp(h)
    BY <2>4, <2>5, <2>11 DEF LookUp, Busy
  <2>12. CASE Check(h, conf.LOGIN_EXPIRATION)
    BY <2>5, <2>12 DEF Check
  <2>13. CASE Serve(h)
    BY <2>4, <2>13 DEF Serve
  <2> QED
    BY <1>7, <2>6, <2>7, <2>8, <2>9, <2>10, <2>11, <2>12, <2>13 DEF LoginStep, TokenStep
<1>8. ASSUME NEW h \in Handlers, NEW b \in Browsers, Login(h, b) \/ Request(h, b) PROVE SessionInv'
  <2>1. PICK t \in Instants, to \in {"credentials", "lookup"} :
          /\ main = "ready" /\ at[h] = "idle" /\ at' = [at EXCEPT ![h] = to]
          /\ client' = [client EXCEPT ![h] = b] /\ second' = [second EXCEPT ![h] = t]
          /\ UNCHANGED <<fileVars, now, mainVars, browserVars>>
    <3>1. second = [second EXCEPT ![h] = second[h]] /\ second[h] \in Instants
          /\ (cookie[b] # None => cookie[b] \in Instants)
      BY <1>4 DEF SessionInv, TypeOK
    <3> QED
      BY <1>8, <3>1 DEF Login, Request, Step, HasCookie
  <2>2. UNCHANGED settingVars /\ home' = home
    BY <1>1, <1>3, <2>1
  <2> QED
    BY <1>1, <1>4, <2>1, <2>2, QuietStep
<1> QED
  BY <1>2, <1>5, <1>6, <1>7, <1>8 DEF Inv, Run

LEMMA OutsideStep ==
  ASSUME Inv, Outside
  PROVE  Inv'
<1> USE DEF fileVars, mainVars, handlerVars, browserVars
<1>1. SettingsInv' /\ UNCHANGED <<settingVars, opened, disk, home>>
  BY DEF Outside, Inv, SettingsInv, SettingsOf, settingVars
<1>2. UNCHANGED <<fileVars, mainVars, handlerVars>> /\ now' \in Instants
  BY DEF Outside, Tick, Drop, Inv, SessionInv, TypeOK
<1>3. \A b \in Browsers : cookie'[b] \in {cookie[b], None}
  BY DEF Outside, Tick, Drop, Inv, SessionInv, TypeOK
<1>4. cookie' \in [Browsers -> Instants \cup {None}] /\ until' \in [Browsers -> Untils]
  BY DEF Outside, Tick, Drop, Inv, SessionInv, TypeOK, Untils
<1>5. TypeOK' /\ FilesInv'
  BY <1>1, <1>2, <1>4 DEF Inv, SessionInv, TypeOK, FilesInv, settingVars, Untils
<1>6. \A h \in Handlers : second[h] # None
  BY TimeType DEF Inv, SessionInv, TypeOK
<1>7. PendingInv'
  BY <1>1, <1>2, <1>3, <1>6 DEF Inv, SessionInv, PendingInv
<1>8. CookieIsDurable' /\ SessionsAreDistinct'
  BY <1>1, <1>2, <1>3 DEF Inv, SessionInv, CookieIsDurable, SessionsAreDistinct, Content, Current
<1> QED
  BY <1>1, <1>5, <1>7, <1>8 DEF Inv, SessionInv

LEMMA InvStep ==
  Inv /\ [StartupNext]_startupVars => Inv'
<1> SUFFICES ASSUME Inv, [StartupNext]_startupVars PROVE Inv'
  OBVIOUS
<1>1. CASE StartupNext
  BY <1>1, SettleStep, OpenStep, RunStep, OutsideStep DEF StartupNext
<1>2. CASE UNCHANGED startupVars
  BY <1>2 DEF startupVars, accountVars, settingVars, vars, fileVars, mainVars, handlerVars, browserVars,
              Inv, SettingsInv, SettingsOf, SessionInv, TypeOK, FilesInv, PendingInv, CookieIsDurable,
              SessionsAreDistinct, Content, Current
<1> QED
  BY <1>1, <1>2

-----------------------------------------------------------------------------
(* Settings and sessions keep their invariant over every start of the      *)
(* process, whatever it serves, however it ends and whoever edits the file. *)
THEOREM StartupInvariant == StartupSpec => []Inv
<1>1. StartupInit => Inv
  BY SettingsInvInit, SessionInvInit DEF StartupInit, Inv
<1> QED
  BY <1>1, InvStep, PTL DEF StartupSpec

(* Every variable keeps its type; a process has the file its settings name. *)
THEOREM StartupKeepsTypes == StartupSpec => []StartupTypeOK
<1>1. Inv => StartupTypeOK
  BY SettingsInvType DEF Inv, SessionInv, FilesInv, StartupTypeOK
<1> QED
  BY <1>1, StartupInvariant, PTL

(* A cookie a browser has is a row of the file that issued it, after every *)
(* crash and under every other name the database was opened by since.      *)
THEOREM StartupCookieIsDurable == StartupSpec => []CookieIsDurable
<1>1. Inv => CookieIsDurable
  BY DEF Inv, SessionInv
<1> QED
  BY <1>1, StartupInvariant, PTL

(* No two browsers share a session, with any number of logins at once.     *)
THEOREM StartupSessionsAreDistinct == StartupSpec => []SessionsAreDistinct
<1>1. Inv => SessionsAreDistinct
  BY DEF Inv, SessionInv
<1> QED
  BY <1>1, StartupInvariant, PTL

(* Whatever the file says and the options say, a server runs in its limits. *)
THEOREM StartupNumbersInRange == StartupSpec => []NumbersInRange
<1>1. Inv => NumbersInRange
  BY DEF Inv, SettingsInv, SettingsOf, NumbersInRange
<1> QED
  BY <1>1, StartupInvariant, PTL

(* validate_token answers false for a session that a browser holds only    *)
(* when that session is over by the setting of the start that answers: the *)
(* row is in the file that is open, and the clock decides.                 *)
THEOREM StartupNoSessionRefusedEarly == StartupSpec => NoSessionRefusedEarly
<1>1. ASSUME Inv, [StartupNext]_startupVars, NEW h \in Handlers,
             at[h] # "refused", at'[h] = "refused",
             second[h] = cookie[client[h]], home[client[h]] = opened
      PROVE  now > second[h] + conf.LOGIN_EXPIRATION
  <2>1. at \in [Handlers -> {"idle", "credentials", "stamp", "insert", "inserted", "reply",
                             "lookup", "check", "granted", "refused"}]
    BY <1>1 DEF Inv, SessionInv, TypeOK
  <2>2. Run
    BY <1>1 DEF StartupNext, Settle, OpenSettled, Outside, Tick, Drop, startupVars, accountVars,
                vars, handlerVars
  <2>3. \E g \in Handlers : LookUp(g) \/ Check(g, conf.LOGIN_EXPIRATION)
    <3>1. ASSUME NEW g \in Handlers, NEW to, to # "refused", at' = [at EXCEPT ![g] = to] PROVE FALSE
      BY <1>1, <2>1, <3>1
    <3>2. ASSUME NEW g \in Handlers, LoginStep(g) \/ Serve(g) PROVE FALSE
      BY <3>1, <3>2 DEF LoginStep, ValidateUser, Stamp, Busy, BeginInsert, CommitInsert, Reply, Serve,
                        Step, Fail
    <3>3. ASSUME NEW g \in Handlers, NEW b \in Browsers, Login(g, b) \/ Request(g, b) PROVE FALSE
      BY <3>1, <3>3 DEF Login, Request, Step
    <3>4. ~(CheckSchema \/ CreateSchema \/ AddAdmin \/ Crash)
      BY <1>1 DEF CheckSchema, CreateSchema, AddAdmin, Crash, Idle, handlerVars
    <3> QED
      BY <2>2, <3>2, <3>3, <3>4 DEF Run, TokenStep
  <2>4. LookUp(h) \/ Check(h, conf.LOGIN_EXPIRATION)
    <3>1. PICK g \in Handlers : LookUp(g) \/ Check(g, conf.LOGIN_EXPIRATION)
      BY <2>3
    <3>2. \E to : at' = [at EXCEPT ![g] = to]
      BY <3>1 DEF LookUp, Check, Busy, Step, Fail
    <3>3. g = h
      BY <1>1, <2>1, <3>2
    <3> QED
      BY <3>1, <3>3
  <2>5. at[h] \in {"lookup", "check"}
    BY <2>4 DEF LookUp, Check, Busy, Step, Fail
  <2>6. client[h] \in Browsers /\ second[h] \in Instants /\ now \in Instants
    BY <1>1, <2>5 DEF Inv, SessionInv, TypeOK, PendingInv
  <2>7. second[h] \in tokens
    BY <1>1, <2>6, TimeType DEF Inv, SessionInv, CookieIsDurable, Content, Current
  <2>8. ~LookUp(h)
    BY <1>1, <2>1, <2>7 DEF LookUp, Busy, Step, Fail
  <2>9. ~(now <= second[h] + conf.LOGIN_EXPIRATION)
    BY <1>1, <2>1, <2>4, <2>8 DEF Check, Step
  <2>10. now \in Nat /\ second[h] \in Nat /\ conf.LOGIN_EXPIRATION \in Int
    <3>1. "LOGIN_EXPIRATION" \in C!Numbers
      BY SettingNames
    <3>2. conf["LOGIN_EXPIRATION"] \in Int
      BY <1>1, <3>1 DEF Inv, SettingsInv, SettingsOf
    <3> QED
      BY <2>6, <3>2, TimeType
  <2> QED
    BY <2>9, <2>10
<1>2. Inv /\ [StartupNext]_startupVars =>
        \A h \in Handlers :
          (/\ at[h] # "refused" /\ at'[h] = "refused"
           /\ second[h] = cookie[client[h]] /\ home[client[h]] = opened)
            => now > second[h] + conf.LOGIN_EXPIRATION
  BY <1>1
<1> QED
  BY <1>2, StartupInvariant, PTL DEF StartupSpec, NoSessionRefusedEarly

(* The files of the database keep their sessions apart: opening one leaves *)
(* the rows of all as they are, and only the INSERT of a login, into the   *)
(* file that is open, adds one.                                            *)
THEOREM StartupFilesKeepTheirSessions == StartupSpec => FilesKeepTheirSessions
<1> DEFINE Kept(n) == Content(n)'.tokens = Content(n).tokens
           Grown(n, h) == /\ n = opened /\ n = opened' /\ at[h] = "inserted"
                          /\ Content(n)'.tokens = Content(n).tokens \cup {second[h]}
<1>1. ASSUME Inv, [StartupNext]_startupVars, NEW n \in DbNames
      PROVE  Kept(n) \/ \E h \in Handlers : Grown(n, h)
  <2>1. CASE UNCHANGED <<tokens, opened, disk>>
    BY <2>1 DEF Content, Current
  <2>2. Settle \/ Outside \/ UNCHANGED startupVars => UNCHANGED <<tokens, opened, disk>>
    BY DEF Settle, Outside, Tick, Drop, startupVars, accountVars, vars, fileVars
  <2>3. CASE OpenSettled
    BY <1>1, <2>3, OpenKeepsFiles
  <2>4. CASE Run
    <3>1. UNCHANGED <<opened, disk>>
      BY <2>4 DEF Run
    <3>2. ASSUME NEW h \in Handlers, CommitInsert(h) PROVE UNCHANGED tokens \/ Grown(n, h) \/ n # opened
      BY <3>1, <3>2 DEF CommitInsert, Step, Content, Current
    <3>3. UNCHANGED tokens \/ \E h \in Handlers : CommitInsert(h)
      BY <2>4 DEF Run, CheckSchema, CreateSchema, AddAdmin, Crash, LoginStep, TokenStep, ValidateUser, Stamp,
                  BeginInsert, Reply, LookUp, Check, Serve, Login, Request, fileVars
    <3>4. n # opened => Kept(n)
      BY <3>1 DEF Content
    <3> QED
      BY <2>1, <3>1, <3>2, <3>3, <3>4
  <2> QED
    BY <1>1, <2>1, <2>2, <2>3, <2>4 DEF StartupNext
<1>2. Inv /\ [StartupNext]_startupVars =>
        \A n \in DbNames :
          \/ Content(n)'.tokens = Content(n).tokens
          \/ \E h \in Handlers : /\ n = opened /\ n = opened' /\ at[h] = "inserted"
                                 /\ Content(n)'.tokens = Content(n).tokens \cup {second[h]}
  BY <1>1
<1> QED
  BY <1>2, StartupInvariant, PTL DEF StartupSpec, FilesKeepTheirSessions

-----------------------------------------------------------------------------
(* Before the first edit a file says what the program was built with; no   *)
(* start ever writes the key from which the loader takes the log file.     *)
BuiltinFiles ==
  \A m \in C!Modes :
    file[m] # Absent => /\ "LOG_PATH" \notin FileKeys => file[m]["LOG_PATH"] = Absent
                        /\ edits = 0 => \A s \in C!Settings : file[m][s] = C!Builtin[s]

LEMMA LoadKeepsBuiltin ==
  ASSUME SettingsInv, BuiltinFiles, C!Load
  PROVE  BuiltinFiles'
<1> DEFINE m == C!Mode(conf)
<1>1. edits' = edits /\ conf = C!Builtin
  BY DEF C!Load, SettingsInv
<1>2. CASE file[m] = Absent
  <2>1. file' = [file EXCEPT ![m] = C!Written(conf)]
    BY <1>2 DEF C!Load
  <2>2. /\ C!Written(conf)["LOG_PATH"] = Absent
        /\ \A s \in C!Settings : C!Written(conf)[s] = C!Builtin[s]
    BY <1>1, SettingNames DEF C!Written
  <2> HIDE DEF m
  <2>3. ASSUME NEW n \in C!Modes, file'[n] # Absent
        PROVE  file'[n] = C!Written(conf) \/ (file'[n] = file[n] /\ file[n] # Absent)
    BY <2>1, <2>3 DEF SettingsInv
  <2> QED
    BY <1>1, <2>2, <2>3 DEF BuiltinFiles
<1>3. CASE file[m] # Absent
  <2>1. file' = file
    BY <1>3 DEF C!Load
  <2> QED
    BY <1>1, <2>1 DEF BuiltinFiles
<1> QED
  BY <1>2, <1>3

LEMMA EditKeepsBuiltin ==
  ASSUME SettingsInv, BuiltinFiles,
         NEW m \in C!Modes, NEW k \in FileKeys, NEW v \in C!Values(k), C!Edit(m, k, v)
  PROVE  BuiltinFiles'
<1>1. /\ file[m] # Absent /\ edits' = edits + 1
      /\ file' = [file EXCEPT ![m] = [file[m] EXCEPT ![k] = v]]
  BY DEF C!Edit
<1>2. edits' # 0
  BY <1>1, Bounds DEF SettingsInv
<1>3. "LOG_PATH" \in C!Keys /\ DOMAIN file[m] = C!Keys
  BY <1>1, SettingNames DEF SettingsInv, FileOf
<1>4. "LOG_PATH" \notin FileKeys => [file[m] EXCEPT ![k] = v]["LOG_PATH"] = file[m]["LOG_PATH"]
  BY <1>3
<1>5. ASSUME NEW n \in C!Modes, file'[n] # Absent, "LOG_PATH" \notin FileKeys
      PROVE  file'[n]["LOG_PATH"] = Absent
  <2>1. CASE n = m
    BY <1>1, <1>4, <1>5, <2>1 DEF SettingsInv, BuiltinFiles
  <2>2. CASE n # m
    BY <1>1, <1>5, <2>2 DEF SettingsInv, BuiltinFiles
  <2> QED
    BY <2>1, <2>2
<1> QED
  BY <1>2, <1>5 DEF BuiltinFiles

LEMMA BuiltinStep == Inv /\ BuiltinFiles /\ [StartupNext]_startupVars => BuiltinFiles'
<1> SUFFICES ASSUME Inv, BuiltinFiles, [StartupNext]_startupVars PROVE BuiltinFiles'
  OBVIOUS
<1>1. CASE UNCHANGED <<file, edits>>
  BY <1>1 DEF BuiltinFiles
<1>2. CASE Settle
  BY <1>1, <1>2, LoadKeepsBuiltin, EditKeepsBuiltin DEF Settle, Inv, C!Argument
<1>3. OpenSettled \/ Outside \/ UNCHANGED startupVars => UNCHANGED <<file, edits>>
  BY DEF OpenSettled, Outside, C!OpenDatabase, startupVars, settingVars
<1>4. Run => UNCHANGED <<file, edits>>
  BY DEF Run, C!Exit, settingVars
<1> QED
  BY <1>1, <1>2, <1>3, <1>4 DEF StartupNext

(* What the loader takes from a file in which a setting is as it was built *)
(* is the built-in value, whatever the other lines say.                    *)
LEMMA ReadBuiltin ==
  ASSUME NEW f, f["LOG_PATH"] = Absent, NEW s \in C!Settings, f[s] = C!Builtin[s]
  PROVE  C!Read(C!Builtin, f)[s] = C!Builtin[s]
<1>1. Absent # "builtin"
  BY StartupAssumption DEF C!ConfigAssumption
<1>2. \A n \in C!Names : C!Builtin[n] = "builtin"
  BY DEF C!Names, C!Builtin
<1>3. C!SetPath("builtin") = "builtin"
  BY DEF C!SetPath
<1>4. CASE s \in C!Names
  BY <1>1, <1>2, <1>3, <1>4, SettingNames DEF C!Read
<1>5. CASE s \in C!Flags
  BY <1>5, SettingNames DEF C!Read
<1>6. CASE s \in C!Numbers
  BY <1>6, SettingNames DEF C!Read
<1> QED
  BY <1>4, <1>5, <1>6, SettingNames

(* Settings nobody edited and no option changed are those of the build, at *)
(* every start and after any edits of other lines: what the first start    *)
(* writes, load_or_create_config reads back as it was.  (The loader takes  *)
(* the log file from a key no start writes and no comment names, LOG_PATH: *)
(* whoever adds that line changes a setting whose own line is untouched.)  *)
THEOREM StartupUntouchedIsBuiltin ==
  ASSUME "LOG_PATH" \notin FileKeys
  PROVE  StartupSpec => UntouchedIsBuiltin
<1>1. StartupInit => BuiltinFiles
  BY DEF StartupInit, C!Init, BuiltinFiles
<1>2. Inv /\ BuiltinFiles /\ [StartupNext]_startupVars =>
        (phase = "down" /\ phase' = "arguments" =>
           \A s \in C!Settings :
             edits = 0 \/ file'[C!Mode(conf)][s] = C!Builtin[s] => conf'[s] = C!Builtin[s])
  <2> SUFFICES ASSUME Inv, BuiltinFiles, [StartupNext]_startupVars,
                      phase = "down", phase' = "arguments",
                      NEW s \in C!Settings,
                      edits = 0 \/ file'[C!Mode(conf)][s] = C!Builtin[s]
               PROVE  conf'[s] = C!Builtin[s]
    OBVIOUS
  <2>1. C!Load
    <3>1. Settle
      BY DEF StartupNext, OpenSettled, C!OpenDatabase, Run, C!Exit, C!Down, Outside, startupVars,
             settingVars
    <3> QED
      BY <3>1 DEF Settle, C!Argument, C!Edit
  <2> DEFINE m == C!Mode(conf)
  <2>2. m \in C!Modes /\ conf = C!Builtin
    BY DEF C!Mode, C!Modes, Inv, SettingsInv
  <2>3. CASE file[m] = Absent
    BY <2>1, <2>2, <2>3 DEF C!Load
  <2>4. CASE file[m] # Absent
    <3>1. conf' = C!Read(C!Builtin, file[m]) /\ file' = file
      BY <2>1, <2>2, <2>4 DEF C!Load
    <3>2. file[m]["LOG_PATH"] = Absent /\ file[m][s] = C!Builtin[s]
      BY <2>2, <2>4, <3>1 DEF BuiltinFiles
    <3> HIDE DEF m
    <3> QED
      BY <3>1, <3>2, ReadBuiltin
  <2> QED
    BY <2>3, <2>4
<1> QED
  BY <1>1, <1>2, BuiltinStep, StartupInvariant, PTL DEF StartupSpec, UntouchedIsBuiltin
=============================================================================
