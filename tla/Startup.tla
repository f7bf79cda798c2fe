------------------------------ MODULE Startup ------------------------------
(***************************************************************************)
(* Starts of the process put together: the settings (Config) decide which  *)
(* file of the data directory the process opens, and the accounts and      *)
(* sessions of that file (Accounts) are all a browser can use until the    *)
(* process ends and the next start settles again.                          *)
(*                                                                         *)
(* The variables schema, admin and tokens of Accounts are the file opened  *)
(* last; disk keeps the others.                                            *)
(***************************************************************************)
EXTENDS Accounts

CONSTANTS Build, FileKeys, Options, MaxEdits, MaxArgs, Absent, Text,  (* Config *)
          LateOptions,  (* bound: the options of starts after a crash        *)
          Visited,      (* bound: the names of the database browsers come to *)
          VisitedEdits  (* bound: the edits before starts browsers come to   *)

VARIABLES
  phase,                           (* Config's main                         *)
  conf, args, file, dirs, edits,   (* Config's                              *)
  opened,                          (* the name of the file opened last      *)
  disk,                            (* the other database files, by name     *)
  home                             (* each browser: the file that holds the *)
                                   (* row of its cookie (ghost)             *)

C == INSTANCE Config WITH main <- phase

ASSUME StartupAssumption == C!ConfigAssumption /\ LateOptions \subseteq Options

accountVars == vars
settingVars == <<phase, conf, args, file, dirs, edits>>
startupVars == <<accountVars, settingVars, opened, disk, home>>

DbNames == {"builtin", "given", "cut"}
NewFile == [schema |-> FALSE, admin |-> FALSE, tokens |-> {}]
Current == [schema |-> schema, admin |-> admin, tokens |-> tokens]
Content(name) == IF name = opened THEN Current ELSE disk[name]

StartupInit ==
  /\ Init /\ C!Init
  /\ opened = "builtin"
  /\ disk = [n \in DbNames |-> NewFile]
  /\ home = [b \in Browsers |-> "builtin"]

-----------------------------------------------------------------------------
(* load_or_create_config, parse_arguments, and the person who edits (bound: *)
(* before the first crash, which leaves every setting to be read after it). *)
Settle ==
  /\ main = "down"
  /\ \/ C!Load
     \/ \E o \in IF crashes = 0 THEN Options ELSE LateOptions : C!Argument(o)
     \/ /\ crashes = 0 /\ now = 0
        /\ \E m \in C!Modes, k \in FileKeys : \E v \in C!Values(k) : C!Edit(m, k, v)
  /\ UNCHANGED <<accountVars, opened, disk, home>>

(* Mutant: the database is opened before parse_arguments. *)
OpenSettledEarly ==
  /\ C!OpenDatabase /\ phase' = "serving" /\ main' = "opened"
  /\ LET name == IF args > 0 THEN "builtin" ELSE conf.DB_NAME IN
     /\ opened' = name
     /\ disk' = [disk EXCEPT ![opened] = Current, ![name] = NewFile]
     /\ schema' = Content(name).schema /\ admin' = Content(name).admin
     /\ tokens' = Content(name).tokens
  /\ UNCHANGED <<writer, now, crashes, handlerVars, browserVars, home>>

(* Mutant: a new name for the database takes the file along. *)
OpenSettledRename ==
  /\ C!OpenDatabase
  /\ IF phase' = "serving"
     THEN /\ main' = "opened" /\ opened' = conf.DB_NAME
          /\ disk' = [disk EXCEPT ![opened] = NewFile, ![conf.DB_NAME] = NewFile]
          /\ UNCHANGED <<schema, admin, tokens>>
     ELSE UNCHANGED <<main, schema, admin, tokens, opened, disk>>
  /\ UNCHANGED <<writer, now, crashes, handlerVars, browserVars, home>>

(* DBManager db_manger(get_db_file()): the file of this name, or a new one. *)
OpenSettled ==
  /\ C!OpenDatabase
  /\ IF phase' = "serving"
     THEN /\ main' = "opened" /\ opened' = conf.DB_NAME
          /\ disk' = [disk EXCEPT ![opened] = Current, ![conf.DB_NAME] = NewFile]
          /\ schema' = Content(conf.DB_NAME).schema
          /\ admin' = Content(conf.DB_NAME).admin
          /\ tokens' = Content(conf.DB_NAME).tokens
     ELSE UNCHANGED <<main, schema, admin, tokens, opened, disk>>
  /\ UNCHANGED <<writer, now, crashes, handlerVars, browserVars, home>>

(* Bound: browsers come to the starts whose settings are the built-in ones *)
(* but for the two that reach this code, the name of the database and the  *)
(* length of a session.                                                    *)
VisitedSettings ==
  /\ conf.DB_NAME \in Visited /\ conf.LOGIN_EXPIRATION \in Expirations
  /\ \A s \in C!Settings \ {"DB_NAME", "LOGIN_EXPIRATION"} : conf[s] = C!Builtin[s]

(* The process opened its file: m_initialize_database and the handlers,    *)
(* until it ends.                                                          *)
Run ==
  /\ main # "down"
  /\ \/ CheckSchema \/ CreateSchema \/ AddAdmin \/ Crash
     \/ \E h \in Handlers : LoginStep(h) \/ TokenStep(h, conf.LOGIN_EXPIRATION)
     \/ /\ VisitedSettings /\ edits <= VisitedEdits
        /\ \E h \in Handlers, b \in Browsers : Login(h, b) \/ Request(h, b)
  /\ IF main' = "down" THEN C!Exit ELSE UNCHANGED settingVars
  /\ home' = [b \in Browsers |-> IF cookie'[b] # cookie[b] THEN opened ELSE home[b]]
  /\ UNCHANGED <<opened, disk>>

(* Time passes and browsers drop cookies, whether the process runs or not. *)
Outside ==
  /\ Tick \/ \E b \in Browsers : Drop(b)
  /\ UNCHANGED <<settingVars, opened, disk, home>>

StartupNext == Settle \/ OpenSettled \/ Run \/ Outside

StartupSpec == StartupInit /\ [][StartupNext]_startupVars

-----------------------------------------------------------------------------
StartupTypeOK ==
  /\ TypeOK /\ C!TypeOK
  /\ opened \in DbNames /\ home \in [Browsers -> DbNames]
  /\ DOMAIN disk = DbNames
  (* the file opened last is not kept twice *)
  /\ disk[opened] = NewFile
  (* the process has the file its settings name *)
  /\ main # "down" => phase = "serving" /\ opened = conf.DB_NAME

(* A cookie that reached a browser is a row of the file that issued it,    *)
(* whatever crashed since and whichever files were opened: no restart logs *)
(* a user out for good.                                                    *)
CookieIsDurable ==
  \A b \in Browsers : cookie[b] # None => cookie[b] \in Content(home[b]).tokens

(* Two browsers never share a session, though two logins in one second make *)
(* the same token: the one that inserts second into the same file gets none. *)
SessionsAreDistinct ==
  \A b, c \in Browsers :
    cookie[b] # None /\ cookie[b] = cookie[c] /\ home[b] = home[c] => b = c

(* validate_token answers false to no browser before the session that its  *)
(* login began is over by the setting of the start that answers, whatever  *)
(* crashed since, while the process serves the file the login was made in. *)
(* (A look-up that meets a commit gets no answer instead: see LookUp.)     *)
NoSessionRefusedEarly ==
  [][\A h \in Handlers :
       (/\ at[h] # "refused" /\ at'[h] = "refused"
        /\ second[h] = cookie[client[h]] /\ home[client[h]] = opened)
         => now > second[h] + conf.LOGIN_EXPIRATION]_startupVars

(* A session never passes from one database file to another: a file gains  *)
(* a row only while it is the open one, from a login of this process, and  *)
(* none ever loses one, however often names change between starts.         *)
FilesKeepTheirSessions ==
  [][\A n \in DbNames :
       \/ Content(n)'.tokens = Content(n).tokens
       \/ \E h \in Handlers : /\ n = opened /\ n = opened' /\ at[h] = "inserted"
                              /\ Content(n)'.tokens = Content(n).tokens \cup {second[h]}]_startupVars

(* Settings nobody edited and no option changed are those the program was  *)
(* built with, at every start: what a first start writes is what later     *)
(* starts read, and an edit of one line, valid or not, leaves the others   *)
(* alone.                                                                  *)
UntouchedIsBuiltin ==
  [][phase = "down" /\ phase' = "arguments" =>
       \A s \in C!Settings :
         edits = 0 \/ file'[C!Mode(conf)][s] = C!Builtin[s] => conf'[s] = C!Builtin[s]]_startupVars

(* No start serves with a port, a session length or a buffer size out of   *)
(* the limits, whatever was edited and whichever options were given.       *)
NumbersInRange ==
  phase = "serving" => /\ C!Between(conf.PORT, 1024, 65535)
                       /\ C!Between(conf.LOGIN_EXPIRATION, 1800, 172800)
                       /\ C!Between(conf.MAX_REQ_BUF_SIZE, 1024, 172800)
=============================================================================
