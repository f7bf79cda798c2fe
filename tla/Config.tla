------------------------------- MODULE Config -------------------------------
(***************************************************************************)
(* The settings of the program: the values GlobalConfig is built with, the *)
(* file load_or_create_config writes at a first start and reads at the     *)
(* later ones, the command line over it, and the directory the database is *)
(* opened in, from one start of the process to the next.                   *)
(***************************************************************************)
EXTENDS Integers

CONSTANTS Build,       (* "dev" (compiled with -DDEV) or "prod"             *)
          FileKeys,    (* keys a person edits in the file                   *)
          Options,     (* command line options: [name, value] records       *)
          MaxEdits,    (* bound: edits of a file                            *)
          MaxArgs,     (* bound: options given to one start                 *)
          Absent,      (* a key the file does not have                      *)
          Text         (* a value std::stoi throws on                       *)

Modes == {"dev", "prod"}
Flags == {"DEV_MODE", "DEBUG_MODE", "LOG_MODE"}
Numbers == {"PORT", "MAX_THREADS", "LOGIN_EXPIRATION", "MAX_REQ_BUF_SIZE"}
Names == {"SERVERS_PATH", "DB_NAME", "LOG_FILE"}
Settings == Flags \cup Numbers \cup Names
Keys == Settings \cup {"DB_PATH", "LOG_PATH"}

Between(n, lo, hi) == lo <= n /\ n <= hi

(* What load_or_create_config accepts from the file.                       *)
FileAccepts(s, n) ==
  CASE s = "PORT" -> Between(n, 1024, 65535)
    [] s = "MAX_THREADS" -> Between(n, 2, 8)
    [] OTHER -> Between(n, 1800, 172800)

(* What parse_arguments accepts; -threads is not tested.                   *)
ArgumentAccepts(s, n) ==
  CASE s = "PORT" -> Between(n, 1024, 65535)
    [] s = "MAX_THREADS" -> TRUE
    [] s = "LOGIN_EXPIRATION" -> Between(n, 1800, 172800)
    [] OTHER -> Between(n, 1024, 65536)

(* Values around the limits; a name is the built-in one, one that fits its *)
(* buffer, one that does not, what set_path leaves of that one, or nothing. *)
Values(key) ==
  CASE key \in Flags -> {0, 1, Text}
    [] key = "PORT" -> {1023, 1024, 65535, 65536, Text}
    [] key = "MAX_THREADS" -> {-1, 0, 1, 2, 8, 9}
    [] key = "LOGIN_EXPIRATION" -> {1799, 1800, 172800, 172801}
    [] key = "MAX_REQ_BUF_SIZE" -> {1023, 1024, 1799, 1800, 65536, 65537, 172800, 172801}
    [] OTHER -> {"given", "long"}

ConfigAssumption ==
  /\ Build \in Modes /\ FileKeys \subseteq Keys
  /\ MaxEdits \in Nat /\ MaxArgs \in Nat /\ Absent # "builtin"
  /\ \A o \in Options :
       /\ o.name \in Numbers => o.value \in Int
       /\ o.name \in Names => o.value \in {"given", "long"}

Builtin == [DEV_MODE |-> IF Build = "dev" THEN 1 ELSE 0, DEBUG_MODE |-> 1, LOG_MODE |-> 0,
            PORT |-> 8080, MAX_THREADS |-> 2, LOGIN_EXPIRATION |-> 3600,
            MAX_REQ_BUF_SIZE |-> 8192,
            SERVERS_PATH |-> "builtin", DB_NAME |-> "builtin", LOG_FILE |-> "builtin"]

(* get_base_path: the directory tree follows dev_mode.                     *)
Mode(c) == IF c.DEV_MODE = 1 THEN "dev" ELSE "prod"

SetPath(name) == IF name = "long" THEN "cut" ELSE name

VARIABLES
  main,     (* "down", "arguments" (the file is loaded) or "serving"        *)
  conf,     (* GlobalConfig config                                          *)
  args,     (* options taken in this start                                  *)
  file,     (* atlantis.config in each tree                                 *)
  dirs,     (* trees whose directories were created                         *)
  edits     (* edits of files so far                                        *)

vars == <<main, conf, args, file, dirs, edits>>

TypeOK ==
  /\ main \in {"down", "arguments", "serving"}
  /\ \A s \in Flags : conf[s] \in {0, 1}
  /\ \A s \in Numbers : conf[s] \in Int
  /\ \A s \in Names : conf[s] \in {"builtin", "given", "cut", "empty"}
  /\ args \in 0..MaxArgs /\ edits \in 0..MaxEdits
  /\ dirs \subseteq Modes
  /\ main = "down" => conf = Builtin /\ args = 0
  /\ \A m \in Modes : file[m] # Absent => DOMAIN file[m] = Keys
  (* a tree has a file only if it has its directories *)
  /\ \A m \in Modes : file[m] # Absent => m \in dirs

Init ==
  /\ main = "down" /\ conf = Builtin /\ args = 0 /\ edits = 0
  /\ file = [m \in Modes |-> Absent]
  /\ dirs = {}

-----------------------------------------------------------------------------
(* Mutant: the first start writes what the comments of the file call the   *)
(* default, DEV_MODE=1.                                                    *)
WrittenDev(c) == [k \in Keys |-> IF k = "DEV_MODE" THEN 1
                                 ELSE IF k \in Settings THEN c[k] ELSE Absent]

(* The file a first start writes: a line for every setting.                *)
Written(c) == [k \in Keys |-> IF k \in Settings THEN c[k] ELSE Absent]

Throws(f) == \E k \in Flags \cup Numbers : f[k] = Text

(* Mutant: the loader takes every number. *)
ReadUnchecked(c, f) ==
  [s \in Settings |-> IF s \in Flags \cup Numbers /\ f[s] # Absent THEN f[s] ELSE c[s]]

(* The settings after the file f over c.  A flag is 0 or 1; a number out   *)
(* of its range is ignored; the name of the database is read under the     *)
(* condition that there is a key DB_PATH, the one of the log from LOG_PATH. *)
Read(c, f) ==
  [s \in Settings |->
     IF s \in Flags /\ f[s] # Absent THEN f[s]
     ELSE IF s \in Numbers /\ f[s] # Absent THEN (IF FileAccepts(s, f[s]) THEN f[s] ELSE c[s])
     ELSE IF s = "SERVERS_PATH" /\ f[s] # Absent THEN SetPath(f[s])
     ELSE IF s = "DB_NAME" /\ f["DB_PATH"] # Absent
          THEN (IF f[s] = Absent THEN "empty" ELSE SetPath(f[s]))
     ELSE IF s = "LOG_FILE" /\ f["LOG_PATH"] # Absent THEN SetPath(f["LOG_PATH"])
     ELSE c[s]]

(* main up to load_or_create_config: the directories of the tree of the    *)
(* build, then the file of that tree.                                      *)
Load ==
  LET m == Mode(conf) IN
  /\ main = "down"
  /\ dirs' = dirs \cup {m}
  /\ IF file[m] = Absent
     THEN /\ file' = [file EXCEPT ![m] = Written(conf)]
          /\ main' = "arguments" /\ UNCHANGED conf
     ELSE /\ IF Throws(file[m])
             THEN UNCHANGED <<main, conf>>
             ELSE main' = "arguments" /\ conf' = Read(conf, file[m])
          /\ UNCHANGED file
  /\ UNCHANGED <<args, edits>>

(* The process ends, and its memory with it.                               *)
Down == main' = "down" /\ conf' = Builtin /\ args' = 0

(* One option of parse_arguments.  -config= only renames the file that was *)
(* read before; -help and an unknown option end the process.               *)
Argument(o) ==
  /\ main = "arguments" /\ args < MaxArgs
  /\ IF o.name = "-help" THEN Down ELSE
     /\ args' = args + 1 /\ UNCHANGED main
     /\ conf' = CASE o.name = "-prod" -> [conf EXCEPT !.DEV_MODE = 0]
                  [] o.name = "-nodebug" -> [conf EXCEPT !.DEBUG_MODE = 0]
                  [] o.name = "-logfile" -> [conf EXCEPT !.LOG_MODE = 1]
                  [] o.name \in Numbers ->
                       IF ArgumentAccepts(o.name, o.value) THEN [conf EXCEPT ![o.name] = o.value] ELSE conf
                  [] o.name \in Names -> [conf EXCEPT ![o.name] = SetPath(o.value)]
                  [] OTHER -> conf
  /\ UNCHANGED <<file, dirs, edits>>

(* DBManager opens data/<db_name> in the tree of dev_mode: SQLite creates  *)
(* the file, not the directory, and does not open a directory.             *)
OpenDatabase ==
  /\ main = "arguments"
  /\ IF Mode(conf) \in dirs /\ conf.DB_NAME # "empty"
     THEN main' = "serving" /\ UNCHANGED <<conf, args>>
     ELSE Down
  /\ UNCHANGED <<file, dirs, edits>>

Exit ==
  /\ main = "serving" /\ Down
  /\ UNCHANGED <<file, dirs, edits>>

(* A person changes a line of the file, or adds one, between two starts:   *)
(* a running process reads it no more.                                     *)
Edit(m, k, v) ==
  /\ main = "down" /\ file[m] # Absent /\ edits < MaxEdits
  /\ file' = [file EXCEPT ![m] = [@ EXCEPT ![k] = v]]
  /\ edits' = edits + 1
  /\ UNCHANGED <<main, conf, args, dirs>>

Next ==
  \/ Load \/ OpenDatabase \/ Exit
  \/ \E o \in Options : Argument(o)
  \/ \E m \in Modes, k \in FileKeys : \E v \in Values(k) : Edit(m, k, v)

Spec == Init /\ [][Next]_vars

=============================================================================
