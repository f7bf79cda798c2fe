------------------------------ MODULE Accounts ------------------------------
(***************************************************************************)
(* Accounts and sessions: the start of the process up to listening         *)
(* (main.cpp, db_manager.hpp), crashes and restarts of it, and the login   *)
(* and token handlers of auth.cpp on the SQLite file they share.           *)
(*                                                                         *)
(* The one user the program ever creates is admin, so a token, which is    *)
(* user:second:signature, is known by the second it was made in.           *)
(***************************************************************************)
EXTENDS Integers

CONSTANTS Handlers,    (* pool threads                                      *)
          Browsers,
          Instants,    (* bound: the seconds at which something happens     *)
          Expirations, (* values of login_expiration                        *)
          CookieAge,   (* Max-Age of the cookie                             *)
          MaxCrashes,  (* bound: crashes of the process                     *)
          None

ASSUME AccountsAssumption ==
  /\ Instants \subseteq Nat /\ 0 \in Instants
  /\ Expirations \subseteq Nat /\ CookieAge \in Nat /\ MaxCrashes \in Nat
  /\ None \notin Handlers \cup Browsers \cup Instants

VARIABLES
  schema, admin, tokens,  (* the file: tables there, user admin, token rows *)
  writer,    (* the handler whose INSERT holds the write lock of SQLite     *)
  now,       (* time(nullptr)                                               *)
  main,      (* where main() is, "down" when the process is                 *)
  crashes,
  at,        (* where each handler is                                       *)
  client,    (* the browser it serves                                       *)
  second,    (* the second the token it makes or checks was made in         *)
  cookie,    (* each browser: the token of its Authorization cookie         *)
  until      (* and the last second the browser keeps it                    *)

fileVars == <<schema, admin, tokens, writer>>
mainVars == <<main, crashes>>
handlerVars == <<at, client, second>>
browserVars == <<cookie, until>>
vars == <<fileVars, now, mainVars, handlerVars, browserVars>>

TypeOK ==
  /\ schema \in BOOLEAN /\ admin \in BOOLEAN /\ tokens \subseteq Instants
  /\ writer \in Handlers \cup {None}
  /\ now \in Instants
  /\ main \in {"down", "opened", "begun", "committed", "ready"}
  /\ crashes \in 0..MaxCrashes
  /\ at \in [Handlers -> {"idle", "credentials", "stamp", "insert", "inserted", "reply",
                          "lookup", "check", "granted", "refused"}]
  /\ client \in [Handlers -> Browsers \cup {None}]
  /\ second \in [Handlers -> Instants]
  /\ cookie \in [Browsers -> Instants \cup {None}]
  /\ until \in [Browsers -> {0} \cup {t + CookieAge : t \in Instants}]
  (* an open INSERT belongs to a handler that is at it *)
  /\ writer # None => at[writer] = "inserted"

Idle == /\ at' = [h \in Handlers |-> "idle"]
        /\ client' = [h \in Handlers |-> None]
        /\ second' = [h \in Handlers |-> 0]

Init ==
  /\ schema = FALSE /\ admin = FALSE /\ tokens = {} /\ writer = None
  /\ now = 0 /\ main = "down" /\ crashes = 0
  /\ at = [h \in Handlers |-> "idle"]
  /\ client = [h \in Handlers |-> None]
  /\ second = [h \in Handlers |-> 0]
  /\ cookie = [b \in Browsers |-> None]
  /\ until = [b \in Browsers |-> 0]

Tick ==
  /\ \E t \in Instants : now < t /\ now' = t
  /\ UNCHANGED <<fileVars, mainVars, handlerVars, browserVars>>

-----------------------------------------------------------------------------
(* main() and m_initialize_database.                                       *)

OpenDatabase ==
  /\ main = "down" /\ main' = "opened"
  /\ UNCHANGED <<fileVars, now, crashes, handlerVars, browserVars>>

(* m_is_schema_initialized: the table users is there, nothing else to do.  *)
CheckSchema ==
  /\ main = "opened"
  /\ main' = IF schema THEN "ready" ELSE "begun"
  /\ UNCHANGED <<fileVars, now, crashes, handlerVars, browserVars>>

(* The statements run in a transaction: all of them at the COMMIT, or, on  *)
(* a failure, none and an exception that ends the process.                 *)
CreateSchema ==
  /\ main = "begun"
  /\ \/ main' = "committed" /\ schema' = TRUE
     \/ main' = "down" /\ UNCHANGED schema
  /\ UNCHANGED <<admin, tokens, writer, now, crashes, handlerVars, browserVars>>

(* add_user("admin", "admin"), after the COMMIT; it throws if it fails.    *)
AddAdmin ==
  /\ main = "committed"
  /\ \/ main' = "ready" /\ admin' = TRUE
     \/ main' = "down" /\ UNCHANGED admin
  /\ UNCHANGED <<schema, tokens, writer, now, crashes, handlerVars, browserVars>>

(* The process ends, at any time: what SQLite committed stays, an INSERT   *)
(* that was not is rolled back.                                            *)
Crash ==
  /\ main # "down" /\ crashes < MaxCrashes
  /\ main' = "down" /\ crashes' = crashes + 1
  /\ writer' = None /\ Idle
  /\ UNCHANGED <<schema, admin, tokens, now, browserVars>>

-----------------------------------------------------------------------------
(* handle_login and generate_token.                                        *)

Step(h, from, to) == at[h] = from /\ at' = [at EXCEPT ![h] = to]

Fail(h, from) ==     (* an exception, a 403, the end of a request           *)
  /\ at[h] = from
  /\ at' = [at EXCEPT ![h] = "idle"]
  /\ client' = [client EXCEPT ![h] = None]
  /\ second' = [second EXCEPT ![h] = 0]
  /\ UNCHANGED <<now, mainVars, browserVars>>

Login(h, b) ==
  /\ main = "ready" /\ Step(h, "idle", "credentials")
  /\ client' = [client EXCEPT ![h] = b]
  /\ UNCHANGED <<fileVars, now, mainVars, second, browserVars>>

(* While one connection commits, the SELECTs of the others may fail: no    *)
(* busy timeout is set.                                                    *)
Busy(h, from) == writer # None /\ Fail(h, from)

(* validate_user, for a browser that sends the right password.             *)
ValidateUser(h) ==
  /\ \/ /\ admin /\ Step(h, "credentials", "stamp")
        /\ UNCHANGED <<now, mainVars, client, second, browserVars>>
     \/ ~admin /\ Fail(h, "credentials")
     \/ Busy(h, "credentials")
  /\ UNCHANGED fileVars

(* generate_token reads the name of the user, then the clock.              *)
Stamp(h) ==
  /\ \/ /\ Step(h, "stamp", "insert")
        /\ second' = [second EXCEPT ![h] = now]
        /\ UNCHANGED <<now, mainVars, client, browserVars>>
     \/ Busy(h, "stamp")
  /\ UNCHANGED fileVars

(* Mutant: INSERT OR IGNORE. *)
BeginInsertIgnore(h) ==
  /\ at[h] = "insert"
  /\ \/ /\ writer = None
        /\ Step(h, "insert", "inserted") /\ writer' = h
        /\ UNCHANGED <<now, mainVars, client, second, browserVars>>
     \/ /\ writer # None
        /\ Fail(h, "insert") /\ UNCHANGED writer
  /\ UNCHANGED <<schema, admin, tokens>>

(* Mutant: the response goes out, with its cookie, before the COMMIT. *)
BeginInsertReply(h) ==
  /\ at[h] = "insert"
  /\ IF writer = None /\ second[h] \notin tokens
     THEN /\ Step(h, "insert", "inserted") /\ writer' = h
          /\ cookie' = [cookie EXCEPT ![client[h]] = second[h]]
          /\ until' = [until EXCEPT ![client[h]] = now + CookieAge]
          /\ UNCHANGED <<now, mainVars, client, second>>
     ELSE Fail(h, "insert") /\ UNCHANGED writer
  /\ UNCHANGED <<schema, admin, tokens>>

(* sqlite3_step of the INSERT takes the write lock; it fails if the token  *)
(* is there already (PRIMARY KEY) or another connection writes.            *)
BeginInsert(h) ==
  /\ at[h] = "insert"
  /\ \/ /\ writer = None /\ second[h] \notin tokens
        /\ Step(h, "insert", "inserted") /\ writer' = h
        /\ UNCHANGED <<now, mainVars, client, second, browserVars>>
     \/ /\ writer # None \/ second[h] \in tokens
        /\ Fail(h, "insert") /\ UNCHANGED writer
  /\ UNCHANGED <<schema, admin, tokens>>

(* The same sqlite3_step commits: the row is on disk before generate_token *)
(* returns the token.  It fails while another connection reads.            *)
CommitInsert(h) ==
  /\ \/ /\ Step(h, "inserted", "reply")
        /\ tokens' = tokens \cup {second[h]}
        /\ UNCHANGED <<now, mainVars, client, second, browserVars>>
     \/ /\ \E g \in Handlers \ {h} : at[g] \in {"credentials", "stamp", "insert", "lookup", "check"}
        /\ Fail(h, "inserted") /\ UNCHANGED tokens
  /\ writer' = None /\ UNCHANGED <<schema, admin>>

(* The answer reaches the browser, or is lost on the way.                  *)
Reply(h) ==
  /\ Step(h, "reply", "idle")
  /\ \/ /\ cookie' = [cookie EXCEPT ![client[h]] = second[h]]
        /\ until' = [until EXCEPT ![client[h]] = now + CookieAge]
     \/ UNCHANGED browserVars
  /\ client' = [client EXCEPT ![h] = None]
  /\ second' = [second EXCEPT ![h] = 0]
  /\ UNCHANGED <<fileVars, now, mainVars>>

-----------------------------------------------------------------------------
(* validate_token for a request with a cookie.                             *)

HasCookie(b) == cookie[b] # None /\ now <= until[b]

Request(h, b) ==
  /\ main = "ready" /\ HasCookie(b) /\ Step(h, "idle", "lookup")
  /\ client' = [client EXCEPT ![h] = b]
  /\ second' = [second EXCEPT ![h] = cookie[b]]
  /\ UNCHANGED <<fileVars, now, mainVars, browserVars>>

(* The SELECT: no row, no session.  When it fails validate_token throws,   *)
(* and the connection is closed without an answer.                         *)
LookUp(h) ==
  /\ \/ /\ Step(h, "lookup", IF second[h] \in tokens THEN "check" ELSE "refused")
        /\ UNCHANGED <<now, mainVars, client, second, browserVars>>
     \/ Busy(h, "lookup")
  /\ UNCHANGED fileVars

(* Mutant: the last second of the session is lost. *)
CheckStrict(h, expiration) ==
  /\ Step(h, "check", IF now < second[h] + expiration THEN "granted" ELSE "refused")
  /\ UNCHANGED <<fileVars, now, mainVars, client, second, browserVars>>

(* The session lasts as the settings of this start say, not those of the   *)
(* start it began in.                                                      *)
Check(h, expiration) ==
  /\ Step(h, "check", IF now <= second[h] + expiration THEN "granted" ELSE "refused")
  /\ UNCHANGED <<fileVars, now, mainVars, client, second, browserVars>>

(* The request goes on as a user's, or as anybody's.                       *)
Serve(h) == (Fail(h, "granted") \/ Fail(h, "refused")) /\ UNCHANGED fileVars

(* The browser drops a cookie past its Max-Age.                            *)
Drop(b) ==
  /\ cookie[b] # None /\ now > until[b]
  /\ cookie' = [cookie EXCEPT ![b] = None]
  /\ until' = [until EXCEPT ![b] = 0]
  /\ UNCHANGED <<fileVars, now, mainVars, handlerVars>>

-----------------------------------------------------------------------------
StartStep == OpenDatabase \/ CheckSchema \/ CreateSchema \/ AddAdmin
LoginStep(h) == ValidateUser(h) \/ Stamp(h) \/ BeginInsert(h) \/ CommitInsert(h) \/ Reply(h)
TokenStep(h, expiration) == LookUp(h) \/ Check(h, expiration) \/ Serve(h)

Next ==
  \/ Tick \/ Crash \/ StartStep
  \/ \E h \in Handlers : LoginStep(h) \/ \E e \in Expirations : TokenStep(h, e)
  \/ \E h \in Handlers, b \in Browsers : Login(h, b) \/ Request(h, b)
  \/ \E b \in Browsers : Drop(b)

Spec == Init /\ [][Next]_vars

-----------------------------------------------------------------------------
(* "Base de datos ya inicializada." (db_manager.hpp:46): a process that    *)
(* accepts connections has its first user.                                 *)
ReadyHasAdmin == main = "ready" => admin
=============================================================================
