------------------------------- MODULE Console -------------------------------
(***************************************************************************)
(* The console of one instance as the handlers of api.cpp use it: the list *)
(* of players that the polls ask for and read back from the visible pane,  *)
(* and the requests that type commands, one by one, into the same console. *)
(*                                                                         *)
(* What is typed is echoed and stands in line until the server reads it;   *)
(* what the server writes scrolls through a pane of Height rows, a line    *)
(* longer than the session is wide in several, and a pattern finds the     *)
(* oldest row of the pane that matches.  The flags the polls also set are  *)
(* ServerInstance's; here is_booting reads stopping as anything.           *)
(***************************************************************************)
EXTENDS Integers, Sequences, FiniteSets

CONSTANTS Players,
          Height,     (* rows of the pane                                   *)
          Width,      (* names that fit on the row of an answer             *)
          MaxInput,   (* bound: lines typed and not read yet                *)
          Loop,       (* animals or monsters to kill (8, 6)                 *)
          Queries     (* commands of get_world_info_json (5)                *)

ASSUME ConsoleAssumption ==
  /\ IsFiniteSet(Players) /\ Height \in Nat \ {0} /\ Width \in Nat \ {0}
  /\ MaxInput \in Nat \ {0}
  /\ Loop \in Nat \ {0} /\ Queries \in Nat \ {0}

(* What a request of api.cpp does to the console: one command (kick, ban,  *)
(* op, whitelist, reload, setworldspawn...), the same without a "success"  *)
(* in the answer (kill item, save-all, autosave...), a loop over kinds of  *)
(* entities, the queries of world/info, a read of the pane, or nothing.    *)
Kinds == {"command", "unflagged", "loop", "world", "console", "undefined"}
Commands(kind) == CASE kind \in {"command", "unflagged"} -> 1
                    [] kind = "loop" -> Loop
                    [] kind = "world" -> Queries
                    [] kind \in {"console", "undefined"} -> 0

VARIABLES
  server,    (* "none" (no session either), "booting" or "up"               *)
  players,   (* who is online                                               *)
  input,     (* lines typed and not read                                    *)
  pane,      (* what the server wrote last                                  *)
  active,    (* active_users                                                *)
  list,      (* users_list                                                  *)
  at,        (* where the thread that polls is                              *)
  caller,    (* who called the is_running it is in, if it is in one         *)
  op         (* the request of the thread that types commands               *)

worldVars == <<server, players, input, pane>>
shownVars == <<active, list>>
pollVars == <<at, caller>>
vars == <<worldVars, shownVars, pollVars, op>>

Exists == server # "none"                            (* check_session_exists *)

(* A row of the pane: the count and the first names of the answer to a     *)
(* list, as many as fit (one may be cut), or anything else.                *)
ListRow(count, who) == [answer |-> TRUE, count |-> count, who |-> who]
OtherRow == [answer |-> FALSE, count |-> 0, who |-> {}]

(* users_list: the text there is without an answer, names, the next row of *)
(* the console, or nothing.                                                *)
Default == [shows |-> "default", who |-> {}]
Names(who) == [shows |-> "names", who |-> who]
NextLine == [shows |-> "line", who |-> {}]
Nothing == [shows |-> "nothing", who |-> {}]

NoOp == [kind |-> "undefined", at |-> "idle", typed |-> 0, left |-> 0, reply |-> "none"]

TypeOK ==
  /\ server \in {"none", "booting", "up"} /\ players \subseteq Players
  /\ input \in Seq({"list", "other"}) /\ Len(input) <= MaxInput
  /\ Len(pane) <= Height
  /\ active \in -1..Cardinality(Players)
  /\ list \in {Default, NextLine, Nothing} \cup {Names(P) : P \in SUBSET Players}
  /\ at \in {"idle", "send", "read", "update", "boot", "usage",
             "count", "countRead", "list", "listRead"}
  /\ caller \in {"players", "update", "boot"}
  /\ op.kind \in Kinds /\ op.at \in {"idle", "send", "read"}
  /\ op.typed \in 0..Commands(op.kind) /\ op.left \in 0..Commands(op.kind)
  /\ op.reply \in {"none", "success", "failure", "unflagged", "error"}
  (* without a session nothing is typed or shown *)
  /\ ~Exists => input = <<>> /\ pane = <<>>
  (* an answer on the pane was given by a server that is up *)
  /\ server = "booting" => \A i \in DOMAIN pane : ~pane[i].answer
  (* names are never an empty answer *)
  /\ list # Names({})

Init ==
  /\ server \in {"none", "up"} /\ players = {} /\ input = <<>> /\ pane = <<>>
  /\ active = 0 /\ list = Default
  /\ at = "idle" /\ caller = "update"
  /\ op = NoOp

-----------------------------------------------------------------------------
(* The server, the players and tmux.                                       *)

Scroll(row) ==
  LET rows == Append(pane, row)
  IN  pane' = IF Len(rows) > Height THEN Tail(rows) ELSE rows

(* The next line typed is read and answered; the names of a list that do   *)
(* not fit go to rows that no pattern knows (Write).                       *)
Answer ==
  /\ server = "up" /\ input # <<>>
  /\ input' = Tail(input)
  /\ IF Head(input) = "list"
     THEN \E who \in SUBSET players :
            /\ who = players \/ Cardinality(who) = Width
            /\ Cardinality(who) <= Width
            /\ Scroll(ListRow(Cardinality(players), who))
     ELSE Scroll(OtherRow)
  /\ UNCHANGED <<server, players>>

JoinOrLeave ==
  /\ server = "up"
  /\ \E p \in Players : players' = IF p \in players THEN players \ {p} ELSE players \cup {p}
  /\ Scroll(OtherRow)
  /\ UNCHANGED <<server, input>>

(* Chat, warnings, the log of the boot, the rest of a long line, the echo  *)
(* of a line when the server and not the terminal gives it.                *)
Write == Exists /\ Scroll(OtherRow) /\ UNCHANGED <<server, players, input>>

(* start_server, the end of the boot, and the end of server and session.   *)
Starts == ~Exists /\ server' = "booting" /\ UNCHANGED <<players, input, pane>>
Boots == server = "booting" /\ server' = "up" /\ UNCHANGED <<players, input, pane>>
Ends == Exists /\ server' = "none" /\ players' = {} /\ input' = <<>> /\ pane' = <<>>

World ==
  /\ Answer \/ JoinOrLeave \/ Write \/ Starts \/ Boots \/ Ends
  /\ UNCHANGED <<shownVars, pollVars, op>>

(* send_command: a line, entered into an existing session, which echoes it. *)
Type(line) ==
  /\ Len(input) < MaxInput /\ input' = Append(input, line)
  /\ Scroll(OtherRow) \/ UNCHANGED pane
  /\ UNCHANGED <<server, players>>

-----------------------------------------------------------------------------
(* What a poll makes of the pane.                                          *)

Answers == {i \in DOMAIN pane : pane[i].answer}
Oldest == CHOOSE i \in Answers : \A j \in Answers : i <= j

(* regex_count_patterns: -1 when nothing matches.                          *)
CountShown == IF Exists /\ Answers # {} THEN pane[Oldest].count ELSE -1

(* Mutant: the names of an answer are taken whoever it counts. *)
NamesShownAlways ==
  IF ~Exists \/ Answers = {} THEN Default ELSE Names(pane[Oldest].who)

(* regex_list_patterns take what the row has after "players online:" and   *)
(* the blanks; with nobody online these take in the line break, and the    *)
(* list is the next row.                                                   *)
NamesShown ==
  IF ~Exists \/ Answers = {} THEN Default
  ELSE IF pane[Oldest].who # {} THEN Names(pane[Oldest].who)
  ELSE IF Oldest < Len(pane) THEN NextLine ELSE Nothing

-----------------------------------------------------------------------------
(* The thread that polls: get_instance_status or get_list_players, and in  *)
(* them is_running, update_status, is_booting and update_resource_usage.   *)

(* Mutant: with an answer on the pane the list is not asked for again. *)
AskKnown(next) ==
  /\ IF Answers # {} THEN UNCHANGED worldVars ELSE Type("list")
  /\ at' = next

(* send_command("list"), and the sleep before the pane is read.            *)
Ask(next) == Type("list") /\ at' = next

CallIsRunning(who) == at' = "send" /\ caller' = who

(* get_list_players begins with is_running, get_instance_status with       *)
(* update_status.                                                          *)
BeginPoll ==
  /\ at = "idle"
  /\ CallIsRunning("players") \/ (at' = "update" /\ UNCHANGED caller)
  /\ UNCHANGED <<worldVars, shownVars, op>>

(* is_running returns the answer a; is_booting also looks at stopping.     *)
Return(a) ==
  /\ at' \in CASE caller = "players" -> {IF a THEN "update" ELSE "idle"}
               [] caller = "update" -> {IF a THEN "usage" ELSE "boot"}
               [] caller = "boot" -> IF a THEN {"idle"} ELSE {"usage", "idle"}
  /\ caller' = "update"

Send ==
  /\ at = "send"
  /\ IF Exists
     THEN Ask("read") /\ UNCHANGED caller
     ELSE Return(FALSE) /\ UNCHANGED worldVars
  /\ UNCHANGED shownVars

Read ==
  /\ at = "read"
  /\ Return(Exists /\ Answers # {})
  /\ UNCHANGED <<worldVars, shownVars>>

(* update_status; without a session reset_resource_usage.                  *)
Update ==
  /\ at = "update"
  /\ IF Exists
     THEN CallIsRunning("update") /\ UNCHANGED shownVars
     ELSE at' = "idle" /\ active' = 0 /\ list' = Default /\ UNCHANGED caller
  /\ UNCHANGED worldVars

CheckBooting ==
  /\ at = "boot"
  /\ IF Exists THEN CallIsRunning("boot") ELSE at' = "idle" /\ UNCHANGED caller
  /\ UNCHANGED <<worldVars, shownVars>>

(* get_ram_usage and get_cpu_usage: the latter throws when the shell of    *)
(* the session runs no process, yet or any more.                           *)
Usage ==
  /\ at = "usage"
  /\ at' \in {"count"} \cup (IF server # "up" THEN {"idle"} ELSE {})
  /\ UNCHANGED <<worldVars, shownVars, caller>>

(* get_count_players_online, which asks again.                             *)
AskCount ==
  /\ at = "count"
  /\ IF Exists
     THEN Ask("countRead") /\ UNCHANGED active
     ELSE at' = "list" /\ active' = -1 /\ UNCHANGED worldVars
  /\ UNCHANGED <<list, caller>>

ReadCount ==
  /\ at = "countRead" /\ at' = "list"
  /\ active' = CountShown
  /\ UNCHANGED <<worldVars, list, caller>>

(* get_list_players_online, which asks once more.                          *)
AskList ==
  /\ at = "list"
  /\ IF Exists
     THEN Ask("listRead") /\ UNCHANGED list
     ELSE at' = "idle" /\ list' = Default /\ UNCHANGED worldVars
  /\ UNCHANGED <<active, caller>>

ReadList ==
  /\ at = "listRead" /\ at' = "idle"
  /\ list' = NamesShown
  /\ UNCHANGED <<worldVars, active, caller>>

PollStep ==
  /\ Send \/ Read \/ Update \/ CheckBooting \/ Usage
     \/ AskCount \/ ReadCount \/ AskList \/ ReadList
  /\ UNCHANGED op

-----------------------------------------------------------------------------
(* The thread that types commands.                                         *)

Begin(kind) ==
  /\ op.at = "idle"
  /\ op' = [kind |-> kind, typed |-> 0, left |-> Commands(kind),
            at |-> IF Commands(kind) > 0 THEN "send"
                   ELSE IF kind = "console" /\ Exists THEN "read" ELSE "idle",
            reply |-> IF Commands(kind) > 0 \/ (kind = "console" /\ Exists) THEN "none"
                      ELSE "success"]
  /\ UNCHANGED worldVars

(* The answer; only what a success was about is remembered.                *)
Reply(o, r) == IF r = "success" THEN [o EXCEPT !.at = "idle", !.reply = r]
               ELSE [NoOp EXCEPT !.reply = r]

(* Mutant: a loop goes on after a command that could not be sent. *)
SendFailsOn ==
  /\ op.at = "send" /\ ~Exists
  /\ op' = IF op.left > 1 THEN [op EXCEPT !.left = @ - 1]
           ELSE CASE op.kind = "world" -> Reply(op, "unflagged")
                  [] op.kind = "unflagged" -> Reply(op, "unflagged")
                  [] op.kind = "command" -> Reply(op, "failure")
                  [] op.kind = "loop" -> Reply(op, "success")
  /\ UNCHANGED worldVars

(* Without a session: a query leaves its field with an error text and the  *)
(* next one is tried, everything else is answered.                         *)
SendFails ==
  /\ op.at = "send" /\ ~Exists
  /\ op' = CASE op.kind = "world" /\ op.left > 1 -> [op EXCEPT !.left = @ - 1]
             [] op.kind = "world" /\ op.left = 1 -> Reply(op, "unflagged")
             [] op.kind = "unflagged" -> Reply(op, "unflagged")
             [] op.kind \in {"command", "loop"} -> Reply(op, "failure")
  /\ UNCHANGED worldVars

(* send_instance_command, or the send of a query.                          *)
SendCommand ==
  /\ op.at = "send" /\ Exists
  /\ Type("other")
  /\ LET sent == [op EXCEPT !.left = @ - 1, !.typed = @ + 1]
     IN  op' = CASE op.kind = "world" -> [sent EXCEPT !.at = "read"]
                 [] op.kind = "loop" /\ op.left > 1 -> sent
                 [] op.kind = "unflagged" -> Reply(sent, "unflagged")
                 [] OTHER -> Reply(sent, "success")

(* read_output throws without a session.                                   *)
ReadPane ==
  /\ op.at = "read"
  /\ op' = IF ~Exists THEN Reply(op, "error")
           ELSE IF op.kind = "console" THEN Reply(op, "success")
           ELSE IF op.left > 0 THEN [op EXCEPT !.at = "send"] ELSE Reply(op, "unflagged")
  /\ UNCHANGED worldVars

OpStep ==
  /\ (\E kind \in Kinds : Begin(kind)) \/ SendFails \/ SendCommand \/ ReadPane
  /\ UNCHANGED <<shownVars, pollVars>>

Next == World \/ BeginPoll \/ PollStep \/ OpStep

(* The server reads what is typed: nothing else is needed, since nothing   *)
(* below says that somebody polls.                                         *)
Fairness == WF_vars(Answer /\ UNCHANGED <<shownVars, pollVars, op>>)

Spec == Init /\ [][Next]_vars /\ Fairness

-----------------------------------------------------------------------------
(* An answer that says success had each of its commands accepted by tmux,  *)
(* one at a time, whatever happened to the session in between.             *)
AnnouncedIsTyped == op.reply = "success" => op.typed = Commands(op.kind)

(* Old answers fade: a poll may read the answer to an older list, but once *)
(* the same players stay online later polls show their number and their    *)
(* names, as many as fit a row, or nothing, because each poll makes the    *)
(* server write and so pushes older answers out of the pane, however much  *)
(* else is written and echoed.                                             *)
OldAnswersFade ==
  \A P \in SUBSET Players :
    <>[](server = "up" /\ players = P) =>
      <>[][/\ at = "countRead" => active' \in {-1, Cardinality(P)}
           /\ at = "listRead" /\ P # {} =>
                list' \in {Default} \cup {Names(Q) : Q \in SUBSET P \ {{}}}]_pollVars
=============================================================================
