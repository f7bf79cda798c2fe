--------------------------- MODULE ServerInstance ---------------------------
(***************************************************************************)
(* One Minecraft server as ServerInstance.hpp and servers_utils.hpp manage *)
(* it: a tmux session, the server process in it, the three atomic flags    *)
(* the panel shows, the pool threads that poll, start, stop and reboot it, *)
(* the detached threads start_server and stop_server leave behind, and the *)
(* timer with which an open panel asks again (panel.js).                   *)
(*                                                                         *)
(* Every tmux call (has-session, send-keys, capture-pane, new-session) is  *)
(* a step of its own, as is every store that follows one: between two of   *)
(* them other threads run and the server goes on.  The stores of a group   *)
(* (running, booting, stopping one after the other) are one step.          *)
(***************************************************************************)
EXTENDS Naturals

CONSTANTS Handlers,   (* pool threads that serve this instance              *)
          Serves,     (* the requests each of them serves                   *)
          MaxStarters,(* bound: detached start_server threads at a time     *)
          Stoppers,   (* bound: slots for detached stop_server threads      *)
          Operator    (* TRUE: a person also uses tmux on the machine       *)

(* Three requests poll: the status of the instance, that of all of them    *)
(* (get_general_status) and the players.  The second calls is_running,     *)
(* update_status, is_booting and update_status once more; the phases say   *)
(* which of its calls it is in.                                            *)
Polls == {"status", "general", "players"}
Requests == Polls \cup {"start", "stop", "reboot"}
Phases == Requests \cup {"generalBooting", "generalLast"}

ASSUME InstanceAssumption ==
  /\ Serves \in [Handlers -> SUBSET Requests]
  /\ MaxStarters \in Nat \ {0}
  /\ Operator \in BOOLEAN

(* wait_for_termination looks at the session after 30 s and after 40 s of  *)
(* the 50 s it allows.                                                     *)
Looks == (50 - 30) \div 10

VARIABLES
  tmux,      (* the session: "none", "command" (runs the server and ends    *)
             (* with it) or "shell" (opened by a person, outlives servers)  *)
  server,    (* the process: "absent", "booting", "up", "stopping"          *)
  typed,     (* the start command stands on the input line, not entered     *)
  asked,     (* the server has read a "list" it has not answered            *)
  pane,      (* the visible pane shows the answer to a "list"               *)
  running, booting, stopping,          (* the atomics of the instance       *)
  at,        (* where each handler is                                       *)
  request,   (* the request it serves and its phase, "status" when idle     *)
  caller,    (* who called the is_running it is in, if it is in one         *)
  due,       (* a timer of the panel will ask for the status again          *)
  starters,  (* detached threads in wait_for_initialization                 *)
  stopper,   (* where each detached thread in wait_for_termination is       *)
  looks      (* the looks at the session it has left                        *)

flags == <<running, booting, stopping>>
console == <<typed, asked, pane>>
worldVars == <<tmux, server, console>>
waiterVars == <<starters, stopper, looks>>
threadVars == <<at, request, caller>>
vars == <<worldVars, flags, waiterVars, threadVars, due>>

Exists == tmux # "none"                              (* check_session_exists *)

(* instance_status_json: the first flag that is up.                        *)
Status == CASE running -> "running"
            [] ~running /\ booting -> "booting"
            [] ~running /\ ~booting /\ stopping -> "stopping"
            [] OTHER -> "stopped"

TypeOK ==
  /\ tmux \in {"none", "command", "shell"}
  /\ server \in {"absent", "booting", "up", "stopping"}
  /\ <<typed, asked, pane>> \in BOOLEAN \X BOOLEAN \X BOOLEAN
  /\ <<running, booting, stopping>> \in BOOLEAN \X BOOLEAN \X BOOLEAN
  /\ at \in [Handlers -> {"idle", "status", "reset", "list", "read", "mark", "boot",
                          "setBooting", "usage", "answer", "general", "start", "launch",
                          "type", "stop", "sendStop", "markStopping", "verify",
                          "settleThere", "settleGone"}]
  /\ request \in [Handlers -> Phases]
  /\ caller \in [Handlers -> {"status", "boot", "general", "players", "start", "stop"}]
  /\ due \in BOOLEAN
  /\ starters \in 0..MaxStarters
  /\ stopper \in [Stoppers -> {"free", "wait", "isStopped", "clear", "keep"}]
  /\ looks \in [Stoppers -> 0..Looks]
  /\ \A s \in Stoppers : stopper[s] = "wait" => looks[s] > 0
  (* the session and the process agree; a fresh or absent console is clean *)
  /\ tmux = "none" => server = "absent" /\ ~typed
  /\ tmux = "command" => server # "absent"
  /\ server = "absent" => ~asked

(* The constructor polls the instance before anyone can reach it: with no  *)
(* session no flag is up.  It may also find a server that an earlier run of *)
(* the panel, or a person, started.  (An open shell with no server makes   *)
(* get_cpu_usage throw in the constructor: there is no instance then.)     *)
Init ==
  /\ tmux \in {"none", "command"} \cup (IF Operator THEN {"shell"} ELSE {})
  /\ server = IF tmux = "none" THEN "absent" ELSE "up"
  /\ pane = (tmux # "none") /\ running = (tmux # "none") /\ booting = FALSE
  /\ typed = FALSE /\ asked = FALSE /\ stopping = FALSE
  /\ at = [h \in Handlers |-> "idle"]
  /\ request = [h \in Handlers |-> "status"]
  /\ caller = [h \in Handlers |-> "status"]
  /\ starters = 0
  /\ stopper = [s \in Stoppers |-> "free"]
  /\ looks = [s \in Stoppers |-> 0]
  /\ due = FALSE

-----------------------------------------------------------------------------
(* The server and the person at the machine.                               *)

(* The server finishes booting and reads what was entered meanwhile.       *)
Boots ==
  /\ server = "booting" /\ server' = "up"
  /\ UNCHANGED <<tmux, console, flags, waiterVars, threadVars, due>>

Answers ==
  /\ server = "up" /\ asked
  /\ asked' = FALSE /\ pane' = TRUE
  /\ UNCHANGED <<tmux, server, typed, flags, waiterVars, threadVars, due>>

(* Other output pushes the answer out of the visible pane.                 *)
Scrolls ==
  /\ pane /\ pane' = FALSE
  /\ UNCHANGED <<tmux, server, typed, asked, flags, waiterVars, threadVars, due>>

(* The server obeys a stop of the panel, or one typed by a player.         *)
Stops ==
  /\ server = "up" /\ server' = "stopping"
  /\ UNCHANGED <<tmux, console, flags, waiterVars, threadVars, due>>

(* The process ends, in order or by a crash; a session that ran only the   *)
(* server ends with it, and its console with the session.                  *)
Exits ==
  /\ server # "absent" /\ server' = "absent"
  /\ tmux' = IF tmux = "command" THEN "none" ELSE tmux
  /\ asked' = FALSE
  /\ typed' = (typed /\ tmux = "shell")
  /\ pane' = (pane /\ tmux = "shell")
  /\ UNCHANGED <<flags, waiterVars, threadVars, due>>

OpensShell ==
  /\ Operator /\ tmux = "none" /\ tmux' = "shell"
  /\ UNCHANGED <<server, console, flags, waiterVars, threadVars, due>>

StartsByHand ==
  /\ Operator /\ tmux = "shell" /\ server = "absent"
  /\ server' = "booting" /\ typed' = FALSE
  /\ UNCHANGED <<tmux, asked, pane, flags, waiterVars, threadVars, due>>

ClosesShell ==
  /\ Operator /\ tmux = "shell" /\ server = "absent"
  /\ tmux' = "none" /\ typed' = FALSE /\ pane' = FALSE
  /\ UNCHANGED <<server, asked, flags, waiterVars, threadVars, due>>

World == Boots \/ Answers \/ Scrolls \/ Stops \/ Exits
         \/ OpensShell \/ StartsByHand \/ ClosesShell

-----------------------------------------------------------------------------
(* What the handlers and the detached threads do to the console.           *)

(* send-keys of a command and Enter, into an existing session: what was    *)
(* typed before becomes the head of the line, and no one understands it.   *)
Enter(cmd) ==
  /\ typed' = FALSE
  /\ asked' = (asked \/ (cmd = "list" /\ ~typed /\ server # "absent"))
  /\ UNCHANGED <<tmux, server, pane>>

SetFlags(r, b, s) == running' = r /\ booting' = b /\ stopping' = s

(* The next place of h, and the phase of its request; one that is answered *)
(* is over.                                                                *)
GotoIn(h, label, phase) ==
  /\ at' = [at EXCEPT ![h] = label]
  /\ request' = [request EXCEPT ![h] = IF label = "idle" THEN "status" ELSE phase]

Goto(h, label) == GotoIn(h, label, request[h])

(* is_running() called from the function who.                              *)
CallIsRunning(h, who) ==
  /\ Goto(h, "list")
  /\ caller' = [caller EXCEPT ![h] = who]

(* update_status returns: the status is answered with, or the general one  *)
(* goes on to its is_booting.                                              *)
UpdateReturns(h) ==
  CASE request[h] = "status" -> Goto(h, "answer")
    [] request[h] = "general" -> GotoIn(h, "boot", "generalBooting")
    [] OTHER -> Goto(h, "idle")

(* is_booting returns a, to get_general_status or to update_status.        *)
BootingReturns(h, a) ==
  IF request[h] = "generalBooting"
  THEN IF a THEN GotoIn(h, "status", "generalLast") ELSE Goto(h, "idle")
  ELSE IF a THEN Goto(h, "usage") ELSE UpdateReturns(h)

(* is_running returns the answer a: where its caller goes on.              *)
Return(h, a) ==
  /\ caller' = [caller EXCEPT ![h] = "status"]
  /\ CASE caller[h] = "status" -> Goto(h, IF a THEN "usage" ELSE "boot")
       [] caller[h] = "boot" -> IF a THEN BootingReturns(h, FALSE) ELSE Goto(h, "setBooting")
       [] caller[h] = "general" -> IF a THEN Goto(h, "status")
                                        ELSE GotoIn(h, "boot", "generalBooting")
       [] caller[h] = "players" -> Goto(h, IF a THEN "status" ELSE "idle")
       [] caller[h] = "start" -> Goto(h, IF a THEN "idle" ELSE "type")
       [] caller[h] = "stop" -> Goto(h, IF a THEN "sendStop" ELSE "verify")

-----------------------------------------------------------------------------
(* A request, and is_running.                                              *)

(* A click brings a request whenever it likes.  The chains of timers that  *)
(* several clicks start are one here: who asks for the status asks for all. *)
Begin(h, r) ==
  /\ at[h] = "idle" /\ r \in Serves[h]
  /\ request' = [request EXCEPT ![h] = r]
  /\ at' = [at EXCEPT ![h] = CASE r = "reboot" -> "stop"
                                [] r = "players" -> "list"
                                [] OTHER -> r]
  /\ caller' = [caller EXCEPT ![h] = IF r = "players" THEN r ELSE @]
  /\ due' = (due /\ r # "status")
  /\ UNCHANGED <<worldVars, flags, waiterVars>>

(* The timer of ten seconds that updateInstanceStatus has set asks.        *)
Ask(h) == due /\ Begin(h, "status")

(* Mutant: is_running sends "list" with send_raw_key, without Enter. *)
ListNoEnter(h) ==
  /\ at[h] = "list"
  /\ IF Exists
     THEN typed' = TRUE /\ Goto(h, "read") /\ UNCHANGED <<tmux, server, asked, pane, caller>>
     ELSE Return(h, FALSE) /\ UNCHANGED worldVars
  /\ UNCHANGED <<flags, waiterVars, due>>

(* send_command("list") fails without a session.                           *)
List(h) ==
  /\ at[h] = "list"
  /\ IF Exists
     THEN Enter("list") /\ Goto(h, "read") /\ UNCHANGED caller
     ELSE Return(h, FALSE) /\ UNCHANGED worldVars
  /\ UNCHANGED <<flags, waiterVars, due>>

(* 150 ms later: the answer of this list or of an older one, or nothing.   *)
Read(h) ==
  /\ at[h] = "read"
  /\ IF Exists /\ pane THEN Goto(h, "mark") /\ UNCHANGED caller ELSE Return(h, FALSE)
  /\ UNCHANGED <<worldVars, flags, waiterVars, due>>

Mark(h) ==
  /\ at[h] = "mark"
  /\ SetFlags(TRUE, FALSE, FALSE)
  /\ Return(h, TRUE)
  /\ UNCHANGED <<worldVars, waiterVars, due>>

(* update_status.                                                          *)
CheckStatus(h) ==
  /\ at[h] = "status"
  /\ IF Exists
     THEN CallIsRunning(h, "status")
     ELSE Goto(h, "reset") /\ UNCHANGED caller
  /\ UNCHANGED <<worldVars, flags, waiterVars, due>>

(* Mutant: reset_resource_usage clears the counters only. *)
ResetNoFlags(h) ==
  /\ at[h] = "reset"
  /\ UpdateReturns(h)
  /\ UNCHANGED <<worldVars, flags, waiterVars, caller, due>>

Reset(h) ==
  /\ at[h] = "reset"
  /\ SetFlags(FALSE, FALSE, FALSE)
  /\ UpdateReturns(h)
  /\ UNCHANGED <<worldVars, waiterVars, caller, due>>

CheckBooting(h) ==
  /\ at[h] = "boot"
  /\ IF Exists
     THEN CallIsRunning(h, "boot")
     ELSE BootingReturns(h, FALSE) /\ UNCHANGED caller
  /\ UNCHANGED <<worldVars, flags, waiterVars, due>>

(* is_booting: a server that does not answer is booting unless it stops.   *)
SetBooting(h) ==
  /\ at[h] = "setBooting"
  /\ booting' = ~stopping
  /\ BootingReturns(h, ~stopping)
  /\ UNCHANGED <<worldVars, running, stopping, waiterVars, caller, due>>

(* update_resource_usage sends "list" twice more, if there is a session.   *)
Usage(h) ==
  /\ at[h] = "usage"
  /\ IF Exists
     THEN /\ typed' = FALSE
          /\ asked' = (asked \/ server # "absent")
          /\ UNCHANGED <<tmux, server, pane>>
     ELSE UNCHANGED worldVars
  /\ UpdateReturns(h)
  /\ UNCHANGED <<flags, waiterVars, caller, due>>

(* get_cpu_usage throws for want of a child process: the request, whatever *)
(* it was, is answered 500.                                                *)
UsageThrows(h) ==
  /\ at[h] = "usage" /\ server = "absent"
  /\ Goto(h, "idle")
  /\ UNCHANGED <<worldVars, flags, waiterVars, caller, due>>

(* instance_status_json; updateInstanceStatus in the panel sets a timer if *)
(* the answer says booting or stopping, and lets the chain end otherwise.  *)
Answer(h) ==
  /\ at[h] = "answer"
  /\ due' = (Status \in {"booting", "stopping"})
  /\ Goto(h, "idle")
  /\ UNCHANGED <<worldVars, flags, waiterVars, caller>>

(* get_general_status passes over an instance that has no session, and     *)
(* leaves its flags as they are.                                           *)
CheckGeneral(h) ==
  /\ at[h] = "general"
  /\ IF Exists
     THEN CallIsRunning(h, "general")
     ELSE Goto(h, "idle") /\ UNCHANGED caller
  /\ UNCHANGED <<worldVars, flags, waiterVars, due>>

-----------------------------------------------------------------------------
(* start_server, and the thread it detaches.                               *)

CheckStart(h) ==
  /\ at[h] = "start"
  /\ IF Exists
     THEN CallIsRunning(h, "start")
     ELSE Goto(h, "launch") /\ UNCHANGED caller
  /\ UNCHANGED <<worldVars, flags, waiterVars, due>>

(* new-session runs the server; it fails if the session exists by now.     *)
Launch(h) ==
  /\ at[h] = "launch" /\ starters < MaxStarters
  /\ Goto(h, "idle")
  /\ IF Exists
     THEN UNCHANGED <<worldVars, starters>>
     ELSE /\ tmux' = "command" /\ server' = "booting"
          /\ starters' = starters + 1
          /\ UNCHANGED console
  /\ UNCHANGED <<flags, stopper, looks, caller, due>>

(* A session whose server does not answer: send-keys without Enter.        *)
Type(h) ==
  /\ at[h] = "type" /\ starters < MaxStarters
  /\ Goto(h, "idle")
  /\ IF Exists
     THEN typed' = TRUE /\ starters' = starters + 1
     ELSE UNCHANGED <<typed, starters>>
  /\ UNCHANGED <<tmux, server, asked, pane, flags, stopper, looks, caller, due>>

(* No handler is between a look at tmux and the store that follows from it: *)
(* that takes microseconds, and the detached threads sleep for many seconds. *)
NoStoreDue == \A h \in Handlers : at[h] \notin {"mark", "settleGone"}

(* Mutant: the thread only logs what wait_for_initialization returned. *)
GiveUpNoStore ==
  /\ starters > 0 /\ NoStoreDue
  /\ starters' = starters - 1
  /\ UNCHANGED <<worldVars, flags, stopper, looks, threadVars, due>>

(* wait_for_initialization sleeps 160 s of the 120 s it allows: it never   *)
(* looks at the server and returns false, which goes into running.         *)
GiveUp ==
  /\ starters > 0 /\ NoStoreDue
  /\ starters' = starters - 1
  /\ running' = FALSE
  /\ UNCHANGED <<worldVars, booting, stopping, stopper, looks, threadVars, due>>

-----------------------------------------------------------------------------
(* stop_server, and the thread it detaches.                                *)

(* Mutant: stop_server does not ask is_running before it sends "stop". *)
CheckStopOnly(h) ==
  /\ at[h] = "stop"
  /\ Goto(h, IF Exists THEN "sendStop" ELSE "verify")
  /\ UNCHANGED <<worldVars, flags, waiterVars, caller, due>>

CheckStop(h) ==
  /\ at[h] = "stop"
  /\ IF Exists
     THEN CallIsRunning(h, "stop")
     ELSE Goto(h, "verify") /\ UNCHANGED caller
  /\ UNCHANGED <<worldVars, flags, waiterVars, due>>

SendStop(h) ==
  /\ at[h] = "sendStop"
  /\ IF Exists
     THEN \E s \in Stoppers :
            /\ stopper[s] = "free"
            /\ stopper' = [stopper EXCEPT ![s] = "wait"]
            /\ looks' = [looks EXCEPT ![s] = Looks]
            /\ Enter("stop")
            /\ Goto(h, "markStopping")
     ELSE Goto(h, "verify") /\ UNCHANGED <<worldVars, stopper, looks>>
  /\ UNCHANGED <<flags, starters, caller, due>>

MarkStopping(h) ==
  /\ at[h] = "markStopping"
  /\ stopping' = TRUE
  /\ Goto(h, "verify")
  /\ UNCHANGED <<worldVars, running, booting, waiterVars, caller, due>>

(* success = check_session_exists(), whatever was done before.             *)
Verify(h) ==
  /\ at[h] = "verify"
  /\ Goto(h, IF Exists THEN "settleThere" ELSE "settleGone")
  /\ UNCHANGED <<worldVars, flags, waiterVars, caller, due>>

(* running = success ? false : true; a reboot goes on if success.          *)
Settle(h) ==
  /\ \/ /\ at[h] = "settleThere" /\ running' = FALSE
        /\ Goto(h, IF request[h] = "reboot" THEN "start" ELSE "idle")
     \/ /\ at[h] = "settleGone" /\ running' = TRUE
        /\ Goto(h, "idle")
  /\ UNCHANGED <<worldVars, booting, stopping, waiterVars, caller, due>>

(* wait_for_termination: a look at the session, a second one in is_stopped *)
(* if it is there, and the stores that follow; then it sleeps again, unless *)
(* its time is over.                                                       *)
Look(s) ==
  /\ stopper[s] = "wait" /\ NoStoreDue
  /\ stopper' = [stopper EXCEPT ![s] = IF Exists THEN "isStopped" ELSE "clear"]
  /\ looks' = [looks EXCEPT ![s] = IF Exists THEN @ - 1 ELSE 0]
  /\ UNCHANGED <<worldVars, flags, starters, threadVars, due>>

LookAgain(s) ==
  /\ stopper[s] = "isStopped"
  /\ stopper' = [stopper EXCEPT ![s] = IF Exists THEN "keep" ELSE "clear"]
  /\ looks' = [looks EXCEPT ![s] = IF Exists THEN @ ELSE 0]
  /\ UNCHANGED <<worldVars, flags, starters, threadVars, due>>

(* Mutant: wait_for_termination has no time limit. *)
ConcludeForEver(s) ==
  /\ \/ stopper[s] = "clear" /\ SetFlags(FALSE, FALSE, FALSE)
     \/ stopper[s] = "keep" /\ SetFlags(FALSE, FALSE, TRUE)
  /\ stopper' = [stopper EXCEPT ![s] = IF @ = "clear" THEN "free" ELSE "wait"]
  /\ UNCHANGED <<worldVars, starters, looks, threadVars, due>>

Conclude(s) ==
  /\ \/ stopper[s] = "clear" /\ SetFlags(FALSE, FALSE, FALSE)
     \/ stopper[s] = "keep" /\ SetFlags(FALSE, FALSE, TRUE)
  /\ stopper' = [stopper EXCEPT ![s] = IF looks[s] = 0 THEN "free" ELSE "wait"]
  /\ UNCHANGED <<worldVars, starters, looks, threadVars, due>>

-----------------------------------------------------------------------------
IsRunningStep(h) == List(h) \/ Read(h) \/ Mark(h)
StatusStep(h) == CheckStatus(h) \/ Reset(h) \/ CheckBooting(h) \/ SetBooting(h)
                 \/ Usage(h) \/ UsageThrows(h) \/ Answer(h) \/ CheckGeneral(h)
StartStep(h) == CheckStart(h) \/ Launch(h) \/ Type(h)
StopStep(h) == CheckStop(h) \/ SendStop(h) \/ MarkStopping(h) \/ Verify(h) \/ Settle(h)

HandlerStep(h) == IsRunningStep(h) \/ StatusStep(h) \/ StartStep(h) \/ StopStep(h)
StopperStep(s) == Look(s) \/ LookAgain(s) \/ Conclude(s)

Next ==
  \/ World
  \/ GiveUp
  \/ \E h \in Handlers : HandlerStep(h) \/ \E r \in Requests : Begin(h, r)
  \/ \E s \in Stoppers : StopperStep(s)

Pollers == {h \in Handlers : "status" \in Serves[h]}

(* Threads run on; a server that runs answers its console; what a timer of *)
(* the panel asks is served, however many other requests are served before *)
(* it (the pool is a queue).  No one has to click, the panel asks no more  *)
(* when its chain of timers has ended, and a server may boot, stop or hang *)
(* for ever.                                                               *)
Fairness ==
  /\ WF_vars(GiveUp) /\ WF_vars(Answers)
  /\ \A h \in Handlers : WF_vars(HandlerStep(h))
  /\ \A h \in Pollers : SF_vars(Ask(h))
  /\ \A s \in Stoppers : WF_vars(StopperStep(s))

SafeSpec == Init /\ [][Next]_vars
Spec == SafeSpec /\ Fairness

-----------------------------------------------------------------------------
(* Every handler only polls.                                               *)
OnlyPolls == \A h \in Handlers : request[h] \notin {"start", "stop", "reboot"}

(* The answers to /api/instance/status say what, from some time on.        *)
AnswersSettle(what) ==
  <>[][\A h \in Handlers : at[h] = "answer" /\ at'[h] = "idle" => Status = what]_vars

(* Once a session is gone for good, the chain of timers of the panel comes *)
(* to its end, and whoever asks for the status of the instance from then   *)
(* on hears that it is stopped: whatever stops, starts and polls were      *)
(* under way when it went, and however late the detached threads wake up,  *)
(* no flag they raise outlives the update_status of the next request.      *)
StoppedIsShown ==
  <>[](tmux = "none" /\ OnlyPolls) => <>[]~due /\ AnswersSettle("stopped")

(* Once a server answers for good, the chain of timers comes to its end,   *)
(* and whoever asks from then on hears that it runs: though                *)
(* wait_for_initialization lowers running long after it was up, and though *)
(* a start request may have left text on its console that spoils the next  *)
(* "list".  (The console is quiet enough for the answer to be read.)       *)
UpIsShown ==
  <>[](server = "up" /\ OnlyPolls) /\ <>[][pane => pane']_vars
    => <>[]~due /\ AnswersSettle("running")

(* A server the panel launched that never finishes booting is not shown as *)
(* running for ever: a poll that gets no answer leaves the flag as it is,  *)
(* and a stop of a stopped server has raised it; only the thread of        *)
(* start_server takes it down again.                                       *)
BootingIsNotShownRunning ==
  <>[](server = "booting" /\ tmux = "command" /\ OnlyPolls) => <>[](Status # "running")

(* A stop that stop_server follows up has reached the server: nothing is   *)
(* left on the input line to spoil it, because the "list" of is_running    *)
(* has just flushed it.  (With one handler that acts while others poll.)   *)
StopIsHeard ==
  [][\A h \in Handlers : at[h] = "sendStop" /\ at'[h] = "markStopping" => ~typed]_vars

(* start_server answers "El servidor está inicializando." when it has      *)
(* detached its thread: the server boots, then.                            *)
AnnouncedStartBoots == [][starters' > starters => server' = "booting"]_vars
=============================================================================
