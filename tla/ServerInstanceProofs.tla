----------------------- MODULE ServerInstanceProofs -----------------------
(***************************************************************************)
(* Proofs about ServerInstance: the types of its state with what ties the  *)
(* session to the process, and that a stop is never sent into a line that  *)
(* something else was typed on, whatever the handlers that poll and the    *)
(* detached threads do meanwhile.                                          *)
(***************************************************************************)
EXTENDS ServerInstance, TLAPS

LEMMA LooksNat == Looks \in Nat
  BY DEF Looks

(* Init establishes TypeOK (the constructor of ServerInstance).            *)
LEMMA InitTypeOK == Init => TypeOK
<1> SUFFICES ASSUME Init PROVE TypeOK
  OBVIOUS
<1>1. /\ tmux \in {"none", "command", "shell"}
      /\ server \in {"absent", "booting", "up", "stopping"}
      /\ tmux = "none" => server = "absent" /\ ~typed
      /\ tmux = "command" => server # "absent"
      /\ server = "absent" => ~asked
  BY DEF Init
<1>2. /\ <<typed, asked, pane>> \in BOOLEAN \X BOOLEAN \X BOOLEAN
      /\ <<running, booting, stopping>> \in BOOLEAN \X BOOLEAN \X BOOLEAN
  BY DEF Init
<1>3. /\ at \in [Handlers -> {"idle"}]
      /\ request \in [Handlers -> Phases]
      /\ caller \in [Handlers -> {"status", "boot", "general", "players", "start", "stop"}]
      /\ due \in BOOLEAN
  BY DEF Init, Phases, Requests, Polls
<1>4. /\ starters \in 0..MaxStarters
      /\ stopper \in [Stoppers -> {"free", "wait", "isStopped", "clear", "keep"}]
      /\ looks \in [Stoppers -> 0..Looks]
      /\ \A s \in Stoppers : stopper[s] = "wait" => looks[s] > 0
  BY InstanceAssumption, LooksNat DEF Init
<1> QED
  BY <1>1, <1>2, <1>3, <1>4 DEF TypeOK

(* The parts of TypeOK a step can disturb one at a time.                   *)
WorldOK ==
  /\ tmux \in {"none", "command", "shell"}
  /\ server \in {"absent", "booting", "up", "stopping"}
  /\ <<typed, asked, pane>> \in BOOLEAN \X BOOLEAN \X BOOLEAN
  /\ tmux = "none" => server = "absent" /\ ~typed
  /\ tmux = "command" => server # "absent"
  /\ server = "absent" => ~asked

FlagsOK ==
  /\ <<running, booting, stopping>> \in BOOLEAN \X BOOLEAN \X BOOLEAN
  /\ due \in BOOLEAN

ThreadsOK ==
  /\ at \in [Handlers -> {"idle", "status", "reset", "list", "read", "mark", "boot",
                          "setBooting", "usage", "answer", "general", "start", "launch",
                          "type", "stop", "sendStop", "markStopping", "verify",
                          "settleThere", "settleGone"}]
  /\ request \in [Handlers -> Phases]
  /\ caller \in [Handlers -> {"status", "boot", "general", "players", "start", "stop"}]

WaitersOK ==
  /\ starters \in 0..MaxStarters
  /\ stopper \in [Stoppers -> {"free", "wait", "isStopped", "clear", "keep"}]
  /\ looks \in [Stoppers -> 0..Looks]
  /\ \A s \in Stoppers : stopper[s] = "wait" => looks[s] > 0

LEMMA TypeOKParts == TypeOK <=> WorldOK /\ FlagsOK /\ ThreadsOK /\ WaitersOK
  BY DEF TypeOK, WorldOK, FlagsOK, ThreadsOK, WaitersOK

Labels == {"idle", "status", "reset", "list", "read", "mark", "boot", "setBooting", "usage",
           "answer", "general", "start", "launch", "type", "stop", "sendStop", "markStopping",
           "verify", "settleThere", "settleGone"}
Callers == {"status", "boot", "general", "players", "start", "stop"}

LEMMA GotoInType ==
  ASSUME ThreadsOK, NEW h \in Handlers, NEW label \in Labels, NEW phase \in Phases,
         GotoIn(h, label, phase)
  PROVE  /\ at' \in [Handlers -> Labels]
         /\ request' \in [Handlers -> Phases]
<1>1. "status" \in Phases
  BY DEF Phases, Requests, Polls
<1> QED
  BY <1>1 DEF ThreadsOK, GotoIn, Labels

LEMMA GotoType ==
  ASSUME ThreadsOK, NEW h \in Handlers, NEW label \in Labels, Goto(h, label)
  PROVE  /\ at' \in [Handlers -> Labels]
         /\ request' \in [Handlers -> Phases]
<1>1. request[h] \in Phases
  BY DEF ThreadsOK
<1> QED
  BY <1>1, GotoInType DEF Goto

(* Every return of a function called leads to a label.                     *)
LEMMA ReturnsTypes ==
  ASSUME ThreadsOK, NEW h \in Handlers,
         UpdateReturns(h) \/ \E a \in BOOLEAN : BootingReturns(h, a)
  PROVE  /\ at' \in [Handlers -> Labels]
         /\ request' \in [Handlers -> Phases]
<1>1. PICK label \in Labels, phase \in Phases : GotoIn(h, label, phase)
  <2>1. request[h] \in Phases /\ "generalBooting" \in Phases /\ "generalLast" \in Phases
    BY DEF ThreadsOK, Phases
  <2>2. CASE UpdateReturns(h)
    BY <2>1, <2>2 DEF UpdateReturns, Goto, Labels
  <2>3. ASSUME NEW a \in BOOLEAN, BootingReturns(h, a)
        PROVE  \E label \in Labels, phase \in Phases : GotoIn(h, label, phase)
    BY <2>1, <2>2, <2>3 DEF BootingReturns, UpdateReturns, Goto, Labels
  <2> QED
    BY <2>2, <2>3, <2>1 DEF UpdateReturns, Goto, Labels
<1> QED
  BY <1>1, GotoInType

LEMMA ReturnType ==
  ASSUME ThreadsOK, NEW h \in Handlers, NEW a \in BOOLEAN, Return(h, a)
  PROVE  ThreadsOK'
<1>1. caller[h] \in Callers
  BY DEF ThreadsOK, Callers
<1>2. /\ at' \in [Handlers -> Labels]
      /\ request' \in [Handlers -> Phases]
  <2>1. CASE \E label \in Labels : Goto(h, label)
    BY <2>1, GotoType
  <2>2. CASE BootingReturns(h, FALSE)
    BY <2>2, ReturnsTypes
  <2>3. CASE GotoIn(h, "boot", "generalBooting")
    BY <2>3, GotoInType DEF Labels, Phases
  <2> QED
    BY <1>1, <2>1, <2>2, <2>3 DEF Return, Labels, Callers
<1>3. caller' \in [Handlers -> Callers]
  BY DEF ThreadsOK, Return, Callers
<1> QED
  BY <1>2, <1>3 DEF ThreadsOK, Labels, Callers

LEMMA CallType ==
  ASSUME ThreadsOK, NEW h \in Handlers, NEW who \in Callers, CallIsRunning(h, who)
  PROVE  ThreadsOK'
<1>1. "list" \in Labels
  BY DEF Labels
<1>2. caller' \in [Handlers -> Callers]
  BY DEF ThreadsOK, CallIsRunning, Callers
<1> QED
  BY <1>1, <1>2, GotoType DEF ThreadsOK, CallIsRunning, Labels, Callers

LEMMA ReturnsType ==
  ASSUME ThreadsOK, NEW h \in Handlers,
         UpdateReturns(h) \/ \E a \in BOOLEAN : BootingReturns(h, a), UNCHANGED caller
  PROVE  ThreadsOK'
  BY ReturnsTypes DEF ThreadsOK, Labels

LEMMA StayType ==
  ASSUME ThreadsOK, NEW h \in Handlers, NEW label \in Labels, Goto(h, label), UNCHANGED caller
  PROVE  ThreadsOK'
  BY GotoType DEF ThreadsOK, Labels

LEMMA EnterType ==
  ASSUME WorldOK, Exists, NEW cmd, Enter(cmd)
  PROVE  WorldOK'
<1>1. /\ typed' = FALSE /\ asked' \in BOOLEAN /\ pane' \in BOOLEAN
      /\ server = "absent" => asked' = asked
      /\ tmux' = tmux /\ server' = server
  BY Zenon DEF WorldOK, Enter
<1> QED
  BY <1>1 DEF WorldOK, Exists

(* Each step of the server, of the person and of tmux keeps the session,   *)
(* the process and the console in agreement.                               *)
LEMMA WorldType ==
  ASSUME TypeOK, World
  PROVE  TypeOK'
<1>1. WorldOK /\ FlagsOK /\ ThreadsOK /\ WaitersOK
  BY TypeOKParts
<1>2. UNCHANGED <<flags, waiterVars, threadVars, due>>
  BY DEF World, Boots, Answers, Scrolls, Stops, Exits, OpensShell, StartsByHand, ClosesShell
<1>3. FlagsOK' /\ ThreadsOK' /\ WaitersOK'
  BY <1>1, <1>2 DEF FlagsOK, ThreadsOK, WaitersOK, flags, waiterVars, threadVars
<1>4. WorldOK'
  <2>1. CASE Boots
    BY <1>1, <2>1 DEF WorldOK, Boots, console
  <2>2. CASE Answers
    BY <1>1, <2>2 DEF WorldOK, Answers
  <2>3. CASE Scrolls
    BY <1>1, <2>3 DEF WorldOK, Scrolls
  <2>4. CASE Stops
    BY <1>1, <2>4 DEF WorldOK, Stops, console
  <2>5. CASE Exits
    <3>1. /\ server' = "absent" /\ ~asked'
          /\ tmux' \in {"none", "shell"}
          /\ tmux' = "none" => ~typed'
          /\ typed' \in BOOLEAN /\ asked' \in BOOLEAN /\ pane' \in BOOLEAN
      BY <1>1, <2>5 DEF WorldOK, Exits
    <3> QED
      BY <3>1 DEF WorldOK
  <2>6. CASE OpensShell
    BY <1>1, <2>6 DEF WorldOK, OpensShell, console
  <2>7. CASE StartsByHand
    BY <1>1, <2>7 DEF WorldOK, StartsByHand
  <2>8. CASE ClosesShell
    BY <1>1, <2>8 DEF WorldOK, ClosesShell
  <2> QED
    BY <2>1, <2>2, <2>3, <2>4, <2>5, <2>6, <2>7, <2>8 DEF World
<1> QED
  BY <1>3, <1>4 DEF TypeOK, WorldOK, FlagsOK, ThreadsOK, WaitersOK

LEMMA IsRunningType ==
  ASSUME TypeOK, NEW h \in Handlers, IsRunningStep(h)
  PROVE  TypeOK'
<1>1. WorldOK /\ FlagsOK /\ ThreadsOK /\ WaitersOK
  BY TypeOKParts
<1>2. WaitersOK'
  BY <1>1 DEF IsRunningStep, List, Read, Mark, WaitersOK, waiterVars
<1>3. CASE List(h)
  <2>1. FlagsOK'
    BY <1>1, <1>3 DEF List, FlagsOK, flags
  <2>2. CASE Exists
    <3>1. WorldOK'
      BY <1>1, <1>3, <2>2, EnterType DEF List
    <3>2. ThreadsOK'
      BY <1>1, <1>3, <2>2, StayType DEF List, Labels
    <3> QED
      BY <1>2, <2>1, <3>1, <3>2 DEF TypeOK, WorldOK, FlagsOK, ThreadsOK, WaitersOK
  <2>3. CASE ~Exists
    <3>1. WorldOK'
      BY <1>1, <1>3, <2>3 DEF List, WorldOK, worldVars, console
    <3>2. ThreadsOK'
      BY <1>1, <1>3, <2>3, ReturnType DEF List
    <3> QED
      BY <1>2, <2>1, <3>1, <3>2 DEF TypeOK, WorldOK, FlagsOK, ThreadsOK, WaitersOK
  <2> QED
    BY <2>2, <2>3
<1>4. CASE Read(h)
  <2>1. WorldOK' /\ FlagsOK'
    BY <1>1, <1>4 DEF Read, WorldOK, FlagsOK, worldVars, console, flags
  <2>2. ThreadsOK'
    <3>1. CASE Exists /\ pane
      BY <1>1, <1>4, <3>1, StayType DEF Read, Labels
    <3>2. CASE ~(Exists /\ pane)
      BY <1>1, <1>4, <3>2, ReturnType DEF Read
    <3> QED
      BY <3>1, <3>2
  <2> QED
    BY <1>2, <2>1, <2>2 DEF TypeOK, WorldOK, FlagsOK, ThreadsOK, WaitersOK
<1>5. CASE Mark(h)
  <2>1. WorldOK' /\ FlagsOK'
    BY <1>1, <1>5 DEF Mark, WorldOK, FlagsOK, worldVars, console, SetFlags
  <2>2. ThreadsOK'
    BY <1>1, <1>5, ReturnType DEF Mark
  <2> QED
    BY <1>2, <2>1, <2>2 DEF TypeOK, WorldOK, FlagsOK, ThreadsOK, WaitersOK
<1> QED
  BY <1>3, <1>4, <1>5 DEF IsRunningStep

LEMMA StatusType ==
  ASSUME TypeOK, NEW h \in Handlers, StatusStep(h)
  PROVE  TypeOK'
<1>1. WorldOK /\ FlagsOK /\ ThreadsOK /\ WaitersOK
  BY TypeOKParts
<1>2. WaitersOK'
  BY <1>1 DEF StatusStep, CheckStatus, Reset, CheckBooting, SetBooting, Usage, UsageThrows,
              Answer, CheckGeneral, WaitersOK, waiterVars
<1>3. ThreadsOK'
  <2>1. CASE CheckStatus(h)
    BY <1>1, <2>1, CallType, StayType DEF CheckStatus, Labels, Callers
  <2>2. CASE Reset(h)
    BY <1>1, <2>2, ReturnsType DEF Reset
  <2>3. CASE CheckBooting(h)
    BY <1>1, <2>3, CallType, ReturnsType DEF CheckBooting, Callers
  <2>4. CASE SetBooting(h)
    BY <1>1, <2>4, ReturnsType DEF SetBooting
  <2>5. CASE Usage(h)
    BY <1>1, <2>5, ReturnsType DEF Usage
  <2>6. CASE UsageThrows(h)
    BY <1>1, <2>6, StayType DEF UsageThrows, Labels
  <2>7. CASE Answer(h)
    BY <1>1, <2>7, StayType DEF Answer, Labels
  <2>8. CASE CheckGeneral(h)
    BY <1>1, <2>8, CallType, StayType DEF CheckGeneral, Labels, Callers
  <2> QED
    BY <2>1, <2>2, <2>3, <2>4, <2>5, <2>6, <2>7, <2>8 DEF StatusStep
<1>4. FlagsOK'
  <2>1. running' \in BOOLEAN /\ booting' \in BOOLEAN /\ stopping' \in BOOLEAN
    BY <1>1 DEF StatusStep, CheckStatus, Reset, CheckBooting, SetBooting, Usage, UsageThrows,
                Answer, CheckGeneral, FlagsOK, flags, SetFlags
  <2>2. due' \in BOOLEAN
    <3>1. CASE Answer(h)
      BY <3>1 DEF Answer
    <3>2. CASE UNCHANGED due
      BY <1>1, <3>2 DEF FlagsOK
    <3> QED
      BY <3>1, <3>2 DEF StatusStep, CheckStatus, Reset, CheckBooting, SetBooting, Usage,
                        UsageThrows, CheckGeneral
  <2> QED
    BY <2>1, <2>2 DEF FlagsOK
<1>5. WorldOK'
  <2>1. CASE UNCHANGED worldVars
    BY <1>1, <2>1 DEF WorldOK, worldVars, console
  <2>2. CASE Usage(h) /\ ~UNCHANGED worldVars
    <3>1. /\ Exists /\ typed' = FALSE /\ asked' \in BOOLEAN /\ pane' \in BOOLEAN
          /\ server = "absent" => ~asked'
          /\ tmux' = tmux /\ server' = server
      BY <1>1, <2>2 DEF Usage, WorldOK
    <3> QED
      BY <1>1, <3>1 DEF WorldOK, Exists
  <2> QED
    BY <2>1, <2>2 DEF StatusStep, CheckStatus, Reset, CheckBooting, SetBooting, UsageThrows,
                      Answer, CheckGeneral
<1> QED
  BY <1>2, <1>3, <1>4, <1>5 DEF TypeOK, WorldOK, FlagsOK, ThreadsOK, WaitersOK

LEMMA StartType ==
  ASSUME TypeOK, NEW h \in Handlers, StartStep(h)
  PROVE  TypeOK'
<1>1. WorldOK /\ FlagsOK /\ ThreadsOK /\ WaitersOK
  BY TypeOKParts
<1>2. FlagsOK'
  BY <1>1 DEF StartStep, CheckStart, Launch, Type, FlagsOK, flags
<1>3. ThreadsOK'
  <2>1. CASE CheckStart(h)
    BY <1>1, <2>1, CallType, StayType DEF CheckStart, Labels, Callers
  <2>2. CASE Launch(h)
    BY <1>1, <2>2, StayType DEF Launch, Labels
  <2>3. CASE Type(h)
    BY <1>1, <2>3, StayType DEF Type, Labels
  <2> QED
    BY <2>1, <2>2, <2>3 DEF StartStep
<1>4. WaitersOK'
  BY <1>1, InstanceAssumption DEF StartStep, CheckStart, Launch, Type, WaitersOK, waiterVars
<1>5. WorldOK'
  <2>1. CASE UNCHANGED worldVars
    BY <1>1, <2>1 DEF WorldOK, worldVars, console
  <2>2. CASE Launch(h) /\ ~UNCHANGED worldVars
    BY <1>1, <2>2 DEF Launch, WorldOK, Exists, console
  <2>3. CASE Type(h) /\ Exists
    BY <1>1, <2>3 DEF Type, WorldOK, Exists
  <2>4. CASE Type(h) /\ ~Exists
    BY <1>1, <2>4 DEF Type, WorldOK
  <2> QED
    BY <2>1, <2>2, <2>3, <2>4 DEF StartStep, CheckStart
<1> QED
  BY <1>2, <1>3, <1>4, <1>5 DEF TypeOK, WorldOK, FlagsOK, ThreadsOK, WaitersOK

LEMMA StopType ==
  ASSUME TypeOK, NEW h \in Handlers, StopStep(h)
  PROVE  TypeOK'
<1>1. WorldOK /\ FlagsOK /\ ThreadsOK /\ WaitersOK
  BY TypeOKParts
<1>2. FlagsOK'
  BY <1>1 DEF StopStep, CheckStop, SendStop, MarkStopping, Verify, Settle, FlagsOK, flags
<1>3. ThreadsOK'
  <2>1. CASE CheckStop(h)
    BY <1>1, <2>1, CallType, StayType DEF CheckStop, Labels, Callers
  <2>2. CASE SendStop(h)
    <3>1. PICK label \in Labels : Goto(h, label)
      BY <2>2 DEF SendStop, Labels
    <3> QED
      BY <1>1, <2>2, <3>1, StayType DEF SendStop
  <2>3. CASE MarkStopping(h)
    BY <1>1, <2>3, StayType DEF MarkStopping, Labels
  <2>4. CASE Verify(h)
    <3>1. PICK label \in Labels : Goto(h, label)
      BY <2>4 DEF Verify, Labels
    <3> QED
      BY <1>1, <2>4, <3>1, StayType DEF Verify
  <2>5. CASE Settle(h)
    <3>1. PICK label \in Labels : Goto(h, label)
      BY <2>5 DEF Settle, Labels
    <3> QED
      BY <1>1, <2>5, <3>1, StayType DEF Settle
  <2> QED
    BY <2>1, <2>2, <2>3, <2>4, <2>5 DEF StopStep
<1>4. WaitersOK'
  <2>1. CASE SendStop(h) /\ ~UNCHANGED waiterVars
    <3>1. Looks \in 0..Looks /\ Looks > 0
      BY DEF Looks
    <3>2. PICK s \in Stoppers : /\ stopper' = [stopper EXCEPT ![s] = "wait"]
                                /\ looks' = [looks EXCEPT ![s] = Looks]
      BY <2>1 DEF SendStop, waiterVars
    <3> QED
      BY <1>1, <2>1, <3>1, <3>2 DEF SendStop, WaitersOK
  <2>2. CASE UNCHANGED waiterVars
    BY <1>1, <2>2 DEF WaitersOK, waiterVars
  <2> QED
    BY <2>1, <2>2 DEF StopStep, CheckStop, MarkStopping, Verify, Settle
<1>5. WorldOK'
  <2>1. CASE UNCHANGED worldVars
    BY <1>1, <2>1 DEF WorldOK, worldVars, console
  <2>2. CASE Exists /\ Enter("stop")
    BY <1>1, <2>2, EnterType
  <2> QED
    BY <2>1, <2>2 DEF StopStep, CheckStop, SendStop, MarkStopping, Verify, Settle
<1> QED
  BY <1>2, <1>3, <1>4, <1>5 DEF TypeOK, WorldOK, FlagsOK, ThreadsOK, WaitersOK

(* The detached threads of stop_server and start_server.                   *)
LEMMA StopperType ==
  ASSUME TypeOK, NEW s \in Stoppers, StopperStep(s)
  PROVE  TypeOK'
<1>1. WorldOK /\ FlagsOK /\ ThreadsOK /\ WaitersOK
  BY TypeOKParts
<1>2. WorldOK' /\ ThreadsOK'
  <2>1. UNCHANGED <<worldVars, threadVars>>
    BY DEF StopperStep, Look, LookAgain, Conclude
  <2> QED
    BY <1>1, <2>1 DEF WorldOK, ThreadsOK, worldVars, console, threadVars
<1>3. FlagsOK'
  BY <1>1 DEF StopperStep, Look, LookAgain, Conclude, FlagsOK, flags, SetFlags
<1>4. WaitersOK'
  <2>1. /\ looks[s] \in 0..Looks
        /\ stopper[s] = "wait" => looks[s] > 0
    BY <1>1 DEF WaitersOK
  <2>2. /\ 0 \in 0..Looks
        /\ looks[s] > 0 => looks[s] - 1 \in 0..Looks
        /\ looks[s] # 0 => looks[s] > 0
    BY <2>1, LooksNat
  <2>3. CASE Look(s)
    BY <1>1, <2>1, <2>2, <2>3 DEF Look, WaitersOK
  <2>4. CASE LookAgain(s)
    BY <1>1, <2>1, <2>2, <2>4 DEF LookAgain, WaitersOK
  <2>5. CASE Conclude(s)
    BY <1>1, <2>2, <2>5 DEF Conclude, WaitersOK
  <2> QED
    BY <2>3, <2>4, <2>5 DEF StopperStep
<1> QED
  BY <1>2, <1>3, <1>4 DEF TypeOK, WorldOK, FlagsOK, ThreadsOK, WaitersOK

LEMMA NextTypeOK == TypeOK /\ [Next]_vars => TypeOK'
<1> SUFFICES ASSUME TypeOK, [Next]_vars PROVE TypeOK'
  OBVIOUS
<1>1. CASE World
  BY <1>1, WorldType
<1>2. CASE GiveUp
  <2>1. starters \in Nat /\ starters - 1 \in 0..MaxStarters
    BY <1>2, InstanceAssumption DEF GiveUp, TypeOK
  <2>2. /\ starters' = starters - 1 /\ running' = FALSE
        /\ UNCHANGED <<worldVars, booting, stopping, stopper, looks, threadVars, due>>
    BY <1>2 DEF GiveUp
  <2> QED
    BY <2>1, <2>2 DEF TypeOK, worldVars, console, threadVars
<1>3. ASSUME NEW h \in Handlers, HandlerStep(h) PROVE TypeOK'
  BY <1>3, IsRunningType, StatusType, StartType, StopType DEF HandlerStep
<1>4. ASSUME NEW h \in Handlers, NEW r \in Requests, Begin(h, r) PROVE TypeOK'
  <2>1. WorldOK /\ FlagsOK /\ ThreadsOK /\ WaitersOK
    BY TypeOKParts
  <2>2. WorldOK' /\ FlagsOK' /\ WaitersOK'
    BY <1>4, <2>1 DEF Begin, WorldOK, FlagsOK, WaitersOK, worldVars, console, flags, waiterVars
  <2>3. ThreadsOK'
    BY <1>4, <2>1 DEF Begin, ThreadsOK, Phases, Requests, Polls
  <2> QED
    BY <2>2, <2>3 DEF TypeOK, WorldOK, FlagsOK, ThreadsOK, WaitersOK
<1>5. ASSUME NEW s \in Stoppers, StopperStep(s) PROVE TypeOK'
  BY <1>5, StopperType
<1>6. CASE UNCHANGED vars
  BY <1>6 DEF vars, worldVars, console, flags, waiterVars, threadVars, TypeOK
<1> QED
  BY <1>1, <1>2, <1>3, <1>4, <1>5, <1>6 DEF Next

(* Whatever requests, detached threads, the server and a person at the     *)
(* machine do between any two calls to tmux, the state of an instance of   *)
(* ServerInstance.hpp stays one it was written for: no process without a   *)
(* session, none missing in a session that ran only it, every detached     *)
(* thread at a step of wait_for_termination with looks left to take.       *)
THEOREM InstanceTypeCorrect == Spec => []TypeOK
<1>1. Init => TypeOK
  BY InitTypeOK
<1>2. TypeOK /\ [Next]_vars => TypeOK'
  BY NextTypeOK
<1> QED
  BY <1>1, <1>2, PTL DEF Spec, SafeSpec

-----------------------------------------------------------------------------
(* The handlers that stop and those that start are not two threads at work *)
(* on the instance at once: what the configuration of the runs says with   *)
(* one handler that acts while any number of others poll.                  *)
NoStartBesideStop ==
  \A g, h \in Handlers :
    g # h /\ Serves[g] \cap {"stop", "reboot"} # {} => Serves[h] \cap {"start", "reboot"} = {}

(* Where a handler is fits the request it serves.                          *)
StopLabels == {"stop", "sendStop", "markStopping", "verify", "settleThere", "settleGone"}
StartLabels == {"start", "launch", "type"}

InRequestAt(h) ==
  /\ request[h] \in {"start", "stop", "reboot"} => request[h] \in Serves[h]
  /\ at[h] \in StopLabels \/ caller[h] = "stop" => request[h] \in {"stop", "reboot"}
  /\ at[h] \in StartLabels \/ caller[h] = "start" => request[h] \in {"start", "reboot"}
  /\ caller[h] # "status" => at[h] \in {"list", "read", "mark"}
InRequest == \A h \in Handlers : InRequestAt(h)

(* From the "list" that is_running enters for stop_server until the "stop" *)
(* itself the input line stays clean.                                      *)
Awaits(h) == at[h] = "sendStop" \/ (at[h] \in {"read", "mark"} /\ caller[h] = "stop")
LineIsClean == \A h \in Handlers : Awaits(h) => ~typed

StopInv == TypeOK /\ InRequest /\ LineIsClean

LEMMA InitStopInv == Init => StopInv
<1> SUFFICES ASSUME Init PROVE StopInv
  OBVIOUS
<1>1. InRequest
  BY DEF Init, InRequest, InRequestAt, StopLabels, StartLabels
<1>2. LineIsClean
  BY DEF Init, LineIsClean, Awaits
<1> QED
  BY <1>1, <1>2, InitTypeOK DEF StopInv

(* A step of a handler moves no other one.                                 *)
LEMMA OthersStay ==
  ASSUME TypeOK, NEW g \in Handlers, NEW h \in Handlers, g # h,
         HandlerStep(g) \/ \E r \in Requests : Begin(g, r)
  PROVE  at'[h] = at[h] /\ request'[h] = request[h] /\ caller'[h] = caller[h]
  BY DEF HandlerStep, IsRunningStep, StatusStep, StartStep, StopStep, Begin, List, Read, Mark,
         CheckStatus, Reset, CheckBooting, SetBooting, Usage, UsageThrows, Answer, CheckGeneral,
         CheckStart, Launch, Type, CheckStop, SendStop, MarkStopping, Verify, Settle, GotoIn, Goto,
         UpdateReturns, BootingReturns, Return, CallIsRunning, TypeOK

LEMMA GotoInAt ==
  ASSUME TypeOK, NEW h \in Handlers, NEW label, NEW phase, GotoIn(h, label, phase)
  PROVE  /\ at'[h] = label
         /\ request'[h] = IF label = "idle" THEN "status" ELSE phase
  BY DEF GotoIn, TypeOK

LEMMA GotoAt ==
  ASSUME TypeOK, NEW h \in Handlers, NEW label, Goto(h, label)
  PROVE  /\ at'[h] = label
         /\ request'[h] = IF label = "idle" THEN "status" ELSE request[h]
  BY GotoInAt DEF Goto

(* A request that polls goes on polling when a function returns.           *)
PollLabels == {"idle", "status", "boot", "usage", "answer"}
PollPhase(phase) == phase \notin {"start", "stop", "reboot"}

LEMMA ReturnsAt ==
  ASSUME TypeOK, NEW h \in Handlers,
         UpdateReturns(h) \/ \E a \in BOOLEAN : BootingReturns(h, a)
  PROVE  /\ at'[h] \in PollLabels
         /\ request'[h] = request[h] \/ PollPhase(request'[h])
<1>1. ASSUME NEW label \in PollLabels, Goto(h, label)
      PROVE  at'[h] \in PollLabels /\ (request'[h] = request[h] \/ PollPhase(request'[h]))
  BY <1>1, GotoAt DEF PollPhase
<1>2. ASSUME NEW label \in PollLabels, NEW phase \in {"generalBooting", "generalLast"},
             GotoIn(h, label, phase)
      PROVE  at'[h] \in PollLabels /\ (request'[h] = request[h] \/ PollPhase(request'[h]))
  BY <1>2, GotoInAt DEF PollPhase
<1>3. CASE UpdateReturns(h)
  BY <1>1, <1>2, <1>3 DEF UpdateReturns, PollLabels
<1>4. ASSUME NEW a \in BOOLEAN, BootingReturns(h, a), ~UpdateReturns(h)
      PROVE  at'[h] \in PollLabels /\ (request'[h] = request[h] \/ PollPhase(request'[h]))
  BY <1>1, <1>2, <1>4 DEF BootingReturns, PollLabels
<1> QED
  BY <1>3, <1>4

LEMMA CallAt ==
  ASSUME TypeOK, NEW h \in Handlers, NEW who, CallIsRunning(h, who)
  PROVE  at'[h] = "list" /\ request'[h] = request[h] /\ caller'[h] = who
<1>1. at'[h] = "list" /\ request'[h] = request[h]
  BY GotoAt DEF CallIsRunning
<1>2. caller'[h] = who
  BY DEF CallIsRunning, TypeOK
<1> QED
  BY <1>1, <1>2

(* Where is_running leaves its caller.                                     *)
LEMMA ReturnAt ==
  ASSUME TypeOK, NEW h \in Handlers, NEW a \in BOOLEAN, Return(h, a)
  PROVE  /\ caller'[h] = "status"
         /\ request'[h] = request[h] \/ PollPhase(request'[h])
         /\ at'[h] \in PollLabels \cup {"setBooting", "type", "sendStop", "verify"}
         /\ at'[h] = "type" => caller[h] = "start" /\ request'[h] = request[h]
         /\ at'[h] \in {"sendStop", "verify"} => caller[h] = "stop" /\ request'[h] = request[h]
         /\ at'[h] = "sendStop" => a
<1> USE DEF PollLabels, PollPhase
<1>1. caller'[h] = "status"
  BY DEF Return, TypeOK
<1>2. caller[h] \in {"status", "boot", "general", "players", "start", "stop"}
  BY DEF TypeOK
<1>3. CASE caller[h] = "status"
  BY <1>1, <1>3, GotoAt DEF Return
<1>4. CASE caller[h] = "boot"
  <2>1. (\E b \in BOOLEAN : BootingReturns(h, b)) \/ Goto(h, "setBooting")
    BY <1>4 DEF Return
  <2>2. CASE \E b \in BOOLEAN : BootingReturns(h, b)
    BY <1>1, <2>2, ReturnsAt
  <2>3. CASE Goto(h, "setBooting")
    BY <1>1, <2>3, GotoAt
  <2> QED
    BY <2>1, <2>2, <2>3
<1>5. CASE caller[h] = "general"
  BY <1>1, <1>5, GotoAt, GotoInAt DEF Return
<1>6. CASE caller[h] = "players"
  BY <1>1, <1>6, GotoAt DEF Return
<1>7. CASE caller[h] = "start"
  BY <1>1, <1>7, GotoAt DEF Return
<1>8. CASE caller[h] = "stop"
  BY <1>1, <1>8, GotoAt DEF Return
<1> QED
  BY <1>2, <1>3, <1>4, <1>5, <1>6, <1>7, <1>8

(* A handler only stops, or only types, in a request that may.             *)
LEMMA InRequestStep ==
  ASSUME TypeOK, InRequest, NEW g \in Handlers,
         HandlerStep(g) \/ \E r \in Requests : Begin(g, r)
  PROVE  InRequest'
<1> USE DEF StopLabels, StartLabels
<1>1. InRequestAt(g)
  BY DEF InRequest
<1>2. InRequestAt(g)'
  <2>1. ASSUME NEW r \in Requests, Begin(g, r) PROVE InRequestAt(g)'
    <3>1. /\ at'[g] = CASE r = "reboot" -> "stop" [] r = "players" -> "list" [] OTHER -> r
          /\ request'[g] = r /\ r \in Serves[g]
          /\ caller'[g] = IF r = "players" THEN r ELSE caller[g]
      BY <2>1 DEF Begin, TypeOK
    <3>2. caller[g] = "status" \/ at[g] # "idle"
      BY <1>1 DEF InRequestAt
    <3> QED
      BY <1>1, <2>1, <3>1, <3>2 DEF Begin, InRequestAt, Requests, Polls
  <2>2. CASE IsRunningStep(g)
    <3>1. CASE Exists /\ List(g)
      BY <1>1, <3>1, GotoAt DEF List, InRequestAt
    <3>2. CASE Exists /\ pane /\ Read(g)
      BY <1>1, <3>2, GotoAt DEF Read, InRequestAt
    <3>3. CASE \E a \in BOOLEAN : Return(g, a)
      BY <1>1, <3>3, ReturnAt DEF InRequestAt, PollLabels, PollPhase
    <3> QED
      BY <2>2, <3>1, <3>2, <3>3 DEF IsRunningStep, List, Read, Mark
  <2>3. CASE StatusStep(g)
    <3>0. caller[g] = "status"
      BY <1>1, <2>3 DEF InRequestAt, StatusStep, CheckStatus, Reset, CheckBooting, SetBooting,
                        Usage, UsageThrows, Answer, CheckGeneral
    <3>1. CASE \E who \in {"status", "boot", "general"} : CallIsRunning(g, who)
      BY <1>1, <3>1, CallAt DEF InRequestAt
    <3>2. CASE \E label \in {"reset", "idle"} : Goto(g, label) /\ UNCHANGED caller
      BY <1>1, <3>0, <3>2, GotoAt DEF InRequestAt
    <3>3. CASE (UpdateReturns(g) \/ \E a \in BOOLEAN : BootingReturns(g, a)) /\ UNCHANGED caller
      BY <1>1, <3>0, <3>3, ReturnsAt DEF InRequestAt, PollLabels, PollPhase
    <3>4. stopping \in BOOLEAN
      BY DEF TypeOK
    <3> QED
      BY <2>3, <3>1, <3>2, <3>3, <3>4
         DEF StatusStep, CheckStatus, Reset, CheckBooting, SetBooting, Usage, UsageThrows,
             Answer, CheckGeneral
  <2>4. CASE StartStep(g)
    <3>1. CASE CheckStart(g)
      BY <1>1, <3>1, CallAt, GotoAt DEF CheckStart, InRequestAt
    <3>2. CASE Launch(g)
      BY <1>1, <3>2, GotoAt DEF Launch, InRequestAt
    <3>3. CASE Type(g)
      BY <1>1, <3>3, GotoAt DEF Type, InRequestAt
    <3> QED
      BY <2>4, <3>1, <3>2, <3>3 DEF StartStep
  <2>5. CASE StopStep(g)
    <3>1. CASE CheckStop(g)
      BY <1>1, <3>1, CallAt, GotoAt DEF CheckStop, InRequestAt
    <3>2. CASE SendStop(g)
      BY <1>1, <3>2, GotoAt DEF SendStop, InRequestAt
    <3>3. CASE MarkStopping(g)
      BY <1>1, <3>3, GotoAt DEF MarkStopping, InRequestAt
    <3>4. CASE Verify(g)
      BY <1>1, <3>4, GotoAt DEF Verify, InRequestAt
    <3>5. CASE Settle(g)
      BY <1>1, <3>5, GotoAt DEF Settle, InRequestAt
    <3> QED
      BY <2>5, <3>1, <3>2, <3>3, <3>4, <3>5 DEF StopStep
  <2> QED
    BY <2>1, <2>2, <2>3, <2>4, <2>5 DEF HandlerStep
<1>3. ASSUME NEW h \in Handlers, h # g PROVE InRequestAt(h)'
  <2>1. at'[h] = at[h] /\ request'[h] = request[h] /\ caller'[h] = caller[h]
    BY <1>3, OthersStay
  <2> QED
    BY <2>1 DEF InRequest, InRequestAt
<1> QED
  BY <1>2, <1>3 DEF InRequest

(* Only start_server types without entering, and only on an open session.  *)
LEMMA WhoTypes ==
  ASSUME NEW g \in Handlers, HandlerStep(g) \/ \E r \in Requests : Begin(g, r), typed', ~typed
  PROVE  at[g] = "type"
  BY DEF HandlerStep, IsRunningStep, StatusStep, StartStep, StopStep, Begin, List, Read, Mark,
         CheckStatus, Reset, CheckBooting, SetBooting, Usage, UsageThrows, Answer, CheckGeneral,
         CheckStart, Launch, Type, CheckStop, SendStop, MarkStopping, Verify, Settle, Enter,
         worldVars, console

(* A handler that comes to need the line clean has just cleaned it.        *)
LEMMA AwaitsAfterList ==
  ASSUME TypeOK, InRequest, NEW g \in Handlers,
         HandlerStep(g) \/ \E r \in Requests : Begin(g, r), Awaits(g)'
  PROVE  (Awaits(g) /\ typed' = typed) \/ ~typed'
<1>1. InRequestAt(g)
  BY DEF InRequest
<1>2. ASSUME NEW r \in Requests, Begin(g, r) PROVE FALSE
  <2>1. at'[g] \in {"status", "general", "list", "start", "stop"}
        /\ caller'[g] = IF r = "players" THEN r ELSE caller[g]
    BY <1>2 DEF Begin, TypeOK, Requests, Polls
  <2> QED
    BY <2>1 DEF Awaits
<1>3. CASE IsRunningStep(g)
  <2>1. CASE Exists /\ List(g)
    BY <2>1 DEF List, Enter
  <2>2. CASE Exists /\ pane /\ Read(g)
    BY <2>2, GotoAt DEF Read, Awaits, worldVars, console
  <2>3. CASE List(g) /\ Return(g, FALSE)
    BY <2>3, ReturnAt DEF Awaits, PollLabels
  <2>4. CASE Read(g) /\ ~(Exists /\ pane)
    BY <2>4, ReturnAt DEF Read, Awaits, PollLabels
  <2>5. CASE Mark(g)
    BY <2>5, ReturnAt DEF Mark, Awaits, PollLabels, worldVars, console
  <2> QED
    BY <1>3, <2>1, <2>2, <2>3, <2>4, <2>5 DEF IsRunningStep, List
<1>4. CASE StatusStep(g)
  <2>0. stopping \in BOOLEAN
    BY DEF TypeOK
  <2>1. at'[g] \in {"list", "reset"} \cup PollLabels
    BY <1>4, <2>0, GotoAt, CallAt, ReturnsAt
       DEF StatusStep, CheckStatus, Reset, CheckBooting, SetBooting, Usage, UsageThrows, Answer,
           CheckGeneral, PollLabels
  <2> QED
    BY <2>1 DEF Awaits, PollLabels
<1>5. CASE StartStep(g)
  <2>1. at'[g] \in {"list", "launch", "idle"}
    BY <1>5, GotoAt, CallAt DEF StartStep, CheckStart, Launch, Type
  <2> QED
    BY <2>1 DEF Awaits
<1>6. CASE StopStep(g)
  <2>1. at'[g] \in {"list", "verify", "markStopping", "settleThere", "settleGone", "idle", "start"}
    BY <1>6, GotoAt, CallAt DEF StopStep, CheckStop, SendStop, MarkStopping, Verify, Settle
  <2> QED
    BY <2>1 DEF Awaits
<1> QED
  BY <1>2, <1>3, <1>4, <1>5, <1>6 DEF HandlerStep

LEMMA LineIsCleanStep ==
  ASSUME NoStartBesideStop, StopInv, NEW g \in Handlers,
         HandlerStep(g) \/ \E r \in Requests : Begin(g, r)
  PROVE  LineIsClean'
<1> USE DEF StopInv
<1>1. ASSUME NEW h \in Handlers, Awaits(h)' PROVE ~typed'
  <2>1. CASE h = g
    <3>1. (Awaits(g) /\ typed' = typed) \/ ~typed'
      BY <1>1, <2>1, AwaitsAfterList
    <3> QED
      BY <3>1 DEF LineIsClean
  <2>2. CASE h # g
    <3>1. Awaits(h)
      BY <1>1, <2>2, OthersStay DEF Awaits
    <3>2. ~typed
      BY <3>1 DEF LineIsClean
    <3>3. request[h] \in {"stop", "reboot"} /\ request[h] \in Serves[h]
      BY <3>1 DEF Awaits, InRequest, InRequestAt, StopLabels
    <3>4. SUFFICES ASSUME typed' PROVE FALSE
      OBVIOUS
    <3>5. at[g] = "type"
      BY <3>2, <3>4, WhoTypes
    <3>6. request[g] \in {"start", "reboot"} /\ request[g] \in Serves[g]
      BY <3>5 DEF InRequest, InRequestAt, StartLabels
    <3> QED
      BY <2>2, <3>3, <3>6 DEF NoStartBesideStop
  <2> QED
    BY <2>1, <2>2
<1> QED
  BY <1>1 DEF LineIsClean

LEMMA NextStopInv == NoStartBesideStop /\ StopInv /\ [Next]_vars => StopInv'
<1> SUFFICES ASSUME NoStartBesideStop, StopInv, [Next]_vars PROVE StopInv'
  OBVIOUS
<1>1. TypeOK'
  BY NextTypeOK DEF StopInv
<1>2. ASSUME NEW g \in Handlers, HandlerStep(g) \/ \E r \in Requests : Begin(g, r)
      PROVE  InRequest' /\ LineIsClean'
  BY <1>2, InRequestStep, LineIsCleanStep DEF StopInv
<1>3. CASE UNCHANGED threadVars /\ (typed' => typed)
  <2>1. InRequest'
    BY <1>3 DEF threadVars, StopInv, InRequest, InRequestAt
  <2>2. ASSUME NEW h \in Handlers, Awaits(h)' PROVE ~typed'
    <3>1. Awaits(h)
      BY <1>3, <2>2 DEF threadVars, Awaits
    <3> QED
      BY <1>3, <3>1 DEF StopInv, LineIsClean
  <2> QED
    BY <1>1, <2>1, <2>2 DEF StopInv, LineIsClean
<1>4. World \/ GiveUp \/ (\E s \in Stoppers : StopperStep(s)) \/ UNCHANGED vars
        => UNCHANGED threadVars /\ (typed' => typed)
  <2>1. World => UNCHANGED threadVars /\ (typed' => typed)
    <3>1. CASE Exits
      BY <3>1 DEF Exits
    <3>2. CASE StartsByHand \/ ClosesShell
      BY <3>2, Zenon DEF StartsByHand, ClosesShell
    <3>3. Boots \/ Answers \/ Scrolls \/ Stops \/ OpensShell => UNCHANGED <<typed, threadVars>>
      BY DEF Boots, Answers, Scrolls, Stops, OpensShell, console
    <3> QED
      BY <3>1, <3>2, <3>3 DEF World
  <2>2. GiveUp \/ (\E s \in Stoppers : StopperStep(s)) \/ UNCHANGED vars
          => UNCHANGED <<worldVars, threadVars>>
    BY DEF GiveUp, StopperStep, Look, LookAgain, Conclude, vars, threadVars
  <2> QED
    BY <2>1, <2>2 DEF worldVars, console
<1> QED
  BY <1>1, <1>2, <1>3, <1>4 DEF Next, StopInv

(* A stop that stop_server follows up has reached the console of the       *)
(* server: nothing stands on the line before it, however the server, the   *)
(* polls, the person at the machine and the detached threads run between   *)
(* the "list" of is_running, the read of the pane and the "stop".  (As     *)
(* long as no other handler starts the instance while one stops it.)       *)
THEOREM StopReachesServer ==
  ASSUME NoStartBesideStop
  PROVE  Spec => StopIsHeard
<1>1. Init => StopInv
  BY InitStopInv
<1>2. StopInv /\ [Next]_vars => StopInv'
  BY NextStopInv
<1>3. StopInv =>
        [\A h \in Handlers : at[h] = "sendStop" /\ at'[h] = "markStopping" => ~typed]_vars
  BY DEF StopInv, LineIsClean, Awaits
<1> QED
  BY <1>1, <1>2, <1>3, PTL DEF Spec, SafeSpec, StopIsHeard
=============================================================================
