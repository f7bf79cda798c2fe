---------------------------- MODULE ConsoleProofs ----------------------------
(***************************************************************************)
(* Proofs about Console: what the console, the pane and the two threads    *)
(* that use them look like whatever they do between one another's steps,   *)
(* and that an answer "success" stands for commands that were all typed.   *)
(***************************************************************************)
EXTENDS Console, FiniteSetTheorems, WellFoundedInduction, TLAPS

(* A set of naturals that is not empty has a least element.                *)
LEMMA NatOrder ==
  \E R : IsWellFoundedOn(R, Nat) /\ \A a, b \in Nat : a < b => <<a, b>> \in R
<1> DEFINE R == OpToRel(<, Nat)
<1>1. IsWellFoundedOn(R, Nat)
  BY NatLessThanWellFounded, Zenon
<1>2. \A a, b \in Nat : a < b => <<a, b>> \in R
  BY Zenon DEF OpToRel
<1> HIDE DEF R
<1> QED
  BY <1>1, <1>2

LEMMA LeastOfNaturals ==
  ASSUME NEW S \in SUBSET Nat, S # {}
  PROVE  \E x \in S : \A y \in S : x <= y
<1>1. PICK R : IsWellFoundedOn(R, Nat) /\ \A a, b \in Nat : a < b => <<a, b>> \in R
  BY NatOrder
<1>2. IsWellFoundedOn(R, Nat) /\ S \subseteq Nat
  BY <1>1
<1>3. PICK x \in S : \A y \in S : ~(<<y, x>> \in R)
  BY <1>2, WFMin, Zenon
<1>4. \A y \in S : ~(y < x)
  BY <1>1, <1>3
<1> QED
  BY <1>4

-----------------------------------------------------------------------------
(* What the pane holds, and how far the thread that types commands is: it  *)
(* has sent what it no longer has to send, but for the queries of          *)
(* world/info, which go on after one that could not be sent.               *)
Rows == [answer : BOOLEAN, count : 0..Cardinality(Players), who : SUBSET Players]
PaneOK == pane \in Seq(Rows)

OpOK ==
  /\ op \in [kind : Kinds, at : {"idle", "send", "read"}, typed : Nat, left : Nat,
             reply : {"none", "success", "failure", "unflagged", "error"}]
  /\ op.at # "idle" => op.typed + op.left <= Commands(op.kind) /\ op.reply = "none"
  /\ op.at = "send" => /\ op.left > 0
                       /\ op.kind # "world" => op.typed + op.left = Commands(op.kind)
  /\ op.at = "read" => op.kind \in {"console", "world"}
  /\ op.at = "idle" => op.typed <= Commands(op.kind) /\ op.left <= Commands(op.kind)
  /\ op.reply = "success" => op.typed = Commands(op.kind)

ConsoleInv == TypeOK /\ PaneOK /\ OpOK

(* The parts of TypeOK a step can disturb one at a time.                   *)
ScreenOK ==
  /\ server \in {"none", "booting", "up"} /\ players \subseteq Players
  /\ input \in Seq({"list", "other"}) /\ Len(input) <= MaxInput
  /\ PaneOK /\ Len(pane) <= Height
  /\ ~Exists => input = <<>> /\ pane = <<>>
  /\ server = "booting" => \A i \in DOMAIN pane : ~pane[i].answer

ShownOK ==
  /\ active \in -1..Cardinality(Players)
  /\ list \in {Default, NextLine, Nothing} \cup {Names(P) : P \in SUBSET Players}
  /\ list # Names({})

PollOK ==
  /\ at \in {"idle", "send", "read", "update", "boot", "usage",
             "count", "countRead", "list", "listRead"}
  /\ caller \in {"players", "update", "boot"}

LEMMA CommandsNat == \A kind \in Kinds : Commands(kind) \in Nat
  BY ConsoleAssumption DEF Commands, Kinds

LEMMA Parts == ConsoleInv <=> ScreenOK /\ ShownOK /\ PollOK /\ OpOK
<1>1. ConsoleInv => ScreenOK /\ ShownOK /\ PollOK /\ OpOK
  BY DEF ConsoleInv, TypeOK, ScreenOK, ShownOK, PollOK
<1>2. ASSUME OpOK
      PROVE  /\ op.kind \in Kinds /\ op.at \in {"idle", "send", "read"}
             /\ op.typed \in 0..Commands(op.kind) /\ op.left \in 0..Commands(op.kind)
             /\ op.reply \in {"none", "success", "failure", "unflagged", "error"}
  <2>1. /\ op.kind \in Kinds /\ op.at \in {"idle", "send", "read"}
        /\ op.typed \in Nat /\ op.left \in Nat
        /\ op.reply \in {"none", "success", "failure", "unflagged", "error"}
    BY <1>2 DEF OpOK
  <2>2. Commands(op.kind) \in Nat
    BY <2>1, CommandsNat
  <2>3. op.typed <= Commands(op.kind) /\ op.left <= Commands(op.kind)
    BY <1>2, <2>1, <2>2 DEF OpOK
  <2> QED
    BY <2>1, <2>2, <2>3
<1>3. ScreenOK /\ ShownOK /\ PollOK /\ OpOK => ConsoleInv
  BY <1>2 DEF ConsoleInv, TypeOK, ScreenOK, ShownOK, PollOK
<1> QED
  BY <1>1, <1>3

LEMMA PlayersCount ==
  /\ Cardinality(Players) \in Nat
  /\ \A P \in SUBSET Players : Cardinality(P) \in 0..Cardinality(Players)
<1>1. Cardinality(Players) \in Nat
  BY ConsoleAssumption, FS_CardinalityType
<1>2. ASSUME NEW P \in SUBSET Players
      PROVE  Cardinality(P) \in 0..Cardinality(Players)
  <2>1. IsFiniteSet(P) /\ Cardinality(P) <= Cardinality(Players)
    BY ConsoleAssumption, FS_Subset
  <2>2. Cardinality(P) \in Nat
    BY <2>1, FS_CardinalityType
  <2> QED
    BY <1>1, <2>1, <2>2
<1> QED
  BY <1>1, <1>2

LEMMA InitInv == Init => ConsoleInv
<1> SUFFICES ASSUME Init PROVE ScreenOK /\ ShownOK /\ PollOK /\ OpOK
  BY Parts
<1>1. ScreenOK
  BY ConsoleAssumption DEF Init, ScreenOK, PaneOK, Exists
<1>2. ShownOK
  BY PlayersCount DEF Init, ShownOK, Default, Names
<1>3. PollOK
  BY DEF Init, PollOK
<1>4. OpOK
  BY DEF Init, OpOK, NoOp, Kinds, Commands
<1> QED
  BY <1>1, <1>2, <1>3, <1>4

(* A row more at the bottom, and one less at the top of a full pane.      *)
LEMMA ScrollOK ==
  ASSUME PaneOK, Len(pane) <= Height, NEW row \in Rows, Scroll(row)
  PROVE  /\ PaneOK' /\ Len(pane') <= Height
         /\ \A i \in DOMAIN pane' : pane'[i] = row \/ \E j \in DOMAIN pane : pane'[i] = pane[j]
<1> DEFINE rows == Append(pane, row)
<1>1. /\ rows \in Seq(Rows) /\ Len(rows) = Len(pane) + 1
      /\ \A i \in 1..Len(rows) : rows[i] = row \/ \E j \in DOMAIN pane : rows[i] = pane[j]
  BY DEF PaneOK
<1>2. Len(pane) \in Nat /\ Height \in Nat
  BY ConsoleAssumption DEF PaneOK
<1>3. pane' = IF Len(rows) > Height THEN Tail(rows) ELSE rows
  BY DEF Scroll
<1> HIDE DEF rows
<1>4. CASE Len(rows) > Height
  <2>1. /\ Tail(rows) \in Seq(Rows) /\ Len(Tail(rows)) = Len(pane)
        /\ \A i \in 1..Len(Tail(rows)) : Tail(rows)[i] = rows[i + 1]
    BY <1>1, <1>2
  <2>2. DOMAIN Tail(rows) = 1..Len(pane)
    BY <2>1
  <2>3. \A i \in 1..Len(pane) : i + 1 \in 1..Len(rows)
    BY <1>1, <1>2
  <2> QED
    BY <1>1, <1>3, <1>4, <2>1, <2>2, <2>3 DEF PaneOK
<1>5. CASE ~(Len(rows) > Height)
  BY <1>1, <1>2, <1>3, <1>5 DEF PaneOK
<1> QED
  BY <1>4, <1>5

(* The row a pattern finds  is one of the pane.                            *)
LEMMA OldestIsAnswer ==
  ASSUME PaneOK, Answers # {}
  PROVE  Oldest \in Answers /\ pane[Oldest] \in Rows
<1>1. Answers \in SUBSET Nat /\ \A i \in Answers : pane[i] \in Rows
  BY DEF PaneOK, Answers
<1>2. \E i \in Answers : \A j \in Answers : i <= j
  BY <1>1, LeastOfNaturals
<1>3. Oldest \in Answers
  BY <1>2 DEF Oldest
<1> QED
  BY <1>1, <1>3

LEMMA ShownCount == PaneOK => CountShown \in -1..Cardinality(Players)
<1> SUFFICES ASSUME PaneOK PROVE CountShown \in -1..Cardinality(Players)
  OBVIOUS
<1>1. CASE Exists /\ Answers # {}
  <2>1. pane[Oldest].count \in 0..Cardinality(Players)
    BY <1>1, OldestIsAnswer DEF Rows
  <2> QED
    BY <1>1, <2>1, PlayersCount DEF CountShown
<1>2. CASE ~(Exists /\ Answers # {})
  BY <1>2, PlayersCount DEF CountShown
<1> QED
  BY <1>1, <1>2

LEMMA ShownNames ==
  PaneOK => /\ NamesShown \in {Default, NextLine, Nothing} \cup {Names(P) : P \in SUBSET Players}
            /\ NamesShown # Names({})
<1> SUFFICES ASSUME PaneOK, Exists, Answers # {}, pane[Oldest].who # {}
             PROVE  /\ NamesShown \in {Names(P) : P \in SUBSET Players}
                    /\ NamesShown # Names({})
  BY DEF NamesShown, Default, Names, NextLine, Nothing
<1>1. pane[Oldest].who \in SUBSET Players
  BY OldestIsAnswer DEF Rows
<1> QED
  BY <1>1 DEF NamesShown, Names

-----------------------------------------------------------------------------
(* Every step leaves a console that is in order.                           *)
LEMMA OtherRowType == OtherRow \in Rows
  BY PlayersCount DEF OtherRow, Rows

LEMMA TypeLine ==
  ASSUME ScreenOK, Exists, NEW line \in {"list", "other"}, Type(line)
  PROVE  ScreenOK'
<1>1. /\ input' \in Seq({"list", "other"}) /\ Len(input') <= MaxInput
  <2>1. input \in Seq({"list", "other"}) /\ Len(input) < MaxInput /\ MaxInput \in Nat
    BY ConsoleAssumption DEF ScreenOK, Type
  <2>2. /\ Append(input, line) \in Seq({"list", "other"})
        /\ Len(Append(input, line)) = Len(input) + 1
    BY <2>1
  <2> QED
    BY <2>1, <2>2 DEF Type
<1>2. /\ PaneOK' /\ Len(pane') <= Height
      /\ server = "booting" => \A i \in DOMAIN pane' : ~pane'[i].answer
  <2>1. CASE UNCHANGED pane
    BY <2>1 DEF ScreenOK, PaneOK
  <2>2. CASE Scroll(OtherRow)
    <3>1. /\ PaneOK' /\ Len(pane') <= Height
          /\ \A i \in DOMAIN pane' :
                pane'[i] = OtherRow \/ \E j \in DOMAIN pane : pane'[i] = pane[j]
      BY <2>2, OtherRowType, ScrollOK DEF ScreenOK
    <3> QED
      BY <3>1 DEF ScreenOK, OtherRow
  <2> QED
    BY <2>1, <2>2 DEF Type
<1> QED
  BY <1>1, <1>2 DEF ScreenOK, Type, Exists

LEMMA WorldStep == ConsoleInv /\ World => ConsoleInv'
<1> SUFFICES ASSUME ConsoleInv, World PROVE ScreenOK' /\ ShownOK' /\ PollOK' /\ OpOK'
  BY Parts, PTL
<1>1. ScreenOK /\ ShownOK /\ PollOK /\ OpOK
  BY Parts
<1>2. ShownOK' /\ PollOK' /\ OpOK'
  BY <1>1 DEF World, ShownOK, PollOK, OpOK, shownVars, pollVars
<1>3. PaneOK /\ Len(pane) <= Height
  BY <1>1 DEF ScreenOK
<1>4. /\ OtherRow \in Rows
      /\ \A who \in SUBSET players : ListRow(Cardinality(players), who) \in Rows
  <2>1. players \in SUBSET Players
    BY <1>1 DEF ScreenOK
  <2>2. Cardinality(players) \in 0..Cardinality(Players)
    BY <2>1, PlayersCount
  <2> QED
    BY <2>1, <2>2, OtherRowType DEF ListRow, Rows
<1>5. ScreenOK'
  <2>1. CASE Answer
    <3>1. PICK row \in Rows : Scroll(row)
      BY <1>4, <2>1 DEF Answer
    <3>2. PaneOK' /\ Len(pane') <= Height
      BY <1>3, <3>1, ScrollOK
    <3>3. input' \in Seq({"list", "other"}) /\ Len(input') <= MaxInput
      <4>1. input \in Seq({"list", "other"}) /\ input # <<>> /\ Len(input) <= MaxInput
        BY <1>1, <2>1 DEF Answer, ScreenOK
      <4>2. Tail(input) \in Seq({"list", "other"}) /\ Len(Tail(input)) = Len(input) - 1
        BY <4>1
      <4> QED
        BY <2>1, <4>1, <4>2, ConsoleAssumption DEF Answer
    <3>4. server' = "up" /\ players' \subseteq Players
      BY <1>1, <2>1 DEF Answer, ScreenOK
    <3> QED
      BY <3>2, <3>3, <3>4 DEF ScreenOK, Exists
  <2>2. CASE JoinOrLeave
    <3>1. PaneOK' /\ Len(pane') <= Height
      BY <1>3, <1>4, <2>2, ScrollOK DEF JoinOrLeave
    <3>2. server' = "up" /\ players' \subseteq Players /\ input' = input
      BY <1>1, <2>2 DEF JoinOrLeave, ScreenOK
    <3> QED
      BY <1>1, <3>1, <3>2 DEF ScreenOK, Exists
  <2>3. CASE Write
    <3>1. /\ PaneOK' /\ Len(pane') <= Height
          /\ \A i \in DOMAIN pane' :
                pane'[i] = OtherRow \/ \E j \in DOMAIN pane : pane'[i] = pane[j]
      BY <1>3, <1>4, <2>3, ScrollOK DEF Write
    <3>2. server' = server /\ players' = players /\ input' = input /\ Exists
      BY <2>3 DEF Write
    <3>3. server' = "booting" => \A i \in DOMAIN pane' : ~pane'[i].answer
      BY <1>1, <3>1, <3>2 DEF ScreenOK, OtherRow
    <3> QED
      BY <1>1, <3>1, <3>2, <3>3 DEF ScreenOK, Exists
  <2>4. CASE Starts
    BY <1>1, <2>4 DEF Starts, ScreenOK, Exists, PaneOK
  <2>5. CASE Boots
    BY <1>1, <2>5 DEF Boots, ScreenOK, Exists, PaneOK
  <2>6. CASE Ends
    BY <1>1, <2>6, ConsoleAssumption DEF Ends, ScreenOK, Exists, PaneOK
  <2> QED
    BY <2>1, <2>2, <2>3, <2>4, <2>5, <2>6 DEF World
<1> QED
  BY <1>2, <1>5

LEMMA PollStepInv == ConsoleInv /\ (BeginPoll \/ PollStep) => ConsoleInv'
<1> SUFFICES ASSUME ConsoleInv, BeginPoll \/ PollStep
             PROVE  ScreenOK' /\ ShownOK' /\ PollOK' /\ OpOK'
  BY Parts, PTL
<1>1. ScreenOK /\ ShownOK /\ PollOK /\ OpOK
  BY Parts
<1>2. OpOK'
  BY <1>1 DEF BeginPoll, PollStep, OpOK
<1>3. ScreenOK'
  <2>1. CASE UNCHANGED worldVars
    BY <1>1, <2>1 DEF ScreenOK, worldVars, Exists, PaneOK
  <2>2. CASE Exists /\ Type("list")
    BY <1>1, <2>2, TypeLine
  <2> QED
    BY <2>1, <2>2 DEF BeginPoll, PollStep, Send, Read, Update, CheckBooting, Usage, AskCount,
                      ReadCount, AskList, ReadList, Ask
<1>4. PaneOK
  BY <1>1 DEF ScreenOK
<1>5. ShownOK'
  <2>1. CASE UNCHANGED shownVars
    BY <1>1, <2>1 DEF ShownOK, shownVars
  <2>2. active' \in {active, 0, -1, CountShown} /\ list' \in {list, Default, NamesShown}
    BY <2>1 DEF BeginPoll, PollStep, Send, Read, Update, CheckBooting, Usage, AskCount,
                ReadCount, AskList, ReadList, shownVars
  <2>3. active' \in -1..Cardinality(Players)
    BY <1>1, <1>4, <2>2, ShownCount, PlayersCount DEF ShownOK
  <2>4. /\ list' \in {Default, NextLine, Nothing} \cup {Names(P) : P \in SUBSET Players}
        /\ list' # Names({})
    BY <1>1, <1>4, <2>2, ShownNames DEF ShownOK, Default, Names
  <2> QED
    BY <2>3, <2>4 DEF ShownOK, Default, NextLine, Nothing, Names
<1>6. PollOK'
  <2>1. ASSUME NEW a \in BOOLEAN, Return(a) PROVE PollOK'
    BY <1>1, <2>1 DEF Return, PollOK
  <2>2. ASSUME NEW who \in {"players", "update", "boot"}, CallIsRunning(who) PROVE PollOK'
    BY <2>2 DEF CallIsRunning, PollOK
  <2>3. CASE BeginPoll
    BY <1>1, <2>2, <2>3 DEF BeginPoll, PollOK
  <2>4. CASE Send
    BY <1>1, <2>1, <2>4 DEF Send, Ask, PollOK
  <2>5. CASE Read
    <3>1. Return(TRUE) \/ Return(FALSE)
      BY <2>5 DEF Read
    <3> QED
      BY <2>1, <3>1
  <2>6. CASE Update
    BY <1>1, <2>2, <2>6 DEF Update, PollOK
  <2>7. CASE CheckBooting
    BY <1>1, <2>2, <2>7 DEF CheckBooting, PollOK
  <2>8. CASE Usage \/ AskCount \/ ReadCount \/ AskList \/ ReadList
    BY <1>1, <2>8 DEF Usage, AskCount, ReadCount, AskList, ReadList, Ask, PollOK
  <2> QED
    BY <2>3, <2>4, <2>5, <2>6, <2>7, <2>8 DEF PollStep
<1> QED
  BY <1>2, <1>3, <1>5, <1>6

Ops == [kind : Kinds, at : {"idle", "send", "read"}, typed : Nat, left : Nat,
        reply : {"none", "success", "failure", "unflagged", "error"}]

(* An answer ends the request; only success tells what was typed.          *)
LEMMA ReplyOK ==
  ASSUME NEW o \in Ops, NEW r \in {"success", "failure", "unflagged", "error"},
         o.typed <= Commands(o.kind), o.left <= Commands(o.kind),
         r = "success" => o.typed = Commands(o.kind),
         op' = Reply(o, r)
  PROVE  OpOK'
<1>1. CASE r = "success"
  <2>1. /\ op' \in Ops /\ op'.at = "idle" /\ op'.reply = "success"
        /\ op'.kind = o.kind /\ op'.typed = o.typed /\ op'.left = o.left
    BY <1>1 DEF Reply, Ops
  <2> QED
    BY <1>1, <2>1 DEF OpOK, Ops
<1>2. CASE r # "success"
  <2>1. op' = [kind |-> "undefined", at |-> "idle", typed |-> 0, left |-> 0, reply |-> r]
    BY <1>2 DEF Reply, NoOp
  <2>2. "undefined" \in Kinds /\ Commands("undefined") = 0
    BY DEF Kinds, Commands
  <2> QED
    BY <1>2, <2>1, <2>2 DEF OpOK
<1> QED
  BY <1>1, <1>2

LEMMA BeginOK ==
  ASSUME NEW kind \in Kinds, Begin(kind)
  PROVE  OpOK'
<1>1. Commands(kind) \in Nat
  BY CommandsNat
<1>2. CASE Commands(kind) > 0
  <2>1. op' = [kind |-> kind, typed |-> 0, left |-> Commands(kind), at |-> "send",
               reply |-> "none"]
    BY <1>2 DEF Begin
  <2> QED
    BY <1>1, <1>2, <2>1 DEF OpOK
<1>3. CASE ~(Commands(kind) > 0) /\ kind = "console" /\ Exists
  <2>1. op' = [kind |-> kind, typed |-> 0, left |-> 0, at |-> "read", reply |-> "none"]
    BY <1>1, <1>3 DEF Begin
  <2> QED
    BY <1>1, <1>3, <2>1 DEF OpOK
<1>4. CASE ~(Commands(kind) > 0) /\ ~(kind = "console" /\ Exists)
  <2>1. op' = [kind |-> kind, typed |-> 0, left |-> 0, at |-> "idle", reply |-> "success"]
    BY <1>1, <1>4 DEF Begin
  <2>2. Commands(kind) = 0
    BY <1>1, <1>4
  <2> QED
    BY <2>1, <2>2 DEF OpOK
<1> QED
  BY <1>2, <1>3, <1>4

LEMMA SendFailsOK ==
  ASSUME OpOK, SendFails
  PROVE  OpOK'
<1>1. /\ op \in Ops /\ op.at = "send" /\ op.left > 0 /\ op.reply = "none"
      /\ op.typed + op.left <= Commands(op.kind)
  BY DEF OpOK, SendFails, Ops
<1>2. op.kind \in {"world", "unflagged", "command", "loop"} /\ Commands(op.kind) \in Nat
  <2>1. op.kind \in Kinds /\ Commands(op.kind) \in Nat
    BY <1>1, CommandsNat DEF Ops
  <2>2. Commands(op.kind) # 0
    BY <1>1, <2>1 DEF Ops
  <2> QED
    BY <2>1, <2>2 DEF Kinds, Commands
<1>3. op.typed \in Nat /\ op.left \in Nat
  BY <1>1 DEF Ops
<1>4. op.typed <= Commands(op.kind) /\ op.left <= Commands(op.kind)
  BY <1>1, <1>2, <1>3
<1>5. CASE op.kind = "world" /\ op.left > 1
  <2>1. op' = [op EXCEPT !.left = @ - 1]
    BY <1>5 DEF SendFails
  <2>2. /\ op' \in Ops /\ op'.kind = op.kind /\ op'.at = "send" /\ op'.typed = op.typed
        /\ op'.left = op.left - 1 /\ op'.reply = "none"
    BY <1>1, <1>3, <1>5, <2>1 DEF Ops
  <2> QED
    BY <1>1, <1>2, <1>3, <1>5, <2>2 DEF OpOK, Ops
<1>6. CASE op.kind = "world" /\ op.left = 1
  BY <1>1, <1>4, <1>6, ReplyOK DEF SendFails
<1>7. CASE op.kind = "unflagged"
  BY <1>1, <1>4, <1>7, ReplyOK DEF SendFails
<1>8. CASE op.kind \in {"command", "loop"}
  BY <1>1, <1>4, <1>8, ReplyOK DEF SendFails
<1> QED
  BY <1>1, <1>2, <1>3, <1>5, <1>6, <1>7, <1>8

(* What was sent and what is left to send add up, so the answer to the     *)
(* last command of a loop counts all of them.                              *)
LEMMA SendCommandOK ==
  ASSUME OpOK, SendCommand
  PROVE  OpOK'
<1> DEFINE sent == [op EXCEPT !.left = @ - 1, !.typed = @ + 1]
<1>1. /\ op \in Ops /\ op.at = "send" /\ op.left > 0 /\ op.reply = "none"
      /\ op.typed + op.left <= Commands(op.kind)
      /\ op.kind # "world" => op.typed + op.left = Commands(op.kind)
  BY DEF OpOK, SendCommand, Ops
<1>2. op.kind \in {"world", "unflagged", "command", "loop"} /\ Commands(op.kind) \in Nat
  <2>1. op.kind \in Kinds /\ Commands(op.kind) \in Nat
    BY <1>1, CommandsNat DEF Ops
  <2>2. Commands(op.kind) # 0
    BY <1>1, <2>1 DEF Ops
  <2> QED
    BY <2>1, <2>2 DEF Kinds, Commands
<1>3. op.typed \in Nat /\ op.left \in Nat
  BY <1>1 DEF Ops
<1>4. /\ sent \in Ops /\ sent.kind = op.kind /\ sent.at = "send" /\ sent.reply = "none"
      /\ sent.left = op.left - 1 /\ sent.typed = op.typed + 1
  <2>1. op.left - 1 \in Nat /\ op.typed + 1 \in Nat
    BY <1>1, <1>3
  <2>2. sent \in Ops
    BY <1>1, <2>1 DEF Ops
  <2>3. sent.kind = op.kind /\ sent.at = op.at /\ sent.reply = op.reply
    BY <1>1 DEF Ops
  <2>4. sent.left = op.left - 1 /\ sent.typed = op.typed + 1
    BY <1>1 DEF Ops
  <2> QED
    BY <1>1, <2>2, <2>3, <2>4
<1>5. op' = CASE op.kind = "world" -> [sent EXCEPT !.at = "read"]
              [] op.kind = "loop" /\ op.left > 1 -> sent
              [] op.kind = "unflagged" -> Reply(sent, "unflagged")
              [] OTHER -> Reply(sent, "success")
  BY DEF SendCommand
<1> HIDE DEF sent
<1>6. /\ sent.typed + sent.left = op.typed + op.left
      /\ sent.typed <= Commands(sent.kind) /\ sent.left <= Commands(sent.kind)
  BY <1>1, <1>2, <1>3, <1>4
<1>7. CASE op.kind = "world"
  <2>1. /\ op' \in Ops /\ op'.at = "read" /\ op'.kind = "world" /\ op'.reply = "none"
        /\ op'.typed = sent.typed /\ op'.left = sent.left
    BY <1>4, <1>5, <1>7 DEF Ops
  <2> QED
    BY <1>1, <1>4, <1>6, <1>7, <2>1 DEF OpOK, Ops
<1>8. CASE op.kind = "loop" /\ op.left > 1
  <2>1. op' = sent
    BY <1>5, <1>8
  <2>2. sent.left > 0
    BY <1>3, <1>4, <1>8
  <2>3. /\ op' \in Ops /\ op'.kind = op.kind /\ op'.at = "send" /\ op'.reply = "none"
        /\ op'.typed + op'.left = Commands(op'.kind) /\ op'.left > 0
    BY <1>1, <1>4, <1>6, <1>8, <2>1, <2>2
  <2> QED
    BY <1>2, <2>3 DEF OpOK, Ops
<1>9. CASE op.kind = "unflagged"
  <2>1. op' = Reply(sent, "unflagged")
    BY <1>5, <1>9
  <2> QED
    BY <1>4, <1>6, <2>1, ReplyOK
<1>10. CASE op.kind = "command" \/ (op.kind = "loop" /\ ~(op.left > 1))
  <2>1. op' = Reply(sent, "success")
    BY <1>5, <1>10
  <2>2. op.left = 1
    <3>1. op.kind = "command" => Commands(op.kind) = 1
      BY DEF Commands
    <3> QED
      BY <1>1, <1>3, <1>10, <3>1
  <2>3. sent.typed = Commands(sent.kind)
    BY <1>1, <1>3, <1>4, <1>10, <2>2
  <2> QED
    BY <1>4, <1>6, <2>1, <2>3, ReplyOK
<1> QED
  BY <1>2, <1>7, <1>8, <1>9, <1>10

LEMMA ReadPaneOK ==
  ASSUME OpOK, ReadPane
  PROVE  OpOK'
<1>1. /\ op \in Ops /\ op.at = "read" /\ op.reply = "none" /\ op.kind \in {"console", "world"}
      /\ op.typed + op.left <= Commands(op.kind)
  BY DEF OpOK, ReadPane, Ops
<1>2. op.typed \in Nat /\ op.left \in Nat /\ Commands(op.kind) \in Nat
  BY <1>1, CommandsNat DEF Ops
<1>3. op.typed <= Commands(op.kind) /\ op.left <= Commands(op.kind)
  BY <1>1, <1>2
<1>4. CASE ~Exists
  BY <1>1, <1>3, <1>4, ReplyOK DEF ReadPane
<1>5. CASE Exists /\ op.kind = "console"
  <2>1. Commands(op.kind) = 0
    BY <1>5 DEF Commands
  <2>2. op.typed = Commands(op.kind)
    BY <1>1, <1>2, <2>1
  <2> QED
    BY <1>1, <1>3, <1>5, <2>2, ReplyOK DEF ReadPane
<1>6. CASE Exists /\ op.kind = "world" /\ op.left > 0
  <2>1. op' = [op EXCEPT !.at = "send"]
    BY <1>6 DEF ReadPane
  <2>2. /\ op' \in Ops /\ op'.kind = "world" /\ op'.at = "send" /\ op'.reply = "none"
        /\ op'.typed = op.typed /\ op'.left = op.left
    BY <1>1, <1>6, <2>1 DEF Ops
  <2> QED
    BY <1>1, <1>2, <1>6, <2>2 DEF OpOK, Ops
<1>7. CASE Exists /\ op.kind = "world" /\ ~(op.left > 0)
  BY <1>1, <1>3, <1>7, ReplyOK DEF ReadPane
<1> QED
  BY <1>1, <1>4, <1>5, <1>6, <1>7

LEMMA OpStepInv == ConsoleInv /\ OpStep => ConsoleInv'
<1> SUFFICES ASSUME ConsoleInv, OpStep PROVE ScreenOK' /\ ShownOK' /\ PollOK' /\ OpOK'
  BY Parts, PTL
<1>1. ScreenOK /\ ShownOK /\ PollOK /\ OpOK
  BY Parts
<1>2. ShownOK' /\ PollOK'
  BY <1>1 DEF OpStep, ShownOK, PollOK, shownVars, pollVars
<1>3. ScreenOK'
  <2>1. CASE UNCHANGED worldVars
    BY <1>1, <2>1 DEF ScreenOK, worldVars, Exists, PaneOK
  <2>2. CASE Exists /\ Type("other")
    BY <1>1, <2>2, TypeLine
  <2> QED
    BY <2>1, <2>2 DEF OpStep, Begin, SendFails, SendCommand, ReadPane
<1>4. OpOK'
  BY <1>1, BeginOK, SendFailsOK, SendCommandOK, ReadPaneOK DEF OpStep
<1> QED
  BY <1>2, <1>3, <1>4

LEMMA NextInv == ConsoleInv /\ [Next]_vars => ConsoleInv'
<1>1. ASSUME ConsoleInv, UNCHANGED vars PROVE ConsoleInv'
  BY <1>1 DEF vars, worldVars, shownVars, pollVars, ConsoleInv, TypeOK, PaneOK, OpOK, Exists
<1> QED
  BY <1>1, WorldStep, PollStepInv, OpStepInv DEF Next

(* However polls, requests, players and the end of the session fall        *)
(* between one another's steps, the console keeps the shape the handlers   *)
(* of api.cpp read: nothing typed or shown without a session, no answer on *)
(* the pane of a server that boots, a count and names that some answer     *)
(* could have given, no list of nobody.                                    *)
THEOREM ConsoleTypeCorrect == Spec => []TypeOK
<1>1. Init => ConsoleInv
  BY InitInv
<1>2. ConsoleInv /\ [Next]_vars => ConsoleInv'
  BY NextInv
<1>3. ConsoleInv => TypeOK
  BY DEF ConsoleInv
<1> QED
  BY <1>1, <1>2, <1>3, PTL DEF Spec

(* An answer "success" of the handlers of api.cpp was given after tmux had *)
(* accepted every command of the request, also by a loop over kinds of     *)
(* entities in which the session ended and came back between two commands. *)
THEOREM SuccessIsTyped == Spec => []AnnouncedIsTyped
<1>1. Init => ConsoleInv
  BY InitInv
<1>2. ConsoleInv /\ [Next]_vars => ConsoleInv'
  BY NextInv
<1>3. ConsoleInv => AnnouncedIsTyped
  BY DEF ConsoleInv, OpOK, AnnouncedIsTyped
<1> QED
  BY <1>1, <1>2, <1>3, PTL DEF Spec
=============================================================================
