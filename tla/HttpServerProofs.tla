-------------------------- MODULE HttpServerProofs --------------------------
(***************************************************************************)
(* Proofs about HttpServer, for every number of clients, workers,          *)
(* descriptors and places in the queue.                                    *)
(*                                                                         *)
(* ServerInv holds whatever the clients send.  Its heart: the kernel's     *)
(* table and the numbers the tasks captured agree as long as a connection  *)
(* is open, and an open connection is in somebody's hands: the main        *)
(* loop's, the queue's or a worker's.  OnceInv holds besides it when no    *)
(* request is answered twice: the POST to an unknown route is, and the run *)
(* http_unknown_route shows what follows.                                  *)
(***************************************************************************)
EXTENDS HttpServer, FiniteSetTheorems, TLAPS

AnsweredOnce == Kinds \cap TwoReplies = {}

Busy == {"recv", "respond", "close", "abort"}

(* The connection has been accepted: its task knows a number.              *)
Accepted(c) == peer[c] \in {"open", "closed"} /\ sock[c] \in Fds

(* A number in use stands for the open connection that captured it.        *)
NumbersAgree ==
  /\ \A f \in Fds : fds[f] # None => peer[fds[f]] = "open" /\ sock[fds[f]] = f
  /\ \A c \in Conns : peer[c] = "open" => sock[c] \in Fds /\ fds[sock[c]] = c

BacklogWaits ==
  /\ \A i \in DOMAIN backlog : peer[backlog[i]] = "backlog"
  /\ \A i, j \in DOMAIN backlog : backlog[i] = backlog[j] => i = j

(* A handler that is done has closed its connection, or found it closed.   *)
HandlersHold ==
  \A c \in Conns :
    /\ hpc[c] \in Busy => Accepted(c)
    /\ hpc[c] \in {"returned", "done"} => peer[c] = "closed"
    /\ peer[c] \in {"new", "backlog"} => hpc[c] = "none"
    /\ hpc[c] \in {"respond", "close"} => todo[c] # 0

MainHolds ==
  /\ mpc = "select" => mconn = None
  /\ mpc \in {"select", "accepted", "enqueue"} => failures < MaxFailures /\ phase = "open"
  /\ mpc \in {"accepted", "enqueue"} =>
       mconn \in Conns /\ Accepted(mconn) /\ hpc[mconn] = "none" /\ mconn \notin Pool!Pending
  /\ phase = "ended" => mpc = "exit" /\ pending = <<>> /\ \A w \in Workers : lane[w] = None

PoolHolds ==
  /\ Len(pending) <= MaxQueue
  /\ \A i \in DOMAIN pending : Accepted(pending[i]) /\ hpc[pending[i]] = "none"
  /\ \A i, j \in DOMAIN pending : pending[i] = pending[j] => i = j
  /\ \A w \in Workers : lane[w] # None => hpc[lane[w]] \in Busy \cup {"returned"}
  /\ \A v, w \in Workers : lane[v] # None /\ lane[v] = lane[w] => v = w
  /\ refused = {} /\ \A c \in completed : hpc[c] = "done"

(* An open connection is somebody's.                                       *)
OpenIsHeld ==
  \A c \in Conns : peer[c] = "open" =>
    c = mconn \/ (\E i \in DOMAIN pending : pending[i] = c) \/ (\E w \in Workers : lane[w] = c)

ServerInv ==
  /\ TypeOK /\ NumbersAgree /\ BacklogWaits /\ HandlersHold /\ MainHolds /\ PoolHolds /\ OpenIsHeld

(* Where no request is answered twice nobody closes what is not his, and   *)
(* what is in somebody's hands is open.                                    *)
OnceInv ==
  /\ \A c \in Conns : /\ hpc[c] \in Busy => peer[c] = "open"
                      /\ todo[c] # 2
                      /\ hpc[c] \in {"respond", "close"} => reads[c] = c
  /\ mpc \in {"accepted", "enqueue"} => peer[mconn] = "open"
  /\ \A i \in DOMAIN pending : peer[pending[i]] = "open"
  /\ OwnResponse

-----------------------------------------------------------------------------
LEMMA Constants ==
  /\ MaxQueue \in Nat \ {0} /\ NumFds \in Nat \ {0} /\ MaxFailures \in Nat \ {0}
  /\ None \notin Conns /\ 0 \in Fds
  BY ServerAssumption DEF Fds

LEMMA PoolTypes ==
  TypeOK => /\ pending \in Seq(Conns) /\ DOMAIN pending = 1..Len(pending) /\ Len(pending) \in Nat
            /\ lane \in [Workers -> Conns \cup {None}]
            /\ backlog \in Seq(Conns) /\ DOMAIN backlog = 1..Len(backlog) /\ Len(backlog) \in Nat
            /\ \A i \in DOMAIN pending : pending[i] \in Conns
            /\ \A i \in DOMAIN backlog : backlog[i] \in Conns
  BY DEF TypeOK, Pool!TypeOK

(* What a queue holds after one more came, or the first one left.          *)
LEMMA QueueAdd ==
  ASSUME NEW q \in Seq(Conns), NEW c \in Conns
  PROVE  /\ Append(q, c) \in Seq(Conns) /\ Len(Append(q, c)) = Len(q) + 1
         /\ DOMAIN Append(q, c) = 1..(Len(q) + 1)
         /\ \A i \in 1..Len(q) : Append(q, c)[i] = q[i]
         /\ Append(q, c)[Len(q) + 1] = c
  OBVIOUS

LEMMA QueueDrop ==
  ASSUME NEW q \in Seq(Conns), q # <<>>
  PROVE  /\ Head(q) \in Conns /\ Head(q) = q[1] /\ 1 \in DOMAIN q
         /\ Tail(q) \in Seq(Conns) /\ Len(Tail(q)) = Len(q) - 1 /\ DOMAIN Tail(q) = 1..(Len(q) - 1)
         /\ DOMAIN q = 1..Len(q) /\ Len(q) \in Nat
         /\ \A i \in DOMAIN Tail(q) : Tail(q)[i] = q[i + 1] /\ i + 1 \in DOMAIN q
  OBVIOUS

Peers == {"new", "backlog", "open", "closed"}
Places == {"none", "recv", "respond", "close", "abort", "returned", "done"}

(* close() of a number closes at most the connection that has it, and      *)
(* nobody's who has another one.                                           *)
LEMMA CloseNumber ==
  ASSUME ServerInv, NEW f \in Fds, Close(f), UNCHANGED sock
  PROVE  /\ fds' \in [Fds -> Conns \cup {None}] /\ peer' \in [Conns -> Peers]
         /\ backlog' = backlog /\ timeo' = timeo
         /\ \A g \in Fds : fds'[g] = IF g = f THEN None ELSE fds[g]
         /\ \A d \in Conns : peer'[d] = IF fds[f] = d THEN "closed" ELSE peer[d]
         /\ \A d \in Conns : fds[f] = d => peer[d] = "open"
         /\ \A d \in Conns : sock[d] = f => peer'[d] # "open"
         /\ \A d \in Conns : Accepted(d) => Accepted(d)'
         /\ NumbersAgree' /\ BacklogWaits'
<1>1. fds \in [Fds -> Conns \cup {None}] /\ peer \in [Conns -> Peers]
  BY DEF ServerInv, TypeOK, Peers
<1>2. /\ fds' = [fds EXCEPT ![f] = None]
      /\ peer' = [c \in Conns |-> IF fds[f] = c THEN "closed" ELSE peer[c]]
      /\ UNCHANGED <<backlog, timeo, sock>>
  BY DEF Close
<1>3. \A g \in Fds : fds'[g] = IF g = f THEN None ELSE fds[g]
  BY <1>1, <1>2
<1>4. \A d \in Conns : peer'[d] = IF fds[f] = d THEN "closed" ELSE peer[d]
  BY <1>2
<1>5. peer' \in [Conns -> Peers]
  BY <1>1, <1>2 DEF Peers
<1>6. fds' \in [Fds -> Conns \cup {None}]
  BY <1>1, <1>2
<1>7. \A d \in Conns : fds[f] = d => peer[d] = "open"
  BY Constants DEF ServerInv, NumbersAgree
<1>8. \A d \in Conns : sock[d] = f => peer'[d] # "open"
  BY <1>4 DEF ServerInv, NumbersAgree
<1>9. \A d \in Conns : Accepted(d) => Accepted(d)'
  BY <1>2, <1>4 DEF Accepted
<1>10. NumbersAgree'
  <2>1. ASSUME NEW g \in Fds, fds'[g] # None PROVE peer'[fds'[g]] = "open" /\ sock[fds'[g]] = g
    <3>1. g # f /\ fds'[g] = fds[g] /\ fds[g] \in Conns
      BY <1>1, <1>3, <2>1
    <3>2. peer[fds[g]] = "open" /\ sock[fds[g]] = g
      BY <2>1, <3>1 DEF ServerInv, NumbersAgree
    <3>3. fds[f] # fds[g]
      BY <3>1, <3>2, <2>1 DEF ServerInv, NumbersAgree
    <3> QED
      BY <1>4, <3>1, <3>2, <3>3
  <2>2. ASSUME NEW d \in Conns, peer'[d] = "open" PROVE sock[d] \in Fds /\ fds'[sock[d]] = d
    <3>1. peer[d] = "open" /\ sock[d] # f
      BY <1>4, <1>8, <2>2
    <3> QED
      BY <1>3, <3>1 DEF ServerInv, NumbersAgree
  <2> QED
    BY <1>2, <2>1, <2>2 DEF NumbersAgree
<1>11. BacklogWaits'
  <2>1. \A i \in DOMAIN backlog : backlog[i] \in Conns /\ peer[backlog[i]] = "backlog"
    BY PoolTypes DEF ServerInv, BacklogWaits
  <2>2. \A i \in DOMAIN backlog : peer'[backlog[i]] = "backlog"
    BY <1>4, <1>7, <2>1
  <2> QED
    BY <1>2, <2>2 DEF ServerInv, BacklogWaits
<1> QED
  BY <1>2, <1>3, <1>4, <1>5, <1>6, <1>7, <1>8, <1>9, <1>10, <1>11

LEMMA InitServerInv ==
  Init => ServerInv
<1> SUFFICES ASSUME Init PROVE ServerInv
  OBVIOUS
<1>1. TypeOK
  BY Constants DEF Init, TypeOK, Pool!Init, Pool!TypeOK
<1>2. NumbersAgree /\ BacklogWaits /\ HandlersHold /\ OpenIsHeld
  BY DEF Init, NumbersAgree, BacklogWaits, HandlersHold, OpenIsHeld, Busy
<1>3. MainHolds /\ PoolHolds
  BY Constants DEF Init, MainHolds, PoolHolds, Pool!Init
<1> QED
  BY <1>1, <1>2, <1>3 DEF ServerInv

-----------------------------------------------------------------------------
(* The main loop.                                                          *)

LEMMA ConnectInv ==
  ASSUME ServerInv, NEW c \in Conns, Connect(c)
  PROVE  ServerInv'
<1>1. /\ peer[c] = "new" /\ peer' = [peer EXCEPT ![c] = "backlog"] /\ backlog' = Append(backlog, c)
      /\ UNCHANGED <<phase, pending, lane, completed, refused, mpc, mconn, failures, fds, timeo,
                     hpc, todo, guarded, reads, sock, got>>
  BY DEF Connect, poolVars, mainVars, handlerVars
<1>2. /\ peer'[c] = "backlog" /\ \A d \in Conns \ {c} : peer'[d] = peer[d]
      /\ hpc[c] = "none" /\ ~Accepted(c)
  BY <1>1 DEF ServerInv, TypeOK, HandlersHold, Accepted
<1>3. backlog \in Seq(Conns) /\ \A i \in DOMAIN backlog : backlog[i] # c
  BY <1>1 DEF ServerInv, TypeOK, BacklogWaits
<1>4. \A d \in Conns : Accepted(d) => Accepted(d)'
  BY <1>1, <1>2 DEF Accepted
<1>5. TypeOK'
  BY <1>1, <1>3, QueueAdd DEF ServerInv, TypeOK, Pool!TypeOK
<1>6. BacklogWaits'
  BY <1>1, <1>2, <1>3, QueueAdd, PoolTypes DEF ServerInv, BacklogWaits
<1>7. NumbersAgree'
  BY <1>1, <1>2 DEF ServerInv, NumbersAgree, TypeOK
<1>8. HandlersHold'
  BY <1>1, <1>2, <1>4 DEF ServerInv, HandlersHold, Busy
<1>9. MainHolds'
  BY <1>1, <1>4 DEF ServerInv, MainHolds, Pool!Pending
<1>10. PoolHolds'
  BY <1>1, <1>4, PoolTypes DEF ServerInv, PoolHolds
<1>11. OpenIsHeld'
  BY <1>1, <1>2 DEF ServerInv, OpenIsHeld
<1> QED
  BY <1>5, <1>6, <1>7, <1>8, <1>9, <1>10, <1>11 DEF ServerInv

LEMMA AcceptInv ==
  ASSUME ServerInv, Accept
  PROVE  ServerInv'
<1> DEFINE c == Head(backlog)
<1>1. /\ mpc = "select" /\ backlog # <<>> /\ mpc' = "accepted" /\ mconn' = c
      /\ backlog' = Tail(backlog) /\ failures' = 0
      /\ UNCHANGED <<phase, pending, lane, completed, refused, hpc, todo, guarded, reads, got>>
  BY DEF Accept, poolVars, handlerVars
<1>2. PICK f \in FreeFds, r \in Remaining :
        /\ fds' = [fds EXCEPT ![f] = c] /\ sock' = [sock EXCEPT ![c] = f]
        /\ peer' = [peer EXCEPT ![c] = "open"] /\ timeo' = [timeo EXCEPT ![c] = r]
  BY DEF Accept
<1>3. /\ c \in Conns /\ c = backlog[1] /\ 1 \in DOMAIN backlog /\ backlog' \in Seq(Conns)
      /\ \A i \in DOMAIN backlog' : backlog'[i] = backlog[i + 1] /\ i + 1 \in DOMAIN backlog /\ i + 1 # 1
  BY <1>1, QueueDrop DEF ServerInv, TypeOK
<1>4. peer[c] = "backlog" /\ \A i \in DOMAIN backlog' : peer[backlog'[i]] = "backlog" /\ backlog'[i] # c
  BY <1>3 DEF ServerInv, BacklogWaits
<1> HIDE DEF c
<1>5. /\ peer'[c] = "open" /\ \A d \in Conns \ {c} : peer'[d] = peer[d] /\ sock'[d] = sock[d]
      /\ sock'[c] = f /\ f \in Fds /\ fds[f] = None
      /\ fds'[f] = c /\ \A g \in Fds \ {f} : fds'[g] = fds[g]
  BY <1>2, <1>3 DEF ServerInv, TypeOK, FreeFds
<1>6. /\ hpc[c] = "none" /\ mconn = None /\ failures < MaxFailures /\ phase = "open" /\ ~Accepted(c)
  BY <1>1, <1>3, <1>4 DEF ServerInv, HandlersHold, MainHolds, Accepted
<1>7. /\ peer'[c] \in {"open", "closed"} /\ sock'[c] \in Fds
      /\ \A d \in Conns : Accepted(d) => Accepted(d)'
  <2>1. ASSUME NEW d \in Conns, Accepted(d) PROVE Accepted(d)'
    BY <1>5, <1>6, <2>1 DEF Accepted
  <2> QED
    BY <1>5, <2>1
<1>8. TypeOK'
  BY <1>1, <1>2, <1>3, <1>5, Constants DEF ServerInv, TypeOK, Pool!TypeOK
<1>9. NumbersAgree'
  <2>1. ASSUME NEW g \in Fds, fds'[g] # None PROVE peer'[fds'[g]] = "open" /\ sock'[fds'[g]] = g
    <3>1. CASE g = f
      BY <1>5, <3>1
    <3>2. CASE g # f
      <4>1. fds'[g] = fds[g] /\ fds[g] \in Conns /\ peer[fds[g]] = "open" /\ sock[fds[g]] = g
        BY <1>5, <2>1, <3>2 DEF ServerInv, NumbersAgree, TypeOK
      <4> QED
        BY <1>4, <1>5, <4>1
    <3> QED
      BY <3>1, <3>2
  <2>2. ASSUME NEW d \in Conns, peer'[d] = "open" PROVE sock'[d] \in Fds /\ fds'[sock'[d]] = d
    <3>1. CASE d = c
      BY <1>5, <3>1
    <3>2. CASE d # c
      <4>1. sock'[d] = sock[d] /\ sock[d] \in Fds /\ fds[sock[d]] = d /\ d # None
        BY <1>5, <2>2, <3>2, Constants DEF ServerInv, NumbersAgree
      <4> QED
        BY <1>5, <4>1
    <3> QED
      BY <3>1, <3>2
  <2> QED
    BY <2>1, <2>2 DEF NumbersAgree
<1>10. BacklogWaits'
  <2>1. \A i \in DOMAIN backlog' : backlog'[i] \in Conns
    BY <1>3, PoolTypes DEF ServerInv
  <2>2. \A i \in DOMAIN backlog' : peer'[backlog'[i]] = "backlog"
    BY <1>4, <1>5, <2>1
  <2>3. \A i, j \in DOMAIN backlog' : backlog'[i] = backlog'[j] => i = j
    <3>1. DOMAIN backlog' \subseteq Int
      BY <1>3
    <3> QED
      BY <1>3, <3>1 DEF ServerInv, BacklogWaits
  <2> QED
    BY <2>2, <2>3 DEF BacklogWaits
<1>11. HandlersHold'
  BY <1>1, <1>5, <1>6, <1>7 DEF ServerInv, HandlersHold, Busy
<1>12. MainHolds'
  <2>1. c \notin Pool!Pending
    BY <1>6 DEF ServerInv, PoolHolds, Pool!Pending
  <2> QED
    BY <1>1, <1>3, <1>6, <1>7, <2>1, Constants DEF ServerInv, MainHolds, Pool!Pending, Accepted
<1>13. PoolHolds'
  BY <1>1, <1>7, PoolTypes DEF ServerInv, PoolHolds
<1>14. OpenIsHeld'
  BY <1>1, <1>3, <1>5, <1>6, Constants DEF ServerInv, OpenIsHeld
<1> QED
  BY <1>8, <1>9, <1>10, <1>11, <1>12, <1>13, <1>14 DEF ServerInv

(* A failed select() or accept() that the loop outlives.                   *)
LEMMA CountFailureType ==
  ASSUME ServerInv, CountFailure
  PROVE  /\ mpc = "select" /\ mpc' \in {"select", "exit"} /\ failures' \in 0..MaxFailures
         /\ mpc' = "select" => failures' < MaxFailures
  BY Constants DEF ServerInv, MainHolds, TypeOK, CountFailure

(* Steps that touch neither connections nor handlers nor the queue.        *)
LEMMA RestHolds ==
  ASSUME ServerInv, UNCHANGED <<pending, lane, completed, refused, mconn, backlog, fds, peer, hpc,
                                todo, sock>>
  PROVE  /\ NumbersAgree' /\ BacklogWaits' /\ HandlersHold' /\ PoolHolds' /\ OpenIsHeld'
         /\ \A d \in Conns : Accepted(d) => Accepted(d)'
<1>1. \A d \in Conns : Accepted(d) <=> Accepted(d)'
  BY DEF Accepted
<1> QED
  BY <1>1, PoolTypes
     DEF ServerInv, NumbersAgree, BacklogWaits, HandlersHold, PoolHolds, OpenIsHeld, Busy

LEMMA SelectFailsInv ==
  ASSUME ServerInv, SelectFails
  PROVE  ServerInv'
<1>1. UNCHANGED <<phase, pending, lane, completed, refused, mconn, backlog, fds, peer, timeo,
                  hpc, todo, guarded, reads, sock, got>>
  BY DEF SelectFails, poolVars, netVars, handlerVars
<1>2. /\ mpc = "select" /\ mpc' \in {"select", "exit"} /\ failures' \in 0..MaxFailures
      /\ mpc' = "select" => failures' < MaxFailures
  BY CountFailureType DEF SelectFails
<1>3. TypeOK' /\ MainHolds'
  BY <1>1, <1>2 DEF ServerInv, TypeOK, Pool!TypeOK, MainHolds
<1> QED
  BY <1>1, <1>3, RestHolds DEF ServerInv

LEMMA AcceptFailsInv ==
  ASSUME ServerInv, AcceptFails
  PROVE  ServerInv'
<1>1. /\ backlog # <<>>
      /\ UNCHANGED <<phase, pending, lane, completed, refused, mconn, fds, timeo,
                     hpc, todo, guarded, reads, sock, got>>
      /\ \/ UNCHANGED <<backlog, peer>>
         \/ backlog' = Tail(backlog) /\ peer' = [peer EXCEPT ![Head(backlog)] = "closed"]
  BY DEF AcceptFails, poolVars, handlerVars
<1>2. /\ mpc = "select" /\ mpc' \in {"select", "exit"} /\ failures' \in 0..MaxFailures
      /\ mpc' = "select" => failures' < MaxFailures
  BY CountFailureType DEF AcceptFails
<1>3. CASE UNCHANGED <<backlog, peer>>
  <2>1. TypeOK' /\ MainHolds'
    BY <1>1, <1>2, <1>3 DEF ServerInv, TypeOK, Pool!TypeOK, MainHolds
  <2> QED
    BY <1>1, <1>3, <2>1, RestHolds DEF ServerInv
<1>4. CASE backlog' = Tail(backlog) /\ peer' = [peer EXCEPT ![Head(backlog)] = "closed"]
  <2> DEFINE c == Head(backlog)
  <2>1. /\ c \in Conns /\ c = backlog[1] /\ 1 \in DOMAIN backlog /\ backlog' \in Seq(Conns)
        /\ \A i \in DOMAIN backlog' : backlog'[i] = backlog[i + 1] /\ i + 1 \in DOMAIN backlog /\ i + 1 # 1
        /\ DOMAIN backlog' \subseteq Int
    BY <1>1, <1>4, QueueDrop DEF ServerInv, TypeOK
  <2>2. peer[c] = "backlog" /\ \A i \in DOMAIN backlog' : peer[backlog'[i]] = "backlog" /\ backlog'[i] # c
    BY <2>1 DEF ServerInv, BacklogWaits
  <2>3. peer' = [peer EXCEPT ![c] = "closed"]
    BY <1>4
  <2> HIDE DEF c
  <2>4. peer'[c] = "closed" /\ (\A d \in Conns \ {c} : peer'[d] = peer[d]) /\ hpc[c] = "none"
    BY <2>1, <2>2, <2>3 DEF ServerInv, TypeOK, HandlersHold
  <2>5. \A d \in Conns : Accepted(d) => Accepted(d)'
    BY <1>1, <2>4 DEF Accepted
  <2>6. TypeOK'
    BY <1>1, <1>2, <2>1, <2>3 DEF ServerInv, TypeOK, Pool!TypeOK
  <2>7. MainHolds'
    BY <1>1, <1>2 DEF ServerInv, MainHolds
  <2>8. NumbersAgree'
    <3>1. \A f \in Fds : fds[f] # None => fds[f] \in Conns \ {c}
      BY <2>2 DEF ServerInv, NumbersAgree, TypeOK
    <3> QED
      BY <1>1, <2>4, <3>1 DEF ServerInv, NumbersAgree
  <2>9. BacklogWaits'
    <3>1. \A i \in DOMAIN backlog' : backlog'[i] \in Conns
      BY <2>1, PoolTypes DEF ServerInv
    <3> QED
      BY <2>1, <2>2, <2>4, <3>1 DEF ServerInv, BacklogWaits
  <2>10. HandlersHold'
    BY <1>1, <2>2, <2>4, <2>5 DEF ServerInv, HandlersHold, Busy
  <2>11. PoolHolds'
    BY <1>1, <2>5, PoolTypes DEF ServerInv, PoolHolds
  <2>12. OpenIsHeld'
    BY <1>1, <2>2, <2>4 DEF ServerInv, OpenIsHeld
  <2> QED
    BY <2>6, <2>7, <2>8, <2>9, <2>10, <2>11, <2>12 DEF ServerInv
<1> QED
  BY <1>1, <1>3, <1>4

LEMMA IpBlockedInv ==
  ASSUME ServerInv, IpBlocked
  PROVE  ServerInv'
<1> DEFINE c == mconn
<1>1. /\ mpc = "accepted" /\ Close(sock[c]) /\ mpc' = "select" /\ mconn' = None
      /\ UNCHANGED <<phase, pending, lane, completed, refused, failures, backlog, timeo,
                     hpc, todo, guarded, reads, sock, got>>
  BY DEF IpBlocked, poolVars, handlerVars, Close
<1>2. c \in Conns /\ sock[c] \in Fds /\ hpc[c] = "none" /\ phase = "open" /\ failures < MaxFailures
  BY <1>1 DEF ServerInv, MainHolds, Accepted
<1>3. /\ peer' \in [Conns -> Peers] /\ fds' \in [Fds -> Conns \cup {None}]
      /\ NumbersAgree' /\ BacklogWaits'
      /\ \A d \in Conns : peer'[d] = peer[d] \/ (peer[d] = "open" /\ peer'[d] = "closed")
      /\ peer'[c] # "open"
      /\ \A d \in Conns : Accepted(d) => Accepted(d)'
  <2>1. /\ peer' \in [Conns -> Peers] /\ fds' \in [Fds -> Conns \cup {None}]
        /\ \A d \in Conns : peer'[d] = IF fds[sock[c]] = d THEN "closed" ELSE peer[d]
        /\ \A d \in Conns : fds[sock[c]] = d => peer[d] = "open"
        /\ \A d \in Conns : sock[d] = sock[c] => peer'[d] # "open"
        /\ \A d \in Conns : Accepted(d) => Accepted(d)'
        /\ NumbersAgree' /\ BacklogWaits'
    BY <1>1, <1>2, CloseNumber
  <2>2. \A d \in Conns : peer'[d] = peer[d] \/ (peer[d] = "open" /\ peer'[d] = "closed")
    BY <2>1
  <2>3. peer'[c] # "open"
    BY <1>2, <2>1
  <2> QED
    BY <2>1, <2>2, <2>3
<1> HIDE DEF c
<1>4. TypeOK'
  BY <1>1, <1>3, Constants DEF ServerInv, TypeOK, Pool!TypeOK, Peers
<1>5. HandlersHold'
  BY <1>1, <1>3 DEF ServerInv, HandlersHold, Busy
<1>6. MainHolds'
  BY <1>1, <1>2 DEF ServerInv, MainHolds
<1>7. PoolHolds'
  BY <1>1, <1>3, PoolTypes DEF ServerInv, PoolHolds
<1>8. OpenIsHeld'
  BY <1>1, <1>2, <1>3 DEF ServerInv, OpenIsHeld, c
<1> QED
  BY <1>3, <1>4, <1>5, <1>6, <1>7, <1>8 DEF ServerInv

LEMMA IpAllowedInv ==
  ASSUME ServerInv, IpAllowed
  PROVE  ServerInv'
<1>1. /\ mpc = "accepted" /\ mpc' = "enqueue"
      /\ UNCHANGED <<phase, pending, lane, completed, refused, mconn, failures, backlog, fds, peer,
                     timeo, hpc, todo, guarded, reads, sock, got>>
  BY DEF IpAllowed, poolVars, netVars, handlerVars
<1>2. TypeOK' /\ MainHolds'
  BY <1>1 DEF ServerInv, TypeOK, Pool!TypeOK, MainHolds, Pool!Pending, Accepted
<1> QED
  BY <1>1, <1>2, RestHolds DEF ServerInv

LEMMA DatabaseFailsInv ==
  ASSUME ServerInv, DatabaseFails
  PROVE  ServerInv'
<1>1. /\ mpc = "accepted" /\ mpc' = "unwinding" /\ phase' = "draining"
      /\ UNCHANGED <<pending, lane, completed, refused, mconn, failures, backlog, fds, peer,
                     timeo, hpc, todo, guarded, reads, sock, got>>
  BY DEF DatabaseFails, Pool!Close, netVars, handlerVars
<1>2. TypeOK' /\ MainHolds'
  BY <1>1 DEF ServerInv, TypeOK, Pool!TypeOK, MainHolds
<1> QED
  BY <1>1, <1>2, RestHolds DEF ServerInv

LEMMA EnqueueInv ==
  ASSUME ServerInv, Enqueue
  PROVE  ServerInv'
<1> DEFINE c == mconn
<1>1. /\ mpc = "enqueue" /\ mpc' = "select" /\ mconn' = None
      /\ pending' = Append(pending, c) /\ Len(pending) < MaxQueue
      /\ UNCHANGED <<phase, lane, completed, refused, failures, backlog, fds, peer,
                     timeo, hpc, todo, guarded, reads, sock, got>>
  BY DEF Enqueue, Pool!Accept, netVars, handlerVars
<1>2. c \in Conns /\ Accepted(c) /\ hpc[c] = "none" /\ \A i \in DOMAIN pending : pending[i] # c
  BY <1>1 DEF ServerInv, MainHolds, Pool!Pending
<1>3. /\ pending \in Seq(Conns) /\ Len(pending) \in Nat /\ DOMAIN pending = 1..Len(pending)
  BY PoolTypes DEF ServerInv
<1> HIDE DEF c
<1>4. /\ pending' \in Seq(Conns) /\ Len(pending') = Len(pending) + 1
      /\ DOMAIN pending' = 1..(Len(pending) + 1)
      /\ \A i \in DOMAIN pending : pending'[i] = pending[i] /\ i \in DOMAIN pending'
      /\ pending'[Len(pending) + 1] = c /\ Len(pending) + 1 \in DOMAIN pending'
  BY <1>1, <1>2, <1>3, QueueAdd
<1>5. \A d \in Conns : Accepted(d) => Accepted(d)'
  BY <1>1 DEF Accepted
<1>6. TypeOK'
  BY <1>1, <1>4, Constants DEF ServerInv, TypeOK, Pool!TypeOK
<1>7. NumbersAgree' /\ BacklogWaits' /\ HandlersHold'
  BY <1>1, <1>5 DEF ServerInv, NumbersAgree, BacklogWaits, HandlersHold
<1>8. MainHolds'
  BY <1>1 DEF ServerInv, MainHolds
<1>9. PoolHolds'
  <2>1. Len(pending') <= MaxQueue
    BY <1>1, <1>3, <1>4, Constants
  <2>2. \A i \in DOMAIN pending' : i = Len(pending) + 1 \/ i \in DOMAIN pending
    BY <1>3, <1>4
  <2>3. \A i \in DOMAIN pending' : Accepted(pending'[i]) /\ hpc[pending'[i]] = "none"
    BY <1>2, <1>4, <2>2 DEF ServerInv, PoolHolds
  <2>4. \A i, j \in DOMAIN pending' : pending'[i] = pending'[j] => i = j
    BY <1>2, <1>4, <2>2 DEF ServerInv, PoolHolds
  <2>5. \A i \in DOMAIN pending' : peer'[pending'[i]] \in {"open", "closed"} /\ sock'[pending'[i]] \in Fds
    BY <1>1, <2>3 DEF Accepted
  <2> QED
    BY <1>1, <2>1, <2>3, <2>4, <2>5 DEF ServerInv, PoolHolds, Accepted
<1>10. OpenIsHeld'
  <2> SUFFICES ASSUME NEW d \in Conns, peer[d] = "open"
               PROVE  \/ \E i \in DOMAIN pending' : pending'[i] = d
                      \/ \E w \in Workers : lane[w] = d
    BY <1>1 DEF OpenIsHeld
  <2>1. CASE d = c
    BY <1>4, <2>1
  <2>2. CASE \E i \in DOMAIN pending : pending[i] = d
    BY <1>4, <2>2
  <2>3. d = c \/ (\E i \in DOMAIN pending : pending[i] = d) \/ (\E w \in Workers : lane[w] = d)
    BY DEF ServerInv, OpenIsHeld, c
  <2> QED
    BY <2>1, <2>2, <2>3
<1> QED
  BY <1>6, <1>7, <1>8, <1>9, <1>10 DEF ServerInv

LEMMA UnwoundInv ==
  ASSUME ServerInv, Unwound
  PROVE  ServerInv'
<1>1. /\ mpc = "unwinding" /\ mpc' = "exit" /\ phase' = "ended"
      /\ pending = <<>> /\ \A w \in Workers : lane[w] = None
      /\ UNCHANGED <<pending, lane, completed, refused, mconn, failures, backlog, fds, peer,
                     timeo, hpc, todo, guarded, reads, sock, got>>
  BY DEF Unwound, Pool!End, netVars, handlerVars
<1>2. TypeOK' /\ MainHolds'
  BY <1>1 DEF ServerInv, TypeOK, Pool!TypeOK, MainHolds
<1> QED
  BY <1>1, <1>2, RestHolds DEF ServerInv

-----------------------------------------------------------------------------
(* The workers.                                                            *)

LEMMA WorkerStartsInv ==
  ASSUME ServerInv, NEW w \in Workers, WorkerStarts(w)
  PROVE  ServerInv'
<1> DEFINE c == Head(pending)
<1>1. /\ mpc # "exit" /\ phase # "ended" /\ lane[w] = None /\ pending # <<>>
      /\ lane' = [lane EXCEPT ![w] = c] /\ pending' = Tail(pending)
      /\ hpc' = [hpc EXCEPT ![lane'[w]] = "recv"]
      /\ UNCHANGED <<phase, completed, refused, mpc, mconn, failures, backlog, fds, peer,
                     timeo, todo, guarded, reads, sock, got>>
  BY DEF WorkerStarts, Running, Pool!Start, mainVars, netVars
<1>2. /\ pending \in Seq(Conns) /\ lane \in [Workers -> Conns \cup {None}]
      /\ Len(pending) \in Nat /\ Len(pending) <= MaxQueue
  BY PoolTypes DEF ServerInv, PoolHolds
<1>3. /\ c \in Conns /\ c = pending[1] /\ 1 \in DOMAIN pending /\ pending' \in Seq(Conns)
      /\ Len(pending') = Len(pending) - 1
      /\ DOMAIN pending' = 1..(Len(pending) - 1) /\ DOMAIN pending = 1..Len(pending)
      /\ \A i \in DOMAIN pending' : pending'[i] = pending[i + 1] /\ i + 1 \in DOMAIN pending /\ i + 1 # 1
  BY <1>1, <1>2, QueueDrop
<1>4. Accepted(c) /\ hpc[c] = "none"
  BY <1>3 DEF ServerInv, PoolHolds
<1>5. \A i \in DOMAIN pending' : pending'[i] \in Conns \ {c}
  BY <1>2, <1>3, PoolTypes DEF ServerInv, PoolHolds
<1>6. \A v \in Workers : lane[v] # c
  BY <1>3, <1>4, Constants DEF ServerInv, PoolHolds, Busy
<1> HIDE DEF c
<1>7. /\ hpc' = [hpc EXCEPT ![c] = "recv"] /\ hpc'[c] = "recv"
      /\ \A d \in Conns \ {c} : hpc'[d] = hpc[d]
  BY <1>1, <1>2, <1>3 DEF ServerInv, TypeOK
<1>8. lane'[w] = c /\ \A v \in Workers \ {w} : lane'[v] = lane[v]
  BY <1>1, <1>2
<1>9. \A d \in Conns : Accepted(d) => Accepted(d)'
  BY <1>1 DEF Accepted
<1>10. TypeOK'
  BY <1>1, <1>2, <1>3, <1>7 DEF ServerInv, TypeOK, Pool!TypeOK
<1>11. NumbersAgree' /\ BacklogWaits'
  BY <1>1 DEF ServerInv, NumbersAgree, BacklogWaits
<1>12. HandlersHold'
  <2>1. peer[c] \in {"open", "closed"}
    BY <1>4 DEF Accepted
  <2> QED
    BY <1>1, <1>4, <1>7, <1>9, <2>1 DEF ServerInv, HandlersHold, Busy
<1>13. MainHolds'
  <2>1. mpc \in {"accepted", "enqueue"} => mconn # c
    BY <1>3 DEF ServerInv, MainHolds, Pool!Pending
  <2>2. mpc \in {"accepted", "enqueue"} => mconn \notin Pool!Pending'
    BY <1>3 DEF ServerInv, MainHolds, Pool!Pending
  <2> QED
    BY <1>1, <1>7, <1>9, <2>1, <2>2 DEF ServerInv, MainHolds
<1>14. PoolHolds'
  <2>1. Len(pending') <= MaxQueue
    BY <1>2, <1>3, Constants
  <2>2. \A i \in DOMAIN pending' : /\ peer'[pending'[i]] \in {"open", "closed"} /\ sock'[pending'[i]] \in Fds
                                   /\ hpc'[pending'[i]] = "none"
    BY <1>1, <1>3, <1>5, <1>7 DEF ServerInv, PoolHolds, Accepted
  <2>3. \A i, j \in DOMAIN pending' : pending'[i] = pending'[j] => i = j
    BY <1>2, <1>3 DEF ServerInv, PoolHolds
  <2>4. \A v \in Workers : lane'[v] # None => hpc'[lane'[v]] \in Busy \cup {"returned"}
    BY <1>2, <1>6, <1>7, <1>8 DEF ServerInv, PoolHolds, Busy
  <2>5. \A u, v \in Workers : lane'[u] # None /\ lane'[u] = lane'[v] => u = v
    BY <1>2, <1>6, <1>8 DEF ServerInv, PoolHolds
  <2>6. refused' = {} /\ \A d \in completed' : hpc'[d] = "done"
    <3>1. completed \subseteq Conns \ {c}
      BY <1>4 DEF ServerInv, TypeOK, Pool!TypeOK, PoolHolds
    <3> QED
      BY <1>1, <1>7, <3>1 DEF ServerInv, PoolHolds
  <2> QED
    BY <2>1, <2>2, <2>3, <2>4, <2>5, <2>6 DEF PoolHolds, Accepted
<1>15. OpenIsHeld'
  <2> SUFFICES ASSUME NEW d \in Conns, peer[d] = "open"
               PROVE  \/ d = mconn \/ (\E i \in DOMAIN pending' : pending'[i] = d)
                      \/ (\E v \in Workers : lane'[v] = d)
    BY <1>1 DEF OpenIsHeld
  <2>1. CASE d = c
    BY <1>8, <2>1
  <2>2. ASSUME NEW i \in DOMAIN pending, pending[i] = d PROVE d = c \/ \E j \in DOMAIN pending' : pending'[j] = d
    <3>1. CASE i = 1
      BY <1>3, <2>2, <3>1
    <3>2. CASE i # 1
      <4>1. i - 1 \in DOMAIN pending' /\ (i - 1) + 1 = i
        BY <1>2, <1>3, <3>2
      <4> QED
        BY <1>3, <2>2, <4>1
    <3> QED
      BY <3>1, <3>2
  <2>3. ASSUME NEW v \in Workers, lane[v] = d PROVE \E u \in Workers : lane'[u] = d
    BY <1>1, <1>8, <2>3, Constants
  <2>4. d = mconn \/ (\E i \in DOMAIN pending : pending[i] = d) \/ (\E v \in Workers : lane[v] = d)
    BY DEF ServerInv, OpenIsHeld
  <2> QED
    BY <2>1, <2>2, <2>3, <2>4
<1> QED
  BY <1>10, <1>11, <1>12, <1>13, <1>14, <1>15 DEF ServerInv

LEMMA WorkerReturnsInv ==
  ASSUME ServerInv, NEW w \in Workers, WorkerReturns(w)
  PROVE  ServerInv'
<1> DEFINE c == lane[w]
<1>1. /\ c # None /\ hpc[c] = "returned"
      /\ completed' = completed \cup {c} /\ lane' = [lane EXCEPT ![w] = None]
      /\ hpc' = [hpc EXCEPT ![c] = "done"]
      /\ UNCHANGED <<phase, pending, refused, mpc, mconn, failures, backlog, fds, peer,
                     timeo, todo, guarded, reads, sock, got>>
  BY DEF WorkerReturns, Pool!Finish, mainVars, netVars
<1>2. c \in Conns /\ lane \in [Workers -> Conns \cup {None}] /\ peer[c] = "closed"
  BY <1>1, PoolTypes DEF ServerInv, HandlersHold
<1>3. \A v \in Workers \ {w} : lane[v] # c
  BY <1>1 DEF ServerInv, PoolHolds
<1> HIDE DEF c
<1>4. hpc'[c] = "done" /\ \A d \in Conns \ {c} : hpc'[d] = hpc[d]
  BY <1>1, <1>2 DEF ServerInv, TypeOK
<1>5. lane'[w] = None /\ \A v \in Workers \ {w} : lane'[v] = lane[v]
  BY <1>1, <1>2
<1>6. \A d \in Conns : Accepted(d) => Accepted(d)'
  BY <1>1 DEF Accepted
<1>7. TypeOK'
  BY <1>1, <1>2 DEF ServerInv, TypeOK, Pool!TypeOK
<1>8. NumbersAgree' /\ BacklogWaits'
  BY <1>1 DEF ServerInv, NumbersAgree, BacklogWaits
<1>9. HandlersHold'
  BY <1>1, <1>2, <1>4, <1>6 DEF ServerInv, HandlersHold, Busy
<1>10. MainHolds'
  BY <1>1, <1>4, <1>5, <1>6 DEF ServerInv, MainHolds, Pool!Pending
<1>11. PoolHolds'
  <2>1. \A i \in DOMAIN pending : pending[i] \in Conns \ {c}
    BY <1>1, PoolTypes DEF ServerInv, PoolHolds
  <2>2. \A v \in Workers : lane'[v] # None => lane'[v] = lane[v] /\ lane[v] \in Conns \ {c}
    BY <1>2, <1>3, <1>5
  <2>3. refused' = {} /\ \A d \in completed' : hpc'[d] = "done"
    BY <1>1, <1>4 DEF ServerInv, TypeOK, Pool!TypeOK, PoolHolds
  <2>4. \A i \in DOMAIN pending' : Accepted(pending[i])' /\ hpc'[pending[i]] = "none"
    BY <1>1, <1>4, <1>6, <2>1 DEF ServerInv, PoolHolds
  <2>5. \A v \in Workers : lane'[v] # None => hpc'[lane'[v]] \in Busy \cup {"returned"}
    BY <1>4, <2>2 DEF ServerInv, PoolHolds
  <2>6. \A u, v \in Workers : lane'[u] # None /\ lane'[u] = lane'[v] => u = v
    BY <2>2 DEF ServerInv, PoolHolds
  <2> QED
    BY <1>1, <2>3, <2>4, <2>5, <2>6 DEF ServerInv, PoolHolds, Accepted
<1>12. OpenIsHeld'
  <2> SUFFICES ASSUME NEW d \in Conns, peer[d] = "open"
               PROVE  \/ d = mconn \/ (\E i \in DOMAIN pending : pending[i] = d)
                      \/ (\E v \in Workers : lane'[v] = d)
    BY <1>1 DEF OpenIsHeld
  <2>1. d # c
    BY <1>2
  <2> QED
    BY <1>5, <2>1 DEF ServerInv, OpenIsHeld, c
<1> QED
  BY <1>7, <1>8, <1>9, <1>10, <1>11, <1>12 DEF ServerInv

-----------------------------------------------------------------------------
(* The handlers.  One lemma for the steps that leave every connection as   *)
(* it is, one for those that close a number.                               *)

LEMMA HandlerMoves ==
  ASSUME ServerInv, NEW c \in Conns, hpc[c] \in Busy, NEW to \in Busy \cup {"returned"},
         hpc' = [hpc EXCEPT ![c] = to],
         UNCHANGED <<poolVars, mainVars, sock>>,
         \A d \in Conns : Accepted(d) => Accepted(d)'
  PROVE  MainHolds' /\ PoolHolds' /\ hpc' \in [Conns -> Places]
<1>1. UNCHANGED <<phase, pending, lane, completed, refused, mpc, mconn, failures>>
  BY DEF poolVars, mainVars
<1>2. /\ hpc \in [Conns -> Places] /\ hpc'[c] = to /\ \A d \in Conns \ {c} : hpc'[d] = hpc[d]
      /\ hpc[c] # "none" /\ hpc[c] # "done"
  BY DEF ServerInv, TypeOK, Places, Busy
<1>3. hpc' \in [Conns -> Places]
  BY <1>2 DEF Places, Busy
<1>4. MainHolds'
  <2>1. mpc \in {"accepted", "enqueue"} => mconn \in Conns /\ mconn # c
    BY <1>2 DEF ServerInv, MainHolds
  <2> QED
    BY <1>1, <1>2, <2>1 DEF ServerInv, MainHolds, Pool!Pending
<1>5. PoolHolds'
  <2>1. \A i \in DOMAIN pending : pending[i] \in Conns \ {c}
    BY <1>2, PoolTypes DEF ServerInv, PoolHolds
  <2>2. \A i \in DOMAIN pending : Accepted(pending[i])' /\ hpc'[pending[i]] = "none"
    BY <1>1, <1>2, <2>1 DEF ServerInv, PoolHolds
  <2>3. \A w \in Workers : lane[w] # None => lane[w] \in Conns
    BY PoolTypes DEF ServerInv
  <2>4. \A w \in Workers : lane[w] # None => hpc'[lane[w]] \in Busy \cup {"returned"}
    BY <1>2, <2>3 DEF ServerInv, PoolHolds
  <2>5. \A d \in completed : hpc'[d] = "done"
    BY <1>2 DEF ServerInv, TypeOK, Pool!TypeOK, PoolHolds
  <2> QED
    BY <1>1, <2>2, <2>4, <2>5 DEF ServerInv, PoolHolds, Accepted
<1> QED
  BY <1>3, <1>4, <1>5

LEMMA HandlerWorks ==
  ASSUME ServerInv, NEW c \in Conns, hpc[c] \in Busy, NEW to \in Busy,
         hpc' = [hpc EXCEPT ![c] = to],
         UNCHANGED <<poolVars, mainVars, netVars, sock>>,
         todo' \in [Conns -> 0..2], guarded' \in [Conns -> BOOLEAN],
         reads' \in [Conns -> Conns \cup {None}], got' \in [Conns -> Seq(Conns)],
         \A d \in Conns \ {c} : todo'[d] = todo[d],
         to \in {"respond", "close"} => todo'[c] # 0
  PROVE  ServerInv'
<1>1. UNCHANGED <<phase, pending, lane, completed, refused, mpc, mconn, failures, backlog, fds, peer,
                  timeo, sock>>
  BY DEF poolVars, mainVars, netVars
<1>2. \A d \in Conns : Accepted(d) => Accepted(d)'
  BY <1>1 DEF Accepted
<1>3. MainHolds' /\ PoolHolds' /\ hpc' \in [Conns -> Places]
  BY <1>2, HandlerMoves
<1>4. TypeOK'
  BY <1>1, <1>3 DEF ServerInv, TypeOK, Pool!TypeOK, Places
<1>5. NumbersAgree' /\ BacklogWaits' /\ OpenIsHeld'
  BY <1>1 DEF ServerInv, NumbersAgree, BacklogWaits, OpenIsHeld
<1>6. HandlersHold'
  <2>1. Accepted(c) /\ peer[c] \in {"open", "closed"}
    BY DEF ServerInv, HandlersHold, Accepted
  <2>2. hpc'[c] = to /\ \A d \in Conns \ {c} : hpc'[d] = hpc[d]
    BY DEF ServerInv, TypeOK
  <2> SUFFICES ASSUME NEW d \in Conns
               PROVE  /\ hpc'[d] \in Busy => Accepted(d)'
                      /\ hpc'[d] \in {"returned", "done"} => peer[d] = "closed"
                      /\ peer[d] \in {"new", "backlog"} => hpc'[d] = "none"
                      /\ hpc'[d] \in {"respond", "close"} => todo'[d] # 0
    BY <1>1 DEF HandlersHold
  <2>3. CASE d = c
    BY <1>2, <2>1, <2>2, <2>3 DEF Busy
  <2>4. CASE d # c
    BY <1>2, <2>2, <2>4 DEF ServerInv, HandlersHold
  <2> QED
    BY <2>3, <2>4
<1> QED
  BY <1>3, <1>4, <1>5, <1>6 DEF ServerInv

LEMMA HandlerCloses ==
  ASSUME ServerInv, NEW c \in Conns, hpc[c] \in Busy, Close(sock[c]),
         NEW to \in {"respond", "returned"}, hpc' = [hpc EXCEPT ![c] = to],
         UNCHANGED <<poolVars, mainVars, guarded, reads, sock, got>>,
         todo' \in [Conns -> 0..2], \A d \in Conns \ {c} : todo'[d] = todo[d],
         to = "respond" => todo'[c] # 0
  PROVE  ServerInv'
<1>1. UNCHANGED <<phase, pending, lane, completed, refused, mpc, mconn, failures, backlog,
                  timeo, guarded, reads, sock, got>>
  BY DEF poolVars, mainVars, Close
<1>2. Accepted(c) /\ sock[c] \in Fds /\ to \in Busy \cup {"returned"}
  BY DEF ServerInv, HandlersHold, Accepted, Busy
<1>3. /\ fds' \in [Fds -> Conns \cup {None}] /\ peer' \in [Conns -> Peers]
      /\ \A d \in Conns : peer'[d] = IF fds[sock[c]] = d THEN "closed" ELSE peer[d]
      /\ \A d \in Conns : fds[sock[c]] = d => peer[d] = "open"
      /\ \A d \in Conns : sock[d] = sock[c] => peer'[d] # "open"
      /\ \A d \in Conns : Accepted(d) => Accepted(d)'
      /\ NumbersAgree' /\ BacklogWaits'
  BY <1>2, CloseNumber
<1>4. \A d \in Conns : peer'[d] = peer[d] \/ (peer[d] = "open" /\ peer'[d] = "closed")
  BY <1>3
<1>5. MainHolds' /\ PoolHolds' /\ hpc' \in [Conns -> Places]
  BY <1>2, <1>3, HandlerMoves
<1>6. TypeOK'
  BY <1>1, <1>3, <1>5 DEF ServerInv, TypeOK, Pool!TypeOK, Places, Peers
<1>7. peer'[c] = "closed"
  BY <1>2, <1>3, <1>4 DEF Accepted
<1>8. HandlersHold'
  <2>1. hpc'[c] = to /\ \A d \in Conns \ {c} : hpc'[d] = hpc[d]
    BY DEF ServerInv, TypeOK
  <2> SUFFICES ASSUME NEW d \in Conns
               PROVE  /\ hpc'[d] \in Busy => Accepted(d)'
                      /\ hpc'[d] \in {"returned", "done"} => peer'[d] = "closed"
                      /\ peer'[d] \in {"new", "backlog"} => hpc'[d] = "none"
                      /\ hpc'[d] \in {"respond", "close"} => todo'[d] # 0
    BY DEF HandlersHold
  <2>2. CASE d = c
    BY <1>2, <1>3, <1>7, <2>1, <2>2
  <2>3. CASE d # c
    BY <1>3, <1>4, <2>1, <2>3 DEF ServerInv, HandlersHold
  <2> QED
    BY <2>2, <2>3
<1>9. OpenIsHeld'
  <2>1. \A d \in Conns : peer'[d] = "open" => peer[d] = "open"
    BY <1>4
  <2> QED
    BY <1>1, <2>1 DEF ServerInv, OpenIsHeld
<1> QED
  BY <1>3, <1>5, <1>6, <1>8, <1>9 DEF ServerInv

LEMMA RecvRequestInv ==
  ASSUME ServerInv, NEW c \in Conns, NEW k \in Kinds, RecvRequest(c, k)
  PROVE  ServerInv'
<1>1. /\ hpc[c] = "recv" /\ hpc' = [hpc EXCEPT ![c] = "respond"]
      /\ fds[sock[c]] \in Conns \ Silent /\ reads' = [reads EXCEPT ![c] = fds[sock[c]]]
      /\ UNCHANGED <<poolVars, mainVars, netVars, sock, got>>
  BY DEF RecvRequest
<1>2. PICK n \in {1, 2} : todo' = [todo EXCEPT ![c] = n]
  BY DEF RecvRequest
<1>3. guarded' = [guarded EXCEPT ![c] = TRUE] \/ UNCHANGED guarded
  BY DEF RecvRequest
<1>4. todo' \in [Conns -> 0..2] /\ todo'[c] # 0 /\ \A d \in Conns \ {c} : todo'[d] = todo[d]
  BY <1>2 DEF ServerInv, TypeOK
<1>5. guarded' \in [Conns -> BOOLEAN]
  BY <1>3 DEF ServerInv, TypeOK
<1>6. reads' \in [Conns -> Conns \cup {None}] /\ got' \in [Conns -> Seq(Conns)]
  BY <1>1 DEF ServerInv, TypeOK
<1>7. hpc[c] \in Busy /\ "respond" \in Busy
  BY <1>1 DEF Busy
<1> HIDE DEF Busy
<1> QED
  BY <1>1, <1>4, <1>5, <1>6, <1>7, HandlerWorks

LEMMA RecvFailsInv ==
  ASSUME ServerInv, NEW c \in Conns, RecvFails(c)
  PROVE  ServerInv'
<1>1. /\ hpc[c] = "recv" /\ hpc' = [hpc EXCEPT ![c] = "abort"]
      /\ UNCHANGED <<poolVars, mainVars, netVars, todo, guarded, reads, sock, got>>
  BY DEF RecvFails
<1>2. /\ todo' \in [Conns -> 0..2] /\ guarded' \in [Conns -> BOOLEAN]
      /\ reads' \in [Conns -> Conns \cup {None}] /\ got' \in [Conns -> Seq(Conns)]
      /\ \A d \in Conns \ {c} : todo'[d] = todo[d]
  BY <1>1 DEF ServerInv, TypeOK
<1>3. hpc[c] \in Busy /\ "abort" \in Busy
  BY <1>1 DEF Busy
<1> HIDE DEF Busy
<1> QED
  BY <1>1, <1>2, <1>3, HandlerWorks

LEMMA SendOkInv ==
  ASSUME ServerInv, NEW c \in Conns, SendOk(c)
  PROVE  ServerInv'
<1>1. /\ hpc[c] = "respond" /\ hpc' = [hpc EXCEPT ![c] = "close"] /\ fds[sock[c]] # None
      /\ got' = [got EXCEPT ![fds[sock[c]]] = Append(@, c)]
      /\ UNCHANGED <<poolVars, mainVars, netVars, todo, guarded, reads, sock>>
  BY DEF SendOk
<1>2. hpc[c] \in Busy /\ "close" \in Busy
  BY <1>1 DEF Busy
<1>3. fds[sock[c]] \in Conns
  BY <1>1, <1>2 DEF ServerInv, HandlersHold, Accepted, TypeOK
<1>4. got' \in [Conns -> Seq(Conns)]
  <2>1. got \in [Conns -> Seq(Conns)] /\ Append(got[fds[sock[c]]], c) \in Seq(Conns)
    BY <1>3, QueueAdd DEF ServerInv, TypeOK
  <2> QED
    BY <1>1, <1>3, <2>1
<1>5. /\ todo' \in [Conns -> 0..2] /\ guarded' \in [Conns -> BOOLEAN]
      /\ reads' \in [Conns -> Conns \cup {None}] /\ todo'[c] # 0
      /\ \A d \in Conns \ {c} : todo'[d] = todo[d]
  BY <1>1 DEF ServerInv, TypeOK, HandlersHold
<1> HIDE DEF Busy
<1> QED
  BY <1>1, <1>2, <1>4, <1>5, HandlerWorks

LEMMA SendFailsInv ==
  ASSUME ServerInv, NEW c \in Conns, SendFails(c)
  PROVE  ServerInv'
<1>1. /\ hpc[c] = "respond" /\ UNCHANGED <<poolVars, mainVars, netVars, reads, sock, got>>
      /\ \/ /\ todo' = [todo EXCEPT ![c] = 1] /\ guarded' = [guarded EXCEPT ![c] = FALSE]
            /\ hpc' = hpc
         \/ /\ UNCHANGED <<todo, guarded>> /\ hpc' = [hpc EXCEPT ![c] = "abort"]
  BY DEF SendFails
<1>2. todo' \in [Conns -> 0..2] /\ todo'[c] # 0 /\ \A d \in Conns \ {c} : todo'[d] = todo[d]
  <2>1. todo' = [todo EXCEPT ![c] = 1] \/ todo' = todo
    BY <1>1
  <2>2. todo \in [Conns -> 0..2] /\ 1 \in 0..2 /\ todo[c] # 0
    BY <1>1 DEF ServerInv, TypeOK, HandlersHold
  <2> QED
    BY <2>1, <2>2
<1>3. guarded' \in [Conns -> BOOLEAN]
  BY <1>1 DEF ServerInv, TypeOK
<1>4. reads' \in [Conns -> Conns \cup {None}] /\ got' \in [Conns -> Seq(Conns)]
  BY <1>1 DEF ServerInv, TypeOK
<1>5. hpc[c] \in Busy /\ "abort" \in Busy /\ "respond" \in Busy
  BY <1>1 DEF Busy
<1>6. PICK to \in {"abort", "respond"} : hpc' = [hpc EXCEPT ![c] = to]
  BY <1>1 DEF ServerInv, TypeOK
<1>7. to \in Busy
  BY <1>5
<1> HIDE DEF Busy
<1> QED
  BY <1>1, <1>2, <1>3, <1>4, <1>5, <1>6, <1>7, HandlerWorks

LEMMA CloseClientInv ==
  ASSUME ServerInv, NEW c \in Conns, CloseClient(c)
  PROVE  ServerInv'
<1>1. /\ hpc[c] = "close" /\ Close(sock[c]) /\ todo' = [todo EXCEPT ![c] = @ - 1]
      /\ hpc' = [hpc EXCEPT ![c] = IF todo[c] > 1 THEN "respond" ELSE "returned"]
      /\ UNCHANGED <<poolVars, mainVars, guarded, reads, sock, got>>
  BY DEF CloseClient
<1>2. hpc[c] \in Busy
  BY <1>1 DEF Busy
<1>3. todo[c] \in 1..2 /\ todo \in [Conns -> 0..2]
  BY <1>1 DEF ServerInv, TypeOK, HandlersHold
<1>4. /\ todo' \in [Conns -> 0..2] /\ \A d \in Conns \ {c} : todo'[d] = todo[d]
      /\ todo'[c] = todo[c] - 1
  BY <1>1, <1>3
<1>5. CASE todo[c] > 1
  <2>1. hpc' = [hpc EXCEPT ![c] = "respond"] /\ todo'[c] # 0
    BY <1>1, <1>3, <1>4, <1>5
  <2> QED
    BY <1>1, <1>2, <1>4, <2>1, HandlerCloses
<1>6. CASE ~(todo[c] > 1)
  <2>1. hpc' = [hpc EXCEPT ![c] = "returned"]
    BY <1>1, <1>6
  <2> QED
    BY <1>1, <1>2, <1>4, <2>1, HandlerCloses
<1> QED
  BY <1>5, <1>6

LEMMA AbortInv ==
  ASSUME ServerInv, NEW c \in Conns, Abort(c)
  PROVE  ServerInv'
<1>1. /\ hpc[c] = "abort" /\ Close(sock[c]) /\ hpc' = [hpc EXCEPT ![c] = "returned"]
      /\ UNCHANGED <<poolVars, mainVars, todo, guarded, reads, sock, got>>
  BY DEF Abort
<1>2. hpc[c] \in Busy
  BY <1>1 DEF Busy
<1>3. todo' \in [Conns -> 0..2] /\ \A d \in Conns \ {c} : todo'[d] = todo[d]
  BY <1>1 DEF ServerInv, TypeOK
<1> QED
  BY <1>1, <1>2, <1>3, HandlerCloses

LEMMA StutterInv ==
  ASSUME ServerInv, UNCHANGED vars
  PROVE  ServerInv'
<1>1. UNCHANGED <<phase, pending, lane, completed, refused, mpc, mconn, failures, backlog, fds, peer,
                  timeo, hpc, todo, guarded, reads, sock, got>>
  BY DEF vars, poolVars, mainVars, netVars, handlerVars
<1>2. TypeOK' /\ MainHolds'
  BY <1>1 DEF ServerInv, TypeOK, Pool!TypeOK, MainHolds, Pool!Pending, Accepted
<1> QED
  BY <1>1, <1>2, RestHolds DEF ServerInv

LEMMA NextServerInv ==
  ASSUME ServerInv, [Next]_vars
  PROVE  ServerInv'
<1>1. ASSUME NEW c \in Conns, Connect(c) \/ HandlerStep(c) PROVE ServerInv'
  BY <1>1, ConnectInv, RecvRequestInv, RecvFailsInv, SendOkInv, SendFailsInv, CloseClientInv, AbortInv
     DEF HandlerStep
<1>2. CASE MainStep
  BY <1>2, AcceptInv, IpBlockedInv, IpAllowedInv, EnqueueInv, UnwoundInv DEF MainStep
<1>3. CASE SelectFails \/ AcceptFails \/ DatabaseFails
  BY <1>3, SelectFailsInv, AcceptFailsInv, DatabaseFailsInv
<1>4. ASSUME NEW w \in Workers, WorkerStarts(w) \/ WorkerReturns(w) PROVE ServerInv'
  BY <1>4, WorkerStartsInv, WorkerReturnsInv
<1>5. CASE Rest \/ UNCHANGED vars
  BY <1>5, StutterInv DEF Rest
<1> QED
  BY <1>1, <1>2, <1>3, <1>4, <1>5 DEF Next

-----------------------------------------------------------------------------
(* The invariant holds whatever the clients send.                          *)
THEOREM ServerInvariant == Spec => []ServerInv
<1>1. ServerInv /\ [Next]_vars => ServerInv'
  BY NextServerInv
<1> QED
  BY <1>1, InitServerInv, PTL DEF Spec

(* The variables keep their types.                                         *)
THEOREM ServerTypeOK ==
  Spec => []TypeOK
<1>1. ServerInv => TypeOK
  BY DEF ServerInv
<1> QED
  BY <1>1, ServerInvariant, PTL

(* No handler, and no end of the pool, leaves a connection open, whatever  *)
(* is sent and whatever throws: the three levels of try of handle_client   *)
(* and its caller (main.cpp).                                              *)
THEOREM ServerNoDescriptorLeak ==
  Spec => []NoDescriptorLeak
<1>1. ServerInv => NoDescriptorLeak
  <2> SUFFICES ASSUME ServerInv PROVE NoDescriptorLeak
    OBVIOUS
  <2>1. ASSUME NEW c \in Conns, hpc[c] \in {"returned", "done"}, NEW f \in Fds PROVE fds[f] # c
    BY <2>1, Constants DEF ServerInv, NumbersAgree, HandlersHold
  <2>2. ASSUME phase = "ended", NEW c \in Conns, peer[c] = "open" PROVE c = mconn
    <3>1. pending = <<>> /\ DOMAIN pending = {} /\ \A w \in Workers : lane[w] # c
      BY <2>2, PoolTypes, Constants DEF ServerInv, MainHolds
    <3> QED
      BY <2>2, <3>1 DEF ServerInv, OpenIsHeld
  <2> QED
    BY <2>1, <2>2 DEF NoDescriptorLeak
<1> QED
  BY <1>1, ServerInvariant, PTL

(* With more descriptors than the queue and the workers can hold, accept() *)
(* finds one: the open connections are all in the queue or in a worker's   *)
(* hands, and no two of them share a place (try_enqueue_client, main).     *)
THEOREM ServerAcceptHasDescriptor ==
  Spec => []AcceptHasDescriptor
<1>1. ServerInv => AcceptHasDescriptor
  <2> SUFFICES ASSUME ServerInv, mpc = "select", FreeFds = {}
               PROVE  ~(NumFds > MaxQueue + Cardinality(Workers))
    BY DEF AcceptHasDescriptor
  <2> DEFINE Waiting == {pending[i] : i \in DOMAIN pending}
  <2> DEFINE Served == {lane[w] : w \in Workers}
  <2>1. IsFiniteSet(Waiting) /\ Cardinality(Waiting) <= Len(pending)
    <3>1. IsFiniteSet(1..Len(pending)) /\ Cardinality(1..Len(pending)) = Len(pending)
      <4>1. Len(pending) \in Nat
        BY PoolTypes DEF ServerInv
      <4>2. Len(pending) \in Int /\ 1 \in Int
        BY <4>1
      <4>3. /\ IsFiniteSet(1..Len(pending))
            /\ Cardinality(1..Len(pending)) = IF 1 > Len(pending) THEN 0 ELSE Len(pending) - 1 + 1
        BY <4>2, FS_Interval
      <4> QED
        BY <4>1, <4>3
    <3>2. [i \in 1..Len(pending) |-> pending[i]] \in Surjection(1..Len(pending), Waiting)
      BY PoolTypes DEF ServerInv, Surjection
    <3> HIDE DEF Waiting
    <3> QED
      BY <3>1, <3>2, FS_Surjection
  <2>2. IsFiniteSet(Served) /\ Cardinality(Served) <= Cardinality(Workers)
    <3>1. [w \in Workers |-> lane[w]] \in Surjection(Workers, Served)
      BY DEF Surjection
    <3> HIDE DEF Served
    <3> QED
      BY <3>1, FS_Surjection, ServerAssumption
  <2>3. fds \in Injection(Fds, Waiting \cup Served)
    <3>1. \A f \in Fds : fds[f] \in Conns /\ peer[fds[f]] = "open" /\ sock[fds[f]] = f
      BY DEF FreeFds, ServerInv, NumbersAgree, TypeOK
    <3>2. \A f \in Fds : fds[f] \in Waiting \cup Served
      BY <3>1, Constants DEF ServerInv, OpenIsHeld, MainHolds
    <3>3. fds \in [Fds -> Waiting \cup Served]
      BY <3>2 DEF ServerInv, TypeOK
    <3> QED
      BY <3>1, <3>3 DEF Injection, IsInjective
  <2> HIDE DEF Waiting, Served
  <2>4. /\ IsFiniteSet(Waiting \cup Served)
        /\ Cardinality(Waiting \cup Served) <= Cardinality(Waiting) + Cardinality(Served)
    <3>1. IsFiniteSet(Waiting \cap Served)
      BY <2>1, FS_Subset
    <3>2. /\ Cardinality(Waiting) \in Nat /\ Cardinality(Served) \in Nat
          /\ Cardinality(Waiting \cap Served) \in Nat
      BY <2>1, <2>2, <3>1, FS_CardinalityType
    <3>3. /\ IsFiniteSet(Waiting \cup Served)
          /\ Cardinality(Waiting \cup Served)
               = Cardinality(Waiting) + Cardinality(Served) - Cardinality(Waiting \cap Served)
      BY <2>1, <2>2, FS_Union
    <3> QED
      BY <3>2, <3>3
  <2>5. Cardinality(Fds) <= Cardinality(Waiting \cup Served)
    BY <2>3, <2>4, FS_Injection
  <2>6. Cardinality(Fds) = NumFds
    BY FS_Interval, Constants DEF Fds
  <2>7. Len(pending) <= MaxQueue /\ Len(pending) \in Nat
    BY PoolTypes DEF ServerInv, PoolHolds
  <2>8. /\ Cardinality(Waiting) \in Nat /\ Cardinality(Served) \in Nat /\ Cardinality(Workers) \in Nat
        /\ Cardinality(Waiting \cup Served) \in Nat
    BY <2>1, <2>2, <2>4, FS_CardinalityType, ServerAssumption
  <2> QED
    BY <2>1, <2>2, <2>4, <2>5, <2>6, <2>7, <2>8, Constants
<1> QED
  BY <1>1, ServerInvariant, PTL

-----------------------------------------------------------------------------
(* The server as a user of the pool.                                       *)

(* Whatever the server does, it does to the pool only what a user of the   *)
(* pool may: each of its steps is one of the promise that ThreadPool keeps *)
(* (thread_pool.hpp), or leaves the pool alone (main, try_enqueue_client,  *)
(* ~ThreadPool on the way out).                                            *)
THEOREM ServerUsesPool == Spec => Pool!SafeSpec
<1>1. Init => Pool!Init
  BY DEF Init
<1>2. ServerInv /\ [Next]_vars => [Pool!Next]_(Pool!vars)
  <2> SUFFICES ASSUME ServerInv, [Next]_vars PROVE Pool!Next \/ UNCHANGED Pool!vars
    OBVIOUS
  <2>1. ASSUME UNCHANGED poolVars PROVE UNCHANGED Pool!vars
    BY <2>1 DEF poolVars, Pool!vars
  <2>2. CASE Enqueue
    <3>1. mconn \in Conns /\ Pool!Accept(mconn)
      BY <2>2 DEF Enqueue, ServerInv, MainHolds
    <3> QED
      BY <3>1 DEF Pool!Next
  <2>3. CASE Unwound
    BY <2>3 DEF Unwound, Pool!Next
  <2>4. CASE DatabaseFails
    BY <2>4 DEF DatabaseFails, Pool!Next
  <2>5. ASSUME NEW w \in Workers, WorkerStarts(w) PROVE Pool!Next
    BY <2>5 DEF WorkerStarts, Pool!Next, Pool!StartSome
  <2>6. ASSUME NEW w \in Workers, WorkerReturns(w) PROVE Pool!Next
    BY <2>6 DEF WorkerReturns, Pool!Next
  <2>7. ASSUME NEW c \in Conns, Connect(c) \/ HandlerStep(c) PROVE UNCHANGED poolVars
    BY <2>7 DEF Connect, HandlerStep, RecvRequest, RecvFails, SendOk, SendFails, CloseClient, Abort
  <2>8. CASE Accept \/ IpBlocked \/ IpAllowed \/ SelectFails \/ AcceptFails
    BY <2>1, <2>8 DEF Accept, IpBlocked, IpAllowed, SelectFails, AcceptFails
  <2>9. CASE Rest \/ UNCHANGED vars
    BY <2>1, <2>9 DEF Rest, vars
  <2> QED
    BY <2>1, <2>2, <2>3, <2>4, <2>5, <2>6, <2>7, <2>8, <2>9 DEF Next, MainStep
<1> QED
  BY <1>1, <1>2, ServerInvariant, PTL DEF Spec, Pool!SafeSpec

(* The main loop never hands over a connection the pool has had before.    *)
HandedOverOnce == mpc = "enqueue" => Pool!Fresh(mconn)

(* The condition under which the pool takes a task, that it was never      *)
(* submitted before, holds whenever the main loop submits one: enqueue()   *)
(* waits for space and for nothing else, and no connection is handled      *)
(* twice (try_enqueue_client).                                             *)
THEOREM ServerHandsOverOnce == Spec => []HandedOverOnce
<1>1. ServerInv => HandedOverOnce
  <2> SUFFICES ASSUME ServerInv, mpc = "enqueue" PROVE Pool!Fresh(mconn)
    BY DEF HandedOverOnce
  <2>1. mconn \in Conns /\ hpc[mconn] = "none" /\ mconn \notin Pool!Pending
    BY DEF ServerInv, MainHolds
  <2>2. mconn \notin Pool!Executing
    BY <2>1, Constants DEF ServerInv, PoolHolds, Pool!Executing, Busy
  <2>3. mconn \notin completed \cup refused
    BY <2>1 DEF ServerInv, PoolHolds
  <2> QED
    BY <2>1, <2>2, <2>3 DEF Pool!Fresh
<1> QED
  BY <1>1, ServerInvariant, PTL

-----------------------------------------------------------------------------
(* When no request is answered twice.                                      *)

LEMMA OnceInvInit ==
  Init => OnceInv
<1> SUFFICES ASSUME Init PROVE OnceInv
  OBVIOUS
<1>1. \A c \in Conns : hpc[c] = "none" /\ todo[c] = 0 /\ got[c] = <<>>
  BY DEF Init
<1>2. \A c \in Conns : DOMAIN got[c] = {}
  BY <1>1
<1>3. OwnResponse
  BY <1>2 DEF OwnResponse
<1>4. pending = <<>> /\ mpc = "select"
  BY DEF Init, Pool!Init
<1>5. DOMAIN pending = {}
  BY <1>4
<1> QED
  BY <1>1, <1>3, <1>4, <1>5 DEF OnceInv, Busy

(* A connection nobody else holds is closed by whoever holds it.           *)
LEMMA OnceCloses ==
  ASSUME ServerInv, OnceInv, NEW c \in Conns, peer[c] = "open", Close(sock[c]), UNCHANGED sock,
         UNCHANGED <<pending, reads, got>>,
         hpc' \in [Conns -> Places], hpc'[c] \notin Busy, \A d \in Conns \ {c} : hpc'[d] = hpc[d],
         \A d \in Conns : todo'[d] # 2,
         \A i \in DOMAIN pending : pending[i] # c,
         mpc' \in {"accepted", "enqueue"} => mpc' = mpc /\ mconn' = mconn /\ mconn \in Conns \ {c}
  PROVE  OnceInv'
<1>1. sock[c] \in Fds /\ fds[sock[c]] = c
  BY DEF ServerInv, NumbersAgree
<1>2. \A d \in Conns \ {c} : peer'[d] = peer[d]
  BY <1>1, CloseNumber
<1>3. \A d \in Conns : /\ hpc'[d] \in Busy => peer'[d] = "open"
                       /\ hpc'[d] \in {"respond", "close"} => reads'[d] = d
  BY <1>2 DEF OnceInv, Busy
<1>4. mpc' \in {"accepted", "enqueue"} => peer'[mconn'] = "open"
  BY <1>2 DEF OnceInv
<1>5. \A i \in DOMAIN pending' : peer'[pending'[i]] = "open"
  BY <1>2, PoolTypes DEF ServerInv, OnceInv
<1>6. OwnResponse'
  BY DEF OnceInv, OwnResponse
<1> QED
  BY <1>3, <1>4, <1>5, <1>6 DEF OnceInv

(* What a handler at work holds is its own.                                *)
LEMMA OnceOwns ==
  ASSUME ServerInv, OnceInv, NEW c \in Conns, hpc[c] \in Busy
  PROVE  /\ peer[c] = "open" /\ sock[c] \in Fds /\ fds[sock[c]] = c
         /\ \A i \in DOMAIN pending : pending[i] # c
         /\ mpc \in {"accepted", "enqueue"} => mconn \in Conns \ {c}
<1>1. peer[c] = "open"
  BY DEF OnceInv
<1>2. \A i \in DOMAIN pending : pending[i] # c
  BY DEF ServerInv, PoolHolds, Busy
<1>3. mpc \in {"accepted", "enqueue"} => mconn \in Conns \ {c}
  BY DEF ServerInv, MainHolds, Busy
<1> QED
  BY <1>1, <1>2, <1>3 DEF ServerInv, NumbersAgree

(* A step of a handler that closes nothing.                                *)
LEMMA OnceWorks ==
  ASSUME ServerInv, OnceInv, NEW c \in Conns, hpc[c] \in Busy, NEW to \in Busy,
         hpc' = [hpc EXCEPT ![c] = to], UNCHANGED <<poolVars, mainVars, netVars, sock>>,
         OwnResponse', todo'[c] # 2,
         to \in {"respond", "close"} => reads'[c] = c,
         \A d \in Conns \ {c} : todo'[d] = todo[d] /\ reads'[d] = reads[d]
  PROVE  OnceInv'
<1>1. UNCHANGED <<pending, mpc, mconn, peer>>
  BY DEF poolVars, mainVars, netVars
<1>2. hpc'[c] = to /\ \A d \in Conns \ {c} : hpc'[d] = hpc[d]
  BY DEF ServerInv, TypeOK
<1> QED
  BY <1>1, <1>2 DEF OnceInv

LEMMA OnceHandlerStep ==
  ASSUME AnsweredOnce, ServerInv, OnceInv, NEW c \in Conns, HandlerStep(c)
  PROVE  OnceInv'
<1>1. ASSUME NEW k \in Kinds, RecvRequest(c, k) PROVE OnceInv'
  <2>1. /\ hpc[c] = "recv" /\ hpc' = [hpc EXCEPT ![c] = "respond"]
        /\ todo' = [todo EXCEPT ![c] = 1] /\ reads' = [reads EXCEPT ![c] = fds[sock[c]]]
        /\ UNCHANGED <<poolVars, mainVars, netVars, sock, got>>
    BY <1>1 DEF RecvRequest, AnsweredOnce
  <2>2. hpc[c] \in Busy /\ "respond" \in Busy /\ fds[sock[c]] = c
    BY <2>1, OnceOwns DEF Busy
  <2>3. /\ reads'[c] = c /\ todo'[c] # 2
        /\ \A d \in Conns \ {c} : todo'[d] = todo[d] /\ reads'[d] = reads[d]
    BY <2>1, <2>2 DEF ServerInv, TypeOK
  <2>4. OwnResponse'
    BY <2>1, <2>3 DEF OnceInv, OwnResponse
  <2> HIDE DEF Busy
  <2> QED
    BY <2>1, <2>2, <2>3, <2>4, OnceWorks
<1>2. CASE RecvFails(c)
  <2>1. /\ hpc[c] = "recv" /\ hpc' = [hpc EXCEPT ![c] = "abort"]
        /\ UNCHANGED <<poolVars, mainVars, netVars, todo, reads, sock, got>>
    BY <1>2 DEF RecvFails
  <2>2. hpc[c] \in Busy /\ "abort" \in Busy /\ todo'[c] # 2 /\ OwnResponse'
    BY <2>1 DEF Busy, OnceInv, OwnResponse
  <2> HIDE DEF Busy
  <2> QED
    BY <2>1, <2>2, OnceWorks
<1>3. CASE SendOk(c)
  <2>1. /\ hpc[c] = "respond" /\ hpc' = [hpc EXCEPT ![c] = "close"]
        /\ got' = [got EXCEPT ![fds[sock[c]]] = Append(@, c)]
        /\ UNCHANGED <<poolVars, mainVars, netVars, todo, reads, sock>>
    BY <1>3 DEF SendOk
  <2>2. hpc[c] \in Busy /\ "close" \in Busy /\ fds[sock[c]] = c
    BY <2>1, OnceOwns DEF Busy
  <2>3. reads[c] = c /\ todo'[c] # 2
    BY <2>1 DEF OnceInv
  <2>4. /\ got[c] \in Seq(Conns) /\ got'[c] = Append(got[c], c)
        /\ \A d \in Conns \ {c} : got'[d] = got[d]
    BY <2>1, <2>2 DEF ServerInv, TypeOK
  <2>5. OwnResponse'
    <3>1. \A i \in DOMAIN got'[c] : got'[c][i] = c
      BY <2>4 DEF OnceInv, OwnResponse
    <3> QED
      BY <2>1, <2>3, <2>4, <3>1 DEF OnceInv, OwnResponse
  <2> HIDE DEF Busy
  <2> QED
    BY <2>1, <2>2, <2>3, <2>5, OnceWorks
<1>4. CASE SendFails(c)
  <2>1. /\ hpc[c] = "respond" /\ UNCHANGED <<poolVars, mainVars, netVars, reads, sock, got>>
        /\ todo' = [todo EXCEPT ![c] = 1] \/ todo' = todo
        /\ hpc' = hpc \/ hpc' = [hpc EXCEPT ![c] = "abort"]
    BY <1>4 DEF SendFails
  <2>2. PICK to \in {"abort", "respond"} : hpc' = [hpc EXCEPT ![c] = to]
    BY <2>1 DEF ServerInv, TypeOK
  <2>3. hpc[c] \in Busy /\ to \in Busy /\ OwnResponse' /\ reads'[c] = c
    BY <2>1 DEF Busy, OnceInv, OwnResponse
  <2>4. todo'[c] # 2 /\ \A d \in Conns \ {c} : todo'[d] = todo[d]
    BY <2>1 DEF OnceInv, ServerInv, TypeOK
  <2> HIDE DEF Busy
  <2> QED
    BY <2>1, <2>2, <2>3, <2>4, OnceWorks
<1>5. CASE CloseClient(c) \/ Abort(c)
  <2>1. /\ hpc[c] \in {"close", "abort"} /\ Close(sock[c])
        /\ UNCHANGED <<poolVars, mainVars, reads, sock, got>>
    BY <1>5 DEF CloseClient, Abort
  <2>2. hpc[c] \in Busy
    BY <2>1 DEF Busy
  <2>3. todo[c] \in 0..1 /\ todo \in [Conns -> 0..2] /\ \A d \in Conns : todo[d] # 2
    BY DEF ServerInv, TypeOK, OnceInv
  <2>4. hpc' = [hpc EXCEPT ![c] = "returned"]
    BY <1>5, <2>3 DEF CloseClient, Abort
  <2>5. todo' = [todo EXCEPT ![c] = @ - 1] \/ todo' = todo
    BY <1>5 DEF CloseClient, Abort
  <2>6. \A d \in Conns : todo'[d] # 2
    BY <2>3, <2>5
  <2>7. hpc' \in [Conns -> Places] /\ hpc'[c] \notin Busy /\ \A d \in Conns \ {c} : hpc'[d] = hpc[d]
    BY <2>4 DEF ServerInv, TypeOK, Places, Busy
  <2>8. UNCHANGED <<pending, mpc, mconn>>
    BY <2>1 DEF poolVars, mainVars
  <2> QED
    BY <2>1, <2>2, <2>6, <2>7, <2>8, OnceOwns, OnceCloses
<1> QED
  BY <1>1, <1>2, <1>3, <1>4, <1>5 DEF HandlerStep

LEMMA OnceMainStep ==
  ASSUME ServerInv, OnceInv, MainStep \/ DatabaseFails
  PROVE  OnceInv'
<1>1. CASE Accept
  <2>1. PICK c \in Conns :
          /\ peer[c] = "backlog" /\ peer' = [peer EXCEPT ![c] = "open"] /\ mconn' = c
          /\ UNCHANGED <<pending, hpc, todo, reads, got>>
    <3>1. Head(backlog) \in Conns /\ peer[Head(backlog)] = "backlog"
      BY <1>1, PoolTypes, QueueDrop DEF Accept, ServerInv, BacklogWaits
    <3> QED
      BY <1>1, <3>1 DEF Accept, poolVars, handlerVars
  <2>2. \A d \in Conns : peer[d] = "open" => peer'[d] = "open"
    BY <2>1 DEF ServerInv, TypeOK
  <2>3. peer'[mconn'] = "open"
    BY <2>1 DEF ServerInv, TypeOK
  <2> QED
    BY <2>1, <2>2, <2>3, PoolTypes DEF OnceInv, OwnResponse, ServerInv
<1>2. CASE IpBlocked
  <2>1. /\ mpc = "accepted" /\ Close(sock[mconn]) /\ mpc' = "select"
        /\ UNCHANGED <<pending, hpc, todo, reads, sock, got>>
    BY <1>2 DEF IpBlocked, poolVars, handlerVars
  <2>2. /\ mconn \in Conns /\ hpc[mconn] = "none" /\ \A i \in DOMAIN pending : pending[i] # mconn
        /\ peer[mconn] = "open"
    BY <2>1 DEF ServerInv, MainHolds, Pool!Pending, OnceInv
  <2>3. /\ hpc' \in [Conns -> Places] /\ hpc'[mconn] \notin Busy
        /\ \A d \in Conns : hpc'[d] = hpc[d] /\ todo'[d] # 2
    BY <2>1, <2>2 DEF ServerInv, TypeOK, OnceInv, Places, Busy
  <2> QED
    BY <2>1, <2>2, <2>3, OnceCloses
<1>3. CASE IpAllowed
  BY <1>3 DEF IpAllowed, OnceInv, OwnResponse, poolVars, netVars, handlerVars
<1>4. CASE Enqueue
  <2>1. /\ pending' = Append(pending, mconn) /\ mpc' = "select" /\ peer[mconn] = "open"
        /\ mconn \in Conns
        /\ UNCHANGED <<peer, hpc, todo, reads, got>>
    BY <1>4 DEF Enqueue, Pool!Accept, ServerInv, MainHolds, OnceInv, netVars, handlerVars
  <2>2. \A i \in DOMAIN pending' : peer[pending'[i]] = "open"
    BY <2>1, PoolTypes, QueueAdd DEF ServerInv, OnceInv
  <2> QED
    BY <2>1, <2>2 DEF OnceInv, OwnResponse
<1>5. CASE Unwound
  BY <1>5 DEF Unwound, Pool!End, OnceInv, OwnResponse, netVars, handlerVars
<1>6. CASE DatabaseFails
  BY <1>6 DEF DatabaseFails, Pool!Close, OnceInv, OwnResponse, netVars, handlerVars
<1> QED
  BY <1>1, <1>2, <1>3, <1>4, <1>5, <1>6 DEF MainStep

LEMMA OnceInvStep ==
  ASSUME AnsweredOnce, ServerInv, OnceInv, [Next]_vars
  PROVE  OnceInv'
<1>1. ASSUME NEW c \in Conns, Connect(c) PROVE OnceInv'
  <2>1. /\ peer[c] = "new" /\ peer' = [peer EXCEPT ![c] = "backlog"]
        /\ UNCHANGED <<pending, mpc, mconn, hpc, todo, reads, got>>
    BY <1>1 DEF Connect, poolVars, mainVars, handlerVars
  <2>2. \A d \in Conns : peer[d] = "open" => peer'[d] = "open"
    BY <2>1 DEF ServerInv, TypeOK
  <2>3. mpc \in {"accepted", "enqueue"} => mconn \in Conns
    BY DEF ServerInv, MainHolds
  <2> QED
    BY <2>1, <2>2, <2>3, PoolTypes DEF OnceInv, OwnResponse, ServerInv
<1>2. ASSUME NEW c \in Conns, HandlerStep(c) PROVE OnceInv'
  BY <1>2, OnceHandlerStep
<1>3. CASE MainStep \/ DatabaseFails
  BY <1>3, OnceMainStep
<1>4. CASE SelectFails
  BY <1>4 DEF SelectFails, CountFailure, OnceInv, OwnResponse, poolVars, netVars, handlerVars
<1>5. CASE AcceptFails
  <2>1. /\ mpc' \notin {"accepted", "enqueue"} /\ UNCHANGED <<pending, hpc, todo, reads, got>>
        /\ peer' = peer \/ peer' = [peer EXCEPT ![Head(backlog)] = "closed"]
        /\ Head(backlog) \in Conns /\ peer[Head(backlog)] = "backlog"
    BY <1>5, PoolTypes, QueueDrop
       DEF AcceptFails, CountFailure, ServerInv, BacklogWaits, poolVars, handlerVars
  <2>2. \A d \in Conns : peer[d] = "open" => peer'[d] = "open"
    BY <2>1 DEF ServerInv, TypeOK
  <2> QED
    BY <2>1, <2>2, PoolTypes DEF OnceInv, OwnResponse, ServerInv
<1>6. ASSUME NEW w \in Workers, WorkerStarts(w) PROVE OnceInv'
  <2> DEFINE c == Head(pending)
  <2>1. /\ pending # <<>> /\ pending' = Tail(pending) /\ lane' = [lane EXCEPT ![w] = c]
        /\ hpc' = [hpc EXCEPT ![lane'[w]] = "recv"]
        /\ UNCHANGED <<mpc, mconn, peer, todo, reads, got>>
    BY <1>6 DEF WorkerStarts, Pool!Start, mainVars, netVars
  <2>2. /\ c \in Conns /\ c = pending[1] /\ 1 \in DOMAIN pending
        /\ \A i \in DOMAIN pending' : pending'[i] = pending[i + 1] /\ i + 1 \in DOMAIN pending
    BY <2>1, PoolTypes, QueueDrop DEF ServerInv
  <2>3. peer[c] = "open"
    BY <2>2 DEF OnceInv
  <2>4. lane'[w] = c
    BY <2>1, PoolTypes DEF ServerInv
  <2> HIDE DEF c
  <2>5. hpc'[c] = "recv" /\ \A d \in Conns \ {c} : hpc'[d] = hpc[d]
    BY <2>1, <2>2, <2>4 DEF ServerInv, TypeOK
  <2>6. \A i \in DOMAIN pending' : peer[pending'[i]] = "open"
    BY <2>2 DEF OnceInv
  <2> QED
    BY <2>1, <2>3, <2>5, <2>6 DEF OnceInv, OwnResponse
<1>7. ASSUME NEW w \in Workers, WorkerReturns(w) PROVE OnceInv'
  <2>1. /\ hpc' = [hpc EXCEPT ![lane[w]] = "done"]
        /\ UNCHANGED <<pending, mpc, mconn, peer, todo, reads, got>>
    BY <1>7 DEF WorkerReturns, Pool!Finish, mainVars, netVars
  <2>2. \A d \in Conns : hpc'[d] = hpc[d] \/ hpc'[d] = "done"
    BY <2>1 DEF ServerInv, TypeOK
  <2> QED
    BY <2>1, <2>2 DEF OnceInv, OwnResponse, Busy
<1>8. CASE Rest \/ UNCHANGED vars
  BY <1>8 DEF Rest, OnceInv, OwnResponse, vars, poolVars, mainVars, netVars, handlerVars
<1> QED
  BY <1>1, <1>2, <1>3, <1>4, <1>5, <1>6, <1>7, <1>8 DEF Next

LEMMA OnceInvariant ==
  ASSUME AnsweredOnce
  PROVE  Spec => []OnceInv
<1>1. ServerInv /\ OnceInv /\ [Next]_vars => OnceInv'
  BY OnceInvStep
<1> QED
  BY <1>1, OnceInvInit, ServerInvariant, PTL DEF Spec

(* A response reaches only the client whose request it answers: the number *)
(* in res.client_sock still stands for it (handlers of api.cpp, send).     *)
THEOREM ServerOwnResponse ==
  ASSUME AnsweredOnce
  PROVE  Spec => []OwnResponse
<1>1. OnceInv => OwnResponse
  BY DEF OnceInv
<1> QED
  BY <1>1, OnceInvariant, PTL

(* A connection loses its descriptor only by its own handler or by the     *)
(* main loop that holds it (close_client, the lambda of the task, main).   *)
THEOREM ServerClosedByOwner ==
  ASSUME AnsweredOnce
  PROVE  Spec => ClosedByOwner
<1> DEFINE Owned == \A f \in Fds : fds[f] # None /\ fds'[f] # fds[f] =>
                                     hpc'[fds[f]] # hpc[fds[f]] \/ mconn = fds[f]
<1>1. ServerInv /\ OnceInv /\ [Next]_vars => [Owned]_vars
  <2> SUFFICES ASSUME ServerInv, OnceInv, Next PROVE Owned
    OBVIOUS
  <2>1. CASE UNCHANGED fds
    BY <2>1
  <2>2. CASE Accept
    BY <2>2 DEF Accept, FreeFds, ServerInv, TypeOK
  <2>3. CASE IpBlocked
    <3>1. /\ mconn \in Conns /\ peer[mconn] = "open" /\ Close(sock[mconn]) /\ UNCHANGED sock
      BY <2>3 DEF IpBlocked, ServerInv, MainHolds, OnceInv
    <3>2. sock[mconn] \in Fds /\ fds[sock[mconn]] = mconn
      BY <3>1 DEF ServerInv, NumbersAgree
    <3>3. \A g \in Fds : fds'[g] = IF g = sock[mconn] THEN None ELSE fds[g]
      BY <3>1, <3>2, CloseNumber
    <3> QED
      BY <3>2, <3>3
  <2>4. ASSUME NEW c \in Conns, CloseClient(c) \/ Abort(c) PROVE Owned
    <3>1. /\ hpc[c] \in {"close", "abort"} /\ hpc'[c] \notin {"close", "abort"}
          /\ Close(sock[c]) /\ UNCHANGED sock
      BY <2>4 DEF CloseClient, Abort, ServerInv, TypeOK
    <3>2. sock[c] \in Fds /\ fds[sock[c]] = c
      BY <3>1, OnceOwns DEF Busy
    <3>3. \A g \in Fds : fds'[g] = IF g = sock[c] THEN None ELSE fds[g]
      BY <3>1, <3>2, CloseNumber
    <3> QED
      BY <3>1, <3>2, <3>3
  <2> QED
    BY <2>1, <2>2, <2>3, <2>4
       DEF Next, Connect, HandlerStep, RecvRequest, RecvFails, SendOk, SendFails, MainStep, IpAllowed,
           Enqueue, Unwound, SelectFails, AcceptFails, DatabaseFails, WorkerStarts, WorkerReturns, Rest,
           vars, netVars
<1> QED
  BY <1>1, ServerInvariant, OnceInvariant, PTL DEF Spec, ClosedByOwner
=============================================================================
