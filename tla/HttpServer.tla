----------------------------- MODULE HttpServer -----------------------------
(***************************************************************************)
(* A connection from accept() to close(): the main loop of main.cpp, the   *)
(* pool (through its abstract specification TaskQueue), handle_client and  *)
(* what it calls in request.cpp, request.hpp and router.cpp.               *)
(*                                                                         *)
(* The code knows a client only by the number of a file descriptor.  The   *)
(* kernel gives a number to the next accept() as soon as close() frees it, *)
(* so the model keeps the kernel's table fds beside the number sock[c]     *)
(* that the task of connection c captured.                                 *)
(***************************************************************************)
EXTENDS Naturals, Sequences, FiniteSets

CONSTANTS Conns,         (* client connections                              *)
          Workers,       (* threads of the pool                             *)
          MaxQueue,      (* max_queue_size of the pool                      *)
          NumFds,        (* descriptors the process may have for clients    *)
          MaxFailures,   (* MAX_SELECT_FAILURES                             *)
          Kinds,         (* kinds of request the clients send               *)
          Silent,        (* connections whose client never sends a byte     *)
          Remaining,     (* what select() may leave in timeout: "some",     *)
                         (* "zero" (SO_RCVTIMEO 0 waits for ever)           *)
          None

(* handle_get_request, handle_post_request, handle_report_request and the  *)
(* last branch of handle_client, by the responses they make.               *)
OneReply == {"getPage", "getMissing", "getPanelAnonymous", "postAnonymous", "post",
             "report", "reportUnknown", "reportAnonymous", "otherMethod"}

(* dispatch_route answers 404 and returns false, and handle_post_request   *)
(* answers 404 again.                                                      *)
TwoReplies == {"postUnknown"}

(* The handler throws, or leaves a status other than 200: dispatch_route   *)
(* throws, and handle_client answers 500 in its catch.                     *)
NoReply == {"handlerThrows", "handlerNot200"}

ASSUME ServerAssumption ==
  /\ IsFiniteSet(Conns) /\ IsFiniteSet(Workers) /\ Workers # {}
  /\ MaxQueue \in Nat \ {0} /\ NumFds \in Nat \ {0} /\ MaxFailures \in Nat \ {0}
  /\ Kinds \subseteq OneReply \cup TwoReplies \cup NoReply
  /\ Silent \subseteq Conns
  /\ Remaining \subseteq {"some", "zero"} /\ Remaining # {}
  /\ None \notin Conns

VARIABLES
  mpc,        (* where the main thread is                                   *)
  mconn,      (* the connection it holds                                    *)
  failures,   (* consecutive_select_failures                                *)
  phase, pending, lane, completed, refused,      (* the pool                *)
  backlog,    (* connections the kernel holds for accept(), oldest first    *)
  fds,        (* the kernel's table: the connection behind each number      *)
  peer,       (* each connection: "new", "backlog", "open" or "closed"      *)
  timeo,      (* SO_RCVTIMEO of each connection                             *)
  sock,       (* client_sock captured by the task of each connection        *)
  hpc,        (* where the handler of each connection is                    *)
  todo,       (* responses it still has to send                             *)
  guarded,    (* TRUE inside the try of handle_client                       *)
  reads,      (* the connection whose request it has read                   *)
  got         (* for each client, the handlers whose responses it received  *)

poolVars == <<phase, pending, lane, completed, refused>>
mainVars == <<mpc, mconn, failures>>
netVars == <<backlog, fds, peer, timeo>>
handlerVars == <<hpc, todo, guarded, reads>>
vars == <<poolVars, mainVars, netVars, handlerVars, sock, got>>

Fds == 0..(NumFds - 1)

Pool == INSTANCE TaskQueue
          WITH Lanes <- Workers, Tasks <- Conns, Capacity <- MaxQueue

TypeOK ==
  /\ Pool!TypeOK
  /\ mpc \in {"select", "accepted", "enqueue", "unwinding", "exit"}
  /\ mconn \in Conns \cup {None}
  /\ failures \in 0..MaxFailures
  /\ backlog \in Seq(Conns)
  /\ fds \in [Fds -> Conns \cup {None}]
  /\ peer \in [Conns -> {"new", "backlog", "open", "closed"}]
  /\ timeo \in [Conns -> Remaining \cup {None}]
  /\ sock \in [Conns -> Fds \cup {None}]
  /\ hpc \in [Conns -> {"none", "recv", "respond", "close", "abort", "returned", "done"}]
  /\ todo \in [Conns -> 0..2]
  /\ guarded \in [Conns -> BOOLEAN]
  /\ reads \in [Conns -> Conns \cup {None}]
  /\ got \in [Conns -> Seq(Conns)]

Init ==
  /\ Pool!Init
  /\ mpc = "select" /\ mconn = None /\ failures = 0
  /\ backlog = <<>>
  /\ fds = [f \in Fds |-> None]
  /\ peer = [c \in Conns |-> "new"]
  /\ timeo = [c \in Conns |-> None]
  /\ sock = [c \in Conns |-> None]
  /\ hpc = [c \in Conns |-> "none"]
  /\ todo = [c \in Conns |-> 0]
  /\ guarded = [c \in Conns |-> FALSE]
  /\ reads = [c \in Conns |-> None]
  /\ got = [c \in Conns |-> <<>>]

Running == mpc # "exit"

FreeFds == {f \in Fds : fds[f] = None}

(* close(f): frees the number; a number that is not open is EBADF and      *)
(* changes nothing.                                                        *)
Close(f) ==
  /\ fds' = [fds EXCEPT ![f] = None]
  /\ peer' = [c \in Conns |-> IF fds[f] = c THEN "closed" ELSE peer[c]]
  /\ UNCHANGED <<backlog, timeo>>

-----------------------------------------------------------------------------
(* The clients and the main loop.                                          *)

Connect(c) ==
  /\ Running /\ peer[c] = "new"
  /\ peer' = [peer EXCEPT ![c] = "backlog"]
  /\ backlog' = Append(backlog, c)
  /\ UNCHANGED <<poolVars, mainVars, fds, timeo, handlerVars, sock, got>>

(* accept() returns the lowest free number; the socket gets as its receive *)
(* timeout what select() left of its own (select on Linux updates timeout). *)
Accept ==
  /\ mpc = "select" /\ backlog # <<>>
  /\ \E f \in FreeFds, r \in Remaining :
       /\ \A g \in FreeFds : f <= g
       /\ fds' = [fds EXCEPT ![f] = Head(backlog)]
       /\ sock' = [sock EXCEPT ![Head(backlog)] = f]
       /\ peer' = [peer EXCEPT ![Head(backlog)] = "open"]
       /\ timeo' = [timeo EXCEPT ![Head(backlog)] = r]
  /\ mconn' = Head(backlog)
  /\ backlog' = Tail(backlog)
  /\ failures' = 0
  /\ mpc' = "accepted"
  /\ UNCHANGED <<poolVars, handlerVars, got>>

(* Mutant: the limit is tested with > instead of >=. *)
CountFailureLate ==
  /\ mpc = "select"
  /\ failures' = failures + 1
  /\ mpc' = IF failures' > MaxFailures THEN "exit" ELSE "select"

(* The hundredth failure in a row is fatal.                                *)
CountFailure ==
  /\ mpc = "select"
  /\ failures' = failures + 1
  /\ mpc' = IF failures' >= MaxFailures THEN "exit" ELSE "select"

(* select() fails.  EINTR and its timeout only start the loop again.       *)
SelectFails ==
  /\ CountFailure
  /\ UNCHANGED <<poolVars, mconn, netVars, handlerVars, sock, got>>

(* accept() fails: no descriptor is left (EMFILE; the connection stays in  *)
(* the backlog, so the next select() returns at once), or the client has   *)
(* gone (ECONNABORTED).                                                    *)
AcceptFails ==
  /\ CountFailure
  /\ backlog # <<>>
  /\ \/ FreeFds = {} /\ UNCHANGED <<backlog, peer>>
     \/ /\ backlog' = Tail(backlog)
        /\ peer' = [peer EXCEPT ![Head(backlog)] = "closed"]
  /\ UNCHANGED <<poolVars, mconn, fds, timeo, handlerVars, sock, got>>

IpBlocked ==
  /\ mpc = "accepted"
  /\ Close(sock[mconn])
  /\ mpc' = "select" /\ mconn' = None
  /\ UNCHANGED <<poolVars, failures, handlerVars, sock, got>>

IpAllowed ==
  /\ mpc = "accepted"
  /\ mpc' = "enqueue"
  /\ UNCHANGED <<poolVars, mconn, failures, netVars, handlerVars, sock, got>>

(* m_is_ip_blocked throws: the exception leaves the loop and unwinding     *)
(* destroys the pool; the connection at hand is not closed.                *)
DatabaseFails ==
  /\ mpc = "accepted"
  /\ mpc' = "unwinding"
  /\ Pool!Close
  /\ UNCHANGED <<mconn, failures, netVars, handlerVars, sock, got>>

(* Mutant: enqueue() does not wait for space. *)
EnqueueUnbounded ==
  /\ mpc = "enqueue"
  /\ pending' = Append(pending, mconn)
  /\ mpc' = "select" /\ mconn' = None
  /\ UNCHANGED <<phase, lane, completed, refused, failures, netVars, handlerVars, sock, got>>

(* try_enqueue_client.  enqueue() blocks while the queue is full.  It could *)
(* throw only after ~ThreadPool has begun, which the same thread runs.     *)
Enqueue ==
  /\ mpc = "enqueue"
  /\ Pool!Accept(mconn)
  /\ mpc' = "select" /\ mconn' = None
  /\ UNCHANGED <<failures, netVars, handlerVars, sock, got>>

(* ~ThreadPool has joined its workers: fatal_error ends the process. *)
Unwound ==
  /\ mpc = "unwinding"
  /\ Pool!End
  /\ mpc' = "exit"
  /\ UNCHANGED <<mconn, failures, netVars, handlerVars, sock, got>>

-----------------------------------------------------------------------------
(* A worker runs the task of a connection: handle_client(sock[c]).         *)

WorkerStarts(w) ==
  /\ Running
  /\ Pool!Start(w)
  /\ hpc' = [hpc EXCEPT ![lane'[w]] = "recv"]
  /\ UNCHANGED <<mainVars, netVars, todo, guarded, reads, sock, got>>

(* parse_client_request returns: one recv() brought a request of kind k    *)
(* from whatever connection the number stands for.                         *)
RecvRequest(c, k) ==
  /\ Running /\ hpc[c] = "recv"
  /\ fds[sock[c]] \in Conns \ Silent
  /\ reads' = [reads EXCEPT ![c] = fds[sock[c]]]
  /\ hpc' = [hpc EXCEPT ![c] = "respond"]
  /\ \/ k \in OneReply /\ todo' = [todo EXCEPT ![c] = 1] /\ guarded' = [guarded EXCEPT ![c] = TRUE]
     \/ k \in TwoReplies /\ todo' = [todo EXCEPT ![c] = 2] /\ guarded' = [guarded EXCEPT ![c] = TRUE]
     \/ k \in NoReply /\ todo' = [todo EXCEPT ![c] = 1] /\ UNCHANGED guarded
  /\ UNCHANGED <<poolVars, mainVars, netVars, sock, got>>

(* recv() fails, times out or finds the number closed, or the request does *)
(* not parse: parse_client_request throws, outside the try.                *)
RecvFails(c) ==
  /\ Running /\ hpc[c] = "recv"
  /\ fds[sock[c]] \in Silent => timeo[fds[sock[c]]] # "zero"
  /\ hpc' = [hpc EXCEPT ![c] = "abort"]
  /\ UNCHANGED <<poolVars, mainVars, netVars, todo, guarded, reads, sock, got>>

(* HttpResponse::send up to close_client: the bytes reach the connection   *)
(* that has the number now.                                                *)
SendOk(c) ==
  /\ Running /\ hpc[c] = "respond"
  /\ fds[sock[c]] # None
  /\ got' = [got EXCEPT ![fds[sock[c]]] = Append(@, c)]
  /\ hpc' = [hpc EXCEPT ![c] = "close"]
  /\ UNCHANGED <<poolVars, mainVars, netVars, todo, guarded, reads, sock>>

(* send_all fails (EBADF, reset, SO_SNDTIMEO) and send throws: inside the  *)
(* try handle_client answers 500, outside the lambda of the task gives up. *)
SendFails(c) ==
  /\ Running /\ hpc[c] = "respond"
  /\ IF guarded[c]
     THEN /\ todo' = [todo EXCEPT ![c] = 1]
          /\ guarded' = [guarded EXCEPT ![c] = FALSE]
          /\ UNCHANGED hpc
     ELSE /\ hpc' = [hpc EXCEPT ![c] = "abort"]
          /\ UNCHANGED <<todo, guarded>>
  /\ UNCHANGED <<poolVars, mainVars, netVars, reads, sock, got>>

(* Mutant: after closing, the lambda of the task closes once more. *)
CloseClientTwice(c) ==
  /\ Running /\ hpc[c] = "close"
  /\ Close(sock[c])
  /\ todo' = [todo EXCEPT ![c] = @ - 1]
  /\ hpc' = [hpc EXCEPT ![c] = "abort"]
  /\ UNCHANGED <<poolVars, mainVars, guarded, reads, sock, got>>

(* close_client, at the end of a send that worked. *)
CloseClient(c) ==
  /\ Running /\ hpc[c] = "close"
  /\ Close(sock[c])
  /\ todo' = [todo EXCEPT ![c] = @ - 1]
  /\ hpc' = [hpc EXCEPT ![c] = IF todo[c] > 1 THEN "respond" ELSE "returned"]
  /\ UNCHANGED <<poolVars, mainVars, guarded, reads, sock, got>>

(* Mutant: the catch of the lambda only logs. *)
AbortNoClose(c) ==
  /\ Running /\ hpc[c] = "abort"
  /\ hpc' = [hpc EXCEPT ![c] = "returned"]
  /\ UNCHANGED <<poolVars, mainVars, netVars, todo, guarded, reads, sock, got>>

(* The catch of the task's lambda: shutdown and close. *)
Abort(c) ==
  /\ Running /\ hpc[c] = "abort"
  /\ Close(sock[c])
  /\ hpc' = [hpc EXCEPT ![c] = "returned"]
  /\ UNCHANGED <<poolVars, mainVars, todo, guarded, reads, sock, got>>

WorkerReturns(w) ==
  /\ Running /\ lane[w] # None
  /\ hpc[lane[w]] = "returned"
  /\ Pool!Finish(w)
  /\ hpc' = [hpc EXCEPT ![lane[w]] = "done"]
  /\ UNCHANGED <<mainVars, netVars, todo, guarded, reads, sock, got>>

-----------------------------------------------------------------------------
HandlerStep(c) ==
  \/ \E k \in Kinds : RecvRequest(c, k)
  \/ RecvFails(c) \/ SendOk(c) \/ SendFails(c) \/ CloseClient(c) \/ Abort(c)

(* What the main thread does when a client waits and nothing fails.        *)
MainStep == Accept \/ IpBlocked \/ IpAllowed \/ Enqueue \/ Unwound

(* The process has ended, or every client has been served. *)
Rest ==
  /\ \/ ~Running
     \/ \A c \in Conns : peer[c] = "closed"
  /\ UNCHANGED vars

Next ==
  \/ \E c \in Conns : Connect(c) \/ HandlerStep(c)
  \/ MainStep
  \/ SelectFails
  \/ AcceptFails
  \/ DatabaseFails
  \/ \E w \in Workers : WorkerStarts(w) \/ WorkerReturns(w)
  \/ Rest

Spec == Init /\ [][Next]_vars

(***************************************************************************)
(* The main thread and the workers run; recv() ends as RecvFails says.     *)
(* Clients need not connect, and failures need not happen.                 *)
(***************************************************************************)
Fairness ==
  /\ WF_vars(MainStep)
  /\ \A c \in Conns : WF_vars(HandlerStep(c))
  /\ WF_vars(\E w \in Workers : WorkerStarts(w))
  /\ \A w \in Workers : WF_vars(WorkerReturns(w))

FairSpec == Spec /\ Fairness

-----------------------------------------------------------------------------
(* A response reaches only the client whose request it answers: the number *)
(* in res.client_sock still stands for the connection the request came     *)
(* from.  Every handler of api.cpp asserts it by comparing numbers.        *)
OwnResponse ==
  \A c \in Conns : \A i \in DOMAIN got[c] : got[c][i] = c /\ reads[c] = c

(* A handler that is done has closed its connection: no path through the   *)
(* three levels of try leaks a descriptor, and the destructor of the pool, *)
(* run when the database fails, leaves no connection it was handed open.   *)
NoDescriptorLeak ==
  /\ \A c \in Conns : hpc[c] \in {"returned", "done"} => \A f \in Fds : fds[f] # c
  /\ phase = "ended" => \A c \in Conns : peer[c] = "open" => c = mconn

(* A connection loses its descriptor only by its own handler or by the     *)
(* main loop that holds it, never by a close() meant for another one.      *)
ClosedByOwner ==
  [][\A f \in Fds :
       fds[f] # None /\ fds'[f] # fds[f] =>
         hpc'[fds[f]] # hpc[fds[f]] \/ mconn = fds[f]]_vars

(* With that many descriptors available accept() never meets EMFILE, which *)
(* would make select() return at once, fail a hundred times and end the    *)
(* server.                                                                 *)
AcceptHasDescriptor ==
  NumFds > MaxQueue + Cardinality(Workers) /\ mpc = "select" => FreeFds # {}

(* Every client that connects is answered or at least hung up on, unless   *)
(* the server ends: no request, slow client or failed send keeps a worker. *)
EveryClientServed ==
  \A c \in Conns : (peer[c] = "backlog") ~> (peer[c] = "closed" \/ mpc = "exit")
=============================================================================
