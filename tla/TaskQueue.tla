----------------------------- MODULE TaskQueue -----------------------------
(***************************************************************************)
(* What a user of the thread pool of thread_pool.hpp may rely on, with no  *)
(* mutex, condition variable or waiting thread in sight: a bounded FIFO of *)
(* accepted tasks served by a fixed set of lanes.  Every accepted task is  *)
(* run by one lane, in order of acceptance, and the pool ends only when    *)
(* all of them have been run.  ThreadPool implements this specification.   *)
(***************************************************************************)
EXTENDS Naturals, Sequences

CONSTANTS Lanes,      (* the places where tasks run, one per worker thread  *)
          Tasks,      (* the tasks users may submit                         *)
          Capacity,   (* tasks that may wait                                *)
          None        (* "no task"                                          *)

VARIABLES phase,      (* "open", "draining" or "ended"                      *)
          pending,    (* accepted tasks that wait, oldest first             *)
          lane,       (* the task each lane runs                            *)
          completed,  (* tasks that have been run                           *)
          refused     (* tasks whose submission failed                      *)

vars == <<phase, pending, lane, completed, refused>>

TypeOK ==
  /\ phase \in {"open", "draining", "ended"}
  /\ pending \in Seq(Tasks)
  /\ lane \in [Lanes -> Tasks \cup {None}]
  /\ completed \subseteq Tasks
  /\ refused \subseteq Tasks

Pending == {pending[i] : i \in DOMAIN pending}

Executing == {lane[l] : l \in Lanes} \ {None}

(* A task that was never submitted before. *)
Fresh(t) == t \notin Pending \cup Executing \cup completed \cup refused

Init ==
  /\ phase = "open"
  /\ pending = <<>>
  /\ lane = [l \in Lanes |-> None]
  /\ completed = {}
  /\ refused = {}

Accept(t) ==
  /\ phase = "open"
  /\ Len(pending) < Capacity
  /\ Fresh(t)
  /\ pending' = Append(pending, t)
  /\ UNCHANGED <<phase, lane, completed, refused>>

Refuse(t) ==
  /\ phase # "open"
  /\ Fresh(t)
  /\ refused' = refused \cup {t}
  /\ UNCHANGED <<phase, pending, lane, completed>>

Start(l) ==
  /\ phase # "ended"
  /\ lane[l] = None
  /\ pending # <<>>
  /\ lane' = [lane EXCEPT ![l] = Head(pending)]
  /\ pending' = Tail(pending)
  /\ UNCHANGED <<phase, completed, refused>>

Finish(l) ==
  /\ lane[l] # None
  /\ completed' = completed \cup {lane[l]}
  /\ lane' = [lane EXCEPT ![l] = None]
  /\ UNCHANGED <<phase, pending, refused>>

Close ==
  /\ phase = "open"
  /\ phase' = "draining"
  /\ UNCHANGED <<pending, lane, completed, refused>>

(* The pool ends: nothing waits and nothing runs. *)
End ==
  /\ phase = "draining"
  /\ pending = <<>>
  /\ \A l \in Lanes : lane[l] = None
  /\ phase' = "ended"
  /\ UNCHANGED <<pending, lane, completed, refused>>

StartSome == \E l \in Lanes : Start(l)

Next ==
  \/ \E t \in Tasks : Accept(t) \/ Refuse(t)
  \/ StartSome
  \/ \E l \in Lanes : Finish(l)
  \/ Close
  \/ End

(* Waiting tasks are started, running ones finish, a closed pool ends. *)
Fairness ==
  /\ WF_vars(StartSome)
  /\ \A l \in Lanes : WF_vars(Finish(l))
  /\ WF_vars(End)

SafeSpec == Init /\ [][Next]_vars

Spec == SafeSpec /\ Fairness
=============================================================================
