----------------------------- MODULE ThreadPool -----------------------------
(***************************************************************************)
(* The thread pool of src/src/thread_pool.hpp: worker threads and threads  *)
(* that call enqueue() share a bounded queue under one mutex and sleep on  *)
(* two condition variables, condition_task and condition_space.            *)
(*                                                                         *)
(* One action is one critical section (or one notify outside it): the      *)
(* mutex is held from its first line to its last and released by the end   *)
(* of the scope or by wait().  A thread "waiting" is in the wait set of    *)
(* its condition variable; a notification, a spurious wake-up or the 30 s  *)
(* timeout makes it compete for the mutex again.                           *)
(***************************************************************************)
EXTENDS Naturals, Sequences, FiniteSets

CONSTANTS Workers,    (* the threads the constructor starts                 *)
          Producers,  (* the threads that call enqueue                      *)
          Owner,      (* the thread that destroys the pool                  *)
          Tasks,      (* the callables handed to enqueue                    *)
          MaxQueue,   (* max_queue_size                                     *)
          None        (* "no task"                                          *)

ASSUME PoolAssumption ==
  /\ IsFiniteSet(Workers) /\ Workers # {}
  /\ IsFiniteSet(Producers)
  /\ MaxQueue \in Nat \ {0}
  /\ None \notin Tasks

VARIABLES tasks,      (* the queue                                          *)
          stop,       (* the atomic flag of the destructor                  *)
          wpc,        (* where each worker is                               *)
          current,    (* the local variable task of each worker             *)
          ppc,        (* where each caller of enqueue is                    *)
          arg,        (* the callable each caller of enqueue passes         *)
          dpc,        (* where the destructor is                            *)
          accepted,   (* history: tasks emplaced, in order                  *)
          started,    (* history: tasks taken by a worker, in order         *)
          finished,   (* history: tasks whose call has ended                *)
          rejected    (* history: tasks whose enqueue threw                 *)

queueVars == <<tasks, accepted, started>>
workerVars == <<wpc, current, finished>>
producerVars == <<ppc, arg, rejected>>
ownerVars == <<stop, dpc>>
vars == <<queueVars, workerVars, producerVars, ownerVars>>

RangeOf(s) == {s[i] : i \in DOMAIN s}

Waiting(pc) == {x \in DOMAIN pc : pc[x] = "waiting"}

TypeOK ==
  /\ tasks \in Seq(Tasks) /\ accepted \in Seq(Tasks) /\ started \in Seq(Tasks)
  /\ stop \in BOOLEAN
  /\ wpc \in [Workers -> {"lock", "waiting", "running", "exited"}]
  /\ current \in [Workers -> Tasks \cup {None}]
  /\ ppc \in [Producers -> {"idle", "enter", "waiting", "wake", "notify"}]
  /\ arg \in [Producers -> Tasks \cup {None}]
  /\ dpc \in {"live", "notifyTask", "notifySpace", "join", "dead"}
  /\ finished \subseteq Tasks
  /\ rejected \subseteq Tasks

Init ==
  /\ tasks = <<>> /\ accepted = <<>> /\ started = <<>>
  /\ stop = FALSE
  /\ wpc = [w \in Workers |-> "lock"]
  /\ current = [w \in Workers |-> None]
  /\ ppc = [p \in Producers |-> "idle"]
  /\ arg = [p \in Producers |-> None]
  /\ dpc = "live"
  /\ finished = {}
  /\ rejected = {}

(* Each call of enqueue brings a callable of its own. *)
Unused == Tasks \ (RangeOf(accepted) \cup rejected \cup {arg[p] : p \in Producers})

Alive == dpc # "dead"

-----------------------------------------------------------------------------
(* Mutant: the notification is forgotten. *)
NotifyNoWorker == UNCHANGED wpc

(* notify_one: one thread of the wait set, if there is one, wakes up.      *)
NotifyOneWorker ==
  \/ Waiting(wpc) = {} /\ UNCHANGED wpc
  \/ \E w \in Waiting(wpc) : wpc' = [wpc EXCEPT ![w] = "lock"]

(* Mutant: the notification is forgotten. *)
NotifyNoProducer == UNCHANGED ppc

NotifyOneProducer ==
  \/ Waiting(ppc) = {} /\ UNCHANGED ppc
  \/ \E p \in Waiting(ppc) : ppc' = [ppc EXCEPT ![p] = "wake"]

-----------------------------------------------------------------------------
(* The worker loop.                                                        *)

(* The predicate of wait_for is false: sleep on condition_task. *)
WorkerWait(w) ==
  /\ wpc[w] = "lock"
  /\ tasks = <<>> /\ ~stop
  /\ wpc' = [wpc EXCEPT ![w] = "waiting"]
  /\ UNCHANGED <<queueVars, current, finished, producerVars, ownerVars>>

(* wait_for gives up after 30 s, or wakes up with no notification.  Either *)
(* way the worker takes the mutex and tests the predicate again.           *)
WorkerTimeout(w) ==
  /\ wpc[w] = "waiting"
  /\ wpc' = [wpc EXCEPT ![w] = "lock"]
  /\ UNCHANGED <<queueVars, current, finished, producerVars, ownerVars>>

(* Mutant: the task is moved out of the queue but pop() is forgotten. *)
WorkerTakeNoPop(w) ==
  /\ wpc[w] = "lock"
  /\ tasks # <<>>
  /\ current' = [current EXCEPT ![w] = Head(tasks)]
  /\ started' = Append(started, Head(tasks))
  /\ wpc' = [wpc EXCEPT ![w] = "running"]
  /\ NotifyOneProducer
  /\ UNCHANGED <<tasks, accepted, finished, arg, rejected, ownerVars>>

WorkerTake(w) ==
  /\ wpc[w] = "lock"
  /\ tasks # <<>>
  /\ current' = [current EXCEPT ![w] = Head(tasks)]
  /\ tasks' = Tail(tasks)
  /\ started' = Append(started, Head(tasks))
  /\ wpc' = [wpc EXCEPT ![w] = "running"]
  /\ NotifyOneProducer
  /\ UNCHANGED <<accepted, finished, arg, rejected, ownerVars>>

(* Mutant: an exception of the task ends the thread. *)
WorkerFinishOrDie(w) ==
  /\ wpc[w] = "running"
  /\ finished' = finished \cup {current[w]}
  /\ current' = [current EXCEPT ![w] = None]
  /\ \E where \in {"lock", "exited"} : wpc' = [wpc EXCEPT ![w] = where]
  /\ UNCHANGED <<queueVars, producerVars, ownerVars>>

(* The call of the task returns, or throws and is caught: both end here. *)
WorkerFinish(w) ==
  /\ wpc[w] = "running"
  /\ finished' = finished \cup {current[w]}
  /\ current' = [current EXCEPT ![w] = None]
  /\ wpc' = [wpc EXCEPT ![w] = "lock"]
  /\ UNCHANGED <<queueVars, producerVars, ownerVars>>

(* Mutant: a stopped worker leaves without looking at the queue. *)
WorkerExitAtOnce(w) ==
  /\ wpc[w] = "lock"
  /\ stop
  /\ wpc' = [wpc EXCEPT ![w] = "exited"]
  /\ UNCHANGED <<queueVars, current, finished, producerVars, ownerVars>>

WorkerExit(w) ==
  /\ wpc[w] = "lock"
  /\ stop /\ tasks = <<>>
  /\ wpc' = [wpc EXCEPT ![w] = "exited"]
  /\ UNCHANGED <<queueVars, current, finished, producerVars, ownerVars>>

-----------------------------------------------------------------------------
(* enqueue.                                                                *)

EnqueueCall(p, t) ==
  /\ Alive /\ ppc[p] = "idle" /\ t \in Unused
  /\ p = Owner => dpc = "live"
  /\ ppc' = [ppc EXCEPT ![p] = "enter"]
  /\ arg' = [arg EXCEPT ![p] = t]
  /\ UNCHANGED <<queueVars, workerVars, rejected, ownerVars>>

(* "enter" tests stop and then the predicate of condition_space, "wake"    *)
(* the predicate and then stop: with stop set, both throw.                 *)
HoldsLock(p) == Alive /\ ppc[p] \in {"enter", "wake"}

EnqueueThrow(p) ==
  /\ HoldsLock(p) /\ stop
  /\ rejected' = rejected \cup {arg[p]}
  /\ ppc' = [ppc EXCEPT ![p] = "idle"]
  /\ arg' = [arg EXCEPT ![p] = None]
  /\ UNCHANGED <<queueVars, workerVars, ownerVars>>

EnqueueWait(p) ==
  /\ HoldsLock(p) /\ ~stop
  /\ Len(tasks) >= MaxQueue
  /\ ppc' = [ppc EXCEPT ![p] = "waiting"]
  /\ UNCHANGED <<queueVars, workerVars, arg, rejected, ownerVars>>

(* Mutant: a caller that wakes up does not test the predicate again. *)
EnqueueEmplaceNoRecheck(p) ==
  /\ HoldsLock(p) /\ ~stop
  /\ Len(tasks) < MaxQueue \/ ppc[p] = "wake"
  /\ tasks' = Append(tasks, arg[p])
  /\ accepted' = Append(accepted, arg[p])
  /\ ppc' = [ppc EXCEPT ![p] = "notify"]
  /\ arg' = [arg EXCEPT ![p] = None]
  /\ UNCHANGED <<started, workerVars, rejected, ownerVars>>

(* Mutant: the callable is moved away before it is emplaced. *)
EnqueueEmplaceMoved(p) ==
  /\ HoldsLock(p) /\ ~stop
  /\ Len(tasks) < MaxQueue
  /\ tasks' = Append(tasks, None)
  /\ accepted' = Append(accepted, None)
  /\ ppc' = [ppc EXCEPT ![p] = "notify"]
  /\ arg' = [arg EXCEPT ![p] = None]
  /\ UNCHANGED <<started, workerVars, rejected, ownerVars>>

EnqueueEmplace(p) ==
  /\ HoldsLock(p) /\ ~stop
  /\ Len(tasks) < MaxQueue
  /\ tasks' = Append(tasks, arg[p])
  /\ accepted' = Append(accepted, arg[p])
  /\ ppc' = [ppc EXCEPT ![p] = "notify"]
  /\ arg' = [arg EXCEPT ![p] = None]
  /\ UNCHANGED <<started, workerVars, rejected, ownerVars>>

(* condition_task.notify_one(), with the mutex already released. *)
EnqueueNotify(p) ==
  /\ Alive /\ ppc[p] = "notify"
  /\ ppc' = [ppc EXCEPT ![p] = "idle"]
  /\ NotifyOneWorker
  /\ UNCHANGED <<queueVars, current, finished, arg, rejected, ownerVars>>

EnqueueSpurious(p) ==
  /\ Alive /\ ppc[p] = "waiting"
  /\ ppc' = [ppc EXCEPT ![p] = "wake"]
  /\ UNCHANGED <<queueVars, workerVars, arg, rejected, ownerVars>>

-----------------------------------------------------------------------------
(* ~ThreadPool, run by the owner between two calls of its own.             *)

DestroyStop ==
  /\ dpc = "live"
  /\ Owner \in Producers => ppc[Owner] = "idle"
  /\ stop' = TRUE
  /\ dpc' = "notifyTask"
  /\ UNCHANGED <<queueVars, workerVars, producerVars>>

DestroyNotifyTask ==
  /\ dpc = "notifyTask"
  /\ wpc' = [w \in Workers |-> IF wpc[w] = "waiting" THEN "lock" ELSE wpc[w]]
  /\ dpc' = "notifySpace"
  /\ UNCHANGED <<queueVars, current, finished, producerVars, stop>>

DestroyNotifySpace ==
  /\ dpc = "notifySpace"
  /\ ppc' = [p \in Producers |-> IF ppc[p] = "waiting" THEN "wake" ELSE ppc[p]]
  /\ dpc' = "join"
  /\ UNCHANGED <<queueVars, workerVars, arg, rejected, stop>>

DestroyJoin ==
  /\ dpc = "join"
  /\ \A w \in Workers : wpc[w] = "exited"
  /\ dpc' = "dead"
  /\ UNCHANGED <<queueVars, workerVars, producerVars, stop>>

(* The pool is gone: the only state in which the model may rest. *)
Destroyed == ~Alive /\ UNCHANGED vars

-----------------------------------------------------------------------------
WorkerStep(w) ==
  WorkerWait(w) \/ WorkerTake(w) \/ WorkerFinish(w) \/ WorkerExit(w)

EnqueueStep(p) ==
  EnqueueThrow(p) \/ EnqueueWait(p) \/ EnqueueEmplace(p) \/ EnqueueNotify(p)

DestroyStep == DestroyNotifyTask \/ DestroyNotifySpace \/ DestroyJoin

Next ==
  \/ \E w \in Workers : WorkerStep(w) \/ WorkerTimeout(w)
  \/ \E p \in Producers : EnqueueStep(p) \/ EnqueueSpurious(p)
  \/ \E p \in Producers, t \in Tasks : EnqueueCall(p, t)
  \/ DestroyStop
  \/ DestroyStep
  \/ Destroyed

(***************************************************************************)
(* Threads that can run do run, and a task ends.  Nothing is asked of the  *)
(* 30 s timeout nor of spurious wake-ups: the pool must not depend on      *)
(* them.  No one has to call enqueue or to destroy the pool.               *)
(***************************************************************************)
Fairness ==
  /\ \A w \in Workers : WF_vars(WorkerStep(w))
  /\ \A p \in Producers : WF_vars(EnqueueStep(p))
  /\ WF_vars(DestroyStep)

Spec == Init /\ [][Next]_vars

FairSpec == Spec /\ Fairness

-----------------------------------------------------------------------------
(* The queue never holds more than max_queue_size tasks, however many      *)
(* callers passed the predicate of condition_space before (enqueue).       *)
QueueBounded == Len(tasks) <= MaxQueue

(* No task is lost, duplicated or overtaken: what was accepted is exactly  *)
(* what was started followed by what waits, and what was started is either *)
(* in the hands of exactly one worker or finished (worker loop).           *)
ExactlyOnceInOrder ==
  /\ accepted = started \o tasks
  /\ \A i, j \in DOMAIN accepted : accepted[i] = accepted[j] => i = j
  /\ RangeOf(started) = finished \cup ({current[w] : w \in Workers} \ {None})
  /\ \A w \in Workers :
       current[w] # None =>
         /\ current[w] \notin finished
         /\ \A v \in Workers \ {w} : current[v] # current[w]

(* A waiting task always has someone about to look at the queue: a worker  *)
(* that competes for the mutex or will when its task ends, or a            *)
(* notification still to be sent.  enqueue notifies after it unlocks, so   *)
(* this is what rules out a lost wake-up.                                  *)
TaskIsAnnounced ==
  tasks # <<>> =>
    \/ \E w \in Workers : wpc[w] \in {"lock", "running"}
    \/ \E p \in Producers : ppc[p] = "notify"
    \/ dpc = "notifyTask"

(* Callers blocked in enqueue on a live pool never outnumber the hope they *)
(* have: the free places are already promised to callers that woke up.     *)
(* The worker notifies one caller per task taken; this shows it suffices.  *)
SpaceIsAnnounced ==
  Waiting(ppc) # {} =>
    \/ dpc \in {"notifyTask", "notifySpace"}
    \/ /\ ~stop
       /\ MaxQueue - Len(tasks) <= Cardinality({p \in Producers : ppc[p] = "wake"})

(* When the destructor returns, every accepted task has been run to its    *)
(* end: a connection handed to the pool is never dropped by the shutdown.  *)
ShutdownDrains ==
  dpc = "dead" =>
    /\ tasks = <<>>
    /\ finished = RangeOf(accepted)
    /\ \A w \in Workers : wpc[w] = "exited"

(* Every call returns: a caller of enqueue is not blocked for ever, unless *)
(* the pool is destroyed under it, and the destructor's join() is not left *)
(* waiting for a worker that sleeps.                                       *)
EveryCallReturns ==
  /\ \A p \in Producers : (ppc[p] # "idle") ~> (ppc[p] = "idle" \/ dpc = "dead")
  /\ (dpc = "notifyTask") ~> (dpc = "dead")

-----------------------------------------------------------------------------
(* The inductive strengthening of the safety properties: what ties program *)
(* counters, local variables and history together.                         *)
HasArg(p) == ppc[p] \in {"enter", "waiting", "wake"}

ControlInv ==
  /\ stop <=> dpc # "live"
  /\ \A w \in Workers : wpc[w] = "running" <=> current[w] # None
  /\ \A w \in Workers : wpc[w] = "exited" => stop /\ tasks = <<>>
  /\ dpc = "dead" => \A w \in Workers : wpc[w] = "exited"
  /\ \A p \in Producers : HasArg(p) <=> arg[p] # None

(* The callables in the hands of callers are new and all different. *)
ArgInv ==
  \A p \in Producers :
    arg[p] # None =>
      /\ arg[p] \notin RangeOf(accepted) \cup rejected
      /\ \A q \in Producers \ {p} : arg[q] # arg[p]

RejectedInv == rejected \cap RangeOf(accepted) = {}

PoolInv ==
  /\ TypeOK
  /\ ControlInv
  /\ ArgInv
  /\ RejectedInv
  /\ QueueBounded
  /\ ExactlyOnceInOrder

-----------------------------------------------------------------------------
(* The pool implements the bounded FIFO of TaskQueue.                      *)
Promise == INSTANCE TaskQueue
  WITH Lanes <- Workers, Capacity <- MaxQueue,
       phase <- IF dpc = "dead" THEN "ended" ELSE IF stop THEN "draining" ELSE "open",
       pending <- tasks, lane <- current, completed <- finished,
       refused <- rejected

(* Every step of the pool is a step of the queue it promises, or a stutter. *)
ImplementsTaskQueue == Promise!SafeSpec

(* The same with the promise that waiting tasks are started and finished.  *)
ImplementsFairTaskQueue == Promise!Spec
=============================================================================
