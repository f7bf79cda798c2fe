-------------------------- MODULE ThreadPoolProofs --------------------------
(***************************************************************************)
(* Safety of the thread pool for any number of workers, callers and tasks. *)
(* PoolInv is the inductive invariant: one lemma per action shows that the *)
(* action preserves it, and the properties of ThreadPool follow.           *)
(***************************************************************************)
EXTENDS ThreadPool, SequenceTheorems, FiniteSetTheorems, TLAPS

-----------------------------------------------------------------------------
(* Facts about sequences.                                                  *)

(* Moving the head of the queue to the end of the history keeps the whole. *)
LEMMA MoveHead ==
  ASSUME NEW S, NEW a \in Seq(S), NEW q \in Seq(S), q # <<>>
  PROVE  /\ Append(a, Head(q)) \o Tail(q) = a \o q
         /\ Append(a, Head(q)) \in Seq(S)
         /\ Tail(q) \in Seq(S)
         /\ Head(q) \in S
         /\ Len(Tail(q)) = Len(q) - 1
<1>1. /\ Head(q) \in S /\ Tail(q) \in Seq(S)
      /\ Len(Tail(q)) = Len(q) - 1
      /\ \A i \in 1..Len(Tail(q)) : Tail(q)[i] = q[i + 1]
      /\ Head(q) = q[1]
  BY HeadTailProperties
<1>2. /\ Append(a, Head(q)) \in Seq(S)
      /\ Len(Append(a, Head(q))) = Len(a) + 1
      /\ \A i \in 1..Len(a) : Append(a, Head(q))[i] = a[i]
      /\ Append(a, Head(q))[Len(a) + 1] = Head(q)
  BY <1>1, AppendProperties
<1>3. /\ Len(a) \in Nat /\ Len(q) \in Nat \ {0}
  BY LenProperties, EmptySeq
<1> DEFINE l == Append(a, Head(q)) \o Tail(q)
           r == a \o q
<1>4. /\ l \in Seq(S) /\ Len(l) = Len(a) + 1 + Len(Tail(q))
      /\ \A i \in 1..Len(l) : l[i] = IF i <= Len(a) + 1 THEN Append(a, Head(q))[i]
                                     ELSE Tail(q)[i - (Len(a) + 1)]
  BY <1>1, <1>2, ConcatProperties
<1>5. /\ r \in Seq(S) /\ Len(r) = Len(a) + Len(q)
      /\ \A i \in 1..Len(r) : r[i] = IF i <= Len(a) THEN a[i] ELSE q[i - Len(a)]
  BY ConcatProperties
<1>6. ASSUME NEW i \in 1..Len(l)
      PROVE  l[i] = r[i]
  <2>1. CASE i <= Len(a)
    BY <2>1, <1>1, <1>2, <1>3, <1>4, <1>5
  <2>2. CASE i = Len(a) + 1
    BY <2>2, <1>1, <1>2, <1>3, <1>4, <1>5
  <2>3. CASE i > Len(a) + 1
    <3>1. i - (Len(a) + 1) \in 1..Len(Tail(q))
      BY <2>3, <1>1, <1>3, <1>4
    <3>2. l[i] = q[i - (Len(a) + 1) + 1]
      BY <2>3, <3>1, <1>1, <1>3, <1>4
    <3> QED
      BY <2>3, <3>2, <1>1, <1>3, <1>4, <1>5
  <2> QED
    BY <2>1, <2>2, <2>3, <1>1, <1>3, <1>4
<1>7. Len(l) = Len(r)
  BY <1>1, <1>3, <1>4, <1>5
<1>8. l = r
  <2> HIDE DEF l, r
  <2> QED
    BY <1>4, <1>5, <1>6, <1>7, SeqEqual
<1> QED
  BY <1>1, <1>2, <1>8

(* Appending to the queue appends to the whole. *)
LEMMA AppendToWhole ==
  ASSUME NEW S, NEW a \in Seq(S), NEW q \in Seq(S), NEW t \in S
  PROVE  a \o Append(q, t) = Append(a \o q, t)
<1>1. /\ Append(q, t) = q \o <<t>> /\ a \o q \in Seq(S) /\ <<t>> \in Seq(S)
  BY AppendIsConcat, ConcatProperties
<1>2. Append(a \o q, t) = (a \o q) \o <<t>>
  BY <1>1, AppendIsConcat
<1> QED
  BY <1>1, <1>2, ConcatAssociative

LEMMA RangeOfAppend ==
  ASSUME NEW S, NEW s \in Seq(S), NEW t \in S
  PROVE  RangeOf(Append(s, t)) = RangeOf(s) \cup {t}
<1>1. /\ Len(s) \in Nat /\ DOMAIN s = 1..Len(s)
      /\ DOMAIN Append(s, t) = 1..(Len(s) + 1)
      /\ \A i \in 1..Len(s) : Append(s, t)[i] = s[i]
      /\ Append(s, t)[Len(s) + 1] = t
  BY LenProperties, AppendProperties
<1>2. 1..(Len(s) + 1) = 1..Len(s) \cup {Len(s) + 1}
  BY <1>1
<1> QED
  BY <1>1, <1>2 DEF RangeOf

(* A new task appended to a whole without repetition adds none.            *)
LEMMA AppendFresh ==
  ASSUME NEW S, NEW s \in Seq(S), NEW t \in S, t \notin RangeOf(s),
         \A i, j \in DOMAIN s : s[i] = s[j] => i = j
  PROVE  \A i, j \in DOMAIN Append(s, t) : Append(s, t)[i] = Append(s, t)[j] => i = j
<1>1. /\ Len(s) \in Nat /\ DOMAIN s = 1..Len(s)
      /\ DOMAIN Append(s, t) = 1..(Len(s) + 1)
      /\ \A i \in 1..Len(s) : Append(s, t)[i] = s[i]
      /\ Append(s, t)[Len(s) + 1] = t
  BY LenProperties, AppendProperties
<1>2. \A i \in 1..Len(s) : s[i] # t
  BY <1>1 DEF RangeOf
<1> SUFFICES ASSUME NEW i \in 1..(Len(s) + 1), NEW j \in 1..(Len(s) + 1),
                    Append(s, t)[i] = Append(s, t)[j]
             PROVE  i = j
  BY <1>1
<1>3. CASE i \in 1..Len(s) /\ j \in 1..Len(s)
  BY <1>1, <1>3
<1>4. CASE i \in 1..Len(s) /\ j = Len(s) + 1
  BY <1>1, <1>2, <1>4
<1>5. CASE i = Len(s) + 1 /\ j \in 1..Len(s)
  BY <1>1, <1>2, <1>5
<1> QED
  BY <1>1, <1>3, <1>4, <1>5

(* The first waiting task of a whole without repetition was never started. *)
LEMMA HeadIsNew ==
  ASSUME NEW S, NEW a \in Seq(S), NEW q \in Seq(S), q # <<>>,
         \A i, j \in DOMAIN (a \o q) : (a \o q)[i] = (a \o q)[j] => i = j
  PROVE  Head(q) \notin RangeOf(a)
<1>1. /\ Len(a) \in Nat /\ Len(q) \in Nat \ {0} /\ DOMAIN a = 1..Len(a)
      /\ Head(q) = q[1]
  BY LenProperties, EmptySeq
<1>2. /\ a \o q \in Seq(S) /\ Len(a \o q) = Len(a) + Len(q)
      /\ \A i \in 1..(Len(a) + Len(q)) :
           (a \o q)[i] = IF i <= Len(a) THEN a[i] ELSE q[i - Len(a)]
  BY ConcatProperties
<1>3. DOMAIN (a \o q) = 1..(Len(a) + Len(q))
  BY <1>2, LenProperties
<1>4. (a \o q)[Len(a) + 1] = Head(q)
  BY <1>1, <1>2
<1> SUFFICES ASSUME NEW i \in 1..Len(a), a[i] = Head(q) PROVE FALSE
  BY <1>1 DEF RangeOf
<1>5. (a \o q)[i] = Head(q)
  BY <1>1, <1>2
<1>6. i \in DOMAIN (a \o q) /\ Len(a) + 1 \in DOMAIN (a \o q)
  BY <1>1, <1>3
<1> QED
  BY <1>1, <1>4, <1>5, <1>6

-----------------------------------------------------------------------------
(* The initial state.                                                      *)

LEMMA InitPoolInv == Init => PoolInv
<1> SUFFICES ASSUME Init PROVE PoolInv
  OBVIOUS
<1> USE DEF Init
<1>1. TypeOK
  <2>1. <<>> \in Seq(Tasks)
    BY EmptySeq
  <2> QED
    BY <2>1 DEF TypeOK
<1>2. ControlInv
  BY DEF ControlInv, HasArg
<1>3. ArgInv /\ RejectedInv
  BY DEF ArgInv, RejectedInv
<1>4. QueueBounded
  BY PoolAssumption DEF QueueBounded
<1>5. ExactlyOnceInOrder
  <2>1. <<>> \o <<>> = <<>> /\ DOMAIN <<>> = {}
    BY EmptySeq, ConcatEmptySeq, LenProperties
  <2> QED
    BY <2>1 DEF ExactlyOnceInOrder, RangeOf
<1> QED
  BY <1>1, <1>2, <1>3, <1>4, <1>5 DEF PoolInv

-----------------------------------------------------------------------------
(* Notifications move a thread from its wait set to the mutex and change   *)
(* nothing else.                                                           *)

LEMMA NotifyWorkerMoves ==
  ASSUME TypeOK, NotifyOneWorker
  PROVE  /\ wpc' \in [Workers -> {"lock", "waiting", "running", "exited"}]
         /\ \A w \in Workers : /\ wpc'[w] = "running" <=> wpc[w] = "running"
                               /\ wpc'[w] = "exited" <=> wpc[w] = "exited"
BY DEF TypeOK, NotifyOneWorker, Waiting

LEMMA NotifyProducerMoves ==
  ASSUME TypeOK, NotifyOneProducer
  PROVE  /\ ppc' \in [Producers -> {"idle", "enter", "waiting", "wake", "notify"}]
         /\ \A p \in Producers : ppc'[p] \in {"enter", "waiting", "wake"}
                                   <=> ppc[p] \in {"enter", "waiting", "wake"}
BY DEF TypeOK, NotifyOneProducer, Waiting

-----------------------------------------------------------------------------
(* The worker loop.                                                        *)

LEMMA WorkerTakeInv ==
  ASSUME PoolInv, NEW w \in Workers, WorkerTake(w)
  PROVE  PoolInv'
<1> USE DEF PoolInv, WorkerTake, queueVars, ownerVars
<1>1. /\ tasks \in Seq(Tasks) /\ started \in Seq(Tasks) /\ tasks # <<>>
      /\ wpc \in [Workers -> {"lock", "waiting", "running", "exited"}]
      /\ current \in [Workers -> Tasks \cup {None}]
      /\ wpc[w] = "lock" /\ current[w] = None
  BY DEF TypeOK, ControlInv
<1>2. /\ started' \o tasks' = started \o tasks
      /\ started' \in Seq(Tasks) /\ tasks' \in Seq(Tasks)
      /\ Head(tasks) \in Tasks /\ Len(tasks') = Len(tasks) - 1
  BY <1>1, MoveHead
<1>3. Head(tasks) \notin RangeOf(started)
  BY <1>1, HeadIsNew DEF ExactlyOnceInOrder
<1>4. RangeOf(started') = RangeOf(started) \cup {Head(tasks)}
  BY <1>1, <1>2, RangeOfAppend
<1>5. /\ ppc' \in [Producers -> {"idle", "enter", "waiting", "wake", "notify"}]
      /\ \A p \in Producers : HasArg(p)' <=> HasArg(p)
  BY NotifyProducerMoves DEF HasArg
<1>6. TypeOK'
  BY <1>1, <1>2, <1>5 DEF TypeOK
<1>7. ControlInv'
  <2>1. Head(tasks) # None
    BY <1>2, PoolAssumption
  <2>2. \A v \in Workers : wpc'[v] = "exited" => wpc[v] = "exited" /\ v # w
    BY <1>1
  <2>3. \A v \in Workers : wpc'[v] # "exited"
    BY <1>1, <2>2 DEF ControlInv
  <2>4. dpc' # "dead"
    BY <1>1 DEF ControlInv
  <2>5. \A v \in Workers : wpc'[v] = "running" <=> current'[v] # None
    BY <1>1, <2>1 DEF ControlInv
  <2> QED
    BY <1>5, <2>3, <2>4, <2>5 DEF ControlInv
<1>8. ArgInv' /\ RejectedInv'
  BY DEF ArgInv, RejectedInv
<1>9. QueueBounded'
  BY <1>1, <1>2, LenProperties, PoolAssumption DEF QueueBounded
<1>10. ExactlyOnceInOrder'
  <2>1. accepted' = started' \o tasks'
    BY <1>2 DEF ExactlyOnceInOrder
  <2>2. \A i, j \in DOMAIN accepted' : accepted'[i] = accepted'[j] => i = j
    BY DEF ExactlyOnceInOrder
  <2>3. {current'[v] : v \in Workers} \ {None}
          = ({current[v] : v \in Workers} \ {None}) \cup {Head(tasks)}
    BY <1>1, <1>2, PoolAssumption
  <2>4. RangeOf(started') = finished' \cup ({current'[v] : v \in Workers} \ {None})
    BY <1>4, <2>3 DEF ExactlyOnceInOrder
  <2>5. \A v \in Workers : current[v] # Head(tasks)
    BY <1>2, <1>3, PoolAssumption DEF ExactlyOnceInOrder
  <2>6. Head(tasks) \notin finished
    BY <1>3 DEF ExactlyOnceInOrder
  <2>7. \A v \in Workers :
          current'[v] # None =>
            /\ current'[v] \notin finished'
            /\ \A u \in Workers \ {v} : current'[u] # current'[v]
    BY <1>1, <2>5, <2>6 DEF ExactlyOnceInOrder
  <2> QED
    BY <2>1, <2>2, <2>4, <2>7 DEF ExactlyOnceInOrder
<1> QED
  BY <1>6, <1>7, <1>8, <1>9, <1>10

LEMMA WorkerFinishInv ==
  ASSUME PoolInv, NEW w \in Workers, WorkerFinish(w)
  PROVE  PoolInv'
<1> USE DEF PoolInv, WorkerFinish, queueVars, ownerVars, producerVars
<1>1. /\ wpc \in [Workers -> {"lock", "waiting", "running", "exited"}]
      /\ current \in [Workers -> Tasks \cup {None}]
      /\ wpc[w] = "running" /\ current[w] # None /\ current[w] \in Tasks
  BY DEF TypeOK, ControlInv
<1>2. TypeOK'
  BY <1>1 DEF TypeOK
<1>3. ControlInv'
  <2>1. \A v \in Workers : wpc'[v] = "running" <=> current'[v] # None
    BY <1>1 DEF ControlInv
  <2>2. \A v \in Workers : wpc'[v] = "exited" => wpc[v] = "exited"
    BY <1>1
  <2>3. dpc' # "dead"
    BY <1>1 DEF ControlInv
  <2> QED
    BY <2>1, <2>2, <2>3 DEF ControlInv, HasArg
<1>4. ArgInv' /\ RejectedInv' /\ QueueBounded'
  BY DEF ArgInv, RejectedInv, QueueBounded
<1>5. ExactlyOnceInOrder'
  <2>1. {current[v] : v \in Workers} \ {None}
          = ({current'[v] : v \in Workers} \ {None}) \cup {current[w]}
    BY <1>1
  <2>2. RangeOf(started') = finished' \cup ({current'[v] : v \in Workers} \ {None})
    BY <2>1 DEF ExactlyOnceInOrder
  <2>3. \A v \in Workers :
          current'[v] # None =>
            /\ current'[v] \notin finished'
            /\ \A u \in Workers \ {v} : current'[u] # current'[v]
    BY <1>1 DEF ExactlyOnceInOrder
  <2> QED
    BY <2>2, <2>3 DEF ExactlyOnceInOrder
<1> QED
  BY <1>2, <1>3, <1>4, <1>5

(* A worker that changes only its place: it sleeps, wakes up or leaves.    *)
LEMMA WorkerMoveInv ==
  ASSUME PoolInv, NEW w \in Workers,
         WorkerWait(w) \/ WorkerTimeout(w) \/ WorkerExit(w)
  PROVE  PoolInv'
<1> USE DEF PoolInv, WorkerWait, WorkerTimeout, WorkerExit, queueVars, ownerVars,
            producerVars
<1>1. /\ wpc \in [Workers -> {"lock", "waiting", "running", "exited"}]
      /\ wpc[w] \in {"lock", "waiting"}
      /\ UNCHANGED <<tasks, accepted, started, stop, current, ppc, arg, dpc,
                     finished, rejected>>
  BY DEF TypeOK
<1>2. \E pc \in {"lock", "waiting", "exited"} :
        /\ wpc' = [wpc EXCEPT ![w] = pc]
        /\ pc = "exited" => stop /\ tasks = <<>>
  OBVIOUS
<1>3. TypeOK'
  BY <1>1, <1>2 DEF TypeOK
<1>4. ControlInv'
  BY <1>1, <1>2 DEF ControlInv, HasArg
<1>5. ArgInv' /\ RejectedInv' /\ QueueBounded' /\ ExactlyOnceInOrder'
  BY <1>1 DEF ArgInv, RejectedInv, QueueBounded, ExactlyOnceInOrder
<1> QED
  BY <1>3, <1>4, <1>5

-----------------------------------------------------------------------------
(* enqueue.                                                                *)

LEMMA EnqueueCallInv ==
  ASSUME PoolInv, NEW p \in Producers, NEW t \in Tasks, EnqueueCall(p, t)
  PROVE  PoolInv'
<1> USE DEF PoolInv, EnqueueCall, queueVars, workerVars, ownerVars
<1>1. /\ ppc \in [Producers -> {"idle", "enter", "waiting", "wake", "notify"}]
      /\ arg \in [Producers -> Tasks \cup {None}]
      /\ ppc[p] = "idle" /\ arg[p] = None
      /\ t \notin RangeOf(accepted) \cup rejected
      /\ \A q \in Producers : arg[q] # t
      /\ t # None
  BY PoolAssumption DEF TypeOK, ControlInv, HasArg, Unused
<1>2. TypeOK'
  BY <1>1 DEF TypeOK
<1>3. ControlInv'
  BY <1>1 DEF ControlInv, HasArg
<1>4. ArgInv' /\ RejectedInv'
  BY <1>1 DEF ArgInv, RejectedInv
<1>5. QueueBounded' /\ ExactlyOnceInOrder'
  BY DEF QueueBounded, ExactlyOnceInOrder
<1> QED
  BY <1>2, <1>3, <1>4, <1>5

LEMMA EnqueueThrowInv ==
  ASSUME PoolInv, NEW p \in Producers, EnqueueThrow(p)
  PROVE  PoolInv'
<1> USE DEF PoolInv, EnqueueThrow, queueVars, workerVars, ownerVars
<1>1. /\ ppc \in [Producers -> {"idle", "enter", "waiting", "wake", "notify"}]
      /\ arg \in [Producers -> Tasks \cup {None}]
      /\ arg[p] # None /\ arg[p] \in Tasks
  BY DEF TypeOK, ControlInv, HasArg, HoldsLock
<1>2. TypeOK'
  BY <1>1 DEF TypeOK
<1>3. ControlInv'
  BY <1>1 DEF ControlInv, HasArg
<1>4. ArgInv' /\ RejectedInv'
  BY <1>1 DEF ArgInv, RejectedInv
<1>5. QueueBounded' /\ ExactlyOnceInOrder'
  BY DEF QueueBounded, ExactlyOnceInOrder
<1> QED
  BY <1>2, <1>3, <1>4, <1>5

LEMMA EnqueueEmplaceInv ==
  ASSUME PoolInv, NEW p \in Producers, EnqueueEmplace(p)
  PROVE  PoolInv'
<1> USE DEF PoolInv, EnqueueEmplace, workerVars, ownerVars
<1>1. /\ tasks \in Seq(Tasks) /\ started \in Seq(Tasks) /\ accepted \in Seq(Tasks)
      /\ ppc \in [Producers -> {"idle", "enter", "waiting", "wake", "notify"}]
      /\ arg \in [Producers -> Tasks \cup {None}]
      /\ arg[p] # None /\ arg[p] \in Tasks /\ ~stop /\ Len(tasks) < MaxQueue
      /\ ppc[p] \in {"enter", "wake"}
  BY DEF TypeOK, ControlInv, HasArg, HoldsLock
<1>2. /\ tasks' \in Seq(Tasks) /\ Len(tasks') = Len(tasks) + 1 /\ tasks' # <<>>
      /\ accepted' \in Seq(Tasks) /\ Len(accepted') = Len(accepted) + 1
      /\ \A i \in 1..Len(accepted) : accepted'[i] = accepted[i]
      /\ accepted'[Len(accepted) + 1] = arg[p]
      /\ RangeOf(accepted') = RangeOf(accepted) \cup {arg[p]}
  BY <1>1, AppendProperties, RangeOfAppend
<1>3. TypeOK'
  BY <1>1, <1>2 DEF TypeOK
<1>4. ControlInv'
  BY <1>1 DEF ControlInv, HasArg
<1>5. ArgInv' /\ RejectedInv'
  BY <1>1, <1>2 DEF ArgInv, RejectedInv
<1>6. QueueBounded'
  BY <1>1, <1>2, LenProperties, PoolAssumption DEF QueueBounded
<1>7. ExactlyOnceInOrder'
  <2>1. accepted' = started' \o tasks'
    <3>1. started \o Append(tasks, arg[p]) = Append(started \o tasks, arg[p])
      BY <1>1, AppendToWhole
    <3> QED
      BY <3>1 DEF ExactlyOnceInOrder
  <2>2. arg[p] \notin RangeOf(accepted)
    BY <1>1 DEF ArgInv
  <2>3. \A i, j \in DOMAIN accepted' : accepted'[i] = accepted'[j] => i = j
    <3>1. \A i, j \in DOMAIN accepted : accepted[i] = accepted[j] => i = j
      BY DEF ExactlyOnceInOrder
    <3>2. accepted' = Append(accepted, arg[p])
      OBVIOUS
    <3> HIDE DEF PoolInv, EnqueueEmplace
    <3>3. \A i, j \in DOMAIN Append(accepted, arg[p]) :
            Append(accepted, arg[p])[i] = Append(accepted, arg[p])[j] => i = j
      BY <1>1, <2>2, <3>1, AppendFresh
    <3> QED
      BY <3>2, <3>3
  <2>4. started' = started /\ current' = current /\ finished' = finished
    OBVIOUS
  <2>5. /\ RangeOf(started) = finished \cup ({current[w] : w \in Workers} \ {None})
        /\ \A w \in Workers :
             current[w] # None =>
               /\ current[w] \notin finished
               /\ \A v \in Workers \ {w} : current[v] # current[w]
    BY DEF ExactlyOnceInOrder
  <2>6. RangeOf(started)' = RangeOf(started)
    BY <2>4 DEF RangeOf
  <2> HIDE DEF PoolInv, EnqueueEmplace
  <2> QED
    BY <2>1, <2>3, <2>4, <2>5, <2>6 DEF ExactlyOnceInOrder
<1> QED
  BY <1>3, <1>4, <1>5, <1>6, <1>7

(* A caller that changes only its place: it sleeps or wakes up.            *)
LEMMA EnqueueMoveInv ==
  ASSUME PoolInv, NEW p \in Producers, EnqueueWait(p) \/ EnqueueSpurious(p)
  PROVE  PoolInv'
<1> USE DEF PoolInv, EnqueueWait, EnqueueSpurious, queueVars, workerVars, ownerVars
<1>1. /\ ppc \in [Producers -> {"idle", "enter", "waiting", "wake", "notify"}]
      /\ HasArg(p)
      /\ \E pc \in {"waiting", "wake"} : ppc' = [ppc EXCEPT ![p] = pc]
      /\ UNCHANGED <<tasks, accepted, started, stop, current, wpc, arg, dpc,
                     finished, rejected>>
  BY DEF TypeOK, HasArg, HoldsLock
<1>2. TypeOK'
  BY <1>1 DEF TypeOK
<1>3. ControlInv'
  BY <1>1 DEF ControlInv, HasArg
<1>4. ArgInv' /\ RejectedInv' /\ QueueBounded' /\ ExactlyOnceInOrder'
  BY <1>1 DEF ArgInv, RejectedInv, QueueBounded, ExactlyOnceInOrder
<1> QED
  BY <1>2, <1>3, <1>4

LEMMA EnqueueNotifyInv ==
  ASSUME PoolInv, NEW p \in Producers, EnqueueNotify(p)
  PROVE  PoolInv'
<1> USE DEF PoolInv, EnqueueNotify, queueVars, ownerVars
<1>1. /\ ppc \in [Producers -> {"idle", "enter", "waiting", "wake", "notify"}]
      /\ ~HasArg(p) /\ ppc' = [ppc EXCEPT ![p] = "idle"]
  BY DEF TypeOK, HasArg
<1>2. /\ wpc' \in [Workers -> {"lock", "waiting", "running", "exited"}]
      /\ \A w \in Workers : /\ wpc'[w] = "running" <=> wpc[w] = "running"
                            /\ wpc'[w] = "exited" <=> wpc[w] = "exited"
  BY NotifyWorkerMoves
<1>3. TypeOK'
  BY <1>1, <1>2 DEF TypeOK
<1>4. ControlInv'
  BY <1>1, <1>2 DEF ControlInv, HasArg
<1>5. ArgInv' /\ RejectedInv' /\ QueueBounded' /\ ExactlyOnceInOrder'
  BY DEF ArgInv, RejectedInv, QueueBounded, ExactlyOnceInOrder
<1> QED
  BY <1>3, <1>4, <1>5

-----------------------------------------------------------------------------
(* ~ThreadPool.                                                            *)

LEMMA DestroyInv ==
  ASSUME PoolInv, DestroyStop \/ DestroyStep
  PROVE  PoolInv'
<1> USE DEF PoolInv, DestroyStop, DestroyStep, DestroyNotifyTask,
            DestroyNotifySpace, DestroyJoin, queueVars, workerVars, producerVars
<1>1. /\ wpc \in [Workers -> {"lock", "waiting", "running", "exited"}]
      /\ ppc \in [Producers -> {"idle", "enter", "waiting", "wake", "notify"}]
      /\ UNCHANGED <<tasks, accepted, started, current, arg, finished, rejected>>
  BY DEF TypeOK
<1>2. TypeOK'
  BY <1>1 DEF TypeOK
<1>3. ControlInv'
  <2>1. CASE DestroyStop
    BY <1>1, <2>1 DEF ControlInv, HasArg
  <2>2. CASE DestroyNotifyTask
    BY <1>1, <2>2 DEF ControlInv, HasArg
  <2>3. CASE DestroyNotifySpace
    BY <1>1, <2>3 DEF ControlInv, HasArg
  <2>4. CASE DestroyJoin
    BY <1>1, <2>4 DEF ControlInv, HasArg
  <2> QED
    BY <2>1, <2>2, <2>3, <2>4
<1>4. ArgInv' /\ RejectedInv' /\ QueueBounded' /\ ExactlyOnceInOrder'
  BY <1>1 DEF ArgInv, RejectedInv, QueueBounded, ExactlyOnceInOrder
<1> QED
  BY <1>2, <1>3, <1>4

-----------------------------------------------------------------------------
(* The invariant.                                                          *)

LEMMA StepPoolInv == PoolInv /\ [Next]_vars => PoolInv'
<1> SUFFICES ASSUME PoolInv, [Next]_vars PROVE PoolInv'
  OBVIOUS
<1>1. CASE UNCHANGED vars
  BY <1>1 DEF PoolInv, TypeOK, ControlInv, HasArg, ArgInv, RejectedInv, QueueBounded,
     ExactlyOnceInOrder, vars, queueVars, workerVars, producerVars, ownerVars
<1>2. ASSUME NEW w \in Workers, WorkerStep(w) \/ WorkerTimeout(w) PROVE PoolInv'
  BY <1>2, WorkerTakeInv, WorkerFinishInv, WorkerMoveInv DEF WorkerStep
<1>3. ASSUME NEW p \in Producers, EnqueueStep(p) \/ EnqueueSpurious(p) PROVE PoolInv'
  BY <1>3, EnqueueThrowInv, EnqueueEmplaceInv, EnqueueMoveInv, EnqueueNotifyInv
     DEF EnqueueStep
<1>4. ASSUME NEW p \in Producers, NEW t \in Tasks, EnqueueCall(p, t) PROVE PoolInv'
  BY <1>4, EnqueueCallInv
<1>5. CASE DestroyStop \/ DestroyStep
  BY <1>5, DestroyInv
<1>6. CASE Destroyed
  BY <1>6, <1>1 DEF Destroyed
<1> QED
  BY <1>1, <1>2, <1>3, <1>4, <1>5, <1>6 DEF Next

(* PoolInv holds in every reachable state of every pool. *)
THEOREM PoolInvariant == Spec => []PoolInv
  BY InitPoolInv, StepPoolInv, PTL DEF Spec

(* The variables keep their types. *)
THEOREM PoolTypeOK == Spec => []TypeOK
<1>1. PoolInv => TypeOK
  BY DEF PoolInv
<1> QED
  BY <1>1, PoolInvariant, PTL

(* enqueue keeps the queue within max_queue_size, whatever the number of   *)
(* callers blocked in it or woken up at the same time.                     *)
THEOREM PoolQueueBounded == Spec => []QueueBounded
<1>1. PoolInv => QueueBounded
  BY DEF PoolInv
<1> QED
  BY <1>1, PoolInvariant, PTL

(* Tasks are started in the order of acceptance, each one by exactly one   *)
(* worker, and none is lost.                                               *)
THEOREM PoolExactlyOnceInOrder == Spec => []ExactlyOnceInOrder
<1>1. PoolInv => ExactlyOnceInOrder
  BY DEF PoolInv
<1> QED
  BY <1>1, PoolInvariant, PTL

(* The destructor returns only after every accepted task has been run.     *)
THEOREM PoolShutdownDrains == Spec => []ShutdownDrains
<1>1. PoolInv => ShutdownDrains
  <2> SUFFICES ASSUME PoolInv, dpc = "dead" PROVE
        /\ tasks = <<>>
        /\ finished = RangeOf(accepted)
        /\ \A w \in Workers : wpc[w] = "exited"
    BY DEF ShutdownDrains
  <2>1. \A w \in Workers : wpc[w] = "exited"
    BY DEF PoolInv, ControlInv
  <2>2. tasks = <<>> /\ \A w \in Workers : current[w] = None
    BY <2>1, PoolAssumption DEF PoolInv, ControlInv
  <2>3. accepted = started
    BY <2>2, ConcatEmptySeq DEF PoolInv, TypeOK, ExactlyOnceInOrder
  <2>4. RangeOf(started) = finished
    BY <2>2 DEF PoolInv, ExactlyOnceInOrder
  <2> QED
    BY <2>1, <2>2, <2>3, <2>4
<1> QED
  BY <1>1, PoolInvariant, PTL

-----------------------------------------------------------------------------
(* No wake-up is lost.                                                     *)

LEMMA StepTaskIsAnnounced ==
  ASSUME PoolInv, TaskIsAnnounced, [Next]_vars
  PROVE  TaskIsAnnounced'
<1> SUFFICES ASSUME tasks' # <<>>
             PROVE  \/ \E w \in Workers : wpc'[w] \in {"lock", "running"}
                    \/ \E p \in Producers : ppc'[p] = "notify"
                    \/ dpc' = "notifyTask"
  BY DEF TaskIsAnnounced
<1> USE DEF queueVars, workerVars, producerVars, ownerVars
<1>0. /\ wpc \in [Workers -> {"lock", "waiting", "running", "exited"}]
      /\ ppc \in [Producers -> {"idle", "enter", "waiting", "wake", "notify"}]
  BY DEF PoolInv, TypeOK
<1>1. CASE UNCHANGED vars
  BY <1>1 DEF vars, TaskIsAnnounced
<1>2. ASSUME NEW w \in Workers, WorkerStep(w) \/ WorkerTimeout(w)
      PROVE  \E v \in Workers : wpc'[v] \in {"lock", "running"}
  <2>1. ~ WorkerWait(w) /\ ~ WorkerExit(w)
    BY DEF WorkerWait, WorkerExit
  <2>2. wpc'[w] \in {"lock", "running"}
    BY <1>0, <1>2, <2>1 DEF WorkerStep, WorkerTake, WorkerFinish, WorkerTimeout
  <2> QED
    BY <2>2
<1>3. ASSUME NEW p \in Producers, EnqueueEmplace(p)
      PROVE  \E q \in Producers : ppc'[q] = "notify"
  BY <1>0, <1>3 DEF EnqueueEmplace
<1>4. ASSUME NEW p \in Producers, EnqueueNotify(p)
      PROVE  \E w \in Workers : wpc'[w] \in {"lock", "running"}
  <2>1. tasks # <<>>
    BY <1>4 DEF EnqueueNotify
  <2>2. \A w \in Workers : wpc[w] # "exited"
    BY <2>1 DEF PoolInv, ControlInv
  <2>3. CASE Waiting(wpc) = {} /\ UNCHANGED wpc
    <3>1. \A w \in Workers : wpc[w] # "waiting"
      BY <1>0, <2>3 DEF Waiting
    <3> QED
      BY <1>0, <2>2, <2>3, <3>1, PoolAssumption
  <2>4. ASSUME NEW w \in Waiting(wpc), wpc' = [wpc EXCEPT ![w] = "lock"]
        PROVE  \E v \in Workers : wpc'[v] \in {"lock", "running"}
    BY <1>0, <2>4 DEF Waiting
  <2> QED
    BY <1>4, <2>3, <2>4 DEF EnqueueNotify, NotifyOneWorker
<1>5. ASSUME NEW p \in Producers,
             \/ EnqueueThrow(p) \/ EnqueueWait(p) \/ EnqueueSpurious(p)
             \/ \E t \in Tasks : EnqueueCall(p, t)
      PROVE  \/ \E w \in Workers : wpc'[w] \in {"lock", "running"}
             \/ \E q \in Producers : ppc'[q] = "notify"
             \/ dpc' = "notifyTask"
  <2>1. UNCHANGED <<tasks, wpc, dpc>>
    BY <1>5 DEF EnqueueThrow, EnqueueWait, EnqueueSpurious, EnqueueCall
  <2>2. ppc[p] # "notify"
    BY <1>5 DEF EnqueueThrow, EnqueueWait, EnqueueSpurious, EnqueueCall, HoldsLock
  <2>3. \E pc \in {"idle", "enter", "waiting", "wake"} : ppc' = [ppc EXCEPT ![p] = pc]
    BY <1>5 DEF EnqueueThrow, EnqueueWait, EnqueueSpurious, EnqueueCall
  <2> QED
    BY <1>0, <2>1, <2>2, <2>3 DEF TaskIsAnnounced
<1>6. CASE DestroyStop
  BY <1>6 DEF DestroyStop
<1>7. CASE DestroyNotifyTask
  <2>1. \A w \in Workers : wpc[w] # "exited"
    BY <1>7 DEF PoolInv, ControlInv, DestroyNotifyTask
  <2>2. \A w \in Workers : wpc'[w] \in {"lock", "running"}
    BY <1>0, <1>7, <2>1 DEF DestroyNotifyTask
  <2> QED
    BY <2>2, PoolAssumption
<1>8. CASE DestroyNotifySpace
  <2>1. \A p \in Producers : ppc[p] = "notify" => ppc'[p] = "notify"
    BY <1>0, <1>8 DEF DestroyNotifySpace
  <2> QED
    BY <1>8, <2>1 DEF DestroyNotifySpace, TaskIsAnnounced
<1>9. CASE DestroyJoin
  BY <1>9 DEF DestroyJoin, TaskIsAnnounced
<1>10. CASE Destroyed
  BY <1>1, <1>10 DEF Destroyed
<1> QED
  BY <1>1, <1>2, <1>3, <1>4, <1>5, <1>6, <1>7, <1>8, <1>9, <1>10
     DEF Next, EnqueueStep, DestroyStep

(* While a task waits, a worker is awake, or a notification that will wake *)
(* one is still to be sent: enqueue may notify after it has unlocked.      *)
THEOREM PoolTaskIsAnnounced == Spec => []TaskIsAnnounced
<1>1. Init => TaskIsAnnounced
  BY DEF Init, TaskIsAnnounced
<1>2. PoolInv /\ TaskIsAnnounced /\ [Next]_vars => TaskIsAnnounced'
  BY StepTaskIsAnnounced
<1> QED
  BY <1>1, <1>2, PoolInvariant, PTL DEF Spec

-----------------------------------------------------------------------------
(* The pool implements the bounded FIFO of TaskQueue.                      *)

LEMMA RangeOfWhole ==
  ASSUME NEW S, NEW a \in Seq(S), NEW q \in Seq(S)
  PROVE  RangeOf(q) \subseteq RangeOf(a \o q) /\ RangeOf(a) \subseteq RangeOf(a \o q)
<1>1. /\ Len(a) \in Nat /\ Len(q) \in Nat
      /\ DOMAIN a = 1..Len(a) /\ DOMAIN q = 1..Len(q)
      /\ a \o q \in Seq(S)
      /\ DOMAIN (a \o q) = 1..(Len(a) + Len(q))
      /\ \A i \in 1..(Len(a) + Len(q)) :
           (a \o q)[i] = IF i <= Len(a) THEN a[i] ELSE q[i - Len(a)]
  BY LenProperties, ConcatProperties
<1>2. ASSUME NEW i \in 1..Len(a) PROVE a[i] \in RangeOf(a \o q)
  BY <1>1 DEF RangeOf
<1>3. ASSUME NEW i \in 1..Len(q) PROVE q[i] \in RangeOf(a \o q)
  <2>1. /\ i + Len(a) \in 1..(Len(a) + Len(q)) /\ ~(i + Len(a) <= Len(a))
        /\ (i + Len(a)) - Len(a) = i
    BY <1>1
  <2>2. (a \o q)[i + Len(a)] = q[i]
    BY <1>1, <2>1
  <2> QED
    BY <1>1, <2>1, <2>2 DEF RangeOf
<1> QED
  BY <1>1, <1>2, <1>3 DEF RangeOf

(* The callable of a caller is new to the abstract queue as well.          *)
LEMMA ArgIsFresh ==
  ASSUME PoolInv, NEW p \in Producers, arg[p] # None
  PROVE  Promise!Fresh(arg[p])
<1>1. /\ arg[p] \notin RangeOf(accepted) /\ arg[p] \notin rejected
  BY DEF PoolInv, ArgInv
<1>2. RangeOf(tasks) \subseteq RangeOf(accepted) /\ RangeOf(started) \subseteq RangeOf(accepted)
  BY RangeOfWhole DEF PoolInv, TypeOK, ExactlyOnceInOrder
<1>3. finished \cup ({current[w] : w \in Workers} \ {None}) \subseteq RangeOf(accepted)
  BY <1>2 DEF PoolInv, ExactlyOnceInOrder
<1> QED
  BY <1>1, <1>2, <1>3 DEF Promise!Fresh, Promise!Pending, Promise!Executing, RangeOf

LEMMA StepImplements ==
  ASSUME PoolInv, [Next]_vars
  PROVE  [Promise!Next]_(Promise!vars)
<1> USE DEF queueVars, workerVars, producerVars, ownerVars
<1>1. CASE UNCHANGED vars
  BY <1>1 DEF vars, Promise!vars
<1>2. ASSUME NEW w \in Workers, WorkerTake(w) PROVE Promise!Next
  <2>1. wpc[w] = "lock" /\ current[w] = None /\ dpc # "dead"
    BY <1>2 DEF WorkerTake, PoolInv, TypeOK, ControlInv
  <2>2. Promise!Start(w)
    BY <1>2, <2>1 DEF WorkerTake, Promise!Start
  <2> QED
    BY <2>2 DEF Promise!Next, Promise!StartSome
<1>3. ASSUME NEW w \in Workers, WorkerFinish(w) PROVE Promise!Next
  <2>1. current[w] # None
    BY <1>3 DEF WorkerFinish, PoolInv, ControlInv
  <2>2. Promise!Finish(w)
    BY <1>3, <2>1 DEF WorkerFinish, Promise!Finish
  <2> QED
    BY <2>2 DEF Promise!Next
<1>4. ASSUME NEW w \in Workers, WorkerWait(w) \/ WorkerTimeout(w) \/ WorkerExit(w)
      PROVE  UNCHANGED Promise!vars
  BY <1>4 DEF WorkerWait, WorkerTimeout, WorkerExit, Promise!vars
<1>5. ASSUME NEW p \in Producers, EnqueueEmplace(p) PROVE Promise!Next
  <2>1. arg[p] \in Tasks /\ arg[p] # None /\ ~stop /\ dpc = "live"
    BY <1>5 DEF EnqueueEmplace, HoldsLock, PoolInv, TypeOK, ControlInv, HasArg
  <2>2. Promise!Accept(arg[p])
    BY <1>5, <2>1, ArgIsFresh DEF EnqueueEmplace, Promise!Accept
  <2> QED
    BY <2>1, <2>2 DEF Promise!Next
<1>6. ASSUME NEW p \in Producers, EnqueueThrow(p) PROVE Promise!Next
  <2>1. arg[p] \in Tasks /\ arg[p] # None /\ stop /\ dpc # "dead"
    BY <1>6 DEF EnqueueThrow, HoldsLock, Alive, PoolInv, TypeOK, ControlInv, HasArg
  <2>2. Promise!Refuse(arg[p])
    BY <1>6, <2>1, ArgIsFresh DEF EnqueueThrow, Promise!Refuse
  <2> QED
    BY <2>1, <2>2 DEF Promise!Next
<1>7. ASSUME NEW p \in Producers,
             \/ EnqueueWait(p) \/ EnqueueNotify(p) \/ EnqueueSpurious(p)
             \/ \E t \in Tasks : EnqueueCall(p, t)
      PROVE  UNCHANGED Promise!vars
  BY <1>7 DEF EnqueueWait, EnqueueNotify, EnqueueSpurious, EnqueueCall, Promise!vars
<1>8. CASE DestroyStop
  <2>1. ~stop
    BY <1>8 DEF DestroyStop, PoolInv, ControlInv
  <2>2. Promise!Close
    BY <1>8, <2>1 DEF DestroyStop, Promise!Close
  <2> QED
    BY <2>2 DEF Promise!Next
<1>9. CASE DestroyNotifyTask \/ DestroyNotifySpace
  BY <1>9 DEF DestroyNotifyTask, DestroyNotifySpace, Promise!vars
<1>10. CASE DestroyJoin
  <2>1. /\ dpc = "join" /\ stop /\ tasks = <<>>
        /\ \A w \in Workers : current[w] = None
    BY <1>10, PoolAssumption DEF DestroyJoin, PoolInv, ControlInv
  <2>2. Promise!End
    BY <1>10, <2>1 DEF DestroyJoin, Promise!End
  <2> QED
    BY <2>2 DEF Promise!Next
<1>11. CASE Destroyed
  BY <1>1, <1>11 DEF Destroyed
<1> QED
  BY <1>1, <1>2, <1>3, <1>4, <1>5, <1>6, <1>7, <1>8, <1>9, <1>10, <1>11
     DEF Next, WorkerStep, EnqueueStep, DestroyStep

(* Whoever uses the pool may think of TaskQueue instead: a bounded FIFO of *)
(* tasks, each run once, that ends only when it is empty.                  *)
THEOREM PoolImplementsTaskQueue == Spec => ImplementsTaskQueue
<1>1. Init => Promise!Init
  BY DEF Init, Promise!Init
<1>2. PoolInv /\ [Next]_vars => [Promise!Next]_(Promise!vars)
  BY StepImplements
<1> QED
  BY <1>1, <1>2, PoolInvariant, PTL DEF Spec, ImplementsTaskQueue, Promise!SafeSpec

-----------------------------------------------------------------------------
(* One notification per freed place is enough for the callers of enqueue.  *)

Awake == {p \in Producers : ppc[p] = "wake"}

LEMMA AwakeIsFinite ==
  ASSUME TypeOK
  PROVE  IsFiniteSet(Awake) /\ Cardinality(Awake) \in Nat
BY PoolAssumption, FS_Subset, FS_CardinalityType DEF Awake

(* Waking a caller up adds one, its leaving the wait removes one.          *)
LEMMA AwakeAdd ==
  ASSUME TypeOK, NEW p \in Producers, ppc[p] # "wake", ppc' = [ppc EXCEPT ![p] = "wake"]
  PROVE  Cardinality(Awake') = Cardinality(Awake) + 1
<1>1. Awake' = Awake \cup {p} /\ p \notin Awake
  BY DEF Awake, TypeOK
<1> QED
  BY <1>1, AwakeIsFinite, FS_AddElement

LEMMA AwakeRemove ==
  ASSUME TypeOK, NEW p \in Producers, NEW pc \in {"idle", "waiting", "notify"},
         ppc' = [ppc EXCEPT ![p] = pc]
  PROVE  /\ Cardinality(Awake') >= Cardinality(Awake) - 1
         /\ ppc[p] # "wake" => Cardinality(Awake') = Cardinality(Awake)
<1>1. CASE ppc[p] = "wake"
  <2>1. Awake' = Awake \ {p} /\ p \in Awake
    BY <1>1 DEF Awake, TypeOK
  <2>2. Cardinality(Awake') = Cardinality(Awake) - 1
    BY <2>1, AwakeIsFinite, FS_RemoveElement
  <2> QED
    BY <1>1, <2>2, AwakeIsFinite
<1>2. CASE ppc[p] # "wake"
  <2>1. Awake' = Awake
    BY <1>2 DEF Awake, TypeOK
  <2> QED
    BY <1>2, <2>1, AwakeIsFinite
<1> QED
  BY <1>1, <1>2

LEMMA StepSpaceIsAnnounced ==
  ASSUME PoolInv, SpaceIsAnnounced, [Next]_vars
  PROVE  SpaceIsAnnounced'
<1> USE DEF queueVars, workerVars, producerVars, ownerVars
<1> DEFINE Promised == \/ dpc \in {"notifyTask", "notifySpace"}
                       \/ ~stop /\ MaxQueue - Len(tasks) <= Cardinality(Awake)
<1>0. /\ TypeOK
      /\ ppc \in [Producers -> {"idle", "enter", "waiting", "wake", "notify"}]
      /\ tasks \in Seq(Tasks) /\ Len(tasks) \in Nat /\ MaxQueue \in Nat
      /\ Cardinality(Awake) \in Nat
  BY AwakeIsFinite, LenProperties, PoolAssumption DEF PoolInv, TypeOK
<1>01. Waiting(ppc) = {p \in Producers : ppc[p] = "waiting"}
  BY <1>0 DEF Waiting
<1>02. SpaceIsAnnounced <=> (Waiting(ppc) # {} => Promised)
  BY DEF SpaceIsAnnounced, Awake
<1>03. SpaceIsAnnounced' <=> (Waiting(ppc)' # {} => Promised')
  BY DEF SpaceIsAnnounced, Awake
<1>1. CASE UNCHANGED <<ppc, tasks, dpc, stop>>
  BY <1>1 DEF SpaceIsAnnounced, Waiting
<1>2. ASSUME NEW w \in Workers, WorkerTake(w) PROVE SpaceIsAnnounced'
  <2>1. CASE Waiting(ppc) = {} /\ UNCHANGED ppc
    BY <2>1 DEF SpaceIsAnnounced, Waiting
  <2>2. ASSUME NEW p \in Waiting(ppc), ppc' = [ppc EXCEPT ![p] = "wake"]
        PROVE  SpaceIsAnnounced'
    <3>1. Cardinality(Awake') = Cardinality(Awake) + 1
      BY <1>0, <1>01, <2>2, AwakeAdd
    <3>2. Len(tasks') = Len(tasks) - 1
      BY <1>0, <1>2, HeadTailProperties DEF WorkerTake
    <3>3. Promised
      BY <1>02, <2>2
    <3>4. dpc' = dpc /\ stop' = stop
      BY <1>2 DEF WorkerTake
    <3>5. Promised'
      BY <1>0, <3>1, <3>2, <3>3, <3>4
    <3> QED
      BY <1>03, <3>5
  <2> QED
    BY <1>2, <2>1, <2>2 DEF WorkerTake, NotifyOneProducer
<1>3. ASSUME NEW w \in Workers,
             WorkerWait(w) \/ WorkerTimeout(w) \/ WorkerFinish(w) \/ WorkerExit(w)
      PROVE  SpaceIsAnnounced'
  BY <1>1, <1>3 DEF WorkerWait, WorkerTimeout, WorkerFinish, WorkerExit
<1>4. ASSUME NEW p \in Producers, EnqueueEmplace(p) PROVE SpaceIsAnnounced'
  <2>1. /\ Len(tasks') = Len(tasks) + 1 /\ ~stop /\ stop' = stop /\ dpc' = dpc
        /\ ppc' = [ppc EXCEPT ![p] = "notify"]
    <3>1. arg[p] \in Tasks
      BY <1>4 DEF EnqueueEmplace, HoldsLock, PoolInv, TypeOK, ControlInv, HasArg
    <3> QED
      BY <1>0, <1>4, <3>1, AppendProperties DEF EnqueueEmplace
  <2>2. Cardinality(Awake') >= Cardinality(Awake) - 1
    BY <1>0, <2>1, AwakeRemove
  <2>3. Cardinality(Awake') \in Nat
    BY <1>0, <2>1, AwakeRemove, FS_CardinalityType, FS_Subset, PoolAssumption DEF Awake
  <2>4. Waiting(ppc)' # {} => Waiting(ppc) # {}
    BY <1>0, <2>1 DEF Waiting
  <2>5. Waiting(ppc) # {} => Promised'
    BY <1>0, <1>02, <2>1, <2>2, <2>3
  <2> QED
    BY <1>03, <2>4, <2>5
<1>5. ASSUME NEW p \in Producers, EnqueueWait(p) PROVE SpaceIsAnnounced'
  <2>1. /\ ~stop /\ Len(tasks) >= MaxQueue
        /\ UNCHANGED <<stop, tasks>>
    BY <1>5 DEF EnqueueWait
  <2>2. Cardinality(Awake') \in Nat
    BY <1>0, FS_CardinalityType, FS_Subset, PoolAssumption DEF Awake
  <2>3. Promised'
    BY <1>0, <2>1, <2>2
  <2> QED
    BY <1>03, <2>3
<1>6. ASSUME NEW p \in Producers, EnqueueSpurious(p) PROVE SpaceIsAnnounced'
  <2>1. /\ ppc[p] = "waiting" /\ ppc' = [ppc EXCEPT ![p] = "wake"]
        /\ UNCHANGED <<stop, tasks, dpc>>
    BY <1>6 DEF EnqueueSpurious
  <2>2. Cardinality(Awake') = Cardinality(Awake) + 1
    BY <1>0, <2>1, AwakeAdd
  <2>3. Promised
    BY <1>0, <1>01, <1>02, <2>1
  <2>4. Promised'
    BY <1>0, <2>1, <2>2, <2>3
  <2> QED
    BY <1>03, <2>4
<1>7. ASSUME NEW p \in Producers, EnqueueNotify(p) \/ \E t \in Tasks : EnqueueCall(p, t)
      PROVE  SpaceIsAnnounced'
  <2>1. \E pc \in {"idle", "enter"} : /\ ppc' = [ppc EXCEPT ![p] = pc]
                                      /\ ppc[p] \in {"idle", "notify"}
    BY <1>7 DEF EnqueueNotify, EnqueueCall
  <2>2. Awake' = Awake /\ Waiting(ppc)' = Waiting(ppc) /\ UNCHANGED <<stop, tasks, dpc>>
    BY <1>0, <1>7, <2>1 DEF Awake, Waiting, EnqueueNotify, EnqueueCall
  <2> QED
    BY <1>02, <1>03, <2>2
<1>8. ASSUME NEW p \in Producers, EnqueueThrow(p) PROVE SpaceIsAnnounced'
  <2>1. /\ stop /\ UNCHANGED <<stop, dpc>> /\ ppc' = [ppc EXCEPT ![p] = "idle"]
    BY <1>8 DEF EnqueueThrow
  <2>2. Waiting(ppc)' # {} => Waiting(ppc) # {}
    BY <1>0, <2>1 DEF Waiting
  <2> QED
    BY <1>02, <1>03, <2>1, <2>2
<1>9. CASE DestroyStop \/ DestroyNotifyTask
  BY <1>9, <1>03 DEF DestroyStop, DestroyNotifyTask
<1>10. CASE DestroyNotifySpace
  <2>1. Waiting(ppc)' = {}
    BY <1>0, <1>10 DEF DestroyNotifySpace, Waiting
  <2> QED
    BY <1>03, <2>1
<1>11. CASE DestroyJoin
  <2>1. stop /\ dpc = "join" /\ ppc' = ppc
    BY <1>11 DEF DestroyJoin, PoolInv, ControlInv
  <2>2. Waiting(ppc) = {}
    BY <1>02, <2>1
  <2> QED
    BY <1>03, <2>1, <2>2 DEF Waiting
<1>12. CASE UNCHANGED vars \/ Destroyed
  BY <1>1, <1>12 DEF vars, Destroyed
<1> QED
  BY <1>2, <1>3, <1>4, <1>5, <1>6, <1>7, <1>8, <1>9, <1>10, <1>11, <1>12
     DEF Next, WorkerStep, EnqueueStep, DestroyStep

(* A caller sleeps in enqueue only while every free place is promised to   *)
(* a caller that is awake, so one notify_one per task taken suffices.      *)
THEOREM PoolSpaceIsAnnounced == Spec => []SpaceIsAnnounced
<1>1. Init => SpaceIsAnnounced
  BY DEF Init, SpaceIsAnnounced, Waiting
<1>2. PoolInv /\ SpaceIsAnnounced /\ [Next]_vars => SpaceIsAnnounced'
  BY StepSpaceIsAnnounced
<1> QED
  BY <1>1, <1>2, PoolInvariant, PTL DEF Spec
=============================================================================
