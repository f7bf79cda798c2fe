----------------------- MODULE InstanceManagerProofs -----------------------
(***************************************************************************)
(* Proofs about InstanceManager for every number of handlers and servers.  *)
(*                                                                         *)
(* The invariant says what the mutex is good for, although the vector is   *)
(* used without it: a load is alone (MutexInv), it meets each directory    *)
(* once (LoadInv), and unless a load found nothing, whoever is past the    *)
(* check is there when no load can begin any more (FilledInv).             *)
(***************************************************************************)
EXTENDS InstanceManager, TLAPS

Held == {instances[i] : i \in DOMAIN instances}

MutexInv == \A h \in Handlers : at[h] \in {"check", "load"} <=> mutex = h

LoadInv == \A h \in Handlers : at[h] = "load" => entries[h] \cap Held = {}

FilledInv ==
  ~emptyLoad => \A h \in Handlers :
                  at[h] \in {"find", "scan", "use"} =>
                    instances # <<>> /\ \A g \in Handlers : at[g] # "load"

DueInv ==
  ~threw => \A n \in due : n \in Held \/ \E h \in Handlers : at[h] = "load" /\ n \in entries[h]

ManagerInv ==
  TypeOK /\ MutexInv /\ LoadInv /\ FilledInv /\ DueInv /\ OneInstanceEach /\ NoStaleElement

-----------------------------------------------------------------------------
(* What an element at the end of a sequence without repetition changes.    *)
LEMMA AppendLemma ==
  ASSUME NEW S, NEW s \in Seq(S), NEW e \in S
  PROVE  /\ Append(s, e) \in Seq(S) /\ Append(s, e) # <<>>
         /\ Len(Append(s, e)) = Len(s) + 1
         /\ DOMAIN Append(s, e) = 1..(Len(s) + 1) /\ DOMAIN s = 1..Len(s)
         /\ Append(s, e)[Len(s) + 1] = e
         /\ \A i \in DOMAIN s : Append(s, e)[i] = s[i]
  OBVIOUS

LEMMA InitInv == Init => ManagerInv
<1> SUFFICES ASSUME Init PROVE ManagerInv
  OBVIOUS
<1>1. TypeOK
  <2>1. <<>> \in Seq(Names) /\ Len(<<>>) = 0
    OBVIOUS
  <2>2. /\ at \in [Handlers -> {"idle", "lock", "check", "load", "find", "scan", "use"}]
        /\ name \in [Handlers -> Names \cup {None}]
        /\ entries \in [Handlers -> SUBSET Names]
        /\ view \in [Handlers -> Nat \cup {None}]
    BY DEF Init
  <2>3. instances \in Seq(Names) /\ Len(instances) <= capacity /\ capacity \in Nat /\ buffer \in Nat
    BY <2>1 DEF Init
  <2> QED
    BY <2>2, <2>3 DEF Init, TypeOK
<1>2. MutexInv
  BY ManagerAssumption DEF Init, MutexInv
<1>3. LoadInv /\ FilledInv /\ DueInv /\ NoStaleElement
  BY DEF Init, LoadInv, FilledInv, DueInv, NoStaleElement
<1>4. OneInstanceEach
  BY DEF Init, OneInstanceEach
<1> QED
  BY <1>1, <1>2, <1>3, <1>4 DEF ManagerInv

(* The folder, and sessions: nothing the invariant reads. *)
LEMMA FolderInv ==
  ASSUME ManagerInv, NEW n \in Names, AddsServer(n) \/ LeavesShell(n)
  PROVE  ManagerInv'
<1>1. UNCHANGED <<mutex, vectorVars, handlerVars, history>>
  BY DEF AddsServer, LeavesShell
<1>2. TypeOK'
  BY <1>1 DEF ManagerInv, TypeOK, AddsServer, LeavesShell, vectorVars, handlerVars, history
<1>3. (MutexInv /\ LoadInv /\ FilledInv /\ DueInv /\ OneInstanceEach /\ NoStaleElement)'
  BY <1>1 DEF ManagerInv, MutexInv, LoadInv, FilledInv, DueInv, OneInstanceEach, NoStaleElement,
              Held, vectorVars, handlerVars, history
<1> QED
  BY <1>2, <1>3 DEF ManagerInv

LEMMA RequestInv ==
  ASSUME ManagerInv, NEW h \in Handlers, NEW n \in Names, Request(h, n)
  PROVE  ManagerInv'
<1> USE DEF ManagerInv, Request, Goto
<1>1. TypeOK'
  BY DEF TypeOK, folderVars, vectorVars, history
<1>2. (MutexInv /\ LoadInv /\ FilledInv /\ DueInv /\ OneInstanceEach /\ NoStaleElement)'
  BY DEF TypeOK, MutexInv, LoadInv, FilledInv, DueInv, OneInstanceEach, NoStaleElement, Held,
         folderVars, vectorVars, history
<1> QED
  BY <1>1, <1>2

LEMMA LockInv ==
  ASSUME ManagerInv, NEW h \in Handlers, Lock(h)
  PROVE  ManagerInv'
<1> USE DEF ManagerInv, Lock, Goto
<1>1. TypeOK'
  BY DEF TypeOK, folderVars, vectorVars, history
<1>2. MutexInv'
  BY ManagerAssumption DEF TypeOK, MutexInv
<1>3. (LoadInv /\ FilledInv /\ DueInv /\ OneInstanceEach /\ NoStaleElement)'
  BY DEF TypeOK, LoadInv, FilledInv, DueInv, OneInstanceEach, NoStaleElement, Held,
         folderVars, vectorVars, history
<1> QED
  BY <1>1, <1>2, <1>3

LEMMA CheckInv ==
  ASSUME ManagerInv, NEW h \in Handlers, Check(h)
  PROVE  ManagerInv'
<1> USE DEF ManagerInv, Check, Goto
<1>1. TypeOK'
  BY DEF TypeOK, folderVars, vectorVars
<1>2. MutexInv'
  BY ManagerAssumption DEF TypeOK, MutexInv
<1>3. LoadInv' /\ Held' = Held
  BY DEF TypeOK, LoadInv, Held, vectorVars
<1>4. FilledInv'
  BY DEF TypeOK, FilledInv, MutexInv, vectorVars
<1>5. DueInv'
  BY DEF TypeOK, DueInv, Held, vectorVars
<1>6. (OneInstanceEach /\ NoStaleElement)'
  BY DEF TypeOK, OneInstanceEach, NoStaleElement, vectorVars
<1> QED
  BY <1>1, <1>2, <1>3, <1>4, <1>5, <1>6

(* The one step that makes an element: nobody else loads, nobody uses the  *)
(* buffer unless a load found nothing, and the directory was not met yet.  *)
LEMMA PushInv ==
  ASSUME ManagerInv, NEW h \in Handlers, LoadEntry(h), NEW n \in entries[h], n \notin jammed,
         PushBack(n), entries' = [entries EXCEPT ![h] = @ \ {n}],
         UNCHANGED <<mutex, threw, at, name>>
  PROVE  ManagerInv'
<1> USE DEF ManagerInv
<1>1. at[h] = "load" /\ UNCHANGED <<folderVars, view, due, emptyLoad>>
  BY DEF LoadEntry
<1>2. n \in Names /\ n \notin Held /\ instances \in Seq(Names)
  BY <1>1 DEF TypeOK, LoadInv
<1>3. instances' = Append(instances, n)
  BY DEF PushBack
<1>4. /\ instances' \in Seq(Names) /\ instances' # <<>> /\ Len(instances') = Len(instances) + 1
      /\ DOMAIN instances' = 1..(Len(instances) + 1) /\ DOMAIN instances = 1..Len(instances)
      /\ instances'[Len(instances) + 1] = n
      /\ \A i \in DOMAIN instances : instances'[i] = instances[i]
  BY <1>2, <1>3, AppendLemma
<1>5. Len(instances) \in Nat
  BY <1>2
<1>6. Held' = Held \cup {n}
  BY <1>4, <1>5 DEF Held
<1>7. TypeOK'
  <2>1. capacity' \in Nat /\ buffer' \in Nat /\ Len(instances') <= capacity'
    BY <1>4, <1>5 DEF PushBack, TypeOK
  <2>2. entries' \in [Handlers -> SUBSET Names]
    BY DEF TypeOK
  <2> QED
    BY <1>1, <1>4, <2>1, <2>2 DEF TypeOK, folderVars
<1>8. \A g \in Handlers : at[g] = "load" => g = h
  BY <1>1 DEF MutexInv
<1>9. (MutexInv /\ LoadInv /\ DueInv)'
  <2>1. MutexInv'
    BY DEF MutexInv
  <2>2. LoadInv'
    BY <1>1, <1>6, <1>8 DEF LoadInv, TypeOK
  <2>3. DueInv'
    BY <1>1, <1>6, <1>8 DEF DueInv, TypeOK
  <2> QED
    BY <2>1, <2>2, <2>3
<1>10. (FilledInv /\ NoStaleElement)'
  BY <1>1, <1>4 DEF FilledInv, NoStaleElement
<1>11. OneInstanceEach'
  BY <1>2, <1>4, <1>5 DEF OneInstanceEach, Held
<1> QED
  BY <1>7, <1>9, <1>10, <1>11

LEMMA LoadEntryInv ==
  ASSUME ManagerInv, NEW h \in Handlers, LoadEntry(h)
  PROVE  ManagerInv'
<1> USE DEF ManagerInv
<1>1. PICK n \in entries[h] :
        IF n \in jammed
        THEN /\ mutex' = None /\ threw' = TRUE
             /\ Goto(h, "idle")
             /\ name' = [name EXCEPT ![h] = None]
             /\ entries' = [entries EXCEPT ![h] = {}]
             /\ UNCHANGED vectorVars
        ELSE /\ PushBack(n)
             /\ entries' = [entries EXCEPT ![h] = @ \ {n}]
             /\ UNCHANGED <<mutex, threw, at, name>>
  BY DEF LoadEntry
<1>2. CASE n \notin jammed
  BY <1>1, <1>2, PushInv
<1>3. CASE n \in jammed
  <2>1. /\ mutex' = None /\ threw' = TRUE /\ at' = [at EXCEPT ![h] = "idle"]
        /\ name' = [name EXCEPT ![h] = None] /\ entries' = [entries EXCEPT ![h] = {}]
        /\ UNCHANGED <<vectorVars, folderVars, view, due, emptyLoad>> /\ at[h] = "load"
    BY <1>1, <1>3 DEF LoadEntry, Goto
  <2>2. TypeOK'
    BY <2>1 DEF TypeOK, vectorVars, folderVars
  <2>3. MutexInv'
    BY <2>1, ManagerAssumption DEF TypeOK, MutexInv
  <2>4. (LoadInv /\ DueInv)'
    BY <2>1 DEF TypeOK, LoadInv, DueInv, Held, vectorVars
  <2>5. (FilledInv /\ OneInstanceEach /\ NoStaleElement)'
    BY <2>1 DEF TypeOK, FilledInv, OneInstanceEach, NoStaleElement, vectorVars
  <2> QED
    BY <2>2, <2>3, <2>4, <2>5
<1> QED
  BY <1>2, <1>3

LEMMA LoadEndsInv ==
  ASSUME ManagerInv, NEW h \in Handlers, LoadEnds(h)
  PROVE  ManagerInv'
<1> USE DEF ManagerInv, LoadEnds, Goto
<1>1. TypeOK'
  BY DEF TypeOK, folderVars, vectorVars
<1>2. MutexInv'
  BY ManagerAssumption DEF TypeOK, MutexInv
<1>3. LoadInv' /\ Held' = Held
  BY DEF TypeOK, LoadInv, Held, vectorVars
<1>4. FilledInv'
  BY DEF TypeOK, FilledInv, MutexInv, vectorVars
<1>5. DueInv'
  BY DEF TypeOK, DueInv, Held, vectorVars
<1>6. (OneInstanceEach /\ NoStaleElement)'
  BY DEF TypeOK, OneInstanceEach, NoStaleElement, vectorVars
<1> QED
  BY <1>1, <1>2, <1>3, <1>4, <1>5, <1>6

(* Past the check: no vector, no mutex. *)
LEMMA UseInv ==
  ASSUME ManagerInv, NEW h \in Handlers, Find(h) \/ Found(h) \/ NotFound(h) \/ Use(h)
  PROVE  ManagerInv'
<1> USE DEF ManagerInv, Goto
<1>1. /\ UNCHANGED <<folderVars, mutex, vectorVars, entries, history>>
      /\ \E label \in {"scan", "use", "idle"} :
           /\ at' = [at EXCEPT ![h] = label]
           /\ at[h] \in {"find", "scan", "use"}
           /\ label = "scan" => view' = [view EXCEPT ![h] = buffer]
           /\ label = "use" => view' = view /\ at[h] = "scan"
           /\ label = "idle" => view' = [view EXCEPT ![h] = None]
      /\ name' \in [Handlers -> Names \cup {None}]
  BY DEF Find, Found, NotFound, Use, Over, TypeOK
<1>2. PICK label \in {"scan", "use", "idle"} :
           /\ at' = [at EXCEPT ![h] = label]
           /\ at[h] \in {"find", "scan", "use"}
           /\ label = "scan" => view' = [view EXCEPT ![h] = buffer]
           /\ label = "use" => view' = view /\ at[h] = "scan"
           /\ label = "idle" => view' = [view EXCEPT ![h] = None]
  BY <1>1
<1>3. TypeOK'
  BY <1>1, <1>2 DEF TypeOK, folderVars, vectorVars, history
<1>4. MutexInv'
  BY <1>1, <1>2 DEF TypeOK, MutexInv
<1>5. (LoadInv /\ DueInv /\ OneInstanceEach)'
  BY <1>1, <1>2 DEF TypeOK, LoadInv, DueInv, OneInstanceEach, Held, vectorVars, history
<1>6. (FilledInv /\ NoStaleElement)'
  BY <1>1, <1>2 DEF TypeOK, FilledInv, NoStaleElement, vectorVars, history
<1> QED
  BY <1>3, <1>4, <1>5, <1>6

LEMMA NextInv == ManagerInv /\ [Next]_vars => ManagerInv'
<1> SUFFICES ASSUME ManagerInv, [Next]_vars PROVE ManagerInv'
  OBVIOUS
<1>1. CASE UNCHANGED vars
  BY <1>1 DEF ManagerInv, TypeOK, MutexInv, LoadInv, FilledInv, DueInv, OneInstanceEach,
              NoStaleElement, Held, vars, folderVars, vectorVars, handlerVars, history
<1>2. ASSUME NEW n \in Names, AddsServer(n) \/ LeavesShell(n) PROVE ManagerInv'
  BY <1>2, FolderInv
<1>3. ASSUME NEW h \in Handlers, HandlerStep(h) PROVE ManagerInv'
  BY <1>3, LockInv, CheckInv, LoadEntryInv, LoadEndsInv, UseInv DEF HandlerStep
<1>4. ASSUME NEW h \in Handlers, NEW n \in Names, Request(h, n) PROVE ManagerInv'
  BY <1>4, RequestInv
<1> QED
  BY <1>1, <1>2, <1>3, <1>4 DEF Next

-----------------------------------------------------------------------------
(* The inductive invariant of the instance manager.                        *)
THEOREM ManagerInvariant == Spec => []ManagerInv
  BY InitInv, NextInv, PTL DEF Spec

(* Type correctness.                                                       *)
THEOREM ManagerTypeOK == Spec => []TypeOK
  BY ManagerInvariant, PTL DEF ManagerInv

(* However many first requests come at once, no server is in the vector    *)
(* twice.                                                                  *)
THEOREM ManagerOneInstanceEach == Spec => []OneInstanceEach
  BY ManagerInvariant, PTL DEF ManagerInv

(* No handler reads a buffer that was freed, unless a load found nothing.  *)
THEOREM ManagerNoStaleElement == Spec => []NoStaleElement
  BY ManagerInvariant, PTL DEF ManagerInv

(* Nor does a handler miss a server that was there when the vector was     *)
(* filled, unless a constructor threw or a load found nothing.             *)
THEOREM ManagerServersAreFound == Spec => ServersAreFound
<1> DEFINE Sought == \A h \in Handlers : at[h] = "scan" /\ at'[h] = "idle" /\ ~threw /\ ~emptyLoad
                       => name[h] \notin due
<1>1. ManagerInv /\ [Next]_vars => [Sought]_vars
  <2> SUFFICES ASSUME ManagerInv, Next, NEW h \in Handlers,
                      at[h] = "scan", at'[h] = "idle", ~threw, ~emptyLoad
               PROVE  name[h] \notin due
    BY DEF vars
  <2>1. NotFound(h)
    <3>1. at \in [Handlers -> {"idle", "lock", "check", "load", "find", "scan", "use"}]
      BY DEF ManagerInv, TypeOK
    <3>2. ASSUME NEW n \in Names, AddsServer(n) \/ LeavesShell(n) PROVE FALSE
      BY <3>2 DEF AddsServer, LeavesShell, handlerVars
    <3>3. ASSUME NEW g \in Handlers, NEW n \in Names, Request(g, n) PROVE FALSE
      BY <3>1, <3>3 DEF Request, Goto
    <3>4. ASSUME NEW g \in Handlers, Lock(g) \/ Check(g) \/ LoadEnds(g) \/ Find(g) \/ Found(g)
          PROVE  FALSE
      BY <3>1, <3>4 DEF Lock, Check, LoadEnds, Find, Found, Goto
    <3>5. ASSUME NEW g \in Handlers, LoadEntry(g) PROVE FALSE
      BY <3>1, <3>5 DEF LoadEntry, Goto
    <3>6. ASSUME NEW g \in Handlers, NotFound(g) \/ Use(g) PROVE NotFound(h)
      BY <3>1, <3>6 DEF NotFound, Use, Over, Goto
    <3> QED
      BY <3>2, <3>3, <3>4, <3>5, <3>6 DEF Next, HandlerStep
  <2>2. name[h] \notin Held
    BY <2>1 DEF NotFound, Contains, Held, ManagerInv, TypeOK
  <2>3. due \subseteq Held
    BY DEF ManagerInv, FilledInv, DueInv
  <2> QED
    BY <2>2, <2>3
<1> QED
  BY ManagerInvariant, <1>1, PTL DEF Spec, ServersAreFound
=============================================================================
