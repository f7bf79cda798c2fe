--------------------------- MODULE InstanceManager ---------------------------
(***************************************************************************)
(* The vector of server instances: load_instances_if_needed fills it under *)
(* instance_mutex the first time it is found empty, and every handler then *)
(* searches and uses it without the mutex (InstanceManager.hpp and         *)
(* servers_utils.hpp).                                                     *)
(*                                                                         *)
(* A std::vector that grows past its capacity moves its elements to a new  *)
(* buffer and frees the old one: what a handler reads, or the pointer it   *)
(* got, is good for the buffer it saw.  Buffers are numbered.              *)
(***************************************************************************)
EXTENDS Naturals, Sequences, SequencesExt

CONSTANTS Handlers,   (* pool threads                                       *)
          Names,      (* directories that may be in the servers' path       *)
          None

ASSUME ManagerAssumption == None \notin Handlers \cup Names

VARIABLES
  folder,    (* the directories with a run.sh or a server.jar               *)
  jammed,    (* those whose session is a shell with no child process: the   *)
             (* constructor, which polls it, throws (get_cpu_usage)         *)
  mutex,     (* the holder of instance_mutex                                *)
  instances, (* names of the elements of the vector                         *)
  capacity, buffer,   (* of the vector                                      *)
  at,        (* where each handler is                                       *)
  name,      (* the instance it is asked for                                *)
  entries,   (* what its directory_iterator has left                        *)
  view,      (* the buffer its iteration, or its pointer, is into           *)
  due,       (* history: what the folder held at the load that filled       *)
  emptyLoad, (* history: a load ended with nothing in the vector            *)
  threw      (* history: a constructor threw                                *)

folderVars == <<folder, jammed>>
vectorVars == <<instances, capacity, buffer>>
handlerVars == <<at, name, entries, view>>
history == <<due, emptyLoad, threw>>
vars == <<folderVars, mutex, vectorVars, handlerVars, history>>

TypeOK ==
  /\ folder \subseteq Names /\ jammed \subseteq Names
  /\ mutex \in Handlers \cup {None}
  /\ instances \in Seq(Names) /\ Len(instances) <= capacity
  /\ capacity \in Nat /\ buffer \in Nat
  /\ at \in [Handlers -> {"idle", "lock", "check", "load", "find", "scan", "use"}]
  /\ name \in [Handlers -> Names \cup {None}]
  /\ entries \in [Handlers -> SUBSET Names]
  /\ view \in [Handlers -> Nat \cup {None}]
  /\ due \subseteq Names /\ emptyLoad \in BOOLEAN /\ threw \in BOOLEAN

Init ==
  /\ folder \in SUBSET Names /\ jammed \in SUBSET Names
  /\ mutex = None
  /\ instances = <<>> /\ capacity = 0 /\ buffer = 0
  /\ at = [h \in Handlers |-> "idle"]
  /\ name = [h \in Handlers |-> None]
  /\ entries = [h \in Handlers |-> {}]
  /\ view = [h \in Handlers |-> None]
  /\ due = {} /\ emptyLoad = FALSE /\ threw = FALSE

-----------------------------------------------------------------------------
(* A person copies a server into the folder, or opens and leaves its session. *)

AddsServer(n) ==
  /\ n \notin folder /\ folder' = folder \cup {n}
  /\ UNCHANGED <<jammed, mutex, vectorVars, handlerVars, history>>

LeavesShell(n) ==
  /\ jammed' = IF n \in jammed THEN jammed \ {n} ELSE jammed \cup {n}
  /\ UNCHANGED <<folder, mutex, vectorVars, handlerVars, history>>

-----------------------------------------------------------------------------
(* load_instances_if_needed.                                               *)

Goto(h, label) == at' = [at EXCEPT ![h] = label]

Request(h, n) ==
  /\ at[h] = "idle" /\ Goto(h, "lock")
  /\ name' = [name EXCEPT ![h] = n]
  /\ UNCHANGED <<folderVars, mutex, vectorVars, entries, view, history>>

(* Mutant: the mutex is not taken. *)
LockNothing(h) ==
  /\ at[h] = "lock" /\ Goto(h, "check")
  /\ UNCHANGED <<folderVars, mutex, vectorVars, name, entries, view, history>>

Lock(h) ==
  /\ at[h] = "lock" /\ mutex = None
  /\ mutex' = h /\ Goto(h, "check")
  /\ UNCHANGED <<folderVars, vectorVars, name, entries, view, history>>

(* Mutant: every request loads again, as a refresh would. *)
CheckReload(h) ==
  /\ at[h] = "check"
  /\ instances' = <<>> /\ Goto(h, "load")
  /\ entries' = [entries EXCEPT ![h] = folder]
  /\ due' = folder
  /\ UNCHANGED <<folderVars, mutex, capacity, buffer, name, view, emptyLoad, threw>>

(* Only an empty vector is loaded (clear() of it does nothing).            *)
Check(h) ==
  /\ at[h] = "check"
  /\ IF instances = <<>>
     THEN /\ Goto(h, "load")
          /\ entries' = [entries EXCEPT ![h] = folder]
          /\ due' = folder
          /\ UNCHANGED mutex
     ELSE /\ Goto(h, "find") /\ mutex' = None
          /\ UNCHANGED <<entries, due>>
  /\ UNCHANGED <<folderVars, vectorVars, name, view, emptyLoad, threw>>

(* Mutant: the element is built where the buffer ends, which is not grown. *)
PushBackNoGrow(n) ==
  /\ instances' = Append(instances, n)
  /\ UNCHANGED <<capacity, buffer>>

(* push_back(std::move(instance)).                                         *)
PushBack(n) ==
  /\ instances' = Append(instances, n)
  /\ IF Len(instances) < capacity
     THEN UNCHANGED <<capacity, buffer>>
     ELSE /\ capacity' = IF capacity = 0 THEN 1 ELSE 2 * capacity
          /\ buffer' = buffer + 1

(* Mutant: an element that throws is skipped, the loop goes on. *)
LoadEntrySkip(h) ==
  /\ at[h] = "load"
  /\ \E n \in entries[h] :
       /\ entries' = [entries EXCEPT ![h] = @ \ {n}]
       /\ IF n \in jammed THEN UNCHANGED vectorVars ELSE PushBack(n)
  /\ UNCHANGED <<folderVars, mutex, at, name, view, history>>

(* The constructor of an entry, and push_back.  If it throws the mutex is  *)
(* released and the request fails; what was loaded stays.                  *)
LoadEntry(h) ==
  /\ at[h] = "load"
  /\ \E n \in entries[h] :
       IF n \in jammed
       THEN /\ mutex' = None /\ threw' = TRUE
            /\ Goto(h, "idle")
            /\ name' = [name EXCEPT ![h] = None]
            /\ entries' = [entries EXCEPT ![h] = {}]
            /\ UNCHANGED vectorVars
       ELSE /\ PushBack(n)
            /\ entries' = [entries EXCEPT ![h] = @ \ {n}]
            /\ UNCHANGED <<mutex, threw, at, name>>
  /\ UNCHANGED <<folderVars, view, due, emptyLoad>>

LoadEnds(h) ==
  /\ at[h] = "load" /\ entries[h] = {}
  /\ mutex' = None /\ Goto(h, "find")
  /\ emptyLoad' = (emptyLoad \/ instances = <<>>)
  /\ UNCHANGED <<folderVars, vectorVars, name, entries, view, due, threw>>

-----------------------------------------------------------------------------
(* get_instance_by_name, or the loops of get_general_status and            *)
(* short_list_instances: no mutex.                                         *)

Find(h) ==
  /\ at[h] = "find" /\ Goto(h, "scan")
  /\ view' = [view EXCEPT ![h] = buffer]
  /\ UNCHANGED <<folderVars, mutex, vectorVars, name, entries, history>>

Over(h) ==
  /\ Goto(h, "idle")
  /\ name' = [name EXCEPT ![h] = None]
  /\ view' = [view EXCEPT ![h] = None]
  /\ UNCHANGED <<folderVars, mutex, vectorVars, entries, history>>

Found(h) ==
  /\ at[h] = "scan" /\ Contains(instances, name[h]) /\ Goto(h, "use")
  /\ UNCHANGED <<folderVars, mutex, vectorVars, name, entries, view, history>>

NotFound(h) == at[h] = "scan" /\ ~Contains(instances, name[h]) /\ Over(h)

(* The handler, and the threads it detached, are done with the pointer.    *)
Use(h) == at[h] = "use" /\ Over(h)

-----------------------------------------------------------------------------
HandlerStep(h) ==
  \/ Lock(h) \/ Check(h) \/ LoadEntry(h) \/ LoadEnds(h)
  \/ Find(h) \/ Found(h) \/ NotFound(h) \/ Use(h)

Next ==
  \/ \E n \in Names : AddsServer(n) \/ LeavesShell(n)
  \/ \E h \in Handlers : HandlerStep(h) \/ \E n \in Names : Request(h, n)

Spec == Init /\ [][Next]_vars

-----------------------------------------------------------------------------
(* However many first requests come at once, and whatever threw before, no *)
(* server is in the vector twice: two elements would be two sets of flags  *)
(* for one tmux session.                                                   *)
OneInstanceEach == \A i, j \in DOMAIN instances : instances[i] = instances[j] => i = j

(* No handler reads a buffer that was freed, though it holds no mutex: the *)
(* vector grows only while nobody can have passed the check, also when a   *)
(* constructor throws in the middle.  The exception is a folder with no    *)
(* server: the vector stays empty, handlers pass, and a later load moves   *)
(* the elements under them.                                                *)
NoStaleElement ==
  ~emptyLoad => \A h \in Handlers : at[h] \in {"scan", "use"} => view[h] = buffer

(* A server that was in the folder when the vector was filled is found by  *)
(* every request, those included that came while it was being filled.  The *)
(* exception is a constructor that threw: the servers after it are missing *)
(* for ever, because the vector is no longer empty.                        *)
ServersAreFound ==
  [][\A h \in Handlers : at[h] = "scan" /\ at'[h] = "idle" /\ ~threw /\ ~emptyLoad
       => name[h] \notin due]_vars
=============================================================================
