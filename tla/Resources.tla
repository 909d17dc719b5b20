----------------------------- MODULE Resources -----------------------------
(***************************************************************************)
(* The two custom resources of Beskar7, PhysicalHost and Beskar7Machine,   *)
(* as the API server stores them, and the client that every controller     *)
(* reads and writes them through.                                          *)
(*                                                                         *)
(* The controllers use the manager's client: reads come from an informer   *)
(* cache that may lag behind the API server, and an Update or a            *)
(* Status().Update carries the resourceVersion of the copy that was read,  *)
(* so the API server refuses it once the object has changed.  The          *)
(* resourceVersion is modelled by one bit next to every copy: "current"    *)
(* says that the object has not been written since the copy was taken.     *)
(*                                                                         *)
(* A member of Hosts or Machines stands for a namespace and a name in it.  *)
(* Machines of two namespaces may have the same name.                      *)
(***************************************************************************)
CONSTANTS Hosts,      \* PhysicalHosts, by namespace and name
          Machines,   \* Beskar7Machines, by namespace and name
          Namespace,  \* the namespace of each host and machine
          Name,       \* the name of each machine in its namespace
          Managers,   \* replicas of the controller manager that are active
          Requests,   \* slots for inspection reports being handled
          Reports,    \* inspection reports, told apart by what they contain
          None,       \* a nil pointer or an empty string
          MachineLag  \* the caches of Beskar7Machines may lag behind

ASSUME NoneAssumption ==
  /\ None \notin Hosts
  /\ None \notin Machines
  /\ None \notin Reports
  /\ None \notin Managers

ASSUME NamesAssumption ==
  \A m, k \in Machines : Namespace[m] = Namespace[k] /\ Name[m] = Name[k] => m = k

ASSUME MachineLagAssumption == MachineLag \in BOOLEAN

VARIABLES hosts,      \* PhysicalHosts in the API server
          machines,   \* Beskar7Machines in the API server
          cache,      \* each manager's informer cache of PhysicalHosts
          machineCache,   \* each manager's informer cache of Beskar7Machines
          view        \* the PhysicalHost copy that each thread works on

machineVars == <<machines, machineCache>>

-----------------------------------------------------------------------------
(* A name stands for an object that may or may not exist at the moment.    *)

HostStates == {"None", "Available", "InUse", "Inspecting", "Ready", "Error"}

InspectionPhases == {"None", "Booting", "Complete", "Timeout"}

HostConditions == {"RedfishConnectionReady", "HostAvailable", "HostInspected"}

(* What an inspection found; the models only tell reports apart.           *)
InspectionReport == Reports \cup {None}

HostObject ==
  [exists       : BOOLEAN,
   finalizer    : BOOLEAN,
   deleting     : BOOLEAN,                  \* has a deletionTimestamp
   consumerRef  : Machines \cup {None},
   state        : HostStates,
   ready        : BOOLEAN,
   errorMessage : BOOLEAN,                  \* is not empty
   phase        : InspectionPhases,
   report       : InspectionReport,
   timestamp    : BOOLEAN,                  \* inspectionTimestamp is set
   conditions   : SUBSET HostConditions]    \* the ones whose status is True

AbsentHost ==
  [exists |-> FALSE, finalizer |-> FALSE, deleting |-> FALSE,
   consumerRef |-> None, state |-> "None", ready |-> FALSE,
   errorMessage |-> FALSE, phase |-> "None", report |-> None,
   timestamp |-> FALSE, conditions |-> {}]

NewHost == [AbsentHost EXCEPT !.exists = TRUE]

MachinePhases == {"None", "Pending", "Inspecting", "Provisioned", "Failed"}

MachineObject ==
  [exists     : BOOLEAN,
   retired    : BOOLEAN,                    \* it existed and was removed
   owner      : BOOLEAN,                    \* the CAPI Machine is its owner
   paused     : BOOLEAN,                    \* it or its cluster is paused
   finalizer  : BOOLEAN,
   deleting   : BOOLEAN,
   providerID : Hosts \cup {None},
   associated : BOOLEAN,                    \* PhysicalHostAssociated is True
   infraReady : BOOLEAN,                    \* InfrastructureReady is True
   ready      : BOOLEAN,
   phase      : MachinePhases]

AbsentMachine ==
  [exists |-> FALSE, retired |-> FALSE, owner |-> FALSE, paused |-> FALSE,
   finalizer |-> FALSE, deleting |-> FALSE, providerID |-> None,
   associated |-> FALSE, infraReady |-> FALSE, ready |-> FALSE,
   phase |-> "None"]

RetiredMachine == [AbsentMachine EXCEPT !.retired = TRUE]

-----------------------------------------------------------------------------
(* The threads that hold a copy of a PhysicalHost: in each manager the one *)
(* worker of each controller, and the goroutine of each HTTP request.      *)

HostWorker(g) == <<"host", g>>
MachineWorker(g) == <<"machine", g>>
Handler(r) == <<"request", r>>

Threads == {HostWorker(g) : g \in Managers}
             \cup {MachineWorker(g) : g \in Managers}
             \cup {Handler(r) : r \in Requests}

View == [host : Hosts \cup {None}, object : HostObject, current : BOOLEAN]

NoView == [host |-> None, object |-> AbsentHost, current |-> FALSE]

CacheEntry == [object : HostObject, current : BOOLEAN]

(* What thread t knows of host h from a copy of it.  The worker of the      *)
(* machine reconciler looks at an outdated copy; the other threads only    *)
(* have their update of it refused, whatever is in it.                     *)
CopyOf(t, h, object, current) ==
  [host    |-> h,
   object  |-> IF current \/ t[1] = "machine" THEN object ELSE AbsentHost,
   current |-> current]

(* Get or List through manager g's cache.                                  *)
GetHost(t, g, h) ==
  view' = [view EXCEPT ![t] =
             CopyOf(t, h, cache[g][h].object, cache[g][h].current)]

DropView(t) == view' = [view EXCEPT ![t] = NoView]

(* The API server stores new as host h: every copy of h is outdated.       *)
StoreHost(h, new) ==
  /\ hosts' = [hosts EXCEPT ![h] = new]
  /\ cache' = [g \in Managers |-> [cache[g] EXCEPT ![h].current = FALSE]]

Outdated(h, t) ==
  IF view[t].host = h THEN CopyOf(t, h, view[t].object, FALSE) ELSE view[t]

(* Mutant: the machine reconciler's last write wins.                       *)
ConflictOfOthers(t) == t[1] # "machine" /\ ~view[t].current

(* The update of thread t's copy to new is refused.                        *)
Conflict(t) == ~view[t].current

(* Update or Status().Update of thread t's copy, changed to new.  A write  *)
(* that changes nothing leaves the resourceVersion alone; touch says that  *)
(* it changes fields the model leaves out.  No thread uses its copy after  *)
(* its update.                                                             *)
UpdateHost(t, new, touch) ==
  LET h == view[t].host IN
  \/ /\ Conflict(t)
     /\ DropView(t)
     /\ UNCHANGED <<hosts, cache>>
  \/ /\ ~Conflict(t)
     /\ new = hosts[h] /\ ~touch
     /\ DropView(t)
     /\ UNCHANGED <<hosts, cache>>
  \/ /\ ~Conflict(t)
     /\ new # hosts[h] \/ touch
     /\ StoreHost(h, new)
     /\ view' = [u \in Threads |-> IF u = t THEN NoView ELSE Outdated(h, u)]

(* A watch event brings manager g's cache up to date with host h.          *)
Sync(g, h) ==
  /\ ~cache[g][h].current
  /\ cache' = [cache EXCEPT ![g][h] = [object |-> hosts[h], current |-> TRUE]]
  /\ UNCHANGED <<hosts, machineVars, view>>

(* The API server stores new as machine m.                                 *)
StoreMachine(m, new) ==
  /\ machines' = [machines EXCEPT ![m] = new]
  /\ machineCache' = [g \in Managers |->
       IF MachineLag THEN machineCache[g] ELSE [machineCache[g] EXCEPT ![m] = new]]

SyncMachine(g, m) ==
  /\ machineCache[g][m] # machines[m]
  /\ machineCache' = [machineCache EXCEPT ![g][m] = machines[m]]
  /\ UNCHANGED <<hosts, machines, cache, view>>

(* Merge patch of machine m with the fields that differ between the copy   *)
(* that was read and the copy that the reconciler has changed.             *)
Merge(stored, old, new) == IF old = new THEN stored ELSE new

PatchedMachine(stored, old, new) ==
  [stored EXCEPT
     !.finalizer  = Merge(@, old.finalizer, new.finalizer),
     !.providerID = Merge(@, old.providerID, new.providerID),
     !.associated = Merge(@, old.associated, new.associated),
     !.infraReady = Merge(@, old.infraReady, new.infraReady),
     !.ready      = Merge(@, old.ready, new.ready),
     !.phase      = Merge(@, old.phase, new.phase)]

(* An object with a deletionTimestamp goes when its finalizer does.        *)
PatchMachine(m, old, new) ==
  LET patched == PatchedMachine(machines[m], old, new) IN
  StoreMachine(m, IF ~machines[m].exists THEN machines[m]
                  ELSE IF patched.deleting /\ ~patched.finalizer THEN RetiredMachine
                  ELSE patched)

-----------------------------------------------------------------------------
ResourcesInit ==
  /\ hosts = [h \in Hosts |-> NewHost]
  /\ machines = [m \in Machines |-> AbsentMachine]
  /\ cache = [g \in Managers |->
                [h \in Hosts |-> [object |-> NewHost, current |-> TRUE]]]
  /\ machineCache = [g \in Managers |-> machines]
  /\ view = [t \in Threads |-> NoView]

ResourcesTypeOK ==
  /\ hosts \in [Hosts -> HostObject]
  /\ machines \in [Machines -> MachineObject]
  /\ cache \in [Managers -> [Hosts -> CacheEntry]]
  /\ machineCache \in [Managers -> [Machines -> MachineObject]]
  /\ view \in [Threads -> View]
=============================================================================
