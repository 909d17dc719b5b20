--------------------------- MODULE Beskar7Proofs ---------------------------
(***************************************************************************)
(* Proofs about Beskar7, for any number of hosts, machines, managers and   *)
(* requests and for every choice of operations.                            *)
(***************************************************************************)
EXTENDS Beskar7Properties, TLAPS

-----------------------------------------------------------------------------
(* Type correctness.                                                       *)

(* The part of the type invariant that host writes are about.              *)
HostSideOK ==
  /\ hosts \in [Hosts -> HostObject]
  /\ cache \in [Managers -> [Hosts -> CacheEntry]]
  /\ view \in [Threads -> View]

(* The initial objects are of their types.                                 *)
LEMMA Constructed ==
  /\ AbsentHost \in HostObject
  /\ NewHost \in HostObject
  /\ NoView \in View
  /\ AbsentMachine \in MachineObject
  /\ RetiredMachine \in MachineObject
  /\ Idle \in Worker
  /\ NoRequest \in Request
<1>1. AbsentHost \in HostObject
  BY DEF AbsentHost, InspectionReport, HostObject, HostStates, InspectionPhases, HostConditions
<1>2. NewHost \in HostObject
  BY <1>1 DEF NewHost, HostObject
<1>3. NoView \in View
  BY <1>1 DEF NoView, View
<1>4. AbsentMachine \in MachineObject
  BY DEF AbsentMachine, MachineObject, MachinePhases
<1>5. RetiredMachine \in MachineObject
  BY <1>4 DEF RetiredMachine, MachineObject
<1>6. Idle \in Worker
  BY <1>4 DEF Idle, Worker, Steps
<1>7. NoRequest \in Request
  BY DEF NoRequest, Request
<1> QED
  BY <1>1, <1>2, <1>3, <1>4, <1>5, <1>6, <1>7

(* Every worker and every request has a thread.                            *)
LEMMA WorkerThreads ==
  /\ \A g \in Managers : HostWorker(g) \in Threads /\ MachineWorker(g) \in Threads
  /\ \A r \in Requests : Handler(r) \in Threads
BY DEF Threads

(* A copy of a host is a view.                                             *)
LEMMA CopyType ==
  ASSUME NEW t, NEW h \in Hosts \cup {None}, NEW object \in HostObject,
         NEW current \in BOOLEAN
  PROVE  CopyOf(t, h, object, current) \in View
BY Constructed DEF CopyOf, View

(* Marking a copy outdated leaves a view a view.                           *)
LEMMA OutdatedType ==
  ASSUME HostSideOK, NEW h, NEW t \in Threads
  PROVE  Outdated(h, t) \in View
<1>1. view[t] \in View
  BY DEF HostSideOK
<1>2. /\ view[t].host \in Hosts \cup {None}
      /\ view[t].object \in HostObject
  BY <1>1 DEF View
<1>3. CASE view[t].host = h
  BY <1>2, <1>3, CopyType DEF Outdated
<1>4. CASE view[t].host # h
  BY <1>1, <1>4 DEF Outdated
<1> QED
  BY <1>3, <1>4

(* StoreHost keeps the API server and the caches well typed.               *)
LEMMA StoreHostType ==
  ASSUME HostSideOK, NEW h, NEW new \in HostObject, StoreHost(h, new)
  PROVE  /\ hosts' \in [Hosts -> HostObject]
         /\ cache' \in [Managers -> [Hosts -> CacheEntry]]
<1>1. hosts' \in [Hosts -> HostObject]
  BY DEF HostSideOK, StoreHost
<1>2. ASSUME NEW g \in Managers
      PROVE  [cache[g] EXCEPT ![h].current = FALSE] \in [Hosts -> CacheEntry]
  <2>1. cache[g] \in [Hosts -> CacheEntry]
    BY DEF HostSideOK
  <2>2. \A entry \in CacheEntry : [entry EXCEPT !.current = FALSE] \in CacheEntry
    BY DEF CacheEntry
  <2> QED
    BY <2>1, <2>2
<1> QED
  BY <1>1, <1>2 DEF StoreHost

(* A read through the cache gives a well-typed copy.                       *)
LEMMA GetHostType ==
  ASSUME HostSideOK, NEW t \in Threads, NEW g \in Managers, NEW h \in Hosts,
         GetHost(t, g, h), UNCHANGED <<hosts, cache>>
  PROVE  HostSideOK'
<1>1. cache[g][h] \in CacheEntry
  BY DEF HostSideOK
<1>2. CopyOf(t, h, cache[g][h].object, cache[g][h].current) \in View
  BY <1>1, CopyType DEF CacheEntry
<1> QED
  BY <1>2 DEF HostSideOK, GetHost

(* Letting go of a copy.                                                   *)
LEMMA DropViewType ==
  ASSUME HostSideOK, NEW t \in Threads, DropView(t), UNCHANGED <<hosts, cache>>
  PROVE  HostSideOK'
BY Constructed DEF HostSideOK, DropView

(* Update and Status().Update, refused, without effect or stored.          *)
LEMMA UpdateHostType ==
  ASSUME HostSideOK, NEW t \in Threads, NEW new, NEW touch,
         UpdateHost(t, new, touch), ~Conflict(t) => new \in HostObject
  PROVE  HostSideOK'
<1>1. CASE DropView(t) /\ UNCHANGED <<hosts, cache>>
  BY <1>1, DropViewType
<1>2. CASE /\ ~Conflict(t)
           /\ StoreHost(view[t].host, new)
           /\ view' = [u \in Threads |-> IF u = t THEN NoView
                                         ELSE Outdated(view[t].host, u)]
  <2>1. view' \in [Threads -> View]
    BY <1>2, OutdatedType, Constructed
  <2> QED
    BY <1>2, <2>1, StoreHostType DEF HostSideOK
<1> QED
  BY <1>1, <1>2 DEF UpdateHost

(* The reconcilers and the handler turn a host into a host.                *)
LEMMA HostEdits ==
  ASSUME NEW object \in HostObject
  PROVE  /\ [object EXCEPT !.finalizer = TRUE] \in HostObject
         /\ [object EXCEPT !.deleting = TRUE] \in HostObject
         /\ ConnectionFailed(object) \in HostObject
         /\ StateByConsumer(Connected(object)) \in HostObject
         /\ \A report \in Reports \cup {None} :
              WithReport(object, report) \in HostObject
         /\ \A m \in Machines \cup {None} :
              [object EXCEPT !.consumerRef = m] \in HostObject
         /\ [object EXCEPT !.phase = "Timeout", !.state = "Error",
                           !.errorMessage = TRUE] \in HostObject
         /\ [object EXCEPT !.state = "Ready",
                           !.conditions = @ \cup {"HostInspected"}] \in HostObject
         /\ [object EXCEPT !.state = "Inspecting", !.phase = "Booting",
                           !.timestamp = TRUE] \in HostObject
<1>1. Connected(object) \in HostObject
  BY DEF Connected, HostObject, HostConditions
<1>2. ASSUME NEW o \in HostObject
      PROVE  StateByConsumer(o) \in HostObject
  <2>1. /\ updateStatus(o, "InUse", TRUE, FALSE) \in HostObject
        /\ updateStatus(o, "Available", TRUE, FALSE) \in HostObject
    BY DEF updateStatus, HostObject, HostStates
  <2>2. \A p \in HostObject :
          [p EXCEPT !.conditions = @ \cup {"HostAvailable"}] \in HostObject
    BY DEF HostObject, HostConditions
  <2> QED
    BY <2>1, <2>2 DEF StateByConsumer
<1>3. StateByConsumer(Connected(object)) \in HostObject
  BY <1>1, <1>2
<1>4. ConnectionFailed(object) \in HostObject
  <2>1. updateStatus(object, "Error", FALSE, TRUE) \in HostObject
    BY DEF updateStatus, HostObject, HostStates
  <2> QED
    BY <2>1 DEF ConnectionFailed, HostObject
<1>5. \A report \in Reports \cup {None} : WithReport(object, report) \in HostObject
  BY DEF InspectionReport, WithReport, HostObject, InspectionPhases
<1>6. /\ [object EXCEPT !.finalizer = TRUE] \in HostObject
      /\ [object EXCEPT !.deleting = TRUE] \in HostObject
      /\ \A m \in Machines \cup {None} :
           [object EXCEPT !.consumerRef = m] \in HostObject
  BY DEF HostObject
<1>7. /\ [object EXCEPT !.phase = "Timeout", !.state = "Error",
                        !.errorMessage = TRUE] \in HostObject
      /\ [object EXCEPT !.state = "Inspecting", !.phase = "Booting",
                        !.timestamp = TRUE] \in HostObject
  BY DEF HostObject, InspectionPhases, HostStates
<1>8. [object EXCEPT !.state = "Ready",
                     !.conditions = @ \cup {"HostInspected"}] \in HostObject
  BY DEF HostObject, HostStates, HostConditions
<1> QED
  BY <1>3, <1>4, <1>5, <1>6, <1>7, <1>8

(* What a thread holds is of its type.                                     *)
LEMMA ViewFields ==
  ASSUME HostSideOK, NEW t \in Threads
  PROVE  /\ view[t].host \in Hosts \cup {None}
         /\ view[t].object \in HostObject
         /\ view[t].current \in BOOLEAN
BY DEF HostSideOK, View

-----------------------------------------------------------------------------
(* The part of the type invariant that machine writes are about.           *)
MachineSideOK ==
  /\ machines \in [Machines -> MachineObject]
  /\ machineCache \in [Managers -> [Machines -> MachineObject]]

(* A stored machine, and the caches when they do not lag.                  *)
LEMMA StoreMachineType ==
  ASSUME MachineSideOK, NEW m, NEW new, StoreMachine(m, new),
         m \in Machines => new \in MachineObject
  PROVE  MachineSideOK'
<1>1. ASSUME NEW f \in [Machines -> MachineObject]
      PROVE  [f EXCEPT ![m] = new] \in [Machines -> MachineObject]
  OBVIOUS
<1>2. machines' \in [Machines -> MachineObject]
  BY <1>1 DEF MachineSideOK, StoreMachine
<1>3. ASSUME NEW g \in Managers
      PROVE  /\ machineCache[g] \in [Machines -> MachineObject]
             /\ [machineCache[g] EXCEPT ![m] = new] \in [Machines -> MachineObject]
  BY <1>1 DEF MachineSideOK
<1>4. machineCache' \in [Managers -> [Machines -> MachineObject]]
  BY <1>3 DEF StoreMachine
<1> QED
  BY <1>2, <1>4 DEF MachineSideOK

(* The merge patch of a machine is a machine, field by field.              *)
LEMMA PatchedMachineType ==
  ASSUME NEW stored \in MachineObject, NEW old \in MachineObject,
         NEW new \in MachineObject
  PROVE  PatchedMachine(stored, old, new) \in MachineObject
<1>1. /\ Merge(stored.finalizer, old.finalizer, new.finalizer) \in BOOLEAN
      /\ Merge(stored.providerID, old.providerID, new.providerID) \in Hosts \cup {None}
      /\ Merge(stored.associated, old.associated, new.associated) \in BOOLEAN
      /\ Merge(stored.infraReady, old.infraReady, new.infraReady) \in BOOLEAN
      /\ Merge(stored.ready, old.ready, new.ready) \in BOOLEAN
      /\ Merge(stored.phase, old.phase, new.phase) \in MachinePhases
  BY DEF Merge, MachineObject
<1> QED
  BY <1>1 DEF PatchedMachine, MachineObject

(* The deferred patch of Reconcile, on a machine that may be gone.         *)
LEMMA PatchMachineType ==
  ASSUME MachineSideOK, NEW m, NEW old \in MachineObject,
         NEW new \in MachineObject, PatchMachine(m, old, new)
  PROVE  MachineSideOK'
<1>1. ASSUME m \in Machines
      PROVE  /\ machines[m] \in MachineObject
             /\ PatchedMachine(machines[m], old, new) \in MachineObject
  BY <1>1, PatchedMachineType DEF MachineSideOK
<1> DEFINE result == IF ~machines[m].exists THEN machines[m]
                     ELSE IF /\ PatchedMachine(machines[m], old, new).deleting
                             /\ ~PatchedMachine(machines[m], old, new).finalizer
                          THEN RetiredMachine
                          ELSE PatchedMachine(machines[m], old, new)
<1>2. m \in Machines => result \in MachineObject
  BY <1>1, Constructed
<1>3. StoreMachine(m, result)
  BY DEF PatchMachine
<1> QED
  BY <1>2, <1>3, StoreMachineType

(* TypeOK is the conjunction of its parts.                                 *)
LEMMA TypeParts ==
  TypeOK <=> /\ HostSideOK /\ MachineSideOK /\ BareMetalTypeOK
             /\ MachineControllerTypeOK /\ InspectionHandlerTypeOK
BY DEF TypeOK, ResourcesTypeOK, HostSideOK, MachineSideOK

(* The failure budget is not overrun.                                      *)
LEMMA FailsType ==
  ASSUME faults \in 0..MaxFaults, Fails
  PROVE  faults' \in 0..MaxFaults
BY BareMetalAssumption DEF Fails

-----------------------------------------------------------------------------
(* One lemma for the steps of each component.                              *)

(* The steps of the PhysicalHost reconciler.                               *)
LEMMA HostStepType ==
  ASSUME TypeOK, NEW g \in Managers, HostStep(g)
  PROVE  HostSideOK' /\ faults' \in 0..MaxFaults /\ UNCHANGED machineVars
<1> DEFINE t == HostWorker(g)
<1>1. HostSideOK /\ faults \in 0..MaxFaults /\ t \in Threads
  BY TypeParts, WorkerThreads DEF BareMetalTypeOK
<1>2. Copy(g) \in HostObject
  BY <1>1, ViewFields DEF Copy
<1>3. CASE AddHostFinalizer(g)
  BY <1>1, <1>2, <1>3, HostEdits, UpdateHostType DEF AddHostFinalizer
<1>4. CASE HostUnreachable(g)
  <2>1. ConnectionFailed(Copy(g)) \in HostObject
    BY <1>2, HostEdits
  <2> QED
    BY <1>1, <1>4, <2>1, UpdateHostType, FailsType DEF HostUnreachable
<1>5. CASE HostReachable(g)
  <2>1. StateByConsumer(Connected(Copy(g))) \in HostObject
    BY <1>2, HostEdits
  <2> QED
    BY <1>1, <1>5, <2>1, UpdateHostType, FailsType DEF HostReachable, Succeeds
<1>6. CASE HostFactoryPanic(g)
  BY <1>1, <1>6, DropViewType DEF HostFactoryPanic
<1>7. CASE DeleteHostFinalizer(g)
  BY <1>1, <1>7, DropViewType, UpdateHostType, Constructed DEF DeleteHostFinalizer
<1> QED
  BY <1>3, <1>4, <1>5, <1>6, <1>7 DEF HostStep

(* The worker of the machine reconciler moves on.                          *)
LEMMA GoToType ==
  ASSUME workers \in [Managers -> Worker], NEW g \in Managers,
         NEW step \in Steps, NEW new \in MachineObject, GoTo(g, step, new)
  PROVE  workers' \in [Managers -> Worker]
<1>1. \A w \in Worker : [w EXCEPT !.step = step, !.new = new] \in Worker
  BY DEF Worker
<1>2. workers[g] \in Worker
  OBVIOUS
<1> QED
  BY <1>1, <1>2 DEF GoTo

(* The reconciler's changes of a machine keep it a machine.                *)
LEMMA MachineEdits ==
  ASSUME NEW object \in MachineObject
  PROVE  /\ Read(object) \in MachineObject
         /\ [object EXCEPT !.finalizer = TRUE] \in MachineObject
         /\ WithoutFinalizer(object) \in MachineObject
         /\ \A b \in BOOLEAN : [object EXCEPT !.associated = b] \in MachineObject
         /\ \A h \in Hosts \cup {None} :
              [object EXCEPT !.providerID = h, !.infraReady = TRUE,
                             !.ready = TRUE, !.phase = "Provisioned"] \in MachineObject
         /\ [object EXCEPT !.infraReady = FALSE, !.ready = FALSE,
                           !.phase = "Failed"] \in MachineObject
         /\ [object EXCEPT !.infraReady = FALSE,
                           !.phase = "Pending"] \in MachineObject
         /\ [object EXCEPT !.phase = "Inspecting"] \in MachineObject
BY DEF Read, WithoutFinalizer, MachineObject, MachinePhases

(* The head of the machine reconciler.                                     *)
LEMMA ReconcileMachineType ==
  ASSUME TypeOK, NEW g \in Managers, NEW m \in Machines, ReconcileMachine(g, m)
  PROVE  workers' \in [Managers -> Worker]
<1> DEFINE object == machineCache[g][m]
<1>1. object \in MachineObject
  BY TypeParts DEF MachineSideOK
<1>2. /\ Read(object) \in MachineObject
      /\ [Read(object) EXCEPT !.finalizer = TRUE] \in MachineObject
  BY <1>1, MachineEdits
<1> DEFINE worker == [step    |-> IF object.deleting THEN "delete"
                                  ELSE IF object.finalizer THEN "find" ELSE "patch",
                      machine |-> m,
                      old     |-> Read(object),
                      new     |-> IF object.deleting THEN Read(object)
                                  ELSE [Read(object) EXCEPT !.finalizer = TRUE]]
<1>3. worker \in Worker
  <2> HIDE DEF object
  <2> QED
    BY <1>2 DEF Worker, Steps
<1>4. workers \in [Managers -> Worker]
  BY TypeParts DEF MachineControllerTypeOK
<1>5. workers' = [workers EXCEPT ![g] = worker]
  BY DEF ReconcileMachine
<1> HIDE DEF worker
<1> QED
  BY <1>3, <1>4, <1>5

(* Whatever is done to a server, it stays one.                             *)
LEMMA ServersType ==
  ASSUME servers \in [Hosts -> Server], NEW h,
         SetBootSourcePXE(h) \/ PowerOn(h) \/ PowerOff(h)
  PROVE  servers' \in [Hosts -> Server]
<1>1. \A s \in Server :
        /\ [s EXCEPT !.pxe = TRUE] \in Server
        /\ [s EXCEPT !.on = FALSE, !.image = "none"] \in Server
        /\ (IF s.on THEN s
            ELSE [on |-> TRUE, pxe |-> FALSE,
                  image |-> IF s.pxe THEN "inspector" ELSE "os"]) \in Server
  BY DEF Server, Images
<1>2. CASE SetBootSourcePXE(h)
  BY <1>1, <1>2 DEF SetBootSourcePXE
<1>3. CASE PowerOn(h)
  BY <1>1, <1>3 DEF PowerOn
<1>4. CASE PowerOff(h)
  <2>1. servers' = [servers EXCEPT ![h] = [servers[h] EXCEPT !.on = FALSE, !.image = "none"]]
    BY <1>4 DEF PowerOff
  <2> QED
    BY <1>1, <2>1
<1> QED
  BY <1>2, <1>3, <1>4

(* Every step of the machine reconciler keeps all variables well typed.    *)
LEMMA MachineStepType ==
  ASSUME TypeOK, NEW g \in Managers, MachineStep(g), UNCHANGED requests
  PROVE  TypeOK'
<1> DEFINE t == MachineWorker(g)
<1>1. /\ HostSideOK /\ MachineSideOK /\ BareMetalTypeOK
      /\ MachineControllerTypeOK /\ InspectionHandlerTypeOK
  BY TypeParts
<1>2. t \in Threads
  BY WorkerThreads
<1>3. /\ workers \in [Managers -> Worker] /\ expired \subseteq Hosts
      /\ servers \in [Hosts -> Server] /\ faults \in 0..MaxFaults
  BY <1>1 DEF MachineControllerTypeOK, BareMetalTypeOK
<1>4. /\ workers[g].machine \in Machines \cup {None}
      /\ workers[g].old \in MachineObject
      /\ New(g) \in MachineObject
  BY <1>3 DEF Worker, New
<1>5. workers[g].old.providerID \in Hosts \cup {None}
  BY <1>4 DEF MachineObject
<1>6. /\ HostCopy(g) \in HostObject
      /\ Host(g) \in Hosts \cup {None}
      /\ Conflict(t) \in BOOLEAN
  BY <1>1, <1>2, ViewFields DEF HostCopy, Host, Conflict
<1>7. {"find", "claim", "handle", "power", "inspect", "release", "patch"} \subseteq Steps
  BY DEF Steps
<1>8. ASSUME HostSideOK', UNCHANGED machineVars, UNCHANGED servers,
             faults' \in 0..MaxFaults,
             workers' \in [Managers -> Worker], expired' \subseteq Hosts
      PROVE  TypeOK'
  <2>1. MachineSideOK'
    BY <1>1, <1>8 DEF MachineSideOK, machineVars
  <2>2. BareMetalTypeOK' /\ MachineControllerTypeOK' /\ InspectionHandlerTypeOK'
    BY <1>1, <1>8 DEF BareMetalTypeOK, MachineControllerTypeOK, InspectionHandlerTypeOK
  <2> QED
    BY <1>8, <2>1, <2>2 DEF TypeOK, ResourcesTypeOK, HostSideOK, MachineSideOK
<1>9. ASSUME UNCHANGED <<hosts, cache, view>>
      PROVE  HostSideOK'
  BY <1>1, <1>9 DEF HostSideOK
<1>10. CASE GetAssociatedHost(g)
  <2>1. workers' \in [Managers -> Worker]
    BY <1>3, <1>4, <1>7, <1>10, MachineEdits, GoToType DEF GetAssociatedHost
  <2>2. HostSideOK'
    BY <1>1, <1>2, <1>5, <1>10, GetHostType
    DEF GetAssociatedHost, HasAssociatedHost, LocalHosts
  <2> QED
    BY <1>3, <1>8, <1>10, <2>1, <2>2 DEF GetAssociatedHost
<1>11. CASE \E h \in Hosts : ChooseHost(g, h)
  <2>1. workers' \in [Managers -> Worker]
    BY <1>3, <1>4, <1>7, <1>11, GoToType DEF ChooseHost
  <2>2. HostSideOK'
    BY <1>1, <1>2, <1>11, GetHostType DEF ChooseHost
  <2> QED
    BY <1>3, <1>8, <1>11, <2>1, <2>2 DEF ChooseHost
<1>12. CASE NoHostAvailable(g)
  <2>1. workers' \in [Managers -> Worker]
    BY <1>3, <1>4, <1>7, <1>12, MachineEdits, GoToType DEF NoHostAvailable
  <2> QED
    BY <1>3, <1>8, <1>9, <1>12, <2>1 DEF NoHostAvailable
<1>13. CASE ClaimHost(g)
  <2>1. workers' \in [Managers -> Worker]
    <3>1. [New(g) EXCEPT !.associated = ~Conflict(t)] \in MachineObject
      BY <1>4, <1>6, MachineEdits
    <3> QED
      BY <1>3, <1>7, <1>13, <3>1, GoToType DEF ClaimHost
  <2>2. HostSideOK'
    <3>1. [HostCopy(g) EXCEPT !.consumerRef = workers[g].machine] \in HostObject
      BY <1>4, <1>6, HostEdits
    <3> QED
      BY <1>1, <1>2, <1>13, <3>1, UpdateHostType DEF ClaimHost
  <2> QED
    BY <1>3, <1>8, <1>13, <2>1, <2>2 DEF ClaimHost
<1>14. ASSUME NEW new \in MachineObject, ReportMachine(g, new)
       PROVE  TypeOK'
  <2>1. workers' \in [Managers -> Worker]
    BY <1>3, <1>7, <1>14, GoToType DEF ReportMachine
  <2>2. HostSideOK'
    BY <1>1, <1>2, <1>14, DropViewType DEF ReportMachine
  <2> QED
    BY <1>3, <1>8, <1>14, <2>1, <2>2 DEF ReportMachine
<1>15. CASE HandleReadyHost(g)
  BY <1>4, <1>6, <1>14, <1>15, MachineEdits DEF HandleReadyHost
<1>16. CASE HandleErrorHost(g)
  BY <1>4, <1>14, <1>16, MachineEdits DEF HandleErrorHost
<1>17. CASE HandleIntermediateHost(g)
  BY <1>4, <1>14, <1>17, MachineEdits DEF HandleIntermediateHost
<1>18. CASE InspectionInProgress(g) \/ InspectionRejected(g)
  BY <1>4, <1>14, <1>18, MachineEdits DEF InspectionInProgress, InspectionRejected
<1>19. CASE InspectionTimeout(g)
  <2>1. workers' \in [Managers -> Worker]
    BY <1>3, <1>4, <1>7, <1>19, GoToType DEF InspectionTimeout
  <2>2. HostSideOK'
    BY <1>1, <1>2, <1>6, <1>19, HostEdits, UpdateHostType DEF InspectionTimeout
  <2> QED
    BY <1>3, <1>8, <1>19, <2>1, <2>2 DEF InspectionTimeout
<1>20. CASE InspectionAccepted(g)
  <2>1. workers' \in [Managers -> Worker]
    BY <1>3, <1>4, <1>7, <1>20, GoToType DEF InspectionAccepted
  <2>2. HostSideOK'
    <3>1. [HostCopy(g) EXCEPT !.state = "Ready",
                              !.conditions = @ \cup {"HostInspected"}] \in HostObject
      BY <1>6, HostEdits
    <3> QED
      BY <1>1, <1>2, <1>20, <3>1, UpdateHostType DEF InspectionAccepted
  <2> QED
    BY <1>3, <1>8, <1>20, <2>1, <2>2 DEF InspectionAccepted
<1>21. CASE BootFails(g)
  <2>1. workers' \in [Managers -> Worker]
    BY <1>3, <1>4, <1>7, <1>21, GoToType DEF BootFails
  <2>2. HostSideOK'
    BY <1>1, <1>2, <1>21, DropViewType DEF BootFails
  <2> QED
    BY <1>3, <1>8, <1>21, <2>1, <2>2, FailsType DEF BootFails
<1>22. CASE SetPXE(g) \/ SetPower(g)
  <2>1. workers' \in [Managers -> Worker]
    BY <1>3, <1>4, <1>7, <1>22, GoToType DEF SetPXE, SetPower
  <2>2. servers' \in [Hosts -> Server]
    BY <1>3, <1>22, ServersType DEF SetPXE, SetPower
  <2>3. HostSideOK' /\ MachineSideOK'
    BY <1>1, <1>9, <1>22 DEF SetPXE, SetPower, MachineSideOK, machineVars
  <2>4. BareMetalTypeOK' /\ MachineControllerTypeOK' /\ InspectionHandlerTypeOK'
    BY <1>1, <1>3, <1>22, <2>1, <2>2
    DEF SetPXE, SetPower, BareMetalTypeOK, MachineControllerTypeOK, InspectionHandlerTypeOK
  <2> QED
    BY <2>3, <2>4 DEF TypeOK, ResourcesTypeOK, HostSideOK, MachineSideOK
<1>23. CASE StartInspection(g)
  <2>1. workers' \in [Managers -> Worker]
    BY <1>3, <1>4, <1>7, <1>23, MachineEdits, GoToType DEF StartInspection
  <2>2. HostSideOK'
    BY <1>1, <1>2, <1>6, <1>23, HostEdits, UpdateHostType DEF StartInspection
  <2>3. expired' \subseteq Hosts
    BY <1>3, <1>23 DEF StartInspection
  <2> QED
    BY <1>3, <1>8, <1>23, <2>1, <2>2, <2>3 DEF StartInspection
<1>24. CASE NothingToRelease(g)
  <2>1. workers' \in [Managers -> Worker]
    BY <1>3, <1>4, <1>7, <1>24, MachineEdits, GoToType DEF NothingToRelease
  <2> QED
    BY <1>3, <1>8, <1>9, <1>24, <2>1 DEF NothingToRelease
<1>25. CASE GetHostToRelease(g)
  <2>1. workers' \in [Managers -> Worker]
    BY <1>3, <1>4, <1>7, <1>25, GoToType DEF GetHostToRelease
  <2>2. HostSideOK'
    BY <1>1, <1>2, <1>5, <1>25, GetHostType
    DEF GetHostToRelease, NamedHostIsOurs, NamedHostFound
  <2> QED
    BY <1>3, <1>8, <1>25, <2>1, <2>2 DEF GetHostToRelease
<1>26. CASE ReleaseHost(g)
  <2>1. workers' \in [Managers -> Worker]
    <3>1. (IF Conflict(t) THEN New(g) ELSE WithoutFinalizer(New(g))) \in MachineObject
      BY <1>4, MachineEdits
    <3> QED
      BY <1>3, <1>7, <1>26, <3>1, GoToType DEF ReleaseHost
  <2>2. HostSideOK'
    <3>1. [HostCopy(g) EXCEPT !.consumerRef = None] \in HostObject
      BY <1>6, HostEdits
    <3> QED
      BY <1>1, <1>2, <1>26, <3>1, UpdateHostType DEF ReleaseHost
  <2> QED
    BY <1>3, <1>8, <1>26, <2>1, <2>2 DEF ReleaseHost
<1>27. CASE Patch(g)
  <2>1. MachineSideOK'
    BY <1>1, <1>4, <1>27, PatchMachineType DEF Patch
  <2>2. workers' \in [Managers -> Worker]
    BY <1>3, <1>27, Constructed DEF Patch
  <2>3. HostSideOK'
    BY <1>9, <1>27 DEF Patch
  <2>4. BareMetalTypeOK' /\ MachineControllerTypeOK' /\ InspectionHandlerTypeOK'
    BY <1>1, <1>27, <2>2
    DEF Patch, BareMetalTypeOK, MachineControllerTypeOK, InspectionHandlerTypeOK
  <2> QED
    BY <2>1, <2>3, <2>4 DEF TypeOK, ResourcesTypeOK, HostSideOK, MachineSideOK
<1> QED
  BY <1>10, <1>11, <1>12, <1>13, <1>15, <1>16, <1>17, <1>18, <1>19, <1>20,
     <1>21, <1>22, <1>23, <1>24, <1>25, <1>26, <1>27 DEF MachineStep

(* Posting, reading and storing an inspection report.                      *)
LEMMA HandlerStepType ==
  ASSUME TypeOK, NEW r \in Requests, Handlers(r)
  PROVE  TypeOK'
<1> DEFINE t == Handler(r)
<1>1. /\ HostSideOK /\ MachineSideOK /\ BareMetalTypeOK
      /\ MachineControllerTypeOK /\ InspectionHandlerTypeOK
  BY TypeParts
<1>2. t \in Threads
  BY WorkerThreads
<1>3. /\ requests \in [Requests -> Request] /\ servers \in [Hosts -> Server]
      /\ faults \in 0..MaxFaults
  BY <1>1 DEF InspectionHandlerTypeOK, BareMetalTypeOK
<1>4. Handling(r) => /\ requests[r].host \in Hosts
                     /\ requests[r].report \in Reports
                     /\ requests[r].manager \in Managers
  BY <1>3 DEF Request, NoRequest, Handling
<1>5. ASSUME HostSideOK', UNCHANGED machineVars, UNCHANGED <<workers, expired>>,
             faults' \in 0..MaxFaults, requests' \in [Requests -> Request],
             servers' \in [Hosts -> Server]
      PROVE  TypeOK'
  <2>1. MachineSideOK' /\ MachineControllerTypeOK'
    BY <1>1, <1>5 DEF MachineSideOK, machineVars, MachineControllerTypeOK
  <2> QED
    BY <1>5, <2>1 DEF TypeOK, ResourcesTypeOK, HostSideOK, MachineSideOK,
                      BareMetalTypeOK, InspectionHandlerTypeOK
<1>6. \A s \in Server, i \in Images : [s EXCEPT !.image = i] \in Server
  BY DEF Server
<1>7. ASSUME NEW next \in Images, Answer(r, next)
      PROVE  /\ requests' \in [Requests -> Request]
             /\ servers' \in [Hosts -> Server]
  <2> DEFINE h == requests[r].host
             i == IF servers[h].image = "posting" THEN next ELSE servers[h].image
  <2>1. h \in Hosts => servers[h] \in Server /\ i \in Images
    BY <1>3, <1>7 DEF Server
  <2>2. servers' = [servers EXCEPT ![h] = [servers[h] EXCEPT !.image = i]]
    BY <1>3, <1>7 DEF Answer
  <2> HIDE DEF i, h
  <2>3. servers' \in [Hosts -> Server]
    BY <1>3, <1>6, <2>1, <2>2
  <2> QED
    BY <1>3, <1>7, <2>3, Constructed DEF Answer
<1>8. "os" \in Images /\ "inspector" \in Images /\ "posting" \in Images
  BY DEF Images
<1>9. ASSUME NEW h \in Hosts, NEW report \in Reports, NEW g \in Managers,
             ReportPost(r, h, report, g)
      PROVE  TypeOK'
  <2>1. requests' \in [Requests -> Request]
    BY <1>3, <1>9 DEF ReportPost, PostReport, Request
  <2>2. servers' \in [Hosts -> Server]
    <3>1. CASE UNCHANGED servers
      BY <1>3, <3>1
    <3>2. CASE servers' = [servers EXCEPT ![h] = [servers[h] EXCEPT !.image = "posting"]]
      BY <1>3, <1>6, <1>8, <3>2
    <3> QED
      BY <1>9, <3>1, <3>2 DEF ReportPost, PostReport
  <2>3. faults' \in 0..MaxFaults
    BY <1>3, <1>9, FailsType DEF ReportPost, PostReport, Succeeds
  <2>4. HostSideOK'
    BY <1>1, <1>9 DEF ReportPost, PostReport, HostSideOK
  <2> QED
    BY <1>5, <1>9, <2>1, <2>2, <2>3, <2>4 DEF ReportPost, PostReport
<1>10. CASE GetReportedHost(r) /\ UNCHANGED <<workers, expired>>
  <2> DEFINE h == requests[r].host
             g == requests[r].manager
  <2>1. CASE GetHost(t, g, h) /\ UNCHANGED <<requests, servers>>
    <3>1. h \in Hosts /\ g \in Managers
      BY <1>4, <1>10 DEF GetReportedHost
    <3>2. HostSideOK'
      BY <1>1, <1>2, <1>10, <2>1, <3>1, GetHostType DEF GetReportedHost
    <3> QED
      BY <1>3, <1>5, <1>10, <2>1, <3>2 DEF GetReportedHost
  <2>2. CASE AnswerError(r) /\ UNCHANGED view
    <3>1. /\ requests' \in [Requests -> Request]
          /\ servers' \in [Hosts -> Server]
      BY <1>7, <1>8, <2>2 DEF AnswerError
    <3>2. HostSideOK'
      BY <1>1, <1>10, <2>2 DEF GetReportedHost, HostSideOK
    <3> QED
      BY <1>3, <1>5, <1>10, <3>1, <3>2 DEF GetReportedHost
  <2> QED
    BY <1>10, <2>1, <2>2 DEF GetReportedHost
<1>11. CASE StoreReport(r) /\ UNCHANGED <<workers, expired>>
  <2>1. /\ requests' \in [Requests -> Request]
        /\ servers' \in [Hosts -> Server]
    BY <1>7, <1>8, <1>11 DEF StoreReport, AnswerOK, AnswerError
  <2>2. WithReport(view[t].object, requests[r].report) \in HostObject
    BY <1>1, <1>2, <1>4, <1>11, ViewFields, HostEdits DEF StoreReport
  <2>3. HostSideOK'
    BY <1>1, <1>2, <1>11, <2>2, UpdateHostType DEF StoreReport
  <2> QED
    BY <1>3, <1>5, <1>11, <2>1, <2>3 DEF StoreReport
<1> QED
  BY <1>9, <1>10, <1>11 DEF Handlers, ReportHandle

(* People and Cluster API write well-typed objects.                        *)
LEMMA UserMachineEdits ==
  ASSUME NEW object \in MachineObject
  PROVE  /\ [object EXCEPT !.owner = TRUE] \in MachineObject
         /\ [object EXCEPT !.deleting = TRUE] \in MachineObject
         /\ [object EXCEPT !.paused = ~@] \in MachineObject
         /\ \A h \in Hosts \cup {None} :
              /\ [object EXCEPT !.providerID = h] \in MachineObject
              /\ [object EXCEPT !.exists = TRUE, !.providerID = h] \in MachineObject
BY DEF MachineObject

(* What Cluster API and operators do.                                      *)
LEMMA UsersType ==
  ASSUME TypeOK, Users
  PROVE  TypeOK'
<1>1. /\ HostSideOK /\ MachineSideOK /\ BareMetalTypeOK
      /\ MachineControllerTypeOK /\ InspectionHandlerTypeOK
  BY TypeParts
<1>2. ASSUME HostSideOK', MachineSideOK', UserLeaves
      PROVE  TypeOK'
  BY <1>1, <1>2 DEF UserLeaves, TypeOK, ResourcesTypeOK, HostSideOK, MachineSideOK,
                    BareMetalTypeOK, MachineControllerTypeOK, InspectionHandlerTypeOK
<1>3. ASSUME NEW m \in Machines, NEW new \in MachineObject, StoreMachine(m, new),
             UNCHANGED <<hosts, cache, view>>, UserLeaves
      PROVE  TypeOK'
  <2>1. HostSideOK'
    BY <1>1, <1>3 DEF HostSideOK
  <2>2. MachineSideOK'
    BY <1>1, <1>3, StoreMachineType
  <2> QED
    BY <1>2, <1>3, <2>1, <2>2
<1>4. ASSUME NEW m \in Machines,
             \/ \E p \in Hosts \cup {None} : CreateMachine(m, p)
             \/ AdoptMachine(m)
             \/ \E h \in Hosts : BindMachine(m, h)
             \/ PauseMachine(m)
             \/ DeleteMachine(m)
      PROVE  TypeOK'
  <2>1. machines[m] \in MachineObject
    BY <1>1 DEF MachineSideOK
  <2>2. ASSUME NEW p \in Hosts \cup {None}, CreateMachine(m, p)
        PROVE  TypeOK'
    BY <1>3, <2>2, Constructed, UserMachineEdits DEF CreateMachine
  <2>3. CASE AdoptMachine(m)
    BY <1>3, <2>1, <2>3, UserMachineEdits DEF AdoptMachine
  <2>4. ASSUME NEW h \in Hosts, BindMachine(m, h)
        PROVE  TypeOK'
    BY <1>3, <2>1, <2>4, UserMachineEdits DEF BindMachine
  <2>5. CASE PauseMachine(m)
    <3>1. [machines[m] EXCEPT !.paused = ~@] \in MachineObject
      BY <2>1, UserMachineEdits
    <3> QED
      BY <1>3, <2>5, <3>1 DEF PauseMachine
  <2>6. CASE DeleteMachine(m)
    <3>1. (IF machines[m].finalizer THEN [machines[m] EXCEPT !.deleting = TRUE]
           ELSE RetiredMachine) \in MachineObject
      BY <2>1, UserMachineEdits, Constructed
    <3> QED
      BY <1>3, <2>6, <3>1 DEF DeleteMachine
  <2> QED
    BY <1>4, <2>2, <2>3, <2>4, <2>5, <2>6
<1>5. ASSUME NEW h \in Hosts, NEW new \in HostObject, ReplaceHost(h, new)
      PROVE  TypeOK'
  <2>1. view' \in [Threads -> View]
    BY <1>1, <1>5, OutdatedType DEF ReplaceHost
  <2>2. HostSideOK'
    BY <1>1, <1>5, <2>1, StoreHostType DEF ReplaceHost, HostSideOK
  <2>3. MachineSideOK'
    BY <1>1, <1>5 DEF ReplaceHost, MachineSideOK, machineVars
  <2> QED
    BY <1>2, <1>5, <2>2, <2>3 DEF ReplaceHost
<1>6. ASSUME NEW h \in Hosts, DeleteHost(h) \/ CreateHost(h)
      PROVE  TypeOK'
  <2>1. hosts[h] \in HostObject
    BY <1>1 DEF HostSideOK
  <2>2. (IF hosts[h].finalizer THEN [hosts[h] EXCEPT !.deleting = TRUE]
         ELSE AbsentHost) \in HostObject
    BY <2>1, HostEdits, Constructed
  <2> QED
    BY <1>5, <1>6, <2>2, Constructed DEF DeleteHost, CreateHost
<1> QED
  BY <1>4, <1>6 DEF Users

(* Time, power and restarts.                                               *)
LEMMA WorldType ==
  ASSUME TypeOK, World
  PROVE  TypeOK'
<1>1. /\ HostSideOK /\ MachineSideOK /\ BareMetalTypeOK
      /\ MachineControllerTypeOK /\ InspectionHandlerTypeOK
  BY TypeParts
<1>2. /\ servers \in [Hosts -> Server] /\ faults \in 0..MaxFaults
      /\ requests \in [Requests -> Request]
  BY <1>1 DEF BareMetalTypeOK, InspectionHandlerTypeOK
<1>3. ASSUME NEW h \in Hosts, Expire(h)
      PROVE  TypeOK'
  BY <1>1, <1>3 DEF Expire, machineVars, TypeOK, ResourcesTypeOK, HostSideOK, MachineSideOK,
                    BareMetalTypeOK, MachineControllerTypeOK, InspectionHandlerTypeOK
<1>4. ASSUME NEW h \in Hosts, SwitchPower(h)
      PROVE  TypeOK'
  <2>1. servers' \in [Hosts -> Server] /\ faults' \in 0..MaxFaults
    BY <1>2, <1>4, ServersType, FailsType DEF SwitchPower
  <2> QED
    BY <1>1, <1>4, <2>1
    DEF SwitchPower, machineVars, TypeOK, ResourcesTypeOK, HostSideOK, MachineSideOK,
        BareMetalTypeOK, MachineControllerTypeOK, InspectionHandlerTypeOK
<1>5. ASSUME NEW g \in Managers, Restart(g)
      PROVE  TypeOK'
  <2>1. cache' \in [Managers -> [Hosts -> CacheEntry]]
    <3>1. [h \in Hosts |-> [object |-> hosts[h], current |-> TRUE]] \in [Hosts -> CacheEntry]
      BY <1>1 DEF HostSideOK, CacheEntry
    <3> QED
      BY <1>1, <1>5, <3>1 DEF Restart, HostSideOK
  <2>2. view' \in [Threads -> View]
    BY <1>1, <1>5, Constructed DEF Restart, HostSideOK
  <2>3. machineCache' \in [Managers -> [Machines -> MachineObject]]
    BY <1>1, <1>5 DEF Restart, MachineSideOK
  <2>4. workers' \in [Managers -> Worker]
    BY <1>1, <1>5, Constructed DEF Restart, MachineControllerTypeOK
  <2>5. requests' \in [Requests -> Request]
    BY <1>2, <1>5, Constructed DEF Restart
  <2>6. servers' \in [Hosts -> Server]
    <3>1. \A s \in Server : [s EXCEPT !.image = IF @ = "posting" THEN "inspector" ELSE @]
                              \in Server
      BY DEF Server, Images
    <3> QED
      BY <1>2, <1>5, <3>1 DEF Restart
  <2>7. faults' \in 0..MaxFaults
    BY <1>2, <1>5, FailsType DEF Restart
  <2>8. UNCHANGED <<hosts, machines, expired>>
    BY <1>5 DEF Restart
  <2> QED
    BY <1>1, <2>1, <2>2, <2>3, <2>4, <2>5, <2>6, <2>7, <2>8
    DEF TypeOK, ResourcesTypeOK, HostSideOK, MachineSideOK, BareMetalTypeOK,
        MachineControllerTypeOK, InspectionHandlerTypeOK
<1> QED
  BY <1>3, <1>4, <1>5 DEF World

(* Everything the controllers of one manager do.                           *)
LEMMA ControllersType ==
  ASSUME TypeOK, NEW g \in Managers, Controllers(g)
  PROVE  TypeOK'
<1>1. /\ HostSideOK /\ MachineSideOK /\ BareMetalTypeOK
      /\ MachineControllerTypeOK /\ InspectionHandlerTypeOK
  BY TypeParts
<1>2. ASSUME HostSideOK', UNCHANGED machineVars, faults' \in 0..MaxFaults,
             HostControllerLeaves
      PROVE  TypeOK'
  BY <1>1, <1>2 DEF HostControllerLeaves, machineVars, TypeOK, ResourcesTypeOK, HostSideOK,
                    MachineSideOK, BareMetalTypeOK, MachineControllerTypeOK,
                    InspectionHandlerTypeOK
<1>3. ASSUME NEW h \in Hosts, HostReconcile(g, h)
      PROVE  TypeOK'
  <2>1. HostSideOK'
    BY <1>1, <1>3, WorkerThreads, GetHostType DEF HostReconcile, ReconcileHost
  <2>2. faults' \in 0..MaxFaults
    BY <1>1, <1>3 DEF HostReconcile, ReconcileHost, BareMetalTypeOK
  <2> QED
    BY <1>2, <1>3, <2>1, <2>2 DEF HostReconcile, ReconcileHost
<1>4. CASE HostContinue(g)
  BY <1>2, <1>4, HostStepType DEF HostContinue
<1>5. ASSUME NEW h \in Hosts, CacheSync(g, h)
      PROVE  TypeOK'
  <2>1. [object |-> hosts[h], current |-> TRUE] \in CacheEntry
    BY <1>1 DEF HostSideOK, CacheEntry
  <2>2. HostSideOK'
    BY <1>1, <1>5, <2>1 DEF CacheSync, Sync, HostSideOK
  <2>3. faults' \in 0..MaxFaults /\ HostControllerLeaves
    BY <1>1, <1>5 DEF CacheSync, UserLeaves, HostControllerLeaves, BareMetalTypeOK
  <2> QED
    BY <1>2, <1>5, <2>2, <2>3 DEF CacheSync, Sync
<1>6. ASSUME NEW m \in Machines, MachineReconcile(g, m)
      PROVE  TypeOK'
  <2>1. workers' \in [Managers -> Worker]
    BY <1>6, ReconcileMachineType DEF MachineReconcile
  <2> QED
    BY <1>1, <1>6, <2>1
    DEF MachineReconcile, ReconcileMachine, machineVars, TypeOK, ResourcesTypeOK, HostSideOK,
        MachineSideOK, BareMetalTypeOK, MachineControllerTypeOK, InspectionHandlerTypeOK
<1>7. ASSUME NEW m \in Machines, MachineCacheSync(g, m)
      PROVE  TypeOK'
  <2>1. machineCache' \in [Managers -> [Machines -> MachineObject]]
    BY <1>1, <1>7 DEF MachineCacheSync, SyncMachine, MachineSideOK
  <2> QED
    BY <1>1, <1>7, <2>1
    DEF MachineCacheSync, SyncMachine, UserLeaves, TypeOK, ResourcesTypeOK, HostSideOK,
        MachineSideOK, BareMetalTypeOK, MachineControllerTypeOK, InspectionHandlerTypeOK
<1>8. CASE MachineContinue(g)
  BY <1>8, MachineStepType DEF MachineContinue
<1> QED
  BY <1>3, <1>4, <1>5, <1>6, <1>7, <1>8 DEF Controllers

(* The initial state is well typed.                                        *)
LEMMA TypeInit == Init => TypeOK
<1> SUFFICES ASSUME Init PROVE TypeOK
  OBVIOUS
<1>1. HostSideOK
  BY Constructed DEF Init, ResourcesInit, HostSideOK, CacheEntry
<1>2. MachineSideOK
  BY Constructed DEF Init, ResourcesInit, MachineSideOK
<1>3. BareMetalTypeOK
  BY BareMetalAssumption DEF Init, BareMetalInit, BareMetalTypeOK, Server, Images
<1>4. MachineControllerTypeOK
  BY Constructed DEF Init, MachineControllerInit, MachineControllerTypeOK
<1>5. InspectionHandlerTypeOK
  BY Constructed DEF Init, InspectionHandlerInit, InspectionHandlerTypeOK
<1> QED
  BY <1>1, <1>2, <1>3, <1>4, <1>5, TypeParts

(* Every step keeps the state well typed.                                  *)
LEMMA TypeNext == TypeOK /\ [Next]_vars => TypeOK'
<1> SUFFICES ASSUME TypeOK, [Next]_vars PROVE TypeOK'
  OBVIOUS
<1>1. CASE UNCHANGED vars
  BY <1>1 DEF vars, TypeOK, ResourcesTypeOK, BareMetalTypeOK,
              MachineControllerTypeOK, InspectionHandlerTypeOK
<1>2. CASE Next
  BY <1>2, ControllersType, HandlerStepType, UsersType, WorldType DEF Next
<1> QED
  BY <1>1, <1>2

(* Every component's state stays of its type, whatever the reconcilers,    *)
(* the handler, people and failures do.                                    *)
THEOREM TypeCorrect == Spec => []TypeOK
BY TypeInit, TypeNext, PTL DEF Spec
=============================================================================
