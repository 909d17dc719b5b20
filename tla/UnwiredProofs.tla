--------------------------- MODULE UnwiredProofs ---------------------------
(***************************************************************************)
(* With a nil RedfishClientFactory nothing is ever claimed or commanded.   *)
(* That no stored host is usable is not inductive: a worker acts on the    *)
(* copy it holds, current or not.  The invariant therefore speaks of every *)
(* copy, in the caches and in the hands of the workers, as well.  It is    *)
(* what lets triggerInspection be modelled without the panic of a nil      *)
(* factory: no worker gets there.                                          *)
(***************************************************************************)
EXTENDS LifecycleProofs

Untouched(object) == object.state \in {"None", "Error"} /\ object.consumerRef = None

HostsUntouched ==
  /\ \A h \in Hosts : Untouched(hosts[h])
  /\ \A g \in Managers, h \in Hosts : Untouched(cache[g][h].object)
  /\ \A t \in Threads : Untouched(view[t].object)

NoOverride == \A h \in Hosts : ~servers[h].pxe

(* A copy of an untouched host is untouched, current or not.               *)
LEMMA CopyUntouched ==
  ASSUME NEW t, NEW h, NEW object, NEW current, Untouched(object)
  PROVE  /\ Untouched(CopyOf(t, h, object, current).object)
         /\ Untouched(NoView.object) /\ Untouched(AbsentHost) /\ Untouched(NewHost)
BY DEF Untouched, CopyOf, NoView, AbsentHost, NewHost

(* Get and List.                                                           *)
LEMMA GetUntouched ==
  ASSUME HostSideOK, HostsUntouched, NEW t \in Threads, NEW g \in Managers,
         NEW h \in Hosts, GetHost(t, g, h), UNCHANGED <<hosts, cache>>
  PROVE  HostsUntouched'
<1>1. \A u \in Threads : \/ view'[u] = view[u]
                         \/ view'[u] = CopyOf(t, h, cache[g][h].object, cache[g][h].current)
  BY DEF GetHost, HostSideOK
<1>2. Untouched(CopyOf(t, h, cache[g][h].object, cache[g][h].current).object)
  BY CopyUntouched DEF HostsUntouched
<1> QED
  BY <1>1, <1>2 DEF HostsUntouched, Untouched

(* A copy that is let go.                                                  *)
LEMMA DropUntouched ==
  ASSUME HostSideOK, HostsUntouched, NEW t \in Threads, DropView(t),
         UNCHANGED <<hosts, cache>>
  PROVE  HostsUntouched'
<1>1. \A u \in Threads : view'[u] \in {view[u], NoView}
  BY DEF DropView, HostSideOK
<1>2. Untouched(NoView.object)
  BY DEF Untouched, NoView, AbsentHost
<1> QED
  BY <1>1, <1>2 DEF HostsUntouched, Untouched

(* A store of an untouched host.                                           *)
LEMMA StoreUntouched ==
  ASSUME HostSideOK, HostsUntouched, NEW h \in Hosts, NEW new, Untouched(new),
         StoreHost(h, new),
         \A u \in Threads : view'[u] \in {NoView, Outdated(h, u)}
  PROVE  HostsUntouched'
<1>1. \A i \in Hosts : hosts'[i] \in {hosts[i], new}
  BY DEF StoreHost, HostSideOK
<1>2. ASSUME NEW g \in Managers, NEW i \in Hosts
      PROVE  cache'[g][i].object = cache[g][i].object
  <2>1. cache'[g] = [cache[g] EXCEPT ![h].current = FALSE]
    BY DEF StoreHost
  <2>2. cache[g] \in [Hosts -> CacheEntry]
    BY DEF HostSideOK
  <2> QED
    BY <2>1, <2>2 DEF CacheEntry
<1>3. ASSUME NEW u \in Threads
      PROVE  Untouched(view'[u].object)
  <2>1. Untouched(view[u].object)
    BY DEF HostsUntouched
  <2>2. /\ Untouched(NoView.object)
        /\ Untouched(CopyOf(u, h, view[u].object, FALSE).object)
    BY <2>1, CopyUntouched
  <2>3. view'[u] \in {NoView, view[u], CopyOf(u, h, view[u].object, FALSE)}
    BY DEF Outdated
  <2> QED
    BY <2>1, <2>2, <2>3
<1>4. \A i \in Hosts : Untouched(hosts'[i])
  BY <1>1 DEF HostsUntouched
<1>5. \A g \in Managers, i \in Hosts : Untouched(cache'[g][i].object)
  BY <1>2 DEF HostsUntouched
<1> QED
  BY <1>3, <1>4, <1>5 DEF HostsUntouched, Untouched

(* Update and Status().Update by an edit that leaves a host untouched.     *)
LEMMA UpdateUntouched ==
  ASSUME HostSideOK, CopiesAreCurrent, HostsUntouched, NEW t \in Threads, NEW new,
         NEW touch, UpdateHost(t, new, touch), Untouched(new)
  PROVE  HostsUntouched'
BY UpdateCases, DropUntouched, StoreUntouched
-----------------------------------------------------------------------------
(* The edits that are left without a factory.                              *)
LEMMA UnwiredEdits ==
  ASSUME NEW object \in HostObject, Untouched(object)
  PROVE  /\ Untouched([object EXCEPT !.finalizer = TRUE])
         /\ Untouched([object EXCEPT !.deleting = TRUE])
         /\ Untouched([object EXCEPT !.consumerRef = None])
         /\ Untouched(ConnectionFailed(object))
         /\ \A r : Untouched(WithReport(object, r))
<1>1. Untouched(ConnectionFailed(object))
  <2> DEFINE s == updateStatus(object, "Error", FALSE, TRUE)
  <2>1. s \in HostObject /\ Untouched(s)
    BY DEF updateStatus, HostObject, HostStates, Untouched
  <2> HIDE DEF s
  <2>2. Untouched([s EXCEPT !.conditions = @ \ {"RedfishConnectionReady"}])
    BY <2>1 DEF Untouched, HostObject
  <2> QED
    BY <2>2 DEF ConnectionFailed, s
<1> QED
  BY <1>1 DEF Untouched, HostObject, WithReport

(* The PhysicalHost reconciler never gets past the BMC connection.         *)
LEMMA HostStepUnwired ==
  ASSUME ~FactorySet, LifecycleInv, HostsUntouched, NEW g \in Managers, HostContinue(g)
  PROVE  HostsUntouched'
<1> DEFINE t == HostWorker(g)
<1>1. /\ HostSideOK /\ CopiesAreCurrent /\ t \in Threads /\ Copy(g) \in HostObject
      /\ Untouched(Copy(g))
  BY TypeParts, WorkerThreads DEF LifecycleInv, HostSideOK, Copy, View, HostsUntouched
<1>2. CASE DropView(t) /\ UNCHANGED <<hosts, cache>>
  BY <1>1, <1>2, DropUntouched
<1>3. CASE AddHostFinalizer(g)
  BY <1>1, <1>3, UnwiredEdits, UpdateUntouched DEF AddHostFinalizer
<1>4. CASE HostUnreachable(g)
  <2>1. PICK touch : UpdateHost(t, ConnectionFailed(Copy(g)), touch)
    BY <1>4 DEF HostUnreachable
  <2> QED
    BY <1>1, <2>1, UnwiredEdits, UpdateUntouched
<1>5. CASE UpdateHost(t, AbsentHost, FALSE)
  BY <1>1, <1>5, CopyUntouched, UpdateUntouched
<1> QED
  BY <1>2, <1>3, <1>4, <1>5
  DEF HostContinue, HostStep, HostReachable, HostFactoryPanic, DeleteHostFinalizer

(* The Beskar7Machine reconciler finds no host to claim, to inspect or to  *)
(* release.                                                                *)
LEMMA MachineStepUnwired ==
  ASSUME LifecycleInv, HostsUntouched, NoOverride, NEW g \in Managers, MachineContinue(g)
  PROVE  HostsUntouched' /\ NoOverride'
<1> DEFINE t == MachineWorker(g)
           object == HostCopy(g)
<1>1. /\ HostSideOK /\ CopiesAreCurrent /\ WorkerKnows /\ t \in Threads
      /\ object \in HostObject /\ object = view[t].object /\ Untouched(object)
      /\ servers \in [Hosts -> Server]
      /\ workers[g].old.providerID \in Hosts \cup {None}
  BY TypeParts, WorkerThreads DEF LifecycleInv, HostSideOK, HostCopy, View, HostsUntouched,
     BareMetalTypeOK, MachineControllerTypeOK, Worker, MachineObject
<1>2. ~ClaimHost(g) /\ ~StartInspection(g) /\ ~SetPower(g)
  BY <1>1 DEF ClaimHost, StartInspection, SetPower, WorkerKnows, Claimable, Untouched
<1>3. /\ ~HandlingState(g, "InUse") /\ ~HandlingState(g, "Inspecting")
      /\ ~HandlingState(g, "Ready")
  BY <1>1 DEF HandlingState, Untouched
<1>4. CASE UNCHANGED <<hosts, cache, servers>> /\ (DropView(t) \/ UNCHANGED view)
  BY <1>1, <1>4, DropUntouched DEF HostsUntouched, NoOverride, Untouched
<1>5. CASE /\ UNCHANGED <<hosts, cache, servers>>
           /\ \E h \in Hosts : GetHost(t, g, h)
  BY <1>1, <1>5, GetUntouched DEF NoOverride
<1>6. CASE ReleaseHost(g)
  BY <1>1, <1>6, UnwiredEdits, UpdateUntouched DEF ReleaseHost, NoOverride
<1> QED
  BY <1>1, <1>2, <1>3, <1>4, <1>5, <1>6 DEF MachineContinue, MachineStep,
    GetAssociatedHost, HasAssociatedHost, ChooseHost, NoHostAvailable, HandleReadyHost,
    HandleErrorHost, HandleIntermediateHost, ReportMachine, InspectionTimeout,
    InspectionInProgress, InspectionRejected, InspectionAccepted, BootFails, SetPXE,
    NothingToRelease, GetHostToRelease, NamedHostIsOurs, NamedHostFound, Patch

(* The inspection handler writes the report only.                          *)
LEMMA HandlersUnwired ==
  ASSUME LifecycleInv, HostsUntouched, NoOverride, NEW r \in Requests, Handlers(r)
  PROVE  HostsUntouched' /\ NoOverride'
<1> DEFINE t == Handler(r)
<1>1. /\ HostSideOK /\ CopiesAreCurrent /\ t \in Threads
      /\ view[t].object \in HostObject /\ Untouched(view[t].object)
      /\ servers \in [Hosts -> Server]
  BY TypeParts, WorkerThreads DEF LifecycleInv, HostSideOK, View, HostsUntouched,
     BareMetalTypeOK
<1>2. Handling(r) => requests[r].host \in Hosts /\ requests[r].manager \in Managers
  BY TypeParts DEF LifecycleInv, InspectionHandlerTypeOK, Request, NoRequest, Handling
<1>3. NoOverride'
  <2>1. \/ UNCHANGED servers
        \/ \E h, i : servers' = [servers EXCEPT ![h].image = i]
    BY DEF Handlers, ReportPost, PostReport, ReportHandle, GetReportedHost, StoreReport,
           AnswerOK, AnswerError, Answer
  <2>2. ASSUME NEW h, NEW i, servers' = [servers EXCEPT ![h].image = i], NEW k \in Hosts
        PROVE  servers'[k].pxe = servers[k].pxe
    BY <1>1, <2>2 DEF Server
  <2> QED
    BY <2>1, <2>2 DEF NoOverride
<1>4. CASE UNCHANGED <<hosts, cache, view>>
  BY <1>3, <1>4 DEF HostsUntouched, Untouched
<1>5. CASE \E h \in Hosts, g \in Managers : GetHost(t, g, h) /\ UNCHANGED <<hosts, cache>>
  BY <1>1, <1>3, <1>5, GetUntouched
<1>6. CASE StoreReport(r)
  BY <1>1, <1>3, <1>6, UnwiredEdits, UpdateUntouched DEF StoreReport
<1> QED
  BY <1>2, <1>3, <1>4, <1>5, <1>6
  DEF Handlers, ReportPost, PostReport, ReportHandle, GetReportedHost

(* Deletion and creation of a PhysicalHost.                                *)
LEMMA UsersUnwired ==
  ASSUME LifecycleInv, HostsUntouched, Users
  PROVE  HostsUntouched'
<1>1. HostSideOK
  BY TypeParts DEF LifecycleInv
<1>2. CASE UNCHANGED <<hosts, cache, view>>
  BY <1>2 DEF HostsUntouched, Untouched
<1>3. ASSUME NEW h \in Hosts, DeleteHost(h) \/ CreateHost(h)
      PROVE  HostsUntouched'
  <2>1. PICK new \in {[hosts[h] EXCEPT !.deleting = TRUE], AbsentHost, NewHost} :
          StoreHost(h, new) /\ view' = [t \in Threads |-> Outdated(h, t)]
    BY <1>3 DEF DeleteHost, CreateHost, ReplaceHost
  <2>2. hosts[h] \in HostObject /\ Untouched(hosts[h])
    BY <1>1 DEF HostSideOK, HostsUntouched
  <2>3. Untouched(new)
    BY <2>1, <2>2, CopyUntouched, UnwiredEdits
  <2> QED
    BY <1>1, <2>1, <2>3, StoreUntouched
<1> QED
  BY <1>2, <1>3 DEF Users, CreateMachine, AdoptMachine, BindMachine, PauseMachine,
                    DeleteMachine

(* Power switches, time and restarts.                                      *)
LEMMA WorldUnwired ==
  ASSUME LifecycleInv, HostsUntouched, NoOverride, World
  PROVE  HostsUntouched' /\ NoOverride'
<1>1. HostSideOK /\ servers \in [Hosts -> Server]
  BY TypeParts DEF LifecycleInv, BareMetalTypeOK
<1>2. ASSUME NEW h \in Hosts, Expire(h) \/ SwitchPower(h)
      PROVE  HostsUntouched' /\ NoOverride'
  <2>1. HostsUntouched'
    BY <1>2 DEF Expire, SwitchPower, HostsUntouched, Untouched
  <2>2. \/ UNCHANGED servers
        \/ \E s \in Server : s.pxe \in {FALSE, servers[h].pxe}
                              /\ servers' = [servers EXCEPT ![h] = s]
    <3>1. servers[h] \in Server
      BY <1>1
    <3>2. CASE PowerOn(h)
      BY <3>1, <3>2 DEF PowerOn, Server, Images
    <3>3. CASE PowerOff(h)
      <4> DEFINE s == [servers[h] EXCEPT !.on = FALSE, !.image = "none"]
      <4>1. s \in Server /\ s.pxe = servers[h].pxe
        BY <3>1 DEF Server, Images
      <4>2. servers' = [servers EXCEPT ![h] = s]
        BY <3>3 DEF PowerOff
      <4> QED
        BY <4>1, <4>2
    <3> QED
      BY <1>2, <3>2, <3>3 DEF Expire, SwitchPower
  <2>3. NoOverride'
    BY <1>1, <2>2 DEF NoOverride
  <2> QED
    BY <2>1, <2>3
<1>3. ASSUME NEW g \in Managers, Restart(g)
      PROVE  HostsUntouched' /\ NoOverride'
  <2>1. \A t \in Threads : view'[t] \in {NoView, view[t]}
    BY <1>3 DEF Restart
  <2>2. \A k \in Managers : cache'[k] = IF k = g
          THEN [h \in Hosts |-> [object |-> hosts[h], current |-> TRUE]] ELSE cache[k]
    BY <1>1, <1>3 DEF Restart, HostSideOK
  <2>3. Untouched(NoView.object)
    BY DEF Untouched, NoView, AbsentHost
  <2>4. HostsUntouched'
    BY <1>3, <2>1, <2>2, <2>3 DEF Restart, HostsUntouched, Untouched
  <2>5. NoOverride'
    BY <1>1, <1>3 DEF Restart, NoOverride, Server
  <2> QED
    BY <2>4, <2>5
<1> QED
  BY <1>2, <1>3 DEF World

(* Every step keeps every copy of every host untouched.                    *)
LEMMA UnwiredStep ==
  ASSUME ~FactorySet, LifecycleInv, HostsUntouched, NoOverride, [Next]_vars
  PROVE  HostsUntouched' /\ NoOverride'
<1>1. HostSideOK
  BY TypeParts DEF LifecycleInv
<1>2. CASE UNCHANGED vars
  BY <1>2 DEF vars, HostsUntouched, Untouched, NoOverride
<1>3. ASSUME NEW g \in Managers, Controllers(g)
      PROVE  HostsUntouched' /\ NoOverride'
  <2>1. ASSUME NEW h \in Hosts, HostReconcile(g, h)
        PROVE  HostsUntouched' /\ NoOverride'
    BY <1>1, <2>1, GetUntouched, WorkerThreads
    DEF HostReconcile, ReconcileHost, HostControllerLeaves, NoOverride
  <2>2. ASSUME NEW h \in Hosts, CacheSync(g, h)
        PROVE  HostsUntouched' /\ NoOverride'
    <3>1. \A k \in Managers, i \in Hosts :
            cache'[k][i].object \in {cache[k][i].object, hosts[i]}
      BY <1>1, <2>2 DEF CacheSync, Sync, HostSideOK
    <3> QED
      BY <2>2, <3>1
      DEF CacheSync, Sync, UserLeaves, HostsUntouched, Untouched, NoOverride
  <2>3. CASE HostContinue(g)
    BY <2>3, HostStepUnwired DEF HostContinue, HostControllerLeaves, NoOverride
  <2>4. ASSUME NEW m \in Machines, MachineReconcile(g, m) \/ MachineCacheSync(g, m)
        PROVE  HostsUntouched' /\ NoOverride'
    BY <2>4 DEF MachineReconcile, ReconcileMachine, MachineCacheSync, SyncMachine,
                UserLeaves, HostsUntouched, Untouched, NoOverride
  <2> QED
    BY <1>3, <2>1, <2>2, <2>3, <2>4, MachineStepUnwired DEF Controllers
<1>4. CASE Users
  <2>1. UNCHANGED servers
    BY <1>4 DEF Users, CreateMachine, AdoptMachine, BindMachine, PauseMachine,
                DeleteMachine, DeleteHost, CreateHost, ReplaceHost, UserLeaves
  <2> QED
    BY <1>4, <2>1, UsersUnwired DEF NoOverride
<1> QED
  BY <1>2, <1>3, <1>4, HandlersUnwired, WorldUnwired DEF Next

(* As cmd/manager/main.go wires the reconcilers, without a                 *)
(* RedfishClientFactory, no host of any deployment is ever usable or       *)
(* claimed and no server is told to boot from the network, whatever the    *)
(* operators do and however often the managers restart.                    *)
THEOREM NothingEverWorksUnwired == Spec => []NothingWorksUnwired
<1> DEFINE Inv == ~FactorySet => HostsUntouched /\ NoOverride
<1>1. Init => Inv
  <2>1. Untouched(NewHost) /\ Untouched(NoView.object)
    BY DEF Untouched, NewHost, NoView, AbsentHost
  <2> QED
    BY <2>1 DEF Init, ResourcesInit, BareMetalInit, HostsUntouched, NoOverride
<1>2. LifecycleInv /\ Inv /\ [Next]_vars => Inv'
  BY UnwiredStep
<1>3. Inv => NothingWorksUnwired
  BY DEF NothingWorksUnwired, HostsUntouched, NoOverride, Untouched
<1> QED
  BY <1>1, <1>2, <1>3, LifecycleInit, LifecycleNext, PTL DEF Spec
=============================================================================
