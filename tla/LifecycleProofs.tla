-------------------------- MODULE LifecycleProofs --------------------------
(***************************************************************************)
(* Beskar7 implements HostLifecycle.  A write of a host is accepted only   *)
(* if the writer's copy is the stored object, so what the writer knew of   *)
(* its copy holds of the host at the moment of the write.  The inductive   *)
(* invariant says just that: which copies are current, and what the worker *)
(* of the machine reconciler knows of its copy at each of its steps.       *)
(***************************************************************************)
EXTENDS Beskar7Proofs

WorkerKnows ==
  \A g \in Managers :
    /\ ~At(g, "idle") => workers[g].machine \in Machines
    /\ At(g, "claim") => Claimable(HostCopy(g))
    /\ At(g, "power") \/ At(g, "inspect") => HostCopy(g).state = "InUse"

LifecycleInv == TypeOK /\ CopiesAreCurrent /\ WorkerKnows

-----------------------------------------------------------------------------
(* Copies stay current or are marked outdated.                             *)

(* A copy read from the cache is as current as the cache is.               *)
LEMMA GetKeepsCopies ==
  ASSUME HostSideOK, CopiesAreCurrent, NEW t \in Threads, NEW g \in Managers,
         NEW h \in Hosts, GetHost(t, g, h), UNCHANGED <<hosts, cache>>
  PROVE  CopiesAreCurrent'
<1>1. ASSUME NEW u \in Threads, view'[u].current
      PROVE  view'[u].host \in Hosts /\ view'[u].object = hosts[view'[u].host]
  <2>1. CASE u = t
    <3>1. view'[t] = CopyOf(t, h, cache[g][h].object, cache[g][h].current)
      BY DEF GetHost, HostSideOK
    <3> QED
      BY <1>1, <2>1, <3>1 DEF CopyOf, CopiesAreCurrent
  <2>2. CASE u # t
    BY <1>1, <2>2 DEF GetHost, HostSideOK, CopiesAreCurrent
  <2> QED
    BY <2>1, <2>2
<1> QED
  BY <1>1 DEF CopiesAreCurrent

(* A copy that is dropped is not current.                                  *)
LEMMA DropKeepsCopies ==
  ASSUME HostSideOK, CopiesAreCurrent, NEW t \in Threads, DropView(t),
         UNCHANGED <<hosts, cache>>
  PROVE  CopiesAreCurrent'
BY DEF CopiesAreCurrent, DropView, HostSideOK, NoView

(* A store of host h outdates the copies of h and no others.               *)
LEMMA StoreKeepsCopies ==
  ASSUME HostSideOK, CopiesAreCurrent, NEW h \in Hosts, NEW new, StoreHost(h, new),
         \A u \in Threads : view'[u] \in {NoView, Outdated(h, u)}
  PROVE  CopiesAreCurrent'
<1>1. ASSUME NEW g \in Managers, NEW i \in Hosts, cache'[g][i].current
      PROVE  cache'[g][i].object = hosts'[i]
  <2>1. cache'[g] = [cache[g] EXCEPT ![h].current = FALSE]
    BY DEF StoreHost
  <2>2. cache[g] \in [Hosts -> CacheEntry]
    BY DEF HostSideOK
  <2>3. i # h
    BY <1>1, <2>1, <2>2 DEF CacheEntry
  <2>4. cache'[g][i] = cache[g][i] /\ hosts'[i] = hosts[i]
    BY <2>1, <2>2, <2>3 DEF HostSideOK, StoreHost
  <2> QED
    BY <1>1, <2>4 DEF CopiesAreCurrent
<1>2. ASSUME NEW u \in Threads, view'[u].current
      PROVE  view'[u].host \in Hosts /\ view'[u].object = hosts'[view'[u].host]
  <2>1. view'[u] = Outdated(h, u)
    BY <1>2 DEF NoView
  <2>2. view[u].host # h /\ view'[u] = view[u]
    BY <1>2, <2>1 DEF Outdated, CopyOf
  <2> QED
    BY <1>2, <2>2 DEF CopiesAreCurrent, StoreHost, HostSideOK
<1> QED
  BY <1>1, <1>2 DEF CopiesAreCurrent

(* An update by the holder of a copy is refused, changes nothing, or is a  *)
(* store of the host as the holder knows it.                               *)
LEMMA UpdateCases ==
  ASSUME HostSideOK, CopiesAreCurrent, NEW t \in Threads, NEW new, NEW touch,
         UpdateHost(t, new, touch)
  PROVE  \/ DropView(t) /\ UNCHANGED <<hosts, cache>>
         \/ /\ view[t].host \in Hosts
            /\ view[t].object = hosts[view[t].host]
            /\ StoreHost(view[t].host, new)
            /\ \A u \in Threads : view'[u] = IF u = t THEN NoView
                                             ELSE Outdated(view[t].host, u)
<1>1. ~Conflict(t) => view[t].host \in Hosts /\ view[t].object = hosts[view[t].host]
  BY DEF Conflict, CopiesAreCurrent
<1> QED
  BY <1>1 DEF UpdateHost

(* An update, whatever becomes of it.                                      *)
LEMMA UpdateKeepsCopies ==
  ASSUME HostSideOK, CopiesAreCurrent, NEW t \in Threads, NEW new, NEW touch,
         UpdateHost(t, new, touch)
  PROVE  CopiesAreCurrent'
BY UpdateCases, DropKeepsCopies, StoreKeepsCopies

-----------------------------------------------------------------------------
(* The worker's copy is its own.                                           *)

(* No two workers or request goroutines are the same thread.               *)
LEMMA ThreadsDiffer ==
  /\ \A g, k \in Managers : /\ HostWorker(g) # MachineWorker(k)
                            /\ MachineWorker(g) = MachineWorker(k) => g = k
  /\ \A g \in Managers, r \in Requests : Handler(r) # MachineWorker(g)
  /\ \A g \in Managers : MachineWorker(g)[1] = "machine"
BY DEF HostWorker, MachineWorker, Handler

(* A machine worker goes on looking at a copy that became outdated.        *)
LEMMA OutdatedKeepsObject ==
  ASSUME NEW g \in Managers, NEW h
  PROVE  Outdated(h, MachineWorker(g)).object = view[MachineWorker(g)].object
BY ThreadsDiffer DEF Outdated, CopyOf

(* What other threads do leaves the object in the worker's copy alone.     *)
LEMMA OthersKeepCopy ==
  ASSUME HostSideOK, CopiesAreCurrent, NEW g \in Managers, NEW t \in Threads,
         t # MachineWorker(g),
         \/ DropView(t)
         \/ \E k \in Managers, h \in Hosts : GetHost(t, k, h)
         \/ \E new, touch : UpdateHost(t, new, touch)
  PROVE  HostCopy(g)' = HostCopy(g)
<1>1. MachineWorker(g) \in Threads
  BY WorkerThreads
<1>2. CASE DropView(t) \/ \E k \in Managers, h \in Hosts : GetHost(t, k, h)
  BY <1>1, <1>2 DEF DropView, GetHost, HostCopy, HostSideOK
<1>3. CASE \E new, touch : UpdateHost(t, new, touch)
  <2>1. PICK new, touch : UpdateHost(t, new, touch)
    BY <1>3
  <2>2. CASE DropView(t)
    BY <1>1, <2>2 DEF DropView, HostCopy, HostSideOK
  <2>3. CASE view'[MachineWorker(g)] = Outdated(view[t].host, MachineWorker(g))
    BY <2>3, OutdatedKeepsObject DEF HostCopy
  <2> QED
    BY <1>1, <2>1, <2>2, <2>3, UpdateCases
<1> QED
  BY <1>2, <1>3

(* An outdated copy is a copy of the same host.                            *)
LEMMA OutdatedKeepsHost ==
  ASSUME NEW h, NEW t
  PROVE  Outdated(h, t).host = view[t].host
BY DEF Outdated, CopyOf

(* What other threads do does not change which host a copy is of.          *)
LEMMA OthersKeepHost ==
  ASSUME HostSideOK, CopiesAreCurrent, NEW u \in Threads, NEW t \in Threads, t # u,
         \/ DropView(t)
         \/ \E g \in Managers, h \in Hosts : GetHost(t, g, h)
         \/ \E new, touch : UpdateHost(t, new, touch)
  PROVE  view'[u].host = view[u].host
<1>1. CASE DropView(t) \/ \E g \in Managers, h \in Hosts : GetHost(t, g, h)
  BY <1>1 DEF DropView, GetHost, HostSideOK
<1>2. CASE \E new, touch : UpdateHost(t, new, touch)
  <2>1. PICK new, touch : UpdateHost(t, new, touch)
    BY <1>2
  <2>2. CASE DropView(t)
    BY <2>2 DEF DropView, HostSideOK
  <2>3. CASE view'[u] = Outdated(view[t].host, u)
    BY <2>3, OutdatedKeepsHost
  <2> QED
    BY <2>1, <2>2, <2>3, UpdateCases
<1> QED
  BY <1>1, <1>2

-----------------------------------------------------------------------------
(* The invariant is inductive.                                             *)

(* It holds in the initial state.                                          *)
LEMMA LifecycleInit == Init => LifecycleInv
<1> SUFFICES ASSUME Init PROVE LifecycleInv
  OBVIOUS
<1>1. CopiesAreCurrent
  BY DEF Init, ResourcesInit, CopiesAreCurrent, NoView
<1>2. WorkerKnows
  BY DEF Init, MachineControllerInit, WorkerKnows, At, Idle
<1> QED
  BY <1>1, <1>2, TypeInit DEF LifecycleInv

(* A step that leaves the workers and their copies alone.                  *)
LEMMA KnowsKept ==
  ASSUME WorkerKnows, UNCHANGED workers,
         \A g \in Managers : HostCopy(g)' = HostCopy(g)
  PROVE  WorkerKnows'
BY DEF WorkerKnows, At, Claimable

(* A step of worker g is only about what worker g knows.                   *)
LEMMA KnowsOfOne ==
  ASSUME WorkerKnows, NEW g \in Managers,
         \A k \in Managers \ {g} : /\ workers'[k] = workers[k]
                                   /\ HostCopy(k)' = HostCopy(k),
         (~At(g, "idle"))' => workers'[g].machine \in Machines,
         At(g, "claim")' => Claimable(HostCopy(g)'),
         At(g, "power")' \/ At(g, "inspect")' => HostCopy(g)'.state = "InUse"
  PROVE  WorkerKnows'
<1> SUFFICES ASSUME NEW k \in Managers
             PROVE  /\ (~At(k, "idle"))' => workers'[k].machine \in Machines
                    /\ At(k, "claim")' => Claimable(HostCopy(k)')
                    /\ At(k, "power")' \/ At(k, "inspect")' => HostCopy(k)'.state = "InUse"
  BY DEF WorkerKnows, Claimable
<1>1. CASE k = g
  BY <1>1
<1>2. CASE k # g
  BY <1>2 DEF WorkerKnows, At
<1> QED
  BY <1>1, <1>2

(* The PhysicalHost reconciler updates or drops its own copy.              *)
LEMMA HostStepInv ==
  ASSUME LifecycleInv, NEW g \in Managers, HostContinue(g)
  PROVE  CopiesAreCurrent' /\ WorkerKnows'
<1> DEFINE t == HostWorker(g)
<1>1. HostSideOK /\ CopiesAreCurrent /\ WorkerKnows /\ t \in Threads
  BY TypeParts, WorkerThreads DEF LifecycleInv
<1>2. \/ DropView(t) /\ UNCHANGED <<hosts, cache>>
      \/ \E new, touch : UpdateHost(t, new, touch)
  BY DEF HostContinue, HostStep, AddHostFinalizer, HostUnreachable, HostReachable,
         HostFactoryPanic, DeleteHostFinalizer
<1>3. CopiesAreCurrent'
  BY <1>1, <1>2, DropKeepsCopies, UpdateKeepsCopies
<1>4. \A k \in Managers : HostCopy(k)' = HostCopy(k)
  BY <1>1, <1>2, ThreadsDiffer, OthersKeepCopy
<1>5. WorkerKnows'
  BY <1>1, <1>4, KnowsKept DEF HostContinue, HostControllerLeaves
<1> QED
  BY <1>3, <1>5

(* The PhysicalHost reconciler reads a host.                               *)
LEMMA HostReconcileInv ==
  ASSUME LifecycleInv, NEW g \in Managers, NEW h \in Hosts, HostReconcile(g, h)
  PROVE  CopiesAreCurrent' /\ WorkerKnows'
<1> DEFINE t == HostWorker(g)
<1>1. HostSideOK /\ CopiesAreCurrent /\ WorkerKnows /\ t \in Threads
  BY TypeParts, WorkerThreads DEF LifecycleInv
<1>2. GetHost(t, g, h) /\ UNCHANGED <<hosts, cache, workers>>
  BY DEF HostReconcile, ReconcileHost, HostControllerLeaves
<1>3. CopiesAreCurrent'
  BY <1>1, <1>2, GetKeepsCopies
<1>4. \A k \in Managers : HostCopy(k)' = HostCopy(k)
  BY <1>1, <1>2, ThreadsDiffer, OthersKeepCopy
<1> QED
  BY <1>1, <1>2, <1>3, <1>4, KnowsKept

(* The inspection handler reads a host and stores a report.                *)
LEMMA HandlersInv ==
  ASSUME LifecycleInv, NEW r \in Requests, Handlers(r)
  PROVE  CopiesAreCurrent' /\ WorkerKnows'
<1> DEFINE t == Handler(r)
<1>1. HostSideOK /\ CopiesAreCurrent /\ WorkerKnows /\ t \in Threads
  BY TypeParts, WorkerThreads DEF LifecycleInv
<1>2. Handling(r) => requests[r].host \in Hosts /\ requests[r].manager \in Managers
  BY TypeParts DEF LifecycleInv, InspectionHandlerTypeOK, Request, NoRequest, Handling
<1>3. UNCHANGED workers
  BY DEF Handlers, ReportPost, ReportHandle
<1>4. CASE UNCHANGED <<hosts, cache, view>>
  <2>1. \A k \in Managers : HostCopy(k)' = HostCopy(k)
    BY <1>4 DEF HostCopy
  <2> QED
    BY <1>1, <1>3, <1>4, <2>1, KnowsKept DEF CopiesAreCurrent
<1>5. CASE \E h \in Hosts, g \in Managers : GetHost(t, g, h) /\ UNCHANGED <<hosts, cache>>
  <2>1. \A k \in Managers : HostCopy(k)' = HostCopy(k)
    BY <1>1, <1>5, ThreadsDiffer, OthersKeepCopy
  <2> QED
    BY <1>1, <1>3, <1>5, <2>1, KnowsKept, GetKeepsCopies
<1>6. CASE \E new, touch : UpdateHost(t, new, touch)
  <2>1. \A k \in Managers : HostCopy(k)' = HostCopy(k)
    BY <1>1, <1>6, ThreadsDiffer, OthersKeepCopy
  <2> QED
    BY <1>1, <1>3, <1>6, <2>1, KnowsKept, UpdateKeepsCopies
<1>7. CASE \E h \in Hosts, report \in Reports, g \in Managers : ReportPost(r, h, report, g)
  BY <1>4, <1>7 DEF ReportPost, PostReport
<1>8. CASE ReportHandle(r)
  BY <1>2, <1>4, <1>5, <1>6, <1>8 DEF ReportHandle, GetReportedHost, StoreReport
<1> QED
  BY <1>7, <1>8 DEF Handlers

(* What worker g does leaves the other workers and their copies alone.     *)
LEMMA MachineStepOthers ==
  ASSUME LifecycleInv, NEW g \in Managers,
         MachineStep(g) \/ \E m \in Machines : ReconcileMachine(g, m)
  PROVE  \A k \in Managers \ {g} : /\ workers'[k] = workers[k]
                                   /\ HostCopy(k)' = HostCopy(k)
                                   /\ Host(k)' = Host(k)
<1> DEFINE t == MachineWorker(g)
<1>1. /\ HostSideOK /\ CopiesAreCurrent /\ t \in Threads
      /\ workers \in [Managers -> Worker]
  BY TypeParts, WorkerThreads DEF LifecycleInv, MachineControllerTypeOK
<1>2. \E w : workers' = [workers EXCEPT ![g] = w]
  BY <1>1 DEF MachineStep, ReconcileMachine, GetAssociatedHost, ChooseHost, NoHostAvailable,
    ClaimHost, HandleReadyHost, HandleErrorHost, HandleIntermediateHost, ReportMachine,
    InspectionTimeout, InspectionInProgress, InspectionRejected, InspectionAccepted,
    BootFails, SetPXE, SetPower, StartInspection, NothingToRelease, GetHostToRelease,
    ReleaseHost, Patch, GoTo
<1>3. workers[g].old.providerID \in Hosts \cup {None}
  BY <1>1 DEF Worker, MachineObject
<1>4. \/ UNCHANGED view
      \/ DropView(t)
      \/ \E h \in Hosts : GetHost(t, g, h)
      \/ \E new, touch : UpdateHost(t, new, touch)
  BY <1>3 DEF MachineStep, ReconcileMachine, GetAssociatedHost, HasAssociatedHost, ChooseHost,
    NoHostAvailable, ClaimHost, HandleReadyHost, HandleErrorHost, HandleIntermediateHost,
    ReportMachine, InspectionTimeout, InspectionInProgress, InspectionRejected,
    InspectionAccepted, BootFails, SetPXE, SetPower, StartInspection, NothingToRelease,
    GetHostToRelease, NamedHostIsOurs, NamedHostFound, ReleaseHost, Patch
<1> SUFFICES ASSUME NEW k \in Managers \ {g}
             PROVE  /\ workers'[k] = workers[k]
                    /\ HostCopy(k)' = HostCopy(k) /\ Host(k)' = Host(k)
  OBVIOUS
<1>5. t # MachineWorker(k) /\ MachineWorker(k) \in Threads
  BY ThreadsDiffer, WorkerThreads
<1>6. HostCopy(k)' = HostCopy(k) /\ Host(k)' = Host(k)
  <2>1. CASE UNCHANGED view
    BY <2>1 DEF HostCopy, Host
  <2>2. CASE \/ DropView(t)
             \/ \E h \in Hosts : GetHost(t, g, h)
             \/ \E new, touch : UpdateHost(t, new, touch)
    <3>1. HostCopy(k)' = HostCopy(k)
      BY <1>1, <1>5, <2>2, OthersKeepCopy
    <3>2. view'[MachineWorker(k)].host = view[MachineWorker(k)].host
      BY <1>1, <1>5, <2>2, OthersKeepHost
    <3> QED
      BY <3>1, <3>2 DEF Host
  <2> QED
    BY <1>4, <2>1, <2>2
<1> QED
  BY <1>1, <1>2, <1>6

(* The machine reconciler, step by step: it claims what it chose as free   *)
(* and Available, and begins inspecting what it saw InUse.                 *)
LEMMA MachineStepInv ==
  ASSUME LifecycleInv, NEW g \in Managers, MachineStep(g)
  PROVE  CopiesAreCurrent' /\ WorkerKnows'
<1> DEFINE t == MachineWorker(g)
<1>1. /\ HostSideOK /\ CopiesAreCurrent /\ WorkerKnows /\ t \in Threads
      /\ workers \in [Managers -> Worker]
  BY TypeParts, WorkerThreads DEF LifecycleInv, MachineControllerTypeOK
<1>2. \A k \in Managers \ {g} : /\ workers'[k] = workers[k]
                                /\ HostCopy(k)' = HostCopy(k)
  BY MachineStepOthers
<1>3. workers[g].old.providerID \in Hosts \cup {None}
  BY <1>1 DEF Worker, MachineObject
<1>4. ASSUME NEW step, NEW new, GoTo(g, step, new)
      PROVE  /\ workers'[g].step = step
             /\ workers'[g].machine = workers[g].machine
  BY <1>1, <1>4 DEF GoTo, Worker
<1>5. ASSUME NEW new, GoTo(g, "patch", new), ~At(g, "idle")
      PROVE  WorkerKnows'
  <2>1. /\ workers'[g].step = "patch"
        /\ workers'[g].machine \in Machines
    BY <1>1, <1>4, <1>5 DEF WorkerKnows
  <2> QED
    BY <1>1, <1>2, <2>1, KnowsOfOne DEF At
<1>6. CASE GetAssociatedHost(g)
  <2>1. CopiesAreCurrent'
    BY <1>1, <1>3, <1>6, GetKeepsCopies
    DEF GetAssociatedHost, HasAssociatedHost, LocalHosts
  <2>2. workers'[g].step = "handle" /\ workers'[g].machine \in Machines
    BY <1>1, <1>4, <1>6 DEF GetAssociatedHost, WorkerKnows, At
  <2> QED
    BY <1>1, <1>2, <2>1, <2>2, KnowsOfOne DEF At
<1>7. CASE \E h \in Hosts : ChooseHost(g, h)
  <2>1. PICK h \in Hosts : ChooseHost(g, h)
    BY <1>7
  <2>2. CopiesAreCurrent'
    BY <1>1, <2>1, GetKeepsCopies DEF ChooseHost
  <2>3. workers'[g].step = "claim" /\ workers'[g].machine \in Machines
    BY <1>1, <1>4, <2>1 DEF ChooseHost, WorkerKnows, At
  <2>4. HostCopy(g)' = cache[g][h].object
    BY <1>1, <2>1, ThreadsDiffer DEF ChooseHost, GetHost, CopyOf, HostCopy, HostSideOK
  <2>5. Claimable(HostCopy(g)')
    BY <2>1, <2>4 DEF ChooseHost
  <2> QED
    BY <1>1, <1>2, <2>2, <2>3, <2>5, KnowsOfOne DEF At
<1>8. CASE NoHostAvailable(g) \/ NothingToRelease(g)
  <2>1. CopiesAreCurrent'
    BY <1>1, <1>8 DEF NoHostAvailable, NothingToRelease, CopiesAreCurrent
  <2> QED
    BY <1>5, <1>8, <2>1 DEF NoHostAvailable, NothingToRelease, At
<1>9. CASE \/ ClaimHost(g) \/ InspectionTimeout(g) \/ InspectionAccepted(g)
           \/ StartInspection(g) \/ ReleaseHost(g)
  <2>1. \E new, touch : UpdateHost(t, new, touch)
    BY <1>9 DEF ClaimHost, InspectionTimeout, InspectionAccepted, StartInspection, ReleaseHost
  <2>2. CopiesAreCurrent'
    BY <1>1, <2>1, UpdateKeepsCopies
  <2>3. ~At(g, "idle") /\ \E new : GoTo(g, "patch", new)
    BY <1>9 DEF ClaimHost, InspectionTimeout, InspectionAccepted, StartInspection,
                ReleaseHost, HandlingState, At
  <2> QED
    BY <1>5, <2>2, <2>3
<1>10. CASE \/ HandleReadyHost(g) \/ HandleErrorHost(g) \/ HandleIntermediateHost(g)
            \/ InspectionInProgress(g) \/ InspectionRejected(g) \/ BootFails(g)
  <2>1. DropView(t) /\ UNCHANGED <<hosts, cache>>
    BY <1>10 DEF HandleReadyHost, HandleErrorHost, HandleIntermediateHost,
                 InspectionInProgress, InspectionRejected, BootFails, ReportMachine
  <2>2. CopiesAreCurrent'
    BY <1>1, <2>1, DropKeepsCopies
  <2>3. ~At(g, "idle") /\ \E new : GoTo(g, "patch", new)
    BY <1>10 DEF HandleReadyHost, HandleErrorHost, HandleIntermediateHost,
                 InspectionInProgress, InspectionRejected, BootFails, ReportMachine,
                 HandlingState, At
  <2> QED
    BY <1>5, <2>2, <2>3
<1>11. CASE SetPXE(g) \/ SetPower(g)
  <2>1. CopiesAreCurrent' /\ HostCopy(g)' = HostCopy(g)
    BY <1>1, <1>11 DEF SetPXE, SetPower, CopiesAreCurrent, HostCopy
  <2>2. HostCopy(g).state = "InUse"
    BY <1>1, <1>11 DEF SetPXE, SetPower, HandlingState, WorkerKnows
  <2>3. /\ workers'[g].step \in {"power", "inspect"}
        /\ workers'[g].machine \in Machines
    BY <1>1, <1>4, <1>11 DEF SetPXE, SetPower, HandlingState, WorkerKnows, At
  <2> QED
    BY <1>1, <1>2, <2>1, <2>2, <2>3, KnowsOfOne DEF At
<1>12. CASE GetHostToRelease(g)
  <2>1. CopiesAreCurrent'
    BY <1>1, <1>3, <1>12, GetKeepsCopies
    DEF GetHostToRelease, NamedHostIsOurs, NamedHostFound
  <2>2. workers'[g].step = "release" /\ workers'[g].machine \in Machines
    BY <1>1, <1>4, <1>12 DEF GetHostToRelease, WorkerKnows, At
  <2> QED
    BY <1>1, <1>2, <2>1, <2>2, KnowsOfOne DEF At
<1>13. CASE Patch(g)
  <2>1. CopiesAreCurrent'
    BY <1>1, <1>13 DEF Patch, CopiesAreCurrent
  <2>2. workers'[g].step = "idle"
    BY <1>1, <1>13 DEF Patch, Idle
  <2> QED
    BY <1>1, <1>2, <2>1, <2>2, KnowsOfOne DEF At
<1> QED
  BY <1>6, <1>7, <1>8, <1>9, <1>10, <1>11, <1>12, <1>13 DEF MachineStep

(* The machine reconciler takes up a machine.                              *)
LEMMA MachineReconcileInv ==
  ASSUME LifecycleInv, NEW g \in Managers, NEW m \in Machines, MachineReconcile(g, m)
  PROVE  CopiesAreCurrent' /\ WorkerKnows'
<1>1. /\ HostSideOK /\ CopiesAreCurrent /\ WorkerKnows
      /\ workers \in [Managers -> Worker]
  BY TypeParts DEF LifecycleInv, MachineControllerTypeOK
<1>2. \A k \in Managers \ {g} : /\ workers'[k] = workers[k]
                                /\ HostCopy(k)' = HostCopy(k)
  BY MachineStepOthers DEF MachineReconcile
<1>3. /\ workers'[g].step \in {"delete", "find", "patch"}
      /\ workers'[g].machine = m
  BY <1>1 DEF MachineReconcile, ReconcileMachine
<1>4. CopiesAreCurrent'
  BY <1>1 DEF MachineReconcile, ReconcileMachine, CopiesAreCurrent
<1> QED
  BY <1>1, <1>2, <1>3, <1>4, KnowsOfOne DEF At

(* Replacing a host outdates its copies, like a reconciler's update.       *)
LEMMA ReplaceHostInv ==
  ASSUME LifecycleInv, NEW h \in Hosts, NEW new, ReplaceHost(h, new)
  PROVE  CopiesAreCurrent' /\ WorkerKnows'
<1>1. HostSideOK /\ CopiesAreCurrent /\ WorkerKnows
  BY TypeParts DEF LifecycleInv
<1>2. StoreHost(h, new) /\ UNCHANGED workers
  BY DEF ReplaceHost, UserLeaves
<1>3. \A u \in Threads : view'[u] = Outdated(h, u)
  BY DEF ReplaceHost
<1>4. CopiesAreCurrent'
  BY <1>1, <1>2, <1>3, StoreKeepsCopies
<1>5. \A k \in Managers : HostCopy(k)' = HostCopy(k)
  BY <1>3, WorkerThreads, OutdatedKeepsObject DEF HostCopy
<1> QED
  BY <1>1, <1>2, <1>4, <1>5, KnowsKept

(* Cache updates, people and failures of the environment.                  *)
LEMMA SyncInv ==
  ASSUME LifecycleInv, NEW g \in Managers, NEW h \in Hosts, CacheSync(g, h)
  PROVE  CopiesAreCurrent' /\ WorkerKnows'
<1>1. HostSideOK /\ CopiesAreCurrent /\ WorkerKnows
  BY TypeParts DEF LifecycleInv
<1>2. /\ cache' = [cache EXCEPT ![g][h] = [object |-> hosts[h], current |-> TRUE]]
      /\ UNCHANGED <<hosts, view, workers>>
  BY DEF CacheSync, Sync, UserLeaves
<1>3. \A k \in Managers, i \in Hosts :
        cache'[k][i] = IF k = g /\ i = h THEN [object |-> hosts[h], current |-> TRUE]
                       ELSE cache[k][i]
  BY <1>1, <1>2 DEF HostSideOK
<1>4. CopiesAreCurrent'
  BY <1>1, <1>2, <1>3 DEF CopiesAreCurrent
<1>5. \A k \in Managers : HostCopy(k)' = HostCopy(k)
  BY <1>2 DEF HostCopy
<1> QED
  BY <1>1, <1>2, <1>4, <1>5, KnowsKept

(* Steps that have nothing to do with hosts or workers.                    *)
LEMMA NoHostChangeInv ==
  ASSUME LifecycleInv, UNCHANGED <<hosts, cache, view, workers>>
  PROVE  CopiesAreCurrent' /\ WorkerKnows'
<1>1. CopiesAreCurrent /\ WorkerKnows
  BY DEF LifecycleInv
<1>2. CopiesAreCurrent'
  BY <1>1 DEF CopiesAreCurrent
<1>3. \A k \in Managers : HostCopy(k)' = HostCopy(k)
  BY DEF HostCopy
<1> QED
  BY <1>1, <1>2, <1>3, KnowsKept

(* What Cluster API and operators do.                                      *)
LEMMA UsersInv ==
  ASSUME LifecycleInv, Users
  PROVE  CopiesAreCurrent' /\ WorkerKnows'
<1>1. CASE \E m \in Machines :
             \/ \E p \in Hosts \cup {None} : CreateMachine(m, p)
             \/ AdoptMachine(m)
             \/ \E h \in Hosts : BindMachine(m, h)
             \/ PauseMachine(m)
             \/ DeleteMachine(m)
  BY <1>1, NoHostChangeInv DEF CreateMachine, AdoptMachine, BindMachine, PauseMachine,
                               DeleteMachine, UserLeaves
<1>2. CASE \E h \in Hosts : DeleteHost(h) \/ CreateHost(h)
  BY <1>2, ReplaceHostInv DEF DeleteHost, CreateHost
<1> QED
  BY <1>1, <1>2 DEF Users

(* A restarted manager has fresh caches, no copies and an idle worker.     *)
LEMMA RestartInv ==
  ASSUME LifecycleInv, NEW g \in Managers, Restart(g)
  PROVE  CopiesAreCurrent' /\ WorkerKnows'
<1>1. /\ HostSideOK /\ CopiesAreCurrent /\ WorkerKnows
      /\ workers \in [Managers -> Worker]
  BY TypeParts DEF LifecycleInv, MachineControllerTypeOK
<1>2. \A k \in Managers : cache'[k] = IF k = g
        THEN [h \in Hosts |-> [object |-> hosts[h], current |-> TRUE]] ELSE cache[k]
  BY <1>1 DEF Restart, HostSideOK
<1>3. \A t \in Threads : view'[t] \in {NoView, view[t]}
  BY DEF Restart
<1>4. CopiesAreCurrent'
  BY <1>1, <1>2, <1>3 DEF CopiesAreCurrent, NoView, Restart
<1>5. ASSUME NEW k \in Managers \ {g}
      PROVE  workers'[k] = workers[k] /\ HostCopy(k)' = HostCopy(k)
  <2>1. workers'[k] = workers[k]
    BY <1>1 DEF Restart
  <2>2. MachineWorker(k) \notin {HostWorker(g), MachineWorker(g)}
                                   \cup {Handler(r) : r \in Requests}
    BY ThreadsDiffer
  <2>3. view'[MachineWorker(k)] = view[MachineWorker(k)]
    BY <2>2, WorkerThreads DEF Restart
  <2> QED
    BY <2>1, <2>3 DEF HostCopy
<1>6. workers'[g].step = "idle"
  BY <1>1 DEF Restart, Idle
<1> QED
  BY <1>1, <1>4, <1>5, <1>6, KnowsOfOne DEF At

(* Every step keeps the invariant.                                         *)
LEMMA LifecycleNext == LifecycleInv /\ [Next]_vars => LifecycleInv'
<1> SUFFICES ASSUME LifecycleInv, [Next]_vars PROVE CopiesAreCurrent' /\ WorkerKnows'
  BY TypeNext DEF LifecycleInv
<1>1. CASE UNCHANGED vars
  BY <1>1, NoHostChangeInv DEF vars
<1>2. ASSUME NEW g \in Managers, Controllers(g)
      PROVE  CopiesAreCurrent' /\ WorkerKnows'
  <2>1. ASSUME NEW m \in Machines, MachineCacheSync(g, m)
        PROVE  CopiesAreCurrent' /\ WorkerKnows'
    BY <2>1, NoHostChangeInv DEF MachineCacheSync, SyncMachine, UserLeaves
  <2>2. CASE MachineContinue(g)
    BY <2>2, MachineStepInv DEF MachineContinue
  <2> QED
    BY <1>2, <2>1, <2>2, HostReconcileInv, SyncInv, HostStepInv, MachineReconcileInv
    DEF Controllers
<1>3. CASE World
  BY <1>3, NoHostChangeInv, RestartInv DEF World, Expire, SwitchPower
<1> QED
  BY <1>1, <1>2, <1>3, HandlersInv, UsersInv DEF Next

(* The API server never takes an update made from an older object: a copy  *)
(* still good for Update or Status().Update is the stored object.          *)
THEOREM CopiesStayCurrent == Spec => []CopiesAreCurrent
<1>1. LifecycleInv => CopiesAreCurrent
  BY DEF LifecycleInv
<1> QED
  BY <1>1, LifecycleInit, LifecycleNext, PTL DEF Spec

-----------------------------------------------------------------------------
(* Refinement.  What one write may do to a host, as the life cycle sees it: *)
(* one disjunct for each action of HostLifecycle, and one for a stutter.   *)

Reported(object) == object.phase = "Complete"

LifecycleWrite(old, new) ==
  \/ /\ new.consumerRef = old.consumerRef /\ new.state = old.state
     /\ Reported(new) = Reported(old)
  \/ /\ old.consumerRef = None /\ old.state = "Available"
     /\ new.consumerRef \in Machines
     /\ new.state = old.state /\ Reported(new) = Reported(old)
  \/ /\ new.consumerRef = None
     /\ new.state = old.state /\ Reported(new) = Reported(old)
  \/ /\ old.consumerRef = None /\ new.state = "Available"
     /\ new.consumerRef = old.consumerRef /\ Reported(new) = Reported(old)
  \/ /\ old.consumerRef # None /\ old.state \in {"None", "Available", "Error"}
     /\ new.state = "InUse"
     /\ new.consumerRef = old.consumerRef /\ Reported(new) = Reported(old)
  \/ /\ new.state = "Error"
     /\ new.consumerRef = old.consumerRef /\ Reported(new) = Reported(old)
  \/ /\ old.state = "InUse" /\ new.state = "Inspecting"
     /\ ~Reported(new) /\ new.consumerRef = old.consumerRef
  \/ /\ Reported(new)
     /\ new.state = old.state /\ new.consumerRef = old.consumerRef
  \/ /\ old.state = "Inspecting" /\ Reported(old) /\ new.state = "Ready"
     /\ new.consumerRef = old.consumerRef /\ Reported(new) = Reported(old)
  \/ /\ old.state = "Inspecting" /\ new.state = "Error"
     /\ ~Reported(new) /\ new.consumerRef = old.consumerRef
  \/ /\ new.consumerRef = None /\ new.state = "None" /\ ~Reported(new)

Consumers == [h \in Hosts |-> hosts[h].consumerRef]

StatesOf == [h \in Hosts |-> hosts[h].state]

ReportedOf == [h \in Hosts |-> hosts[h].phase = "Complete"]

(* What a store of host h is under the refinement mapping.                 *)
LEMMA StoreMapsTo ==
  ASSUME HostSideOK, NEW h \in Hosts, NEW new, StoreHost(h, new)
  PROVE  /\ Consumers' = [Consumers EXCEPT ![h] = new.consumerRef]
         /\ StatesOf' = [StatesOf EXCEPT ![h] = new.state]
         /\ ReportedOf' = [ReportedOf EXCEPT ![h] = Reported(new)]
         /\ new.consumerRef = hosts[h].consumerRef => Consumers' = Consumers
         /\ new.state = hosts[h].state => StatesOf' = StatesOf
         /\ Reported(new) = Reported(hosts[h]) => ReportedOf' = ReportedOf
<1>1. \A i \in Hosts : hosts'[i] = IF i = h THEN new ELSE hosts[i]
  BY DEF StoreHost, HostSideOK
<1> QED
  BY <1>1 DEF Consumers, StatesOf, ReportedOf, Reported

(* A write that LifecycleWrite allows is a step of HostLifecycle or a      *)
(* stutter.                                                                *)
LEMMA WriteIsLifecycleStep ==
  ASSUME HostSideOK, NEW h \in Hosts, NEW new, StoreHost(h, new),
         LifecycleWrite(hosts[h], new)
  PROVE  [Lifecycle!Next]_(Lifecycle!vars)
<1>1. /\ Consumers' = [Consumers EXCEPT ![h] = new.consumerRef]
      /\ StatesOf' = [StatesOf EXCEPT ![h] = new.state]
      /\ ReportedOf' = [ReportedOf EXCEPT ![h] = Reported(new)]
      /\ new.consumerRef = hosts[h].consumerRef => Consumers' = Consumers
      /\ new.state = hosts[h].state => StatesOf' = StatesOf
      /\ Reported(new) = Reported(hosts[h]) => ReportedOf' = ReportedOf
  BY StoreMapsTo
<1>2. /\ Consumers[h] = hosts[h].consumerRef /\ StatesOf[h] = hosts[h].state
      /\ ReportedOf[h] = Reported(hosts[h])
  BY DEF Consumers, StatesOf, ReportedOf, Reported
<1>3. CASE /\ new.consumerRef = hosts[h].consumerRef /\ new.state = hosts[h].state
           /\ Reported(new) = Reported(hosts[h])
  BY <1>1, <1>3 DEF Lifecycle!vars, Consumers, StatesOf, ReportedOf
<1>4. CASE /\ hosts[h].consumerRef = None /\ hosts[h].state = "Available"
           /\ new.consumerRef \in Machines
           /\ new.state = hosts[h].state /\ Reported(new) = Reported(hosts[h])
  <2>1. Lifecycle!Claim(h, new.consumerRef)
    BY <1>1, <1>2, <1>4 DEF Lifecycle!Claim, Consumers, StatesOf, ReportedOf
  <2> QED
    BY <1>4, <2>1 DEF Lifecycle!Next
<1>5. CASE /\ new.consumerRef = None
           /\ new.state = hosts[h].state /\ Reported(new) = Reported(hosts[h])
  <2>1. Lifecycle!Release(h)
    BY <1>1, <1>5 DEF Lifecycle!Release, Consumers, StatesOf, ReportedOf
  <2> QED
    BY <2>1 DEF Lifecycle!Next
<1>6. CASE /\ hosts[h].consumerRef = None /\ new.state = "Available"
           /\ new.consumerRef = hosts[h].consumerRef /\ Reported(new) = Reported(hosts[h])
  <2>1. Lifecycle!Free(h)
    BY <1>1, <1>2, <1>6 DEF Lifecycle!Free, Lifecycle!Enter, Consumers, StatesOf, ReportedOf
  <2> QED
    BY <2>1 DEF Lifecycle!Next
<1>7. CASE /\ hosts[h].consumerRef # None /\ hosts[h].state \in {"None", "Available", "Error"}
           /\ new.state = "InUse"
           /\ new.consumerRef = hosts[h].consumerRef /\ Reported(new) = Reported(hosts[h])
  <2>1. Lifecycle!Use(h)
    BY <1>1, <1>2, <1>7 DEF Lifecycle!Use, Lifecycle!Enter, Consumers, StatesOf, ReportedOf
  <2> QED
    BY <2>1 DEF Lifecycle!Next
<1>8. CASE /\ new.state = "Error"
           /\ new.consumerRef = hosts[h].consumerRef /\ Reported(new) = Reported(hosts[h])
  <2>1. Lifecycle!Fail(h)
    BY <1>1, <1>8 DEF Lifecycle!Fail, Lifecycle!Enter, Consumers, StatesOf, ReportedOf
  <2> QED
    BY <2>1 DEF Lifecycle!Next
<1>9. CASE /\ hosts[h].state = "InUse" /\ new.state = "Inspecting"
           /\ ~Reported(new) /\ new.consumerRef = hosts[h].consumerRef
  <2>1. Lifecycle!Inspect(h)
    BY <1>1, <1>2, <1>9 DEF Lifecycle!Inspect, Lifecycle!Enter, Consumers, StatesOf,
                            ReportedOf, Reported
  <2> QED
    BY <2>1 DEF Lifecycle!Next
<1>10. CASE /\ Reported(new)
            /\ new.state = hosts[h].state /\ new.consumerRef = hosts[h].consumerRef
  <2>1. Lifecycle!Hear(h)
    BY <1>1, <1>10 DEF Lifecycle!Hear, Consumers, StatesOf, ReportedOf, Reported
  <2> QED
    BY <2>1 DEF Lifecycle!Next
<1>11. CASE /\ hosts[h].state = "Inspecting" /\ Reported(hosts[h]) /\ new.state = "Ready"
            /\ new.consumerRef = hosts[h].consumerRef /\ Reported(new) = Reported(hosts[h])
  <2>1. Lifecycle!Accept(h)
    BY <1>1, <1>2, <1>11 DEF Lifecycle!Accept, Lifecycle!Enter, Consumers, StatesOf,
                             ReportedOf
  <2> QED
    BY <2>1 DEF Lifecycle!Next
<1>12. CASE /\ hosts[h].state = "Inspecting" /\ new.state = "Error"
            /\ ~Reported(new) /\ new.consumerRef = hosts[h].consumerRef
  <2>1. Lifecycle!GiveUp(h)
    BY <1>1, <1>2, <1>12 DEF Lifecycle!GiveUp, Lifecycle!Enter, Consumers, StatesOf,
                             ReportedOf, Reported
  <2> QED
    BY <2>1 DEF Lifecycle!Next
<1>13. CASE new.consumerRef = None /\ new.state = "None" /\ ~Reported(new)
  <2>1. Lifecycle!Remove(h)
    BY <1>1, <1>13 DEF Lifecycle!Remove, Lifecycle!Enter, Consumers, StatesOf, ReportedOf,
                       Reported
  <2> QED
    BY <2>1 DEF Lifecycle!Next
<1> QED
  BY <1>3, <1>4, <1>5, <1>6, <1>7, <1>8, <1>9, <1>10, <1>11, <1>12, <1>13
  DEF LifecycleWrite

(* An update of the holder's copy is a step of the life cycle if what it   *)
(* makes of that copy is.                                                  *)
LEMMA UpdateIsLifecycleStep ==
  ASSUME HostSideOK, CopiesAreCurrent, NEW t \in Threads, NEW new, NEW touch,
         UpdateHost(t, new, touch), LifecycleWrite(view[t].object, new)
  PROVE  [Lifecycle!Next]_(Lifecycle!vars)
<1>1. CASE UNCHANGED hosts
  BY <1>1 DEF Lifecycle!vars
<1>2. CASE /\ view[t].host \in Hosts /\ view[t].object = hosts[view[t].host]
           /\ StoreHost(view[t].host, new)
  BY <1>2, WriteIsLifecycleStep
<1> QED
  BY <1>1, <1>2, UpdateCases

(* The writes of the PhysicalHost reconciler: finalizer, Error, the state  *)
(* that follows the consumerRef, removal.                                  *)
LEMMA HostStepMaps ==
  ASSUME LifecycleInv, NEW g \in Managers, HostContinue(g)
  PROVE  [Lifecycle!Next]_(Lifecycle!vars)
<1> DEFINE t == HostWorker(g)
<1>1. HostSideOK /\ CopiesAreCurrent /\ t \in Threads /\ Copy(g) \in HostObject
  BY TypeParts, WorkerThreads DEF LifecycleInv, HostSideOK, Copy, View
<1>2. Copy(g) = view[t].object
  BY DEF Copy
<1>3. CASE AddHostFinalizer(g)
  <2>1. LifecycleWrite(Copy(g), [Copy(g) EXCEPT !.finalizer = TRUE])
    BY <1>1 DEF LifecycleWrite, Reported, HostObject
  <2> QED
    BY <1>1, <1>2, <1>3, <2>1, UpdateIsLifecycleStep DEF AddHostFinalizer
<1>4. CASE HostUnreachable(g)
  <2>1. LifecycleWrite(Copy(g), ConnectionFailed(Copy(g)))
    <3> DEFINE s == updateStatus(Copy(g), "Error", FALSE, TRUE)
    <3>1. /\ s \in HostObject /\ s.state = "Error"
          /\ s.consumerRef = Copy(g).consumerRef /\ s.phase = Copy(g).phase
      BY <1>1 DEF updateStatus, HostObject, HostStates
    <3> HIDE DEF s
    <3>2. LifecycleWrite(Copy(g), [s EXCEPT !.conditions = @ \ {"RedfishConnectionReady"}])
      BY <3>1 DEF LifecycleWrite, Reported, HostObject
    <3> QED
      BY <3>2 DEF ConnectionFailed, s
  <2>2. PICK touch : UpdateHost(t, ConnectionFailed(Copy(g)), touch)
    BY <1>4 DEF HostUnreachable
  <2> QED
    BY <1>1, <1>2, <2>1, <2>2, UpdateIsLifecycleStep
<1>5. CASE HostReachable(g)
  <2> DEFINE c == Connected(Copy(g))
  <2>1. /\ c \in HostObject /\ c.state = Copy(g).state
        /\ c.consumerRef = Copy(g).consumerRef /\ c.phase = Copy(g).phase
    BY <1>1 DEF Connected, HostObject, HostConditions
  <2> HIDE DEF c
  <2>2. \A s \in HostStates :
          LET u == updateStatus(c, s, TRUE, FALSE) IN
          /\ u \in HostObject /\ u.state = s
          /\ u.consumerRef = Copy(g).consumerRef /\ u.phase = Copy(g).phase
    BY <2>1 DEF updateStatus, HostObject
  <2>3. ASSUME NEW o \in HostObject
        PROVE  LET n == [o EXCEPT !.conditions = @ \cup {"HostAvailable"}] IN
               /\ n.state = o.state /\ n.consumerRef = o.consumerRef
               /\ n.phase = o.phase
    BY DEF HostObject
  <2>4. LifecycleWrite(Copy(g), StateByConsumer(c))
    <3>1. /\ "Available" \in HostStates /\ "InUse" \in HostStates
          /\ Copy(g).state \in HostStates
      BY <1>1 DEF HostStates, HostObject
    <3>2. CASE c.consumerRef # None
      <4>1. CASE c.state \in {"InUse", "Inspecting", "Ready"}
        BY <2>1, <3>2, <4>1 DEF StateByConsumer, LifecycleWrite, Reported
      <4>2. CASE c.state \notin {"InUse", "Inspecting", "Ready"}
        <5>1. Copy(g).state \in {"None", "Available", "Error"}
          BY <2>1, <3>1, <4>2 DEF HostStates
        <5>2. StateByConsumer(c) = updateStatus(c, "InUse", TRUE, FALSE)
          BY <3>2, <4>2 DEF StateByConsumer
        <5> QED
          BY <2>1, <2>2, <3>1, <3>2, <5>1, <5>2 DEF LifecycleWrite, Reported
      <4> QED
        BY <4>1, <4>2
    <3>3. CASE c.consumerRef = None
      <4>1. CASE c.state = "Available"
        BY <2>1, <3>3, <4>1 DEF StateByConsumer, LifecycleWrite, Reported
      <4>2. CASE c.state # "Available"
        <5> DEFINE u == updateStatus(c, "Available", TRUE, FALSE)
                   n == [u EXCEPT !.conditions = @ \cup {"HostAvailable"}]
        <5>1. StateByConsumer(c) = n
          BY <3>3, <4>2 DEF StateByConsumer
        <5>2. /\ n.state = "Available" /\ n.consumerRef = Copy(g).consumerRef
              /\ n.phase = Copy(g).phase
          BY <2>2, <2>3, <3>1
        <5> HIDE DEF n
        <5> QED
          BY <2>1, <3>3, <5>1, <5>2 DEF LifecycleWrite, Reported
      <4> QED
        BY <4>1, <4>2
    <3> QED
      BY <3>2, <3>3
  <2>5. PICK touch : UpdateHost(t, StateByConsumer(c), touch)
    BY <1>5 DEF HostReachable, c
  <2> QED
    BY <1>1, <1>2, <2>4, <2>5, UpdateIsLifecycleStep
<1>6. CASE HostFactoryPanic(g)
  BY <1>6 DEF HostFactoryPanic, Lifecycle!vars
<1>7. CASE DeleteHostFinalizer(g)
  <2>1. CASE UNCHANGED hosts
    BY <2>1 DEF Lifecycle!vars
  <2>2. CASE UpdateHost(t, AbsentHost, FALSE)
    <3>1. LifecycleWrite(Copy(g), AbsentHost)
      BY DEF LifecycleWrite, Reported, AbsentHost
    <3> QED
      BY <1>1, <1>2, <2>2, <3>1, UpdateIsLifecycleStep
  <2> QED
    BY <1>7, <2>1, <2>2 DEF DeleteHostFinalizer
<1> QED
  BY <1>3, <1>4, <1>5, <1>6, <1>7 DEF HostContinue, HostStep

(* The writes of the Beskar7Machine reconciler: claim, time out, accept,   *)
(* begin inspecting, release.                                              *)
LEMMA MachineStepMaps ==
  ASSUME LifecycleInv, NEW g \in Managers, MachineContinue(g)
  PROVE  [Lifecycle!Next]_(Lifecycle!vars)
<1> DEFINE t == MachineWorker(g)
<1>1. /\ HostSideOK /\ CopiesAreCurrent /\ WorkerKnows /\ t \in Threads
      /\ HostCopy(g) \in HostObject
  BY TypeParts, WorkerThreads DEF LifecycleInv, HostSideOK, HostCopy, View
<1>2. HostCopy(g) = view[t].object
  BY DEF HostCopy
<1>3. CASE UNCHANGED hosts
  BY <1>3 DEF Lifecycle!vars
<1>4. CASE ClaimHost(g)
  <2>1. Claimable(HostCopy(g)) /\ workers[g].machine \in Machines
    BY <1>1, <1>4 DEF ClaimHost, WorkerKnows, At
  <2>2. LifecycleWrite(HostCopy(g), [HostCopy(g) EXCEPT !.consumerRef = workers[g].machine])
    BY <1>1, <2>1 DEF LifecycleWrite, Reported, Claimable, HostObject
  <2> QED
    BY <1>1, <1>2, <1>4, <2>2, UpdateIsLifecycleStep DEF ClaimHost
<1>5. CASE InspectionTimeout(g)
  <2>1. HostCopy(g).state = "Inspecting"
    BY <1>5 DEF InspectionTimeout, HandlingState
  <2> DEFINE n == [HostCopy(g) EXCEPT !.phase = "Timeout", !.state = "Error",
                                      !.errorMessage = TRUE]
  <2>2. LifecycleWrite(HostCopy(g), n)
    BY <1>1, <2>1 DEF LifecycleWrite, Reported, HostObject
  <2>3. UpdateHost(t, n, FALSE)
    BY <1>5 DEF InspectionTimeout
  <2> QED
    BY <1>1, <1>2, <2>2, <2>3, UpdateIsLifecycleStep
<1>6. CASE InspectionAccepted(g)
  <2>1. HostCopy(g).state = "Inspecting" /\ HostCopy(g).phase = "Complete"
    BY <1>6 DEF InspectionAccepted, HandlingState
  <2> DEFINE n == [HostCopy(g) EXCEPT !.state = "Ready",
                                      !.conditions = @ \cup {"HostInspected"}]
  <2>2. LifecycleWrite(HostCopy(g), n)
    BY <1>1, <2>1 DEF LifecycleWrite, Reported, HostObject
  <2>3. UpdateHost(t, n, FALSE)
    BY <1>6 DEF InspectionAccepted
  <2> QED
    BY <1>1, <1>2, <2>2, <2>3, UpdateIsLifecycleStep
<1>7. CASE StartInspection(g)
  <2>1. HostCopy(g).state = "InUse"
    BY <1>1, <1>7 DEF StartInspection, WorkerKnows
  <2> DEFINE n == [HostCopy(g) EXCEPT !.state = "Inspecting", !.phase = "Booting",
                                      !.timestamp = TRUE]
  <2>2. LifecycleWrite(HostCopy(g), n)
    BY <1>1, <2>1 DEF LifecycleWrite, Reported, HostObject
  <2>3. UpdateHost(t, n, FALSE)
    BY <1>7 DEF StartInspection
  <2> QED
    BY <1>1, <1>2, <2>2, <2>3, UpdateIsLifecycleStep
<1>8. CASE ReleaseHost(g)
  <2>1. LifecycleWrite(HostCopy(g), [HostCopy(g) EXCEPT !.consumerRef = None])
    BY <1>1 DEF LifecycleWrite, Reported, HostObject
  <2> QED
    BY <1>1, <1>2, <1>8, <2>1, UpdateIsLifecycleStep DEF ReleaseHost
<1> QED
  BY <1>3, <1>4, <1>5, <1>6, <1>7, <1>8 DEF MachineContinue, MachineStep,
    GetAssociatedHost, ChooseHost, NoHostAvailable, HandleReadyHost, HandleErrorHost,
    HandleIntermediateHost, ReportMachine, InspectionInProgress, InspectionRejected,
    BootFails, SetPXE, SetPower, NothingToRelease, GetHostToRelease, Patch

(* The write of the inspection handler.                                    *)
LEMMA HandlersMap ==
  ASSUME LifecycleInv, NEW r \in Requests, Handlers(r)
  PROVE  [Lifecycle!Next]_(Lifecycle!vars)
<1> DEFINE t == Handler(r)
<1>1. /\ HostSideOK /\ CopiesAreCurrent /\ t \in Threads /\ view[t].object \in HostObject
  BY TypeParts, WorkerThreads DEF LifecycleInv, HostSideOK, View
<1>2. CASE UNCHANGED hosts
  BY <1>2 DEF Lifecycle!vars
<1>3. CASE StoreReport(r)
  <2>1. LifecycleWrite(view[t].object, WithReport(view[t].object, requests[r].report))
    BY <1>1 DEF LifecycleWrite, Reported, WithReport, HostObject
  <2> QED
    BY <1>1, <1>3, <2>1, UpdateIsLifecycleStep DEF StoreReport
<1> QED
  BY <1>2, <1>3 DEF Handlers, ReportPost, PostReport, ReportHandle, GetReportedHost

(* Deletion and creation of a PhysicalHost.                                *)
LEMMA UsersMap ==
  ASSUME LifecycleInv, Users
  PROVE  [Lifecycle!Next]_(Lifecycle!vars)
<1>1. HostSideOK
  BY TypeParts DEF LifecycleInv
<1>2. CASE UNCHANGED hosts
  BY <1>2 DEF Lifecycle!vars
<1>3. ASSUME NEW h \in Hosts, DeleteHost(h)
      PROVE  [Lifecycle!Next]_(Lifecycle!vars)
  <2> DEFINE new == IF hosts[h].finalizer THEN [hosts[h] EXCEPT !.deleting = TRUE]
                    ELSE AbsentHost
  <2>1. hosts[h] \in HostObject
    BY <1>1 DEF HostSideOK
  <2>2. LifecycleWrite(hosts[h], new)
    BY <2>1 DEF LifecycleWrite, Reported, HostObject, AbsentHost
  <2>3. StoreHost(h, new)
    BY <1>3 DEF DeleteHost, ReplaceHost
  <2> QED
    BY <1>1, <2>2, <2>3, WriteIsLifecycleStep
<1>4. ASSUME NEW h \in Hosts, CreateHost(h)
      PROVE  [Lifecycle!Next]_(Lifecycle!vars)
  <2>1. LifecycleWrite(hosts[h], NewHost)
    BY DEF LifecycleWrite, Reported, NewHost, AbsentHost
  <2> QED
    BY <1>1, <1>4, <2>1, WriteIsLifecycleStep DEF CreateHost, ReplaceHost
<1> QED
  BY <1>2, <1>3, <1>4 DEF Users, CreateMachine, AdoptMachine, BindMachine, PauseMachine,
                          DeleteMachine

(* The initial state maps to the initial state.                            *)
LEMMA LifecycleInitMaps == Init => Lifecycle!Init
<1> SUFFICES ASSUME Init PROVE Lifecycle!Init
  OBVIOUS
<1>1. /\ NewHost.consumerRef = None /\ NewHost.state = "None"
      /\ (NewHost.phase = "Complete") = FALSE
  BY DEF NewHost, AbsentHost
<1>2. \A h \in Hosts : hosts[h] = NewHost
  BY DEF Init, ResourcesInit
<1> QED
  BY <1>1, <1>2, Zenon DEF Lifecycle!Init

(* Every step maps to a step of HostLifecycle or a stutter.                *)
LEMMA LifecycleNextMaps ==
  LifecycleInv /\ [Next]_vars => [Lifecycle!Next]_(Lifecycle!vars)
<1> SUFFICES ASSUME LifecycleInv, [Next]_vars PROVE [Lifecycle!Next]_(Lifecycle!vars)
  OBVIOUS
<1>1. CASE UNCHANGED hosts
  BY <1>1 DEF Lifecycle!vars
<1>2. CASE UNCHANGED vars
  BY <1>1, <1>2 DEF vars
<1>3. ASSUME NEW g \in Managers, Controllers(g)
      PROVE  [Lifecycle!Next]_(Lifecycle!vars)
  BY <1>1, <1>3, HostStepMaps, MachineStepMaps
  DEF Controllers, HostReconcile, ReconcileHost, CacheSync, Sync, MachineReconcile,
      ReconcileMachine, MachineCacheSync, SyncMachine
<1>4. CASE World
  BY <1>1, <1>4 DEF World, Expire, SwitchPower, Restart
<1> QED
  BY <1>2, <1>3, <1>4, HandlersMap, UsersMap DEF Next

(* However many hosts, machines, managers and requests there are, however  *)
(* late their caches are and wherever they stop, the controllers take every *)
(* host through the abstract life cycle: claimed only when free and        *)
(* Available, never passed from consumer to consumer, Ready only out of an *)
(* inspection that has been reported on since it began.                    *)
THEOREM ImplementsLifecycle == Spec => FollowsLifecycle
BY LifecycleInit, LifecycleNext, LifecycleInitMaps, LifecycleNextMaps, PTL
DEF Spec, FollowsLifecycle, Lifecycle!Spec
=============================================================================
