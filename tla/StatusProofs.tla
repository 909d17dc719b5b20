---------------------------- MODULE StatusProofs ----------------------------
(***************************************************************************)
(* What becomes of the status that two reconcilers and the inspection      *)
(* handler share.  Each writes all of it, from a copy, but an accepted     *)
(* write started from the stored status (LifecycleProofs).                 *)
(*                                                                         *)
(* The status is coherent: each edit keeps the copy it starts from         *)
(* coherent.  No inspection report is lost: the reconcilers write back the *)
(* report of the copy they edited, which is the stored one, and the only   *)
(* writer left is the handler of a request.                                *)
(***************************************************************************)
EXTENDS LifecycleProofs

(* updatePhysicalHost and the edits of spec and metadata leave the checked *)
(* fields alone.                                                           *)
LEMMA NeutralEdits ==
  ASSUME NEW object \in HostObject, Coherent(object)
  PROVE  /\ Coherent([object EXCEPT !.finalizer = TRUE])
         /\ Coherent([object EXCEPT !.deleting = TRUE])
         /\ \A c : Coherent([object EXCEPT !.consumerRef = c])
         /\ \A r : Coherent(WithReport(object, r))
BY DEF Coherent, HostObject, WithReport

(* ConnectionFailed and StateByConsumer: the edits of the PhysicalHost     *)
(* reconciler.                                                             *)
LEMMA HostReconcilerEdits ==
  ASSUME NEW object \in HostObject, Coherent(object)
  PROVE  /\ Coherent(ConnectionFailed(object))
         /\ Coherent(StateByConsumer(Connected(object)))
<1>1. Coherent(ConnectionFailed(object))
  <2> DEFINE s == updateStatus(object, "Error", FALSE, TRUE)
  <2>1. s \in HostObject /\ s.state = "Error" /\ s.errorMessage
    BY DEF updateStatus, HostObject, HostStates
  <2> HIDE DEF s
  <2>2. Coherent([s EXCEPT !.conditions = @ \ {"RedfishConnectionReady"}])
    BY <2>1 DEF Coherent, HostObject
  <2> QED
    BY <2>2 DEF ConnectionFailed, s
<1> DEFINE c == Connected(object)
<1>2. /\ c \in HostObject /\ Coherent(c) /\ "RedfishConnectionReady" \in c.conditions
  BY DEF Connected, Coherent, HostObject, HostConditions
<1> HIDE DEF c
<1>3. ASSUME NEW s \in {"InUse", "Available"}
      PROVE  LET u == updateStatus(c, s, TRUE, FALSE) IN
             /\ u \in HostObject /\ Coherent(u) /\ u.state = s
             /\ "RedfishConnectionReady" \in u.conditions
  BY <1>2 DEF updateStatus, Coherent, HostObject, HostStates
<1>4. ASSUME NEW o \in HostObject, Coherent(o)
      PROVE  Coherent([o EXCEPT !.conditions = @ \cup {"HostAvailable"}])
  BY <1>4 DEF Coherent, HostObject
<1>5. Coherent(StateByConsumer(c))
  <2> DEFINE u == updateStatus(c, "InUse", TRUE, FALSE)
             v == updateStatus(c, "Available", TRUE, FALSE)
             w == [v EXCEPT !.conditions = @ \cup {"HostAvailable"}]
  <2>1. Coherent(u) /\ Coherent(w)
    BY <1>3, <1>4
  <2>2. StateByConsumer(c) \in {c, u, w}
    BY DEF StateByConsumer
  <2> HIDE DEF u, w
  <2> QED
    BY <1>2, <2>1, <2>2
<1> QED
  BY <1>1, <1>5 DEF c

(* handleInspectingHost, validateInspectionReport and triggerInspection:   *)
(* the edits of the Beskar7Machine reconciler.                             *)
LEMMA MachineReconcilerEdits ==
  ASSUME NEW object \in HostObject, Coherent(object)
  PROVE  /\ object.state = "Inspecting" =>
              /\ Coherent([object EXCEPT !.phase = "Timeout", !.state = "Error",
                                         !.errorMessage = TRUE])
              /\ Coherent([object EXCEPT !.state = "Ready",
                                         !.conditions = @ \cup {"HostInspected"}])
         /\ object.state = "InUse" =>
              Coherent([object EXCEPT !.state = "Inspecting", !.phase = "Booting",
                                      !.timestamp = TRUE])
BY DEF Coherent, HostObject

(* A store of a coherent status, and an update that makes one of the copy. *)
LEMMA StoreCoherent ==
  ASSUME HostSideOK, HostStatusCoherent, NEW h \in Hosts, NEW new, StoreHost(h, new),
         Coherent(new)
  PROVE  HostStatusCoherent'
<1>1. \A i \in Hosts : hosts'[i] = IF i = h THEN new ELSE hosts[i]
  BY DEF StoreHost, HostSideOK
<1> QED
  BY <1>1 DEF HostStatusCoherent, Coherent

(* An update is coherent if the edit keeps the copy coherent.              *)
LEMMA UpdateCoherent ==
  ASSUME HostSideOK, CopiesAreCurrent, HostStatusCoherent, NEW t \in Threads, NEW new,
         NEW touch, UpdateHost(t, new, touch),
         Coherent(view[t].object) => Coherent(new)
  PROVE  HostStatusCoherent'
<1>1. CASE UNCHANGED hosts
  BY <1>1 DEF HostStatusCoherent, Coherent
<1>2. CASE /\ view[t].host \in Hosts /\ view[t].object = hosts[view[t].host]
           /\ StoreHost(view[t].host, new)
  BY <1>2, StoreCoherent DEF HostStatusCoherent
<1> QED
  BY <1>1, <1>2, UpdateCases
-----------------------------------------------------------------------------
(* One lemma for each kind of writer.                                      *)

(* The PhysicalHost reconciler.                                            *)
LEMMA HostStepCoherent ==
  ASSUME LifecycleInv, HostStatusCoherent, NEW g \in Managers, HostContinue(g)
  PROVE  HostStatusCoherent'
<1> DEFINE t == HostWorker(g)
<1>1. HostSideOK /\ CopiesAreCurrent /\ t \in Threads /\ Copy(g) \in HostObject
  BY TypeParts, WorkerThreads DEF LifecycleInv, HostSideOK, Copy, View
<1>2. Copy(g) = view[t].object
  BY DEF Copy
<1>3. CASE UNCHANGED hosts
  BY <1>3 DEF HostStatusCoherent, Coherent
<1>4. CASE AddHostFinalizer(g)
  BY <1>1, <1>2, <1>4, NeutralEdits, UpdateCoherent DEF AddHostFinalizer
<1>5. CASE HostUnreachable(g)
  <2>1. PICK touch : UpdateHost(t, ConnectionFailed(Copy(g)), touch)
    BY <1>5 DEF HostUnreachable
  <2> QED
    BY <1>1, <1>2, <2>1, HostReconcilerEdits, UpdateCoherent
<1>6. CASE HostReachable(g)
  <2>1. PICK touch : UpdateHost(t, StateByConsumer(Connected(Copy(g))), touch)
    BY <1>6 DEF HostReachable
  <2> QED
    BY <1>1, <1>2, <2>1, HostReconcilerEdits, UpdateCoherent
<1>7. CASE UpdateHost(t, AbsentHost, FALSE)
  <2>1. Coherent(AbsentHost)
    BY DEF Coherent, AbsentHost
  <2> QED
    BY <1>1, <1>7, <2>1, UpdateCoherent
<1> QED
  BY <1>3, <1>4, <1>5, <1>6, <1>7
  DEF HostContinue, HostStep, HostFactoryPanic, DeleteHostFinalizer

(* The Beskar7Machine reconciler.                                          *)
LEMMA MachineStepCoherent ==
  ASSUME LifecycleInv, HostStatusCoherent, NEW g \in Managers, MachineContinue(g)
  PROVE  HostStatusCoherent'
<1> DEFINE t == MachineWorker(g)
           object == HostCopy(g)
<1>1. /\ HostSideOK /\ CopiesAreCurrent /\ WorkerKnows /\ t \in Threads
      /\ object \in HostObject /\ object = view[t].object
  BY TypeParts, WorkerThreads DEF LifecycleInv, HostSideOK, HostCopy, View
<1>2. CASE UNCHANGED hosts
  BY <1>2 DEF HostStatusCoherent, Coherent
<1>3. CASE ClaimHost(g) \/ ReleaseHost(g)
  <2>1. PICK c : UpdateHost(t, [object EXCEPT !.consumerRef = c], FALSE)
    BY <1>3 DEF ClaimHost, ReleaseHost
  <2> QED
    BY <1>1, <2>1, NeutralEdits, UpdateCoherent
<1>4. CASE InspectionTimeout(g) \/ InspectionAccepted(g)
  <2>1. object.state = "Inspecting"
    BY <1>4 DEF InspectionTimeout, InspectionAccepted, HandlingState
  <2>2. PICK new \in {[object EXCEPT !.phase = "Timeout", !.state = "Error",
                                     !.errorMessage = TRUE],
                      [object EXCEPT !.state = "Ready",
                                     !.conditions = @ \cup {"HostInspected"}]} :
          UpdateHost(t, new, FALSE)
    BY <1>4 DEF InspectionTimeout, InspectionAccepted
  <2>3. Coherent(object) => Coherent(new)
    BY <1>1, <2>1, <2>2, MachineReconcilerEdits
  <2> QED
    BY <1>1, <2>2, <2>3, UpdateCoherent
<1>5. CASE StartInspection(g)
  <2> DEFINE new == [object EXCEPT !.state = "Inspecting", !.phase = "Booting",
                                   !.timestamp = TRUE]
  <2>1. object.state = "InUse" /\ UpdateHost(t, new, FALSE)
    BY <1>1, <1>5 DEF StartInspection, WorkerKnows
  <2>2. Coherent(object) => Coherent(new)
    BY <1>1, <2>1, MachineReconcilerEdits
  <2> QED
    BY <1>1, <2>1, <2>2, UpdateCoherent
<1> QED
  BY <1>2, <1>3, <1>4, <1>5 DEF MachineContinue, MachineStep,
    GetAssociatedHost, ChooseHost, NoHostAvailable, HandleReadyHost, HandleErrorHost,
    HandleIntermediateHost, ReportMachine, InspectionInProgress, InspectionRejected,
    BootFails, SetPXE, SetPower, NothingToRelease, GetHostToRelease, Patch

(* The inspection handler.                                                 *)
LEMMA HandlersCoherent ==
  ASSUME LifecycleInv, HostStatusCoherent, NEW r \in Requests, Handlers(r)
  PROVE  HostStatusCoherent'
<1> DEFINE t == Handler(r)
<1>1. /\ HostSideOK /\ CopiesAreCurrent /\ t \in Threads /\ view[t].object \in HostObject
  BY TypeParts, WorkerThreads DEF LifecycleInv, HostSideOK, View
<1>2. CASE UNCHANGED hosts
  BY <1>2 DEF HostStatusCoherent, Coherent
<1>3. CASE StoreReport(r)
  BY <1>1, <1>3, NeutralEdits, UpdateCoherent DEF StoreReport
<1> QED
  BY <1>2, <1>3 DEF Handlers, ReportPost, PostReport, ReportHandle, GetReportedHost

(* Deletion and creation of a PhysicalHost.                                *)
LEMMA UsersCoherent ==
  ASSUME LifecycleInv, HostStatusCoherent, Users
  PROVE  HostStatusCoherent'
<1>1. HostSideOK
  BY TypeParts DEF LifecycleInv
<1>2. CASE UNCHANGED hosts
  BY <1>2 DEF HostStatusCoherent, Coherent
<1>3. Coherent(AbsentHost) /\ Coherent(NewHost)
  BY DEF Coherent, AbsentHost, NewHost
<1>4. ASSUME NEW h \in Hosts, DeleteHost(h) \/ CreateHost(h)
      PROVE  HostStatusCoherent'
  <2>1. PICK new \in {[hosts[h] EXCEPT !.deleting = TRUE], AbsentHost, NewHost} :
          StoreHost(h, new)
    BY <1>4 DEF DeleteHost, CreateHost, ReplaceHost
  <2>2. hosts[h] \in HostObject /\ Coherent(hosts[h])
    BY <1>1 DEF HostSideOK, HostStatusCoherent
  <2>3. Coherent(new)
    BY <1>3, <2>1, <2>2, NeutralEdits
  <2> QED
    BY <1>1, <2>1, <2>3, StoreCoherent
<1> QED
  BY <1>2, <1>4 DEF Users, CreateMachine, AdoptMachine, BindMachine, PauseMachine,
                    DeleteMachine

(* Whatever interleaving of reconcilers, late caches, reports, failures    *)
(* and restarts produced it, the stored status of a host is coherent.      *)
THEOREM StatusIsCoherent == Spec => []HostStatusCoherent
<1>1. Init => HostStatusCoherent
  <2>1. Coherent(NewHost)
    BY DEF Coherent, AbsentHost, NewHost
  <2> QED
    BY <2>1 DEF Init, ResourcesInit, HostStatusCoherent
<1>2. LifecycleInv /\ HostStatusCoherent /\ [Next]_vars => HostStatusCoherent'
  <2> SUFFICES ASSUME LifecycleInv, HostStatusCoherent, [Next]_vars
               PROVE  HostStatusCoherent'
    OBVIOUS
  <2>1. CASE UNCHANGED hosts
    BY <2>1 DEF HostStatusCoherent, Coherent
  <2>2. ASSUME NEW g \in Managers, Controllers(g)
        PROVE  HostStatusCoherent'
    BY <2>1, <2>2, HostStepCoherent, MachineStepCoherent
    DEF Controllers, HostReconcile, ReconcileHost, CacheSync, Sync, MachineReconcile,
        ReconcileMachine, MachineCacheSync, SyncMachine
  <2>3. CASE World
    BY <2>1, <2>3 DEF World, Expire, SwitchPower, Restart
  <2>4. CASE UNCHANGED vars
    BY <2>1, <2>4 DEF vars
  <2> QED
    BY <2>2, <2>3, <2>4, HandlersCoherent, UsersCoherent DEF Next
<1> QED
  BY <1>1, <1>2, LifecycleInit, LifecycleNext, PTL DEF Spec

-----------------------------------------------------------------------------
(* Reports.                                                                *)

(* What ReportsAreKept allows a step to do.                                *)
ReportKept ==
  \A h \in Hosts :
    hosts'[h].report # hosts[h].report /\ hosts'[h].exists /\ hosts[h].exists
    => \E r \in Requests : /\ requests[r].host = h
                           /\ requests[r].report = hosts'[h].report
                           /\ requests'[r] = NoRequest

(* An edit that writes back the report it read, or removes the host.       *)
WritesBack(old, new) == new.report = old.report \/ ~new.exists \/ ~old.exists

(* A store of such an edit keeps the report.                               *)
LEMMA StoreWritesBack ==
  ASSUME HostSideOK, NEW h \in Hosts, NEW new, StoreHost(h, new),
         WritesBack(hosts[h], new)
  PROVE  ReportKept
<1>1. \A i \in Hosts : hosts'[i] = IF i = h THEN new ELSE hosts[i]
  BY DEF StoreHost, HostSideOK
<1> QED
  BY <1>1 DEF ReportKept, WritesBack

(* So does an update that makes such an edit of the holder's copy.         *)
LEMMA UpdateWritesBack ==
  ASSUME HostSideOK, CopiesAreCurrent, NEW t \in Threads, NEW new, NEW touch,
         UpdateHost(t, new, touch), WritesBack(view[t].object, new)
  PROVE  ReportKept
<1>1. CASE UNCHANGED hosts
  BY <1>1 DEF ReportKept
<1>2. CASE /\ view[t].host \in Hosts /\ view[t].object = hosts[view[t].host]
           /\ StoreHost(view[t].host, new)
  BY <1>2, StoreWritesBack
<1> QED
  BY <1>1, <1>2, UpdateCases

(* ConnectionFailed and StateByConsumer do not touch the report.           *)
LEMMA HostEditsWriteBack ==
  ASSUME NEW object \in HostObject
  PROVE  /\ WritesBack(object, ConnectionFailed(object))
         /\ WritesBack(object, StateByConsumer(Connected(object)))
<1>1. ASSUME NEW o \in HostObject, NEW s \in HostStates, NEW ready \in BOOLEAN,
             NEW message \in BOOLEAN
      PROVE  LET u == updateStatus(o, s, ready, message) IN
             u \in HostObject /\ u.report = o.report
  BY DEF updateStatus, HostObject
<1>2. ASSUME NEW o \in HostObject, NEW c
      PROVE  [o EXCEPT !.conditions = c].report = o.report
  BY DEF HostObject
<1>3. {"Error", "InUse", "Available"} \subseteq HostStates
  BY DEF HostStates
<1>4. WritesBack(object, ConnectionFailed(object))
  <2> DEFINE u == updateStatus(object, "Error", FALSE, TRUE)
  <2>1. u \in HostObject /\ u.report = object.report
    BY <1>1, <1>3
  <2> HIDE DEF u
  <2>2. [u EXCEPT !.conditions = @ \ {"RedfishConnectionReady"}].report = object.report
    BY <1>2, <2>1
  <2> QED
    BY <2>2 DEF WritesBack, ConnectionFailed, u
<1> DEFINE c == Connected(object)
<1>5. c \in HostObject /\ c.report = object.report
  BY DEF Connected, HostObject, HostConditions
<1> HIDE DEF c
<1>6. WritesBack(object, StateByConsumer(c))
  <2> DEFINE u == updateStatus(c, "InUse", TRUE, FALSE)
             v == updateStatus(c, "Available", TRUE, FALSE)
             w == [v EXCEPT !.conditions = @ \cup {"HostAvailable"}]
  <2>1. u.report = object.report /\ v \in HostObject /\ v.report = object.report
    BY <1>1, <1>3, <1>5
  <2>2. StateByConsumer(c) \in {c, u, w}
    BY DEF StateByConsumer
  <2> HIDE DEF u, v
  <2>3. w.report = object.report
    BY <1>2, <2>1
  <2> HIDE DEF w
  <2> QED
    BY <1>5, <2>1, <2>2, <2>3 DEF WritesBack
<1> QED
  BY <1>4, <1>6 DEF c
-----------------------------------------------------------------------------
(* A request's goroutine holds a copy of the host that its request is      *)
(* about, from the Get to the Update.                                      *)
HandlerHolds ==
  \A r \in Requests : view[Handler(r)].host \in {None, requests[r].host}

(* A goroutine is none of the workers, and has a request to itself.        *)
LEMMA HandlersDiffer ==
  /\ \A g \in Managers, r \in Requests : /\ Handler(r) # MachineWorker(g)
                                        /\ Handler(r) # HostWorker(g)
  /\ \A q, r \in Requests : Handler(q) = Handler(r) => q = r
BY DEF HostWorker, MachineWorker, Handler

(* Nobody takes a request's copy from it, nor its request.                 *)
LEMMA HoldsKept ==
  ASSUME HandlerHolds, UNCHANGED requests,
         \A r \in Requests : view'[Handler(r)].host = view[Handler(r)].host
  PROVE  HandlerHolds'
BY DEF HandlerHolds

(* The reconcilers work on copies of their own.                            *)
LEMMA ControllersHold ==
  ASSUME LifecycleInv, HandlerHolds, NEW g \in Managers, Controllers(g)
  PROVE  HandlerHolds'
<1>1. /\ HostSideOK /\ CopiesAreCurrent /\ workers \in [Managers -> Worker]
      /\ HostWorker(g) \in Threads /\ MachineWorker(g) \in Threads
      /\ \A r \in Requests : Handler(r) \in Threads
  BY TypeParts, WorkerThreads DEF LifecycleInv, MachineControllerTypeOK
<1>2. UNCHANGED requests
  BY DEF Controllers, HostReconcile, HostControllerLeaves, CacheSync, UserLeaves,
         HostContinue, MachineReconcile, MachineCacheSync, MachineContinue
<1>3. CASE UNCHANGED view
  BY <1>2, <1>3 DEF HandlerHolds
<1>4. ASSUME NEW t \in {HostWorker(g), MachineWorker(g)},
             \/ DropView(t)
             \/ \E h \in Hosts : GetHost(t, g, h)
             \/ \E new, touch : UpdateHost(t, new, touch)
      PROVE  HandlerHolds'
  <2>1. ASSUME NEW r \in Requests
        PROVE  view'[Handler(r)].host = view[Handler(r)].host
    BY <1>1, <1>4, HandlersDiffer, OthersKeepHost
  <2> QED
    BY <1>2, <2>1, HoldsKept
<1>5. CASE HostContinue(g)
  BY <1>4, <1>5 DEF HostContinue, HostStep, AddHostFinalizer, HostUnreachable, HostReachable,
                    HostFactoryPanic, DeleteHostFinalizer
<1>6. CASE \E h \in Hosts : HostReconcile(g, h) \/ CacheSync(g, h)
  BY <1>3, <1>4, <1>6 DEF HostReconcile, ReconcileHost, CacheSync, Sync
<1>7. CASE \E m \in Machines : MachineReconcile(g, m) \/ MachineCacheSync(g, m)
  BY <1>3, <1>7 DEF MachineReconcile, ReconcileMachine, MachineCacheSync, SyncMachine
<1>8. CASE MachineContinue(g)
  <2>1. workers[g].old.providerID \in Hosts \cup {None}
    BY <1>1 DEF Worker, MachineObject
  <2> QED
    BY <1>3, <1>4, <1>8, <2>1 DEF MachineContinue, MachineStep, GetAssociatedHost,
      HasAssociatedHost, ChooseHost, NoHostAvailable, ClaimHost, HandleReadyHost,
      HandleErrorHost, HandleIntermediateHost, ReportMachine, InspectionTimeout,
      InspectionInProgress, InspectionRejected, InspectionAccepted, BootFails, SetPXE,
      SetPower, StartInspection, NothingToRelease, GetHostToRelease, NamedHostIsOurs,
      NamedHostFound, ReleaseHost, Patch
<1> QED
  BY <1>5, <1>6, <1>7, <1>8 DEF Controllers

(* A goroutine gets the host that its request names; when the request is   *)
(* answered the copy is gone.                                              *)
LEMMA HandlersHold ==
  ASSUME LifecycleInv, HandlerHolds, NEW r \in Requests, Handlers(r)
  PROVE  HandlerHolds'
<1> DEFINE t == Handler(r)
<1>1. /\ HostSideOK /\ CopiesAreCurrent /\ t \in Threads
      /\ \A q \in Requests : Handler(q) \in Threads
      /\ requests \in [Requests -> Request]
  BY TypeParts, WorkerThreads DEF LifecycleInv, InspectionHandlerTypeOK
<1>2. Handling(r) => requests[r].host \in Hosts /\ requests[r].manager \in Managers
  BY <1>1 DEF Request, NoRequest, Handling
<1>3. SUFFICES /\ \A q \in Requests \ {r} : /\ requests'[q] = requests[q]
                                           /\ view'[Handler(q)].host = view[Handler(q)].host
               /\ view'[t].host \in {None, requests'[r].host}
  BY DEF HandlerHolds
<1>4. \A q \in Requests \ {r} : requests'[q] = requests[q] /\ Handler(q) # t
  BY <1>1, HandlersDiffer DEF Handlers, ReportPost, PostReport, ReportHandle,
    GetReportedHost, StoreReport, AnswerOK, AnswerError, Answer
<1>5. CASE UNCHANGED view /\ view[t].host = None
  BY <1>4, <1>5
<1>6. CASE \E h \in Hosts, report \in Reports, g \in Managers : ReportPost(r, h, report, g)
  <2>1. UNCHANGED view /\ requests[r].host = None
    BY <1>6 DEF ReportPost, PostReport, Handling
  <2> QED
    BY <1>5, <2>1 DEF HandlerHolds
<1>7. CASE GetReportedHost(r)
  <2>1. CASE UNCHANGED view
    BY <1>5, <1>7, <2>1 DEF GetReportedHost
  <2>2. CASE /\ GetHost(t, requests[r].manager, requests[r].host) /\ UNCHANGED requests
             /\ Handling(r)
    <3>1. view'[t].host = requests'[r].host
      BY <1>1, <2>2 DEF GetHost, CopyOf, HostSideOK
    <3>2. \A q \in Requests \ {r} : view'[Handler(q)].host = view[Handler(q)].host
      BY <1>1, <1>2, <1>4, <2>2, OthersKeepHost
    <3> QED
      BY <1>4, <3>1, <3>2
  <2> QED
    BY <1>7, <2>1, <2>2 DEF GetReportedHost
<1>8. CASE StoreReport(r)
  <2>1. PICK new, touch : UpdateHost(t, new, touch)
    BY <1>8 DEF StoreReport
  <2>2. view'[t].host = None
    BY <1>1, <2>1, UpdateCases DEF DropView, NoView, HostSideOK
  <2>3. \A q \in Requests \ {r} : view'[Handler(q)].host = view[Handler(q)].host
    BY <1>1, <1>4, <2>1, OthersKeepHost
  <2> QED
    BY <1>4, <2>2, <2>3
<1> QED
  BY <1>6, <1>7, <1>8 DEF Handlers, ReportHandle

(* Replaced hosts, and restarts: a dropped request loses its copy too.     *)
LEMMA OthersHold ==
  ASSUME LifecycleInv, HandlerHolds, Users \/ World
  PROVE  HandlerHolds'
<1>1. \A r \in Requests : Handler(r) \in Threads
  BY WorkerThreads
<1>2. CASE UNCHANGED <<view, requests>>
  BY <1>2 DEF HandlerHolds
<1>3. ASSUME NEW h \in Hosts, NEW new, ReplaceHost(h, new)
      PROVE  HandlerHolds'
  BY <1>1, <1>3, OutdatedKeepsHost, HoldsKept DEF ReplaceHost, UserLeaves
<1>4. ASSUME NEW g \in Managers, Restart(g)
      PROVE  HandlerHolds'
  <2> SUFFICES ASSUME NEW r \in Requests
               PROVE  view'[Handler(r)].host \in {None, requests'[r].host}
    BY DEF HandlerHolds
  <2>1. CASE requests[r].manager = g
    BY <1>1, <1>4, <2>1 DEF Restart, NoView
  <2>2. CASE requests[r].manager # g
    <3>1. requests'[r] = requests[r]
      BY <1>4, <2>2 DEF Restart
    <3>2. view'[Handler(r)] \in {NoView, view[Handler(r)]}
      BY <1>1, <1>4 DEF Restart
    <3> QED
      BY <3>1, <3>2 DEF HandlerHolds, NoView
  <2> QED
    BY <2>1, <2>2
<1> QED
  BY <1>2, <1>3, <1>4 DEF Users, CreateMachine, AdoptMachine, BindMachine, PauseMachine,
    DeleteMachine, DeleteHost, CreateHost, UserLeaves, World, Expire, SwitchPower
-----------------------------------------------------------------------------
(* One lemma for each kind of writer.                                      *)

(* The PhysicalHost reconciler.                                            *)
LEMMA HostStepKeepsReports ==
  ASSUME LifecycleInv, NEW g \in Managers, HostContinue(g)
  PROVE  ReportKept
<1> DEFINE t == HostWorker(g)
<1>1. HostSideOK /\ CopiesAreCurrent /\ t \in Threads /\ Copy(g) \in HostObject
  BY TypeParts, WorkerThreads DEF LifecycleInv, HostSideOK, Copy, View
<1>2. Copy(g) = view[t].object
  BY DEF Copy
<1>3. CASE UNCHANGED hosts
  BY <1>3 DEF ReportKept
<1>4. CASE \E new, touch : UpdateHost(t, new, touch) /\ WritesBack(Copy(g), new)
  BY <1>1, <1>2, <1>4, UpdateWritesBack
<1>5. CASE AddHostFinalizer(g)
  <2>1. WritesBack(Copy(g), [Copy(g) EXCEPT !.finalizer = TRUE])
    BY <1>1 DEF WritesBack, HostObject
  <2> QED
    BY <1>4, <1>5, <2>1 DEF AddHostFinalizer
<1>6. CASE HostUnreachable(g) \/ HostReachable(g)
  <2>1. PICK new \in {ConnectionFailed(Copy(g)), StateByConsumer(Connected(Copy(g)))} :
          \E touch : UpdateHost(t, new, touch)
    BY <1>6 DEF HostUnreachable, HostReachable
  <2> QED
    BY <1>1, <1>4, <2>1, HostEditsWriteBack
<1>7. CASE UpdateHost(t, AbsentHost, FALSE)
  <2>1. WritesBack(Copy(g), AbsentHost)
    BY DEF WritesBack, AbsentHost
  <2> QED
    BY <1>4, <1>7, <2>1
<1> QED
  BY <1>3, <1>5, <1>6, <1>7
  DEF HostContinue, HostStep, HostFactoryPanic, DeleteHostFinalizer

(* The Beskar7Machine reconciler.                                          *)
LEMMA MachineStepKeepsReports ==
  ASSUME LifecycleInv, NEW g \in Managers, MachineContinue(g)
  PROVE  ReportKept
<1> DEFINE t == MachineWorker(g)
           object == HostCopy(g)
<1>1. /\ HostSideOK /\ CopiesAreCurrent /\ t \in Threads
      /\ object \in HostObject /\ object = view[t].object
  BY TypeParts, WorkerThreads DEF LifecycleInv, HostSideOK, HostCopy, View
<1>2. CASE UNCHANGED hosts
  BY <1>2 DEF ReportKept
<1>3. CASE ClaimHost(g) \/ ReleaseHost(g)
  <2>1. PICK c : UpdateHost(t, [object EXCEPT !.consumerRef = c], FALSE)
    BY <1>3 DEF ClaimHost, ReleaseHost
  <2>2. WritesBack(object, [object EXCEPT !.consumerRef = c])
    BY <1>1 DEF WritesBack, HostObject
  <2> QED
    BY <1>1, <2>1, <2>2, UpdateWritesBack
<1>4. CASE InspectionTimeout(g) \/ InspectionAccepted(g) \/ StartInspection(g)
  <2> DEFINE timeout == [object EXCEPT !.phase = "Timeout", !.state = "Error",
                                       !.errorMessage = TRUE]
             accept == [object EXCEPT !.state = "Ready",
                                      !.conditions = @ \cup {"HostInspected"}]
             start == [object EXCEPT !.state = "Inspecting", !.phase = "Booting",
                                     !.timestamp = TRUE]
  <2>1. PICK new \in {timeout, accept, start} : UpdateHost(t, new, FALSE)
    BY <1>4 DEF InspectionTimeout, InspectionAccepted, StartInspection
  <2>2. /\ WritesBack(object, timeout) /\ WritesBack(object, accept)
        /\ WritesBack(object, start)
    BY <1>1 DEF WritesBack, HostObject
  <2> HIDE DEF timeout, accept, start
  <2> QED
    BY <1>1, <2>1, <2>2, UpdateWritesBack
<1> QED
  BY <1>2, <1>3, <1>4 DEF MachineContinue, MachineStep,
    GetAssociatedHost, ChooseHost, NoHostAvailable, HandleReadyHost, HandleErrorHost,
    HandleIntermediateHost, ReportMachine, InspectionInProgress, InspectionRejected,
    BootFails, SetPXE, SetPower, NothingToRelease, GetHostToRelease, Patch

(* The inspection handler writes the report of its request to the host of  *)
(* its request, and answers.                                               *)
LEMMA HandlersKeepReports ==
  ASSUME LifecycleInv, HandlerHolds, NEW r \in Requests, Handlers(r)
  PROVE  ReportKept
<1> DEFINE t == Handler(r)
<1>1. /\ HostSideOK /\ CopiesAreCurrent /\ t \in Threads /\ view[t].object \in HostObject
  BY TypeParts, WorkerThreads DEF LifecycleInv, HostSideOK, View
<1>2. CASE UNCHANGED hosts
  BY <1>2 DEF ReportKept
<1>3. CASE StoreReport(r)
  <2> DEFINE h == view[t].host
             new == WithReport(view[t].object, requests[r].report)
  <2>1. UpdateHost(t, new, TRUE) /\ h = requests[r].host /\ requests'[r] = NoRequest
    <3>1. requests \in [Requests -> Request]
      BY TypeParts DEF LifecycleInv, InspectionHandlerTypeOK
    <3> QED
      BY <1>3, <3>1 DEF StoreReport, HandlerHolds, AnswerOK, AnswerError, Answer
  <2>2. new.report = requests[r].report
    BY <1>1 DEF WithReport, HostObject
  <2> HIDE DEF new
  <2>3. CASE h \in Hosts /\ StoreHost(h, new)
    <3>1. \A i \in Hosts : hosts'[i] = IF i = h THEN new ELSE hosts[i]
      BY <1>1, <2>3 DEF StoreHost, HostSideOK
    <3> QED
      BY <2>1, <2>2, <3>1 DEF ReportKept
  <2> QED
    BY <1>1, <1>2, <2>1, <2>3, UpdateCases
<1> QED
  BY <1>2, <1>3 DEF Handlers, ReportPost, PostReport, ReportHandle, GetReportedHost

(* Deletion and creation of a PhysicalHost.                                *)
LEMMA UsersKeepReports ==
  ASSUME LifecycleInv, Users
  PROVE  ReportKept
<1>1. HostSideOK
  BY TypeParts DEF LifecycleInv
<1>2. CASE UNCHANGED hosts
  BY <1>2 DEF ReportKept
<1>3. ASSUME NEW h \in Hosts, DeleteHost(h)
      PROVE  ReportKept
  <2>1. hosts[h] \in HostObject
    BY <1>1 DEF HostSideOK
  <2>2. PICK new \in {[hosts[h] EXCEPT !.deleting = TRUE], AbsentHost} : StoreHost(h, new)
    BY <1>3 DEF DeleteHost, ReplaceHost
  <2>3. WritesBack(hosts[h], new)
    BY <2>1, <2>2 DEF WritesBack, HostObject, AbsentHost
  <2> QED
    BY <1>1, <2>2, <2>3, StoreWritesBack
<1>4. ASSUME NEW h \in Hosts, CreateHost(h)
      PROVE  ReportKept
  <2>1. WritesBack(hosts[h], NewHost) /\ StoreHost(h, NewHost)
    BY <1>4 DEF CreateHost, ReplaceHost, WritesBack
  <2> QED
    BY <1>1, <2>1, StoreWritesBack
<1> QED
  BY <1>2, <1>3, <1>4 DEF Users, CreateMachine, AdoptMachine, BindMachine, PauseMachine,
                          DeleteMachine

(* However the reconcilers and the goroutines of the requests interleave,  *)
(* and whoever writes the status of a host, its report changes only to the *)
(* one that a request for that host carried, when that request is answered. *)
THEOREM ReportsAreNotLost == Spec => ReportsAreKept
<1>1. Init => HandlerHolds
  <2> SUFFICES ASSUME Init, NEW r \in Requests
               PROVE  view[Handler(r)].host = None
    BY DEF HandlerHolds
  <2> QED
    BY WorkerThreads DEF Init, ResourcesInit, NoView
<1>2. LifecycleInv /\ HandlerHolds /\ [Next]_vars => HandlerHolds'
  <2>1. ASSUME HandlerHolds, UNCHANGED vars
        PROVE  HandlerHolds'
    BY <2>1 DEF vars, HandlerHolds
  <2> QED
    BY <2>1, ControllersHold, HandlersHold, OthersHold DEF Next
<1>3. LifecycleInv /\ HandlerHolds /\ [Next]_vars => [ReportKept]_vars
  <2> SUFFICES ASSUME LifecycleInv, HandlerHolds, Next
               PROVE  ReportKept
    OBVIOUS
  <2>1. CASE UNCHANGED hosts
    BY <2>1 DEF ReportKept
  <2>2. ASSUME NEW g \in Managers, Controllers(g)
        PROVE  ReportKept
    BY <2>1, <2>2, HostStepKeepsReports, MachineStepKeepsReports
    DEF Controllers, HostReconcile, ReconcileHost, CacheSync, Sync, MachineReconcile,
        ReconcileMachine, MachineCacheSync, SyncMachine
  <2>3. CASE World
    BY <2>1, <2>3 DEF World, Expire, SwitchPower, Restart
  <2> QED
    BY <2>2, <2>3, HandlersKeepReports, UsersKeepReports DEF Next
<1> QED
  BY <1>1, <1>2, <1>3, LifecycleInit, LifecycleNext, PTL
  DEF Spec, ReportsAreKept, ReportKept
=============================================================================
