----------------------- MODULE PhysicalHostController -----------------------
(***************************************************************************)
(* The PhysicalHost reconciler.  In every manager one worker takes one     *)
(* host at a time: it reads the host, talks to its BMC and writes the host *)
(* back.  Every path of Reconcile that does not end with the host gone     *)
(* asks to be run again, so a host is always due.                          *)
(***************************************************************************)
EXTENDS BareMetal

CONSTANT RecorderSet    \* the PhysicalHost reconciler has a Recorder

ASSUME RecorderAssumption == RecorderSet \in BOOLEAN

Working(g) == view[HostWorker(g)].host # None

Copy(g) == view[HostWorker(g)].object

(* Reconcile: the Get at its head.                                         *)
ReconcileHost(g, h) ==
  /\ ~Working(g)
  /\ cache[g][h].object.exists
  /\ GetHost(HostWorker(g), g, h)
  /\ UNCHANGED <<hosts, machineVars, cache, faults>>

(* Reconcile: the finalizer is missing; add it and come back.              *)
AddHostFinalizer(g) ==
  /\ Working(g) /\ ~Copy(g).deleting /\ ~Copy(g).finalizer
  /\ UpdateHost(HostWorker(g), [Copy(g) EXCEPT !.finalizer = TRUE], FALSE)
  /\ UNCHANGED <<machineVars, faults>>

Reconcilable(g) == Working(g) /\ ~Copy(g).deleting /\ Copy(g).finalizer

(* Mutant: the error message is left as it was.                            *)
updateStatusNoMessage(object, state, ready, errorMessage) ==
  [object EXCEPT !.state = state, !.ready = ready]

updateStatus(object, state, ready, errorMessage) ==
  [object EXCEPT !.state = state, !.ready = ready,
                 !.errorMessage = errorMessage]

(* reconcileNormal: no credentials, no connection or no system information *)
ConnectionFailed(object) ==
  [updateStatus(object, "Error", FALSE, TRUE) EXCEPT
     !.conditions = @ \ {"RedfishConnectionReady"}]

HostUnreachable(g) ==
  /\ Reconcilable(g)
  /\ Fails
  /\ \E touch \in BOOLEAN :        \* another message than before, or not
       UpdateHost(HostWorker(g), ConnectionFailed(Copy(g)), touch)
  /\ UNCHANGED machineVars

(* reconcileNormal: the BMC answers; the state follows the consumerRef.    *)
Connected(object) ==
  [object EXCEPT !.conditions = @ \cup {"RedfishConnectionReady"}]

(* Mutant: a free host does not leave the Error state.                     *)
StateByConsumerStuck(object) ==
  IF object.consumerRef # None
  THEN IF object.state \in {"InUse", "Inspecting", "Ready"} THEN object
       ELSE updateStatus(object, "InUse", TRUE, FALSE)
  ELSE IF object.state \in {"Available", "Error"} THEN object
       ELSE [updateStatus(object, "Available", TRUE, FALSE) EXCEPT
               !.conditions = @ \cup {"HostAvailable"}]

StateByConsumer(object) ==
  IF object.consumerRef # None
  THEN IF object.state \in {"InUse", "Inspecting", "Ready"} THEN object
       ELSE updateStatus(object, "InUse", TRUE, FALSE)
  ELSE IF object.state = "Available" THEN object
       ELSE [updateStatus(object, "Available", TRUE, FALSE) EXCEPT
               !.conditions = @ \cup {"HostAvailable"}]

(* Mutant: a default factory steps in for the nil one.                     *)
HostReachableByDefault(g) ==
  /\ Reconcilable(g)
  /\ UpdateHost(HostWorker(g), StateByConsumer(Connected(Copy(g))), FALSE)
  /\ Succeeds /\ UNCHANGED machineVars

(* The power state, hardware details or addresses that are written too may *)
(* have changed since they were last written.                              *)
HostReachable(g) ==
  /\ Reconcilable(g) /\ FactorySet
  /\ \/ Succeeds /\ UpdateHost(HostWorker(g), StateByConsumer(Connected(Copy(g))), FALSE)
     \/ Fails /\ UpdateHost(HostWorker(g), StateByConsumer(Connected(Copy(g))), TRUE)
  /\ UNCHANGED machineVars

(* reconcileNormal calls a nil RedfishClientFactory: the panic is          *)
(* recovered by the controller's worker, which tries again.                *)
HostFactoryPanic(g) ==
  /\ Reconcilable(g) /\ ~FactorySet
  /\ DropView(HostWorker(g))
  /\ UNCHANGED <<hosts, machineVars, cache, faults>>

(* Mutant: the event is recorded whether or not the host is claimed.       *)
DeleteHostFinalizerEvent(g) ==
  /\ Working(g) /\ Copy(g).deleting
  /\ \/ /\ ~RecorderSet
        /\ DropView(HostWorker(g))
        /\ UNCHANGED <<hosts, cache>>
     \/ /\ RecorderSet
        /\ UpdateHost(HostWorker(g), AbsentHost, FALSE)
  /\ UNCHANGED <<machineVars, faults>>

(* reconcileDelete: a claimed host is reported through the Recorder, and   *)
(* the finalizer is removed, with which the host goes.                     *)
DeleteHostFinalizer(g) ==
  /\ Working(g) /\ Copy(g).deleting
  /\ \/ /\ Copy(g).consumerRef # None /\ ~RecorderSet    \* panics
        /\ DropView(HostWorker(g))
        /\ UNCHANGED <<hosts, cache>>
     \/ /\ Copy(g).consumerRef = None \/ RecorderSet
        /\ UpdateHost(HostWorker(g), AbsentHost, FALSE)
  /\ UNCHANGED <<machineVars, faults>>

HostStep(g) ==
  \/ AddHostFinalizer(g)
  \/ HostUnreachable(g)
  \/ HostReachable(g)
  \/ HostFactoryPanic(g)
  \/ DeleteHostFinalizer(g)
=============================================================================
