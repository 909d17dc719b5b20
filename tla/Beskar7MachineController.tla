---------------------- MODULE Beskar7MachineController ----------------------
(***************************************************************************)
(* The Beskar7Machine reconciler: claim a host, have it inspected, validate *)
(* the report, report the machine ready, release the host on deletion.  In *)
(* every manager one worker takes one machine at a time.  A step of the    *)
(* worker ends where the code reads or writes something others can see:    *)
(*                                                                         *)
(*   idle -> find -> claim -> patch -> idle        no host yet             *)
(*   idle -> find -> handle [-> power -> inspect] -> patch -> idle         *)
(*   idle -> delete [-> release] -> patch -> idle                          *)
(*                                                                         *)
(* "patch" is the deferred patch of the machine, which runs on every exit. *)
(***************************************************************************)
EXTENDS BareMetal

CONSTANT Accepts    \* reports that meet each machine's requirements

ASSUME AcceptsAssumption == Accepts \in [Machines -> SUBSET Reports]

VARIABLES workers,    \* what each manager's worker is doing
          expired     \* hosts whose inspectionTimestamp is over 10 minutes old

Steps == {"idle", "find", "claim", "handle", "power", "inspect",
          "delete", "release", "patch"}

Worker == [step : Steps, machine : Machines \cup {None},
           old : MachineObject,      \* the machine as it was read
           new : MachineObject]      \* the machine as it is to be patched

Idle == [step |-> "idle", machine |-> None,
         old |-> AbsentMachine, new |-> AbsentMachine]

At(g, step) == workers[g].step = step

GoTo(g, step, new) ==
  workers' = [workers EXCEPT ![g].step = step, ![g].new = new]

Host(g) == view[MachineWorker(g)].host

HostCopy(g) == view[MachineWorker(g)].object

New(g) == workers[g].new

(* What is used of the machine after the head of Reconcile: its ProviderID *)
(* and the fields that the patch may change.                               *)
Read(object) ==
  [object EXCEPT !.owner = FALSE, !.paused = FALSE, !.deleting = FALSE]

-----------------------------------------------------------------------------
(* Mutant: the finalizer is not waited for and never added.                *)
ReconcileMachineUnfinalized(g, m) ==
  LET object == machineCache[g][m] IN
  /\ At(g, "idle")
  /\ object.exists /\ ~object.paused /\ object.owner
  /\ workers' = [workers EXCEPT ![g] =
       [step    |-> IF object.deleting THEN "delete" ELSE "find",
        machine |-> m,
        old     |-> Read(object),
        new     |-> Read(object)]]
  /\ UNCHANGED <<hosts, machineVars, cache, view, servers, faults, expired>>

(* Reconcile up to the choice between deletion and normal operation, with  *)
(* the AddFinalizer of reconcileNormal.  A machine that is paused or has   *)
(* no owner yet is left alone.                                             *)
ReconcileMachine(g, m) ==
  LET object == machineCache[g][m] IN
  /\ At(g, "idle")
  /\ object.exists /\ ~object.paused /\ object.owner
  /\ workers' = [workers EXCEPT ![g] =
       [step    |-> IF object.deleting THEN "delete"
                    ELSE IF object.finalizer THEN "find" ELSE "patch",
        machine |-> m,
        old     |-> Read(object),
        new     |-> IF object.deleting THEN Read(object)
                    ELSE [Read(object) EXCEPT !.finalizer = TRUE]]]
  /\ UNCHANGED <<hosts, machineVars, cache, view, servers, faults, expired>>

-----------------------------------------------------------------------------
(* findAndClaimOrGetAssociatedHost                                         *)

(* The hosts of the machine's namespace.                                   *)
LocalHosts(g) == {h \in Hosts : Namespace[h] = Namespace[workers[g].machine]}

(* The ProviderID names a host, in whatever namespace, and it is found.    *)
NamedHostFound(g) ==
  LET h == workers[g].old.providerID IN
  h # None /\ cache[g][h].object.exists

HasAssociatedHost(g) ==
  NamedHostFound(g) /\ workers[g].old.providerID \in LocalHosts(g)

GetAssociatedHost(g) ==
  /\ At(g, "find") /\ HasAssociatedHost(g)
  /\ GetHost(MachineWorker(g), g, workers[g].old.providerID)
  /\ GoTo(g, "handle", [New(g) EXCEPT !.associated = TRUE])
  /\ UNCHANGED <<hosts, machineVars, cache, servers, faults, expired>>

(* Mutant: the consumerRef is not looked at.                               *)
ClaimableByState(object) ==
  object.exists /\ object.state = "Available"

Claimable(object) ==
  object.exists /\ object.state = "Available" /\ object.consumerRef = None

(* The List is in no particular order.                                     *)
ChooseHost(g, h) ==
  /\ At(g, "find") /\ ~HasAssociatedHost(g)
  /\ h \in LocalHosts(g) /\ Claimable(cache[g][h].object)
  /\ GetHost(MachineWorker(g), g, h)
  /\ GoTo(g, "claim", New(g))
  /\ UNCHANGED <<hosts, machineVars, cache, servers, faults, expired>>

NoHostAvailable(g) ==
  /\ At(g, "find") /\ ~HasAssociatedHost(g)
  /\ \A h \in LocalHosts(g) : ~Claimable(cache[g][h].object)
  /\ GoTo(g, "patch", [New(g) EXCEPT !.associated = FALSE])
  /\ UNCHANGED <<hosts, machineVars, cache, view, servers, faults, expired>>

(* Mutant: the error of the update is dropped.                             *)
ClaimHostUnchecked(g) ==
  LET t == MachineWorker(g) IN
  /\ At(g, "claim")
  /\ UpdateHost(t, [HostCopy(g) EXCEPT !.consumerRef = workers[g].machine], FALSE)
  /\ GoTo(g, "patch", [New(g) EXCEPT !.associated = TRUE])
  /\ UNCHANGED <<machineVars, servers, faults, expired>>

ClaimHost(g) ==
  LET t == MachineWorker(g) IN
  /\ At(g, "claim")
  /\ UpdateHost(t, [HostCopy(g) EXCEPT !.consumerRef = workers[g].machine], FALSE)
  /\ GoTo(g, "patch", [New(g) EXCEPT !.associated = ~Conflict(t)])
  /\ UNCHANGED <<machineVars, servers, faults, expired>>

-----------------------------------------------------------------------------
(* handlePhysicalHostState                                                 *)

HandlingState(g, state) == At(g, "handle") /\ HostCopy(g).state = state

(* A branch that only reports on the machine.                              *)
ReportMachine(g, new) ==
  /\ GoTo(g, "patch", new)
  /\ DropView(MachineWorker(g))
  /\ UNCHANGED <<hosts, machineVars, cache, servers, faults, expired>>

(* Mutant: the InfrastructureReady condition is forgotten.                 *)
HandleReadyHostUnmarked(g) ==
  /\ HandlingState(g, "Ready")
  /\ ReportMachine(g, [New(g) EXCEPT !.providerID = Host(g),
                                     !.ready = TRUE,
                                     !.phase = "Provisioned"])

HandleReadyHost(g) ==
  /\ HandlingState(g, "Ready")
  /\ ReportMachine(g, [New(g) EXCEPT !.providerID = Host(g),
                                     !.infraReady = TRUE,
                                     !.ready = TRUE,
                                     !.phase = "Provisioned"])

HandleErrorHost(g) ==
  /\ HandlingState(g, "Error")
  /\ ReportMachine(g, [New(g) EXCEPT !.infraReady = FALSE,
                                     !.ready = FALSE,
                                     !.phase = "Failed"])

HandleIntermediateHost(g) ==
  /\ HandlingState(g, "None") \/ HandlingState(g, "Available")
  /\ ReportMachine(g, [New(g) EXCEPT !.infraReady = FALSE,
                                     !.phase = "Pending"])

-----------------------------------------------------------------------------
(* handleInspectingHost and validateInspectionReport.  The age of an old   *)
(* copy's timestamp is not tracked: it may be found expired or not.        *)

TimedOut(g) ==
  /\ HostCopy(g).timestamp
  /\ view[MachineWorker(g)].current => Host(g) \in expired

NotTimedOut(g) ==
  HostCopy(g).timestamp /\ view[MachineWorker(g)].current => Host(g) \notin expired

(* Mutant: the timeout is noted in the phase only.                         *)
InspectionTimeoutStays(g) ==
  /\ HandlingState(g, "Inspecting") /\ TimedOut(g)
  /\ UpdateHost(MachineWorker(g), [HostCopy(g) EXCEPT !.phase = "Timeout"], FALSE)
  /\ GoTo(g, "patch", New(g))
  /\ UNCHANGED <<machineVars, servers, faults, expired>>

InspectionTimeout(g) ==
  /\ HandlingState(g, "Inspecting") /\ TimedOut(g)
  /\ UpdateHost(MachineWorker(g),
                [HostCopy(g) EXCEPT !.phase = "Timeout", !.state = "Error",
                                    !.errorMessage = TRUE], FALSE)
  /\ GoTo(g, "patch", New(g))
  /\ UNCHANGED <<machineVars, servers, faults, expired>>

InspectionInProgress(g) ==
  /\ HandlingState(g, "Inspecting") /\ NotTimedOut(g)
  /\ HostCopy(g).phase # "Complete"
  /\ ReportMachine(g, [New(g) EXCEPT !.phase = "Inspecting"])

(* Mutant: any report will do.                                             *)
HasReport(g) == HostCopy(g).report # None

MeetsRequirements(g) == HostCopy(g).report \in Accepts[workers[g].machine]

(* No report, or one that falls short: nothing changes.                    *)
InspectionRejected(g) ==
  /\ HandlingState(g, "Inspecting") /\ NotTimedOut(g)
  /\ HostCopy(g).phase = "Complete" /\ ~MeetsRequirements(g)
  /\ ReportMachine(g, New(g))

InspectionAccepted(g) ==
  /\ HandlingState(g, "Inspecting") /\ NotTimedOut(g)
  /\ HostCopy(g).phase = "Complete" /\ MeetsRequirements(g)
  /\ UpdateHost(MachineWorker(g),
                [HostCopy(g) EXCEPT !.state = "Ready",
                                    !.conditions = @ \cup {"HostInspected"}],
                FALSE)
  /\ GoTo(g, "patch", New(g))
  /\ UNCHANGED <<machineVars, servers, faults, expired>>

-----------------------------------------------------------------------------
(* triggerInspection: PXE override, power, host status.  (With a nil       *)
(* RedfishClientFactory no host is ever InUse: see NothingWorksUnwired.)   *)

BootFails(g) ==
  /\ HandlingState(g, "InUse") \/ At(g, "power")
  /\ Fails
  /\ GoTo(g, "patch", New(g))
  /\ DropView(MachineWorker(g))
  /\ UNCHANGED <<hosts, machineVars, cache, servers, expired>>

SetPXE(g) ==
  /\ HandlingState(g, "InUse")
  /\ SetBootSourcePXE(Host(g))
  /\ GoTo(g, "power", New(g))
  /\ UNCHANGED <<hosts, machineVars, cache, view, faults, expired>>

SetPower(g) ==
  /\ At(g, "power")
  /\ PowerOn(Host(g))
  /\ GoTo(g, "inspect", New(g))
  /\ UNCHANGED <<hosts, machineVars, cache, view, faults, expired>>

(* Mutant: the phase of an earlier inspection is kept.                     *)
StartInspectionOldPhase(g) ==
  LET t == MachineWorker(g) IN
  /\ At(g, "inspect")
  /\ UpdateHost(t, [HostCopy(g) EXCEPT !.state = "Inspecting",
                                       !.timestamp = TRUE], FALSE)
  /\ \/ /\ Conflict(t)
        /\ GoTo(g, "patch", New(g))
        /\ UNCHANGED expired
     \/ /\ ~Conflict(t)
        /\ GoTo(g, "patch", [New(g) EXCEPT !.phase = "Inspecting"])
        /\ expired' = expired \ {Host(g)}
  /\ UNCHANGED <<machineVars, servers, faults>>

StartInspection(g) ==
  LET t == MachineWorker(g) IN
  /\ At(g, "inspect")
  /\ UpdateHost(t, [HostCopy(g) EXCEPT !.state = "Inspecting",
                                       !.phase = "Booting",
                                       !.timestamp = TRUE], FALSE)
  /\ \/ /\ Conflict(t)
        /\ GoTo(g, "patch", New(g))
        /\ UNCHANGED expired
     \/ /\ ~Conflict(t)
        /\ GoTo(g, "patch", [New(g) EXCEPT !.phase = "Inspecting"])
        /\ expired' = expired \ {Host(g)}
  /\ UNCHANGED <<machineVars, servers, faults>>

-----------------------------------------------------------------------------
(* reconcileDelete: release the host that the ProviderID names if its      *)
(* consumer has this machine's name, then let go of the machine.  Neither  *)
(* the namespace of the host nor that of its consumer is looked at.        *)

WithoutFinalizer(object) == [object EXCEPT !.finalizer = FALSE]

(* Mutant: whoever the consumer is, the host is released.                  *)
NamedHostIsClaimed(g) ==
  /\ NamedHostFound(g)
  /\ cache[g][workers[g].old.providerID].object.consumerRef # None

NamedHostIsOurs(g) ==
  LET consumer == cache[g][workers[g].old.providerID].object.consumerRef IN
  /\ NamedHostFound(g)
  /\ consumer # None /\ Name[consumer] = Name[workers[g].machine]

(* Mutant: a machine that was never given a host waits for one.            *)
NothingToReleaseWaits(g) ==
  /\ At(g, "delete") /\ ~NamedHostIsOurs(g)
  /\ GoTo(g, "patch", IF workers[g].old.providerID = None THEN New(g)
                      ELSE WithoutFinalizer(New(g)))
  /\ UNCHANGED <<hosts, machineVars, cache, view, servers, faults, expired>>

NothingToRelease(g) ==
  /\ At(g, "delete") /\ ~NamedHostIsOurs(g)
  /\ GoTo(g, "patch", WithoutFinalizer(New(g)))
  /\ UNCHANGED <<hosts, machineVars, cache, view, servers, faults, expired>>

GetHostToRelease(g) ==
  /\ At(g, "delete") /\ NamedHostIsOurs(g)
  /\ GetHost(MachineWorker(g), g, workers[g].old.providerID)
  /\ GoTo(g, "release", New(g))
  /\ UNCHANGED <<hosts, machineVars, cache, servers, faults, expired>>

ReleaseHost(g) ==
  LET t == MachineWorker(g) IN
  /\ At(g, "release")
  /\ UpdateHost(t, [HostCopy(g) EXCEPT !.consumerRef = None], FALSE)
  /\ GoTo(g, "patch", IF Conflict(t) THEN New(g) ELSE WithoutFinalizer(New(g)))
  /\ UNCHANGED <<machineVars, servers, faults, expired>>

-----------------------------------------------------------------------------
(* The deferred patch.                                                     *)
Patch(g) ==
  /\ At(g, "patch")
  /\ PatchMachine(workers[g].machine, workers[g].old, New(g))
  /\ workers' = [workers EXCEPT ![g] = Idle]
  /\ UNCHANGED <<hosts, cache, view, servers, faults, expired>>

MachineStep(g) ==
  \/ GetAssociatedHost(g)
  \/ \E h \in Hosts : ChooseHost(g, h)
  \/ NoHostAvailable(g)
  \/ ClaimHost(g)
  \/ HandleReadyHost(g)
  \/ HandleErrorHost(g)
  \/ HandleIntermediateHost(g)
  \/ InspectionTimeout(g)
  \/ InspectionInProgress(g)
  \/ InspectionRejected(g)
  \/ InspectionAccepted(g)
  \/ BootFails(g)
  \/ SetPXE(g)
  \/ SetPower(g)
  \/ StartInspection(g)
  \/ NothingToRelease(g)
  \/ GetHostToRelease(g)
  \/ ReleaseHost(g)
  \/ Patch(g)

MachineControllerInit ==
  /\ workers = [g \in Managers |-> Idle]
  /\ expired = {}

MachineControllerTypeOK ==
  /\ workers \in [Managers -> Worker]
  /\ expired \subseteq Hosts
=============================================================================
