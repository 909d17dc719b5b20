------------------------------ MODULE Beskar7 ------------------------------
(***************************************************************************)
(* The controller managers at work: the PhysicalHost and Beskar7Machine    *)
(* reconcilers and the inspection handler of every manager, over one API   *)
(* server, with the servers and the people around them.  Operations says   *)
(* which of the things that people and Cluster API may do are done.        *)
(***************************************************************************)
EXTENDS PhysicalHostController, Beskar7MachineController, InspectionHandler

CONSTANT Operations

AllOperations == {"bind", "preset", "pause", "delete machine", "delete host",
                  "reuse name", "restart", "power off", "expire", "power on"}

ASSUME OperationsAssumption == Operations \subseteq AllOperations

vars == <<hosts, machines, cache, machineCache, view, servers, faults, workers, expired,
          requests>>

-----------------------------------------------------------------------------
(* Cluster API and the cluster's operators.                                *)

UserLeaves == UNCHANGED <<servers, faults, workers, expired, requests>>

(* A Beskar7Machine is created, without a ProviderID or naming a host.     *)
CreateMachine(m, p) ==
  /\ ~machines[m].exists
  /\ machines[m].retired => "reuse name" \in Operations
  /\ p # None => "preset" \in Operations
  /\ StoreMachine(m, [AbsentMachine EXCEPT !.exists = TRUE, !.providerID = p])
  /\ UNCHANGED <<hosts, cache, view>> /\ UserLeaves

(* The CAPI Machine controller sets the owner reference.                   *)
AdoptMachine(m) ==
  /\ machines[m].exists /\ ~machines[m].owner
  /\ StoreMachine(m, [machines[m] EXCEPT !.owner = TRUE])
  /\ UNCHANGED <<hosts, cache, view>> /\ UserLeaves

(* An operator names in the ProviderID the host that the machine claimed.  *)
BindMachine(m, h) ==
  /\ "bind" \in Operations
  /\ machines[m].exists /\ ~machines[m].deleting
  /\ machines[m].providerID = None /\ hosts[h].consumerRef = m
  /\ StoreMachine(m, [machines[m] EXCEPT !.providerID = h])
  /\ UNCHANGED <<hosts, cache, view>> /\ UserLeaves

(* The machine, or its cluster, gets or loses the pause annotation.        *)
PauseMachine(m) ==
  /\ "pause" \in Operations /\ machines[m].exists
  /\ StoreMachine(m, [machines[m] EXCEPT !.paused = ~@])
  /\ UNCHANGED <<hosts, cache, view>> /\ UserLeaves

DeleteMachine(m) ==
  /\ "delete machine" \in Operations
  /\ machines[m].exists /\ ~machines[m].deleting
  /\ StoreMachine(m, IF machines[m].finalizer
                     THEN [machines[m] EXCEPT !.deleting = TRUE]
                     ELSE RetiredMachine)
  /\ UNCHANGED <<hosts, cache, view>> /\ UserLeaves

(* A PhysicalHost is deleted, or created again.                            *)
ReplaceHost(h, new) ==
  /\ "delete host" \in Operations
  /\ StoreHost(h, new)
  /\ view' = [t \in Threads |-> Outdated(h, t)]
  /\ UNCHANGED machineVars /\ UserLeaves

DeleteHost(h) ==
  /\ hosts[h].exists /\ ~hosts[h].deleting
  /\ ReplaceHost(h, IF hosts[h].finalizer
                    THEN [hosts[h] EXCEPT !.deleting = TRUE]
                    ELSE AbsentHost)

CreateHost(h) ==
  /\ ~hosts[h].exists
  /\ ReplaceHost(h, NewHost)

-----------------------------------------------------------------------------
(* The rest of the world.                                                  *)

(* Ten minutes go by.  A timestamp is only looked at while the host is     *)
(* Inspecting, and it is written anew whenever that state is entered.      *)
Expire(h) ==
  /\ "expire" \in Operations
  /\ hosts[h].state = "Inspecting" /\ h \notin expired
  /\ expired' = expired \cup {h}
  /\ UNCHANGED <<hosts, machineVars, cache, view, servers, faults, workers, requests>>

(* Manager g stops at any point and starts again with a fresh cache.       *)
Restart(g) ==
  LET dropped == {r \in Requests : requests[r].manager = g} IN
  /\ "restart" \in Operations
  /\ Fails
  /\ cache' = [cache EXCEPT ![g] =
                 [h \in Hosts |-> [object |-> hosts[h], current |-> TRUE]]]
  /\ machineCache' = [machineCache EXCEPT ![g] = machines]
  /\ view' = [t \in Threads |->
                IF t \in {HostWorker(g), MachineWorker(g)}
                           \cup {Handler(r) : r \in dropped}
                THEN NoView ELSE view[t]]
  /\ workers' = [workers EXCEPT ![g] = Idle]
  /\ requests' = [r \in Requests |-> IF r \in dropped THEN NoRequest ELSE requests[r]]
  /\ servers' = [h \in Hosts |->
                   IF \E r \in dropped : requests[r].host = h
                   THEN [servers[h] EXCEPT !.image = IF @ = "posting"
                                                     THEN "inspector" ELSE @]
                   ELSE servers[h]]
  /\ UNCHANGED <<hosts, machines, expired>>

SwitchPower(h) ==
  /\ \/ "power off" \in Operations /\ PowerOff(h)
     \/ "power on" \in Operations /\ ~servers[h].on /\ PowerOn(h)
  /\ Fails
  /\ UNCHANGED <<hosts, machineVars, cache, view, workers, expired, requests>>

-----------------------------------------------------------------------------
Init ==
  /\ ResourcesInit
  /\ BareMetalInit
  /\ MachineControllerInit
  /\ InspectionHandlerInit

HostControllerLeaves == UNCHANGED <<servers, workers, expired, requests>>

HostReconcile(g, h) == ReconcileHost(g, h) /\ HostControllerLeaves

HostContinue(g) == HostStep(g) /\ HostControllerLeaves

MachineReconcile(g, m) == ReconcileMachine(g, m) /\ UNCHANGED requests

MachineContinue(g) == MachineStep(g) /\ UNCHANGED requests

CacheSync(g, h) ==
  Sync(g, h) /\ UserLeaves

MachineCacheSync(g, m) ==
  SyncMachine(g, m) /\ UserLeaves

ReportPost(r, h, report, g) ==
  PostReport(r, h, report, g) /\ UNCHANGED <<workers, expired>>

ReportHandle(r) ==
  (GetReportedHost(r) \/ StoreReport(r)) /\ UNCHANGED <<workers, expired>>

Controllers(g) ==
  \/ \E h \in Hosts : HostReconcile(g, h) \/ CacheSync(g, h)
  \/ HostContinue(g)
  \/ \E m \in Machines : MachineReconcile(g, m) \/ MachineCacheSync(g, m)
  \/ MachineContinue(g)

Handlers(r) ==
  \/ \E h \in Hosts, report \in Reports, g \in Managers : ReportPost(r, h, report, g)
  \/ ReportHandle(r)

Users ==
  \/ \E m \in Machines :
       \/ \E p \in Hosts \cup {None} : CreateMachine(m, p)
       \/ AdoptMachine(m)
       \/ \E h \in Hosts : BindMachine(m, h)
       \/ PauseMachine(m)
       \/ DeleteMachine(m)
  \/ \E h \in Hosts : DeleteHost(h) \/ CreateHost(h)

World ==
  \/ \E h \in Hosts : Expire(h) \/ SwitchPower(h)
  \/ \E g \in Managers : Restart(g)

Next ==
  \/ \E g \in Managers : Controllers(g)
  \/ \E r \in Requests : Handlers(r)
  \/ Users
  \/ World

Spec == Init /\ [][Next]_vars

(* The workqueues serve every host and every machine in turn, a reconciler *)
(* that has begun goes on, watch events arrive, requests are answered, and *)
(* time passes.  The inspection image posts until its report is taken.     *)
(* People need not do anything, but Cluster API adopts its machines.       *)
Fairness ==
  /\ \A g \in Managers :
       /\ \A h \in Hosts : SF_vars(HostReconcile(g, h)) /\ WF_vars(CacheSync(g, h))
       /\ WF_vars(HostContinue(g))
       /\ \A m \in Machines :
            SF_vars(MachineReconcile(g, m)) /\ WF_vars(MachineCacheSync(g, m))
       /\ WF_vars(MachineContinue(g))
  /\ \A r \in Requests : WF_vars(ReportHandle(r))
  /\ \A h \in Hosts :
       /\ WF_vars(\E r \in Requests, report \in Reports, g \in Managers :
                    ReportPost(r, h, report, g))
       /\ WF_vars(Expire(h))
  /\ \A m \in Machines : WF_vars(AdoptMachine(m))

FairSpec == Spec /\ Fairness

-----------------------------------------------------------------------------
(* The state of every component is of its type.                            *)
TypeOK ==
  /\ ResourcesTypeOK
  /\ BareMetalTypeOK
  /\ MachineControllerTypeOK
  /\ InspectionHandlerTypeOK
=============================================================================
