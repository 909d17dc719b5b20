------------------------- MODULE Beskar7Properties -------------------------
(***************************************************************************)
(* What Beskar7 should guarantee.  A property that holds only for some     *)
(* deployments or under some operations says so.                           *)
(***************************************************************************)
EXTENDS Beskar7

-----------------------------------------------------------------------------
(* What a deployment may rely on.  Some properties need one of these.      *)

(* Leader election keeps all managers but one from reconciling.            *)
OneManager == \A g, k \in Managers : g = k

(* No machine goes while a worker holds a copy of it: machines are not     *)
(* deleted at all, or one manager reconciles them and its cache has every  *)
(* patch of its own before it takes up the machine again.                  *)
HeldMachinesStay ==
  (OneManager /\ ~MachineLag) \/ "delete machine" \notin Operations

(* A copy of a machine is never taken for one of a later machine with the  *)
(* same name: Cluster API gives every machine a name of its own.           *)
SameIncarnation == HeldMachinesStay \/ "reuse name" \notin Operations

(* No PhysicalHost goes while it is claimed: none is deleted, or the       *)
(* reconciler has no Recorder to report on a claimed one with, and panics. *)
ClaimedHostsStay == "delete host" \notin Operations \/ ~RecorderSet

-----------------------------------------------------------------------------
(* Safety.                                                                 *)

(* Optimistic locking: a copy that the API server would still accept an    *)
(* update of is the stored object, in every cache and every thread.        *)
CopiesAreCurrent ==
  /\ \A g \in Managers, h \in Hosts :
       cache[g][h].current => cache[g][h].object = hosts[h]
  /\ \A t \in Threads :
       view[t].current => view[t].host \in Hosts
                            /\ view[t].object = hosts[view[t].host]

(* Through all interleavings of the reconcilers, the handler and their     *)
(* stale caches, every host goes through the abstract life cycle: claimed  *)
(* only when free and Available, never passed from consumer to consumer,   *)
(* Ready only out of an inspection that has been reported on.              *)
Lifecycle ==
  INSTANCE HostLifecycle WITH
    consumer <- [h \in Hosts |-> hosts[h].consumerRef],
    state    <- [h \in Hosts |-> hosts[h].state],
    reported <- [h \in Hosts |-> hosts[h].phase = "Complete"]

FollowsLifecycle == Lifecycle!Spec

(* Machine k is gone, or it is being deleted and names host h.             *)
LeavesHost(k, h) ==
  \/ machines[k].retired
  \/ machines[k].exists /\ machines[k].deleting /\ machines[k].providerID = h

(* A live machine keeps its host: the consumerRef of a host that stays is  *)
(* cleared only for the Beskar7Machine that it names, once that is being   *)
(* deleted or gone, or for such a machine that has the same name in        *)
(* another namespace (reconcileDelete compares the names only).  Where     *)
(* names differ between namespaces, no other machine takes a host away.    *)
LiveMachineKeepsHost ==
  [][\A h \in Hosts :
       LET m == hosts[h].consumerRef IN
       m # None /\ hosts'[h].exists /\ hosts'[h].consumerRef # m
       => \E k \in Machines : Name[k] = Name[m] /\ LeavesHost(k, h)]_vars

(* A host becomes Ready only on the strength of the report that it still   *)
(* has at that moment, and only if some machine whose requirements that    *)
(* report meets is bound to it: neither a report that came in after the    *)
(* validated one nor a later release is overwritten.                       *)
ReadyIsValidated ==
  [][\A h \in Hosts :
       hosts[h].state # "Ready" /\ hosts'[h].state = "Ready"
       => \E m \in Machines : /\ hosts[h].report \in Accepts[m]
                              /\ machines[m].providerID = h]_vars

(* No lost update: what the inspection image reported is not undone or     *)
(* replaced by a reconciler's write of an older status.  The report        *)
(* changes only when a request that carries it is answered.                *)
ReportsAreKept ==
  [][\A h \in Hosts :
       hosts'[h].report # hosts[h].report /\ hosts'[h].exists /\ hosts[h].exists
       => \E r \in Requests : /\ requests[r].host = h
                              /\ requests[r].report = hosts'[h].report
                              /\ requests'[r] = NoRequest]_vars

(* The status fields of a host agree: there is an error message exactly in *)
(* state Error, a lost connection shows as Error, a host in one of the     *)
(* working states is ready, and one that is Inspecting has a start time.   *)
Coherent(host) ==
  /\ host.errorMessage <=> host.state = "Error"
  /\ host.state \notin {"None", "Error"} =>
       host.ready /\ "RedfishConnectionReady" \in host.conditions
  /\ host.state = "Inspecting" => host.timestamp

(* Two reconcilers and the handler write the status in pieces, each from   *)
(* its own copy: it is coherent whenever it is stored.                     *)
HostStatusCoherent == \A h \in Hosts : Coherent(hosts[h])

(* No machine of another namespace has, or had, the name of machine m.     *)
HasOwnName(m) ==
  \A k \in Machines : Name[k] = Name[m] /\ (machines[k].exists \/ machines[k].retired)
                        => k = m

(* PhysicalHostAssociated is not True on a machine without a host in its   *)
(* namespace: one that is named in its ProviderID, or one whose claim was  *)
(* accepted.  (A machine of the same name elsewhere could release it.)     *)
AssociationIsReal ==
  \A m \in Machines :
    machines[m].associated /\ HasOwnName(m) =>
      \E h \in Hosts : /\ Namespace[h] = Namespace[m]
                       /\ machines[m].providerID = h \/ hosts[h].consumerRef = m

(* A machine reported ready is bound to a host and still holds the         *)
(* finalizer that makes reconcileDelete release that host.                 *)
ReadyMachineIsBound ==
  \A m \in Machines :
    machines[m].ready => machines[m].providerID # None /\ machines[m].finalizer

(* Wired as in cmd/manager/main.go, with a nil RedfishClientFactory, no    *)
(* host ever gets usable, none is claimed and no server is commanded.      *)
NothingWorksUnwired ==
  ~FactorySet => \A h \in Hosts : /\ hosts[h].state \in {"None", "Error"}
                                  /\ hosts[h].consumerRef = None
                                  /\ ~servers[h].pxe

-----------------------------------------------------------------------------
(* Liveness, under Fairness.                                               *)

(* A host that nobody has claimed becomes Available, whatever state it was *)
(* left in: failures and conflicting writes are retried (reconcileNormal   *)
(* of the PhysicalHost reconciler).                                        *)
FreeHostBecomesAvailable ==
  \A h \in Hosts :
    hosts[h].exists /\ hosts[h].consumerRef = None
      ~> \/ hosts[h].state = "Available" \/ hosts[h].consumerRef # None
         \/ hosts[h].deleting \/ ~hosts[h].exists

(* No inspection goes on forever: it is accepted, times out, or ends with  *)
(* the release of the host (handleInspectingHost).                         *)
InspectionEnds ==
  \A h \in Hosts : hosts[h].state = "Inspecting" ~> hosts[h].state # "Inspecting"

(* A machine that is being deleted goes, even if its release of the host   *)
(* is refused at first (reconcileDelete).                                  *)
MachineDeletionCompletes ==
  \A m \in Machines : machines[m].deleting ~> ~machines[m].exists

(* A PhysicalHost that is being deleted goes (reconcileDelete of the       *)
(* PhysicalHost reconciler).  Without a Recorder this needs it to be       *)
(* unclaimed, as every host is without a RedfishClientFactory.             *)
HostDeletionCompletes ==
  \A h \in Hosts : hosts[h].deleting ~> ~hosts[h].exists

(* A report that comes in while its host is being inspected, and meets the *)
(* requirements of the machine bound to the host, gets that machine        *)
(* provisioned, unless the machine is deleted first, the host is given up  *)
(* (handleInspectingHost looks at the timeout before it looks at the       *)
(* report, the PhysicalHost reconciler loses the BMC), or a report that    *)
(* falls short takes the place of this one.                                *)
ReportedMachineIsProvisioned ==
  \A m \in Machines, h \in Hosts :
    (/\ machines[m].providerID = h
     /\ hosts[h].state = "Inspecting" /\ hosts[h].phase = "Complete"
     /\ hosts[h].report \in Accepts[m])
      ~> \/ /\ machines[m].ready /\ machines[m].infraReady
            /\ machines[m].phase = "Provisioned"
         \/ machines[m].deleting \/ ~machines[m].exists
         \/ hosts[h].state = "Error" \/ hosts[h].report \notin Accepts[m]

-----------------------------------------------------------------------------
(* What the documentation says and the code does not do.                   *)

(* docs/architecture.md: a deleted Beskar7Machine "releases the claimed    *)
(* PhysicalHost by clearing spec.consumerRef".                             *)
DeletedMachineHoldsNoHost ==
  \A h \in Hosts, m \in Machines :
    machines[m].retired => hosts[h].consumerRef # m

(* docs/architecture.md, on an inspection that times out: the "Host        *)
(* transitions back to Available (can be retried)".                        *)
TimedOutHostBecomesAvailable ==
  \A h \in Hosts :
    hosts[h].state = "Error" /\ hosts[h].phase = "Timeout"
      ~> hosts[h].state = "Available"
=============================================================================
