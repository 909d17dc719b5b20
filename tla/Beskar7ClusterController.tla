---------------------- MODULE Beskar7ClusterController ----------------------
(***************************************************************************)
(* The Beskar7Cluster reconciler: it discovers failure domains from the    *)
(* zone labels of PhysicalHosts, derives the control plane endpoint from   *)
(* the Machines of the control plane, and patches what it found into the   *)
(* status of one Beskar7Cluster.  The model follows the workqueue key of   *)
(* that cluster, since what the reconciler does not watch it learns late.  *)
(*                                                                         *)
(* The reconciler never writes hosts or Machines, so their variables stand *)
(* for the manager's cache of them: a change happens when it is delivered. *)
(***************************************************************************)
EXTENDS Naturals, Sequences, FiniteSets, Beskar7ClusterWebhook

CONSTANTS Hosts,         \* names of PhysicalHosts
          Zones,         \* values of the label topology.kubernetes.io/zone
          ControlPlanes, \* names of control plane Machines of the Cluster
          Addresses,
          Private,       \* the addresses that are not public
          AddressLists,  \* what status.addresses of a Machine may be
          InvalidHosts,  \* strings that are no valid host of an endpoint
          SpecEndpoints, \* what people may write as spec.controlPlaneEndpoint
          MaxChanges,    \* bound on what people and Cluster API change
          MaxFaults      \* bound on failing calls and on restarts

AddressTypes == {"InternalIP", "ExternalIP"}

MachineAddress == [type : AddressTypes, address : Addresses]

SpecEndpoint == [host : ValidHosts \cup InvalidHosts \cup {None}, port : Nat]

ASSUME ClusterAssumption ==
  /\ None \notin Zones /\ None \notin Addresses
  /\ AddressLists \subseteq Seq(MachineAddress) /\ <<>> \in AddressLists
  /\ \A list \in AddressLists : \A i \in DOMAIN list :
       list[i].type = "InternalIP" <=> list[i].address \in Private
  /\ SpecEndpoints \subseteq SpecEndpoint
  /\ MaxChanges \in Nat /\ MaxFaults \in Nat

VARIABLES cluster,       \* the Beskar7Cluster in the API server
          cached,        \* the manager's cached copy of it
          zone,          \* the zone label of each PhysicalHost
          controlPlane,  \* the control plane Machines
          ownerPaused,   \* the owner Cluster has the pause annotation
          webhook,       \* the manager serves the webhook, and it is registered
          queued,        \* the workqueue holds the cluster's key
          worker,        \* the reconciler
          offered,       \* history: address lists of infrastructure-ready Machines
          missed,        \* history: an event of a host was lost since hosts were listed
          changes, faults

worldVars == <<zone, controlPlane, ownerPaused, offered, changes>>

vars == <<cluster, cached, worldVars, webhook, queued, worker, missed, faults>>

-----------------------------------------------------------------------------
(* ControlPlaneEndpointReady: absent, True, or False for a reason.  The    *)
(* summary condition Ready is a function of it and is left out.            *)
EndpointConditions == {"None", "True", "ControlPlaneEndpointNotSet", "Deleting"}

Beskar7Cluster ==
  [exists    : BOOLEAN,
   spec      : SpecEndpoint,     \* spec.controlPlaneEndpoint
   owner     : BOOLEAN,          \* the owner reference to the Cluster is set
   paused    : BOOLEAN,
   finalizer : BOOLEAN,
   deleting  : BOOLEAN,
   domains   : SUBSET Zones,
   endpoint  : Addresses \cup {None},
   ready     : BOOLEAN,
   condition : EndpointConditions]

NewCluster ==
  [exists |-> TRUE, spec |-> Unset, owner |-> FALSE, paused |-> FALSE, finalizer |-> FALSE,
   deleting |-> FALSE, domains |-> {}, endpoint |-> None, ready |-> FALSE,
   condition |-> "None"]

AbsentCluster == [NewCluster EXCEPT !.exists = FALSE]

Machine == [infrastructureReady : BOOLEAN, addresses : AddressLists]

(* new is the copy that the reconciler changes, old the one it read.       *)
Worker == [pc    : {"idle", "domains", "endpoint", "patch"},
           old   : Beskar7Cluster,
           new   : Beskar7Cluster,
           again : BOOLEAN]      \* the result asks for a requeue, or is an error

IdleWorker == [pc |-> "idle", old |-> AbsentCluster, new |-> AbsentCluster, again |-> FALSE]

-----------------------------------------------------------------------------
(* The client.                                                             *)

Fault == faults < MaxFaults /\ faults' = faults + 1

NoFault == UNCHANGED faults

Merge(stored, old, new) == IF old = new THEN stored ELSE new

(* The condition is merged three ways, and not at all if its stored state  *)
(* is neither what was read nor what is wanted.                            *)
ConditionConflict(old, new) ==
  /\ old.condition # new.condition
  /\ cluster.condition \notin {old.condition, new.condition}

(* An update of the object itself goes through the webhook.                *)
Refused(object) == webhook /\ ~Admitted(object.spec)

Defaulted(object) ==
  IF webhook THEN [object EXCEPT !.spec = defaultBeskar7Cluster(@)] ELSE object

(* The metadata are patched only if they differ, apart from the status: if *)
(* the webhook refuses the one, the other is still written.                *)
FinalizerRefused(old, new) == old.finalizer # new.finalizer /\ Refused(cluster)

WithFinalizer(old, new) ==
  IF old.finalizer = new.finalizer \/ Refused(cluster) THEN cluster
  ELSE [Defaulted(cluster) EXCEPT !.finalizer = new.finalizer]

(* The patch of the map of failure domains adds and removes single keys,   *)
(* but an empty map is omitted from the object: to empty it is to remove   *)
(* whatever is stored.                                                     *)
PatchedDomains(stored, old, new) ==
  IF new = {} /\ old # {} THEN {} ELSE (stored \ (old \ new)) \cup (new \ old)

(* The rest is a merge patch of the difference between old and new.        *)
Patched(old, new) ==
  [WithFinalizer(old, new) EXCEPT
     !.domains   = PatchedDomains(@, old.domains, new.domains),
     !.endpoint  = Merge(@, old.endpoint, new.endpoint),
     !.ready     = Merge(@, old.ready, new.ready),
     !.condition = IF ConditionConflict(old, new) THEN @
                   ELSE Merge(@, old.condition, new.condition)]

(* An object with a deletionTimestamp goes when its finalizer does.        *)
Stored(patched) ==
  IF patched.deleting /\ ~patched.finalizer THEN AbsentCluster ELSE patched

(* A watch event for the cluster itself.                                   *)
SyncCluster ==
  /\ cached # cluster
  /\ cached' = cluster
  /\ queued' = TRUE
  /\ UNCHANGED <<cluster, worldVars, webhook, worker, missed, faults>>

-----------------------------------------------------------------------------
(* The reconciler.                                                         *)

Return(again) ==
  /\ worker' = IdleWorker
  /\ queued' = again

(* Reconcile ends before there is anything to patch.  A missing owner and  *)
(* a failing Get ask for a requeue; a pause annotation does not, on the    *)
(* Beskar7Cluster or on its Cluster.                                       *)
NothingToReconcile ==
  \/ (~cached.exists \/ cached.paused) /\ Return(FALSE) /\ NoFault
  \/ cached.exists /\ ~cached.paused /\ Fault /\ Return(TRUE)
  \/ cached.exists /\ ~cached.paused /\ ~cached.owner /\ Return(TRUE) /\ NoFault
  \/ /\ cached.exists /\ ~cached.paused /\ cached.owner /\ ownerPaused
     /\ Return(FALSE) /\ NoFault

Go(pc, new, again) ==
  /\ worker' = [pc |-> pc, old |-> cached, new |-> new, again |-> again]
  /\ queued' = FALSE
  /\ NoFault

(* reconcileDelete makes no call of its own.                               *)
ReconcileDelete ==
  /\ cached.deleting
  /\ Go("patch", [cached EXCEPT !.condition = "Deleting", !.finalizer = FALSE], FALSE)

AddFinalizer ==
  /\ ~cached.deleting /\ ~cached.finalizer
  /\ Go("patch", [cached EXCEPT !.finalizer = TRUE], TRUE)

ReconcileNormal ==
  /\ ~cached.deleting /\ cached.finalizer
  /\ Go("domains", cached, FALSE)

Reconcile ==
  /\ worker.pc = "idle" /\ queued
  /\ \/ NothingToReconcile
     \/ /\ cached.exists /\ ~cached.paused /\ cached.owner /\ ~ownerPaused
        /\ ReconcileDelete \/ AddFinalizer \/ ReconcileNormal
  /\ UNCHANGED <<cluster, cached, worldVars, webhook, missed>>

Continue(pc, new, again) ==
  /\ worker' = [worker EXCEPT !.pc = pc, !.new = new, !.again = again]
  /\ UNCHANGED <<cluster, cached, worldVars, webhook, queued>>

(* A List that fails ends the reconciliation with an error.                *)
ListFails == Fault /\ Continue("patch", worker.new, TRUE)

(* Mutant: an empty label is a zone like any other.                        *)
FailureDomainsOfAll == {zone[h] : h \in Hosts}

FailureDomains == {zone[h] : h \in Hosts} \ {None}

ReconcileFailureDomains ==
  /\ worker.pc = "domains"
  /\ \/ ListFails /\ UNCHANGED missed
     \/ /\ NoFault /\ missed' = FALSE
        /\ Continue("endpoint", [worker.new EXCEPT !.domains = FailureDomains], FALSE)

(* Mutant: a Machine need not have its infrastructure ready.               *)
HasAddress(m) == controlPlane[m].addresses # <<>>

Suitable(m) ==
  controlPlane[m].infrastructureReady /\ controlPlane[m].addresses # <<>>

(* The first internal address, or else the first address of all.           *)
SelectedAddress(list) ==
  LET internal == {i \in DOMAIN list : list[i].type = "InternalIP"}
      first == CHOOSE i \in internal : \A j \in internal : i <= j
  IN IF internal # {} THEN list[first].address ELSE list[1].address

(* Mutant: no endpoint leaves the status as it was and asks for no requeue.*)
NoEndpointReturns ==
  Continue("patch", [worker.new EXCEPT !.condition = "ControlPlaneEndpointNotSet"], FALSE)

(* Mutant: status.ready is left as it was.                                 *)
NoEndpointStaysReady ==
  Continue("patch", [worker.new EXCEPT !.condition = "ControlPlaneEndpointNotSet"], TRUE)

(* status.controlPlaneEndpoint keeps its value.                            *)
NoEndpoint ==
  Continue("patch",
           [worker.new EXCEPT !.condition = "ControlPlaneEndpointNotSet",
                              !.ready = FALSE],
           TRUE)

(* Machines are listed in no particular order.                             *)
ReconcileControlPlaneEndpoint ==
  /\ worker.pc = "endpoint"
  /\ \/ ListFails
     \/ NoFault /\ (\A m \in ControlPlanes : ~Suitable(m)) /\ NoEndpoint
     \/ /\ NoFault
        /\ \E m \in ControlPlanes :
             /\ Suitable(m)
             /\ Continue("patch",
                  [worker.new EXCEPT
                     !.endpoint  = SelectedAddress(controlPlane[m].addresses),
                     !.condition = "True",
                     !.ready     = TRUE],
                  FALSE)
  /\ UNCHANGED missed

(* Mutant: the deferred patch's error is dropped.                          *)
PatchDropsError ==
  /\ worker.pc = "patch"
  /\ \/ Fault /\ UNCHANGED cluster
     \/ ~cluster.exists /\ NoFault /\ UNCHANGED cluster
     \/ /\ cluster.exists /\ NoFault
        /\ cluster' = Stored(Patched(worker.old, worker.new))
  /\ worker' = IdleWorker
  /\ queued' = (queued \/ worker.again)
  /\ UNCHANGED <<cached, worldVars, webhook, missed>>

(* The deferred patch.  Any error of it makes Reconcile return one.        *)
Patch ==
  /\ worker.pc = "patch"
  /\ \/ /\ Fault \/ (~cluster.exists /\ NoFault)
        /\ UNCHANGED cluster
        /\ queued' = TRUE
     \/ /\ cluster.exists /\ NoFault
        /\ cluster' = Stored(Patched(worker.old, worker.new))
        /\ queued' = (queued \/ worker.again
                        \/ ConditionConflict(worker.old, worker.new)
                        \/ FinalizerRefused(worker.old, worker.new))
  /\ worker' = IdleWorker
  /\ UNCHANGED <<cached, worldVars, webhook, missed>>

Work ==
  Reconcile \/ ReconcileFailureDomains \/ ReconcileControlPlaneEndpoint \/ Patch

-----------------------------------------------------------------------------
(* People, Cluster API and the cluster around the manager.                 *)

Change == changes < MaxChanges /\ changes' = changes + 1

StoreCluster(new) ==
  /\ cluster.exists
  /\ cluster' = new
  /\ UNCHANGED <<cached, zone, controlPlane, ownerPaused, webhook, queued, worker,
                 offered, missed, faults>>

(* Mutant: only creation is validated.                                     *)
UpdateClusterUnchecked(new) == StoreCluster(Defaulted(new))

UpdateCluster(new) == ~Refused(new) /\ StoreCluster(Defaulted(new))

(* The Cluster controller sets the owner reference.                        *)
AdoptCluster ==
  /\ ~cluster.owner
  /\ UpdateCluster([cluster EXCEPT !.owner = TRUE])
  /\ UNCHANGED changes

(* Pauses are bounded; each of them may end.                               *)
ChangeUnless(paused) == IF paused THEN UNCHANGED changes ELSE Change

PauseCluster ==
  /\ ChangeUnless(cluster.paused)
  /\ UpdateCluster([cluster EXCEPT !.paused = ~@])

EditCluster(spec) ==
  /\ Change
  /\ cluster.spec # spec
  /\ UpdateCluster([cluster EXCEPT !.spec = spec])

DeleteCluster ==
  /\ Change
  /\ ~cluster.deleting
  /\ StoreCluster(Stored([cluster EXCEPT !.deleting = TRUE]))

PauseOwner ==
  /\ ChangeUnless(ownerPaused)
  /\ ownerPaused' = ~ownerPaused
  /\ UNCHANGED <<cluster, cached, zone, controlPlane, webhook, queued, worker,
                 offered, missed, faults>>

(* Mutant: PhysicalHosts are not watched.                                  *)
PhysicalHostToNothing == UNCHANGED <<queued, missed, faults>>

(* An event of a PhysicalHost enqueues the clusters in its namespace; if   *)
(* they cannot be listed, it enqueues none, and nobody comes back to it.   *)
PhysicalHostToBeskar7Clusters ==
  \/ Fault /\ missed' = TRUE /\ UNCHANGED queued
  \/ NoFault /\ queued' = (queued \/ cached.exists) /\ UNCHANGED missed

RelabelHost(h, z) ==
  /\ Change
  /\ zone[h] # z
  /\ zone' = [zone EXCEPT ![h] = z]
  /\ PhysicalHostToBeskar7Clusters
  /\ UNCHANGED <<cluster, cached, controlPlane, ownerPaused, webhook, worker, offered>>

(* No event of a Machine reaches the reconciler.                           *)
UpdateMachine(m, ready, list) ==
  LET new == [infrastructureReady |-> ready, addresses |-> list] IN
  /\ Change
  /\ controlPlane[m] # new
  /\ controlPlane' = [controlPlane EXCEPT ![m] = new]
  /\ offered' = IF ready THEN offered \cup {list} ELSE offered
  /\ UNCHANGED <<cluster, cached, zone, ownerPaused, webhook, queued, worker,
                 missed, faults>>

(* The informers replay their contents every ten hours.                    *)
Resync ==
  /\ cached.exists /\ ~queued
  /\ queued' = TRUE
  /\ UNCHANGED <<cluster, cached, worldVars, webhook, worker, missed, faults>>

(* The manager starts again, perhaps with another value of the flag        *)
(* --enable-webhook.                                                       *)
RestartManager ==
  /\ Fault
  /\ webhook' \in BOOLEAN
  /\ cached' = cluster
  /\ queued' = cluster.exists
  /\ worker' = IdleWorker
  /\ UNCHANGED <<cluster, worldVars, missed>>

-----------------------------------------------------------------------------
Init ==
  /\ webhook \in BOOLEAN
  /\ \E spec \in SpecEndpoints :
       LET new == [NewCluster EXCEPT !.spec = spec] IN
       ~Refused(new) /\ cluster = Defaulted(new)
  /\ cached = AbsentCluster
  /\ zone = [h \in Hosts |-> None]
  /\ controlPlane =
       [m \in ControlPlanes |-> [infrastructureReady |-> FALSE, addresses |-> <<>>]]
  /\ ownerPaused = FALSE
  /\ queued = FALSE
  /\ worker = IdleWorker
  /\ offered = {}
  /\ missed = FALSE
  /\ changes = 0
  /\ faults = 0

World ==
  \/ AdoptCluster \/ PauseCluster \/ DeleteCluster \/ PauseOwner
  \/ \E spec \in SpecEndpoints : EditCluster(spec)
  \/ \E h \in Hosts, z \in Zones \cup {None} : RelabelHost(h, z)
  \/ \E m \in ControlPlanes, ready \in BOOLEAN, list \in AddressLists :
       UpdateMachine(m, ready, list)
  \/ Resync
  \/ RestartManager

Next == Work \/ SyncCluster \/ World

Spec == Init /\ [][Next]_vars

(* The one worker goes on while it has something to do, and watch events   *)
(* arrive.  The resync is not relied on.                                   *)
FairSpec ==
  Spec /\ WF_vars(Work) /\ WF_vars(SyncCluster) /\ WF_vars(AdoptCluster)

-----------------------------------------------------------------------------
(* The state of the reconciler and of the objects it sees is of its type.  *)
TypeOK ==
  /\ cluster \in Beskar7Cluster /\ cached \in Beskar7Cluster
  /\ zone \in [Hosts -> Zones \cup {None}]
  /\ controlPlane \in [ControlPlanes -> Machine]
  /\ ownerPaused \in BOOLEAN /\ webhook \in BOOLEAN /\ queued \in BOOLEAN
  /\ worker \in Worker
  /\ offered \subseteq AddressLists /\ missed \in BOOLEAN
  /\ changes \in 0 .. MaxChanges /\ faults \in 0 .. MaxFaults

(* The published endpoint is an address that some control plane Machine    *)
(* had while its infrastructure was ready, and a public one only if that   *)
(* Machine had no other; a ready cluster has an endpoint                   *)
(* (findControlPlaneEndpoint, patched some steps later).                   *)
EndpointWasOffered ==
  /\ cluster.endpoint # None =>
       \E list \in offered :
         /\ \E i \in DOMAIN list : list[i].address = cluster.endpoint
         /\ cluster.endpoint \notin Private =>
              \A i \in DOMAIN list : list[i].address \notin Private
  /\ cluster.ready => cluster.endpoint # None

(* Nothing but a manager that starts to serve the webhook can make it      *)
(* refuse a stored cluster: what the webhook has admitted, with the port   *)
(* it filled in, it admits again when the reconciler patches the           *)
(* finalizer (Default, ValidateUpdate).                                    *)
AdmittedStaysAdmitted ==
  [][Refused(cluster)' => Refused(cluster) \/ ~webhook]_vars

-----------------------------------------------------------------------------
(* Liveness.  The owner Cluster is not watched, and a reconciliation that  *)
(* finds it paused asks for no requeue: unless the resync is relied on,    *)
(* each property is about behaviours in which it never is.                 *)

Reconcilable ==
  /\ cluster.exists /\ cluster.owner /\ ~cluster.paused /\ ~cluster.deleting
  /\ ~Refused(cluster)

(* Without any resync, host events alone bring status.failureDomains to    *)
(* exactly the zones that hosts are labelled with, whatever order labels,  *)
(* stale caches and patches of single keys come in, unless the last event  *)
(* is lost: PhysicalHostToBeskar7Clusters logs that it cannot list the     *)
(* clusters, and enqueues nothing (reconcileFailureDomains).               *)
DomainsSettle ==
  []~ownerPaused /\ <>[](Reconcilable /\ ~missed)
    => <>[](cluster.domains = FailureDomains)

(* status.ready and the condition are patched by different calls, one of   *)
(* which may be refused: they still end up in agreement (the error of the  *)
(* deferred patch is returned).                                            *)
StatusSettles ==
  []~ownerPaused /\ <>[]Reconcilable
    => <>[](cluster.ready <=> cluster.condition = "True")

(* Machines are not watched: the requeue of a cluster without an endpoint  *)
(* finds the one that becomes suitable (reconcileNormal).                  *)
EndpointIsFound ==
  []~ownerPaused /\ <>[]Reconcilable /\ <>[](\E m \in ControlPlanes : Suitable(m))
    => <>[]cluster.ready

(* The status says what the Machines and the hosts say now.                *)
StatusIsCurrent ==
  /\ cluster.domains = FailureDomains
  /\ cluster.ready <=> \E m \in ControlPlanes : Suitable(m)
  /\ cluster.ready =>
       \E m \in ControlPlanes :
         Suitable(m) /\ cluster.endpoint = SelectedAddress(controlPlane[m].addresses)

(* What no event tells the reconciler, the end of a pause of the owner, a  *)
(* Machine behind the endpoint that goes or changes its addresses and a    *)
(* host whose event was lost, it finds out with the resync.                *)
ResyncCatchesUp ==
  WF_vars(Resync) /\ <>[](Reconcilable /\ ~ownerPaused) => <>[]StatusIsCurrent

(* A cluster that is being deleted goes (reconcileDelete), unless the      *)
(* webhook keeps refusing its endpoint, which the finalizer cannot be      *)
(* taken from then.                                                        *)
ClusterDeletionCompletes ==
  []~ownerPaused /\ <>[]~cluster.paused /\ <>[]~Refused(cluster)
    => (cluster.deleting ~> ~cluster.exists)
=============================================================================
