---------------------------- MODULE ClusterProofs ----------------------------
(***************************************************************************)
(* The published endpoint of a Beskar7Cluster is one that was offered, and *)
(* the webhook stands by what it admitted, for any number of hosts, zones  *)
(* and Machines.  The address that is published has gone from a list of    *)
(* Machines through the reconciler's copy and a merge patch, so the        *)
(* invariant follows it there: every copy of the cluster has an endpoint   *)
(* that was offered, a copy has one only if the stored cluster has, and a  *)
(* reconciliation does not take the endpoint away.                         *)
(***************************************************************************)
EXTENDS Beskar7ClusterController, FiniteSetTheorems, WellFoundedInduction, TLAPS

(* Of a set of positions, one comes first: the interval up to it has no    *)
(* smaller one below it, and finite sets are well-founded.                 *)
LEMMA FirstExists ==
  ASSUME NEW S, S \subseteq Nat, S # {}
  PROVE  \E i \in S : \A j \in S : i <= j
<1> DEFINE T == {0..i : i \in S}
<1>1. T \subseteq FiniteSubsetsOf(Nat) /\ T # {}
  <2>1. ASSUME NEW i \in S
        PROVE  0..i \in SUBSET Nat /\ IsFiniteSet(0..i)
    BY FS_Interval
  <2> QED
    BY <2>1 DEF FiniteSubsetsOf
<1>2. PICK x \in T : \A y \in T : ~(<<y, x>> \in StrictSubsetOrdering(Nat))
  BY <1>1, FS_StrictSubsetOrderingWellFounded, WFMin
<1>3. PICK i \in S : x = 0..i
  OBVIOUS
<1>4. ASSUME NEW j \in S, j < i
      PROVE  FALSE
  <2>1. 0..j \subseteq 0..i /\ 0..j # 0..i
    BY <1>4
  <2>2. <<0..j, x>> \in StrictSubsetOrdering(Nat)
    BY <1>3, <2>1 DEF StrictSubsetOrdering
  <2> QED
    BY <1>2, <2>2
<1> QED
  BY <1>4

WasOffered(address) ==
  \E list \in offered :
    /\ \E i \in DOMAIN list : list[i].address = address
    /\ address \notin Private => \A i \in DOMAIN list : list[i].address \notin Private

(* findControlPlaneEndpoint: the selected address is one of the list, and  *)
(* a private one if the list has any.                                      *)
LEMMA Selected ==
  ASSUME NEW list \in AddressLists, list # <<>>
  PROVE  /\ SelectedAddress(list) \in Addresses
         /\ \E i \in DOMAIN list : list[i].address = SelectedAddress(list)
         /\ SelectedAddress(list) \notin Private =>
              \A i \in DOMAIN list : list[i].address \notin Private
<1> DEFINE internal == {i \in DOMAIN list : list[i].type = "InternalIP"}
           first == CHOOSE i \in internal : \A j \in internal : i <= j
           sel == IF internal # {} THEN first ELSE 1
<1>1. /\ list \in Seq(MachineAddress) /\ 1 \in DOMAIN list /\ DOMAIN list \subseteq Nat
      /\ \A i \in DOMAIN list : list[i] \in MachineAddress
      /\ \A i \in DOMAIN list : list[i].type = "InternalIP" <=> list[i].address \in Private
  BY ClusterAssumption
<1>2. internal # {} => first \in internal
  <2>1. internal # {} => \E i \in internal : \A j \in internal : i <= j
    BY <1>1, FirstExists
  <2> QED
    BY <2>1
<1>3. SelectedAddress(list) = list[sel].address
  BY DEF SelectedAddress
<1> HIDE DEF first
<1>4. sel \in DOMAIN list /\ (internal # {} => list[sel].type = "InternalIP")
  BY <1>1, <1>2
<1> QED
  BY <1>1, <1>3, <1>4 DEF MachineAddress

-----------------------------------------------------------------------------
(* Types.                                                                  *)

(* The initial objects are of their types.                                 *)
LEMMA Constructed ==
  /\ NewCluster \in Beskar7Cluster
  /\ AbsentCluster \in Beskar7Cluster
  /\ IdleWorker \in Worker
<1>1. Unset \in SpecEndpoint
  BY DEF Unset, SpecEndpoint
<1>2. NewCluster \in Beskar7Cluster
  BY <1>1 DEF NewCluster, Beskar7Cluster, EndpointConditions
<1>3. AbsentCluster \in Beskar7Cluster
  BY <1>2 DEF AbsentCluster, Beskar7Cluster
<1> QED
  BY <1>2, <1>3 DEF IdleWorker, Worker

(* Every edit of people, webhook and reconciler makes a cluster of a       *)
(* cluster.                                                                *)
LEMMA ClusterEdits ==
  ASSUME NEW object \in Beskar7Cluster
  PROVE  /\ \A spec \in SpecEndpoint : [object EXCEPT !.spec = spec] \in Beskar7Cluster
         /\ [object EXCEPT !.owner = TRUE] \in Beskar7Cluster
         /\ [object EXCEPT !.paused = ~@] \in Beskar7Cluster
         /\ [object EXCEPT !.deleting = TRUE] \in Beskar7Cluster
         /\ \A b \in BOOLEAN : [object EXCEPT !.finalizer = b] \in Beskar7Cluster
         /\ \A d \in SUBSET Zones : [object EXCEPT !.domains = d] \in Beskar7Cluster
         /\ [object EXCEPT !.condition = "Deleting", !.finalizer = FALSE] \in Beskar7Cluster
         /\ [object EXCEPT !.condition = "ControlPlaneEndpointNotSet", !.ready = FALSE]
              \in Beskar7Cluster
         /\ \A a \in Addresses : [object EXCEPT !.endpoint = a, !.condition = "True",
                                                !.ready = TRUE] \in Beskar7Cluster
         /\ Defaulted(object) \in Beskar7Cluster
         /\ Stored(object) \in Beskar7Cluster
<1>1. defaultBeskar7Cluster(object.spec) \in SpecEndpoint
  BY DEF Beskar7Cluster, SpecEndpoint, defaultBeskar7Cluster, DefaultPort
<1>2. \A spec \in SpecEndpoint : [object EXCEPT !.spec = spec] \in Beskar7Cluster
  BY DEF Beskar7Cluster
<1>3. Defaulted(object) \in Beskar7Cluster /\ Stored(object) \in Beskar7Cluster
  BY <1>1, <1>2, Constructed DEF Defaulted, Stored
<1>4. [object EXCEPT !.condition = "Deleting", !.finalizer = FALSE] \in Beskar7Cluster
  BY DEF Beskar7Cluster, EndpointConditions
<1>5. [object EXCEPT !.condition = "ControlPlaneEndpointNotSet", !.ready = FALSE]
        \in Beskar7Cluster
  BY DEF Beskar7Cluster, EndpointConditions
<1>6. \A a \in Addresses : [object EXCEPT !.endpoint = a, !.condition = "True",
                                         !.ready = TRUE] \in Beskar7Cluster
  BY DEF Beskar7Cluster, EndpointConditions
<1>7. /\ [object EXCEPT !.owner = TRUE] \in Beskar7Cluster
      /\ [object EXCEPT !.paused = ~@] \in Beskar7Cluster
      /\ [object EXCEPT !.deleting = TRUE] \in Beskar7Cluster
      /\ \A b \in BOOLEAN : [object EXCEPT !.finalizer = b] \in Beskar7Cluster
      /\ \A d \in SUBSET Zones : [object EXCEPT !.domains = d] \in Beskar7Cluster
  BY DEF Beskar7Cluster
<1> QED
  BY <1>2, <1>3, <1>4, <1>5, <1>6, <1>7

(* The merge patch, and what it does to the fields that are looked at.     *)
LEMMA PatchedFields ==
  ASSUME cluster \in Beskar7Cluster, NEW old \in Beskar7Cluster, NEW new \in Beskar7Cluster
  PROVE  /\ Patched(old, new) \in Beskar7Cluster
         /\ Patched(old, new).exists = cluster.exists
         /\ Patched(old, new).endpoint = Merge(cluster.endpoint, old.endpoint, new.endpoint)
         /\ Patched(old, new).ready = Merge(cluster.ready, old.ready, new.ready)
         /\ \/ Patched(old, new).spec = cluster.spec
            \/ /\ ~Refused(cluster)
               /\ Patched(old, new).spec = Defaulted(cluster).spec
<1> DEFINE w == WithFinalizer(old, new)
<1>1. /\ w \in Beskar7Cluster
      /\ w.exists = cluster.exists /\ w.endpoint = cluster.endpoint
      /\ w.ready = cluster.ready
      /\ w.spec = cluster.spec \/ (~Refused(cluster) /\ w.spec = Defaulted(cluster).spec)
  <2> DEFINE d == Defaulted(cluster)
  <2>1. /\ d \in Beskar7Cluster
        /\ d.exists = cluster.exists /\ d.endpoint = cluster.endpoint
        /\ d.ready = cluster.ready
    <3>1. \A spec : LET e == [cluster EXCEPT !.spec = spec] IN
            /\ e.exists = cluster.exists /\ e.endpoint = cluster.endpoint
            /\ e.ready = cluster.ready
      BY DEF Beskar7Cluster
    <3>2. /\ d.exists = cluster.exists /\ d.endpoint = cluster.endpoint
          /\ d.ready = cluster.ready
      BY <3>1 DEF Defaulted
    <3>3. d \in Beskar7Cluster
      BY ClusterEdits, Zenon
    <3> QED
      BY <3>2, <3>3, Zenon
  <2> HIDE DEF d
  <2>2. LET e == [d EXCEPT !.finalizer = new.finalizer] IN
        /\ e \in Beskar7Cluster /\ e.exists = d.exists /\ e.endpoint = d.endpoint
        /\ e.ready = d.ready /\ e.spec = d.spec
    BY <2>1 DEF Beskar7Cluster
  <2>3. w = cluster \/ (~Refused(cluster) /\ w = [d EXCEPT !.finalizer = new.finalizer])
    BY DEF WithFinalizer, d
  <2> QED
    BY <2>1, <2>2, <2>3 DEF d
<1> HIDE DEF w
<1> DEFINE D == PatchedDomains(w.domains, old.domains, new.domains)
           e == Merge(w.endpoint, old.endpoint, new.endpoint)
           r == Merge(w.ready, old.ready, new.ready)
           c == IF ConditionConflict(old, new) THEN w.condition
                ELSE Merge(w.condition, old.condition, new.condition)
<1>2. /\ D \in SUBSET Zones /\ e \in Addresses \cup {None} /\ r \in BOOLEAN
      /\ c \in EndpointConditions
  BY <1>1 DEF Beskar7Cluster, Merge, PatchedDomains
<1>3. Patched(old, new)
        = [w EXCEPT !.domains = D, !.endpoint = e, !.ready = r, !.condition = c]
  BY DEF Patched, w
<1>4. /\ Patched(old, new) \in Beskar7Cluster
      /\ Patched(old, new).exists = w.exists /\ Patched(old, new).spec = w.spec
      /\ Patched(old, new).endpoint = e /\ Patched(old, new).ready = r
  <2> DEFINE p == Patched(old, new)
  <2> HIDE DEF D, e, r, c, p
  <2>1. w \in Beskar7Cluster
    BY <1>1
  <2>2. p = [w EXCEPT !.domains = D, !.endpoint = e, !.ready = r, !.condition = c]
    BY <1>3 DEF p
  <2>3. /\ p \in Beskar7Cluster
        /\ p.exists = w.exists /\ p.spec = w.spec /\ p.endpoint = e /\ p.ready = r
    BY <1>2, <2>1, <2>2 DEF Beskar7Cluster
  <2> QED
    BY <2>3 DEF p
<1> QED
  BY <1>1, <1>4
-----------------------------------------------------------------------------
(* The invariant.                                                          *)

EndpointsFollow ==
  /\ \A m \in ControlPlanes :
       controlPlane[m].infrastructureReady => controlPlane[m].addresses \in offered
  /\ \A e \in {cluster.endpoint, cached.endpoint, worker.old.endpoint, worker.new.endpoint} :
       e # None => WasOffered(e)
  /\ cluster.ready => cluster.endpoint # None
  /\ cluster.exists /\ cluster.endpoint = None
       => cached.endpoint = None /\ worker.old.endpoint = None
  /\ worker.new.endpoint = None => worker.old.endpoint = None
  /\ worker.new.ready => worker.old.ready \/ worker.new.endpoint # None

ClusterInv == TypeOK /\ EndpointsFollow

(* The constructed objects have no endpoint.                               *)
LEMMA NoEndpointYet ==
  /\ AbsentCluster.endpoint = None /\ ~AbsentCluster.ready /\ ~AbsentCluster.exists
  /\ NewCluster.endpoint = None /\ ~NewCluster.ready
  /\ IdleWorker.old = AbsentCluster /\ IdleWorker.new = AbsentCluster
  /\ IdleWorker.pc = "idle"
BY DEF AbsentCluster, NewCluster, IdleWorker

(* Failures stay within their bound.                                       *)
LEMMA FaultType ==
  ASSUME faults \in 0 .. MaxFaults, Fault \/ NoFault
  PROVE  faults' \in 0 .. MaxFaults
BY ClusterAssumption DEF Fault, NoFault

(* Changes stay within their bound.                                        *)
LEMMA ChangeType ==
  ASSUME changes \in 0 .. MaxChanges, Change \/ UNCHANGED changes
  PROVE  changes' \in 0 .. MaxChanges
BY ClusterAssumption DEF Change

(* The invariant holds at first.                                           *)
LEMMA ClusterInit == Init => ClusterInv
<1> SUFFICES ASSUME Init PROVE ClusterInv
  OBVIOUS
<1>1. PICK spec \in SpecEndpoints : cluster = Defaulted([NewCluster EXCEPT !.spec = spec])
  BY DEF Init
<1> DEFINE new == [NewCluster EXCEPT !.spec = spec]
<1>2. new \in Beskar7Cluster /\ new.endpoint = None /\ ~new.ready
  BY Constructed, ClusterAssumption, NoEndpointYet DEF Beskar7Cluster
<1> HIDE DEF new
<1>3. cluster \in Beskar7Cluster /\ cluster.endpoint = None /\ ~cluster.ready
  <2>1. cluster \in Beskar7Cluster
    BY <1>1, <1>2, ClusterEdits DEF new
  <2>2. cluster \in {new, [new EXCEPT !.spec = defaultBeskar7Cluster(new.spec)]}
    BY <1>1 DEF Defaulted, new
  <2> QED
    BY <1>2, <2>1, <2>2 DEF Beskar7Cluster
<1>4. TypeOK
  <2>1. 0 \in 0 .. MaxChanges /\ 0 \in 0 .. MaxFaults
    BY ClusterAssumption
  <2>2. controlPlane \in [ControlPlanes -> Machine]
    BY ClusterAssumption DEF Init, Machine
  <2> QED
    BY <1>3, <2>1, <2>2, Constructed DEF Init, TypeOK
<1>5. EndpointsFollow
  BY <1>3, NoEndpointYet DEF Init, EndpointsFollow
<1> QED
  BY <1>4, <1>5 DEF ClusterInv

(* A step of the reconciler keeps the memory of a lost event, or ends it.  *)
LEMMA MissedType ==
  ASSUME ClusterInv, Work
  PROVE  missed' \in BOOLEAN
BY DEF ClusterInv, TypeOK, Work, Reconcile, ReconcileFailureDomains,
  ReconcileControlPlaneEndpoint, Patch

(* The steps of the reconciler change nothing around it.                   *)
LEMMA ReconcilerStep ==
  ASSUME ClusterInv, UNCHANGED <<worldVars, webhook>>,
         cluster' \in Beskar7Cluster, cached' \in Beskar7Cluster, worker' \in Worker,
         queued' \in BOOLEAN, missed' \in BOOLEAN, faults' \in 0 .. MaxFaults,
         \A e \in {cluster'.endpoint, cached'.endpoint, worker'.old.endpoint,
                  worker'.new.endpoint} : e # None => WasOffered(e),
         cluster'.ready => cluster'.endpoint # None,
         cluster'.exists /\ cluster'.endpoint = None
           => cached'.endpoint = None /\ worker'.old.endpoint = None,
         worker'.new.endpoint = None => worker'.old.endpoint = None,
         worker'.new.ready => worker'.old.ready \/ worker'.new.endpoint # None
  PROVE  ClusterInv'
<1>1. TypeOK'
  BY DEF ClusterInv, TypeOK, worldVars
<1>2. EndpointsFollow'
  BY DEF ClusterInv, EndpointsFollow, WasOffered, worldVars
<1> QED
  BY <1>1, <1>2 DEF ClusterInv

(* Reconcile up to the first call: the endpoint and status.ready of the    *)
(* copy are those that were read.                                          *)
LEMMA ReconcileStep ==
  ASSUME ClusterInv, Reconcile
  PROVE  ClusterInv'
<1> DEFINE Begun == \/ worker' = IdleWorker
                    \/ /\ worker'.old = cached
                       /\ worker'.new.endpoint = cached.endpoint
                       /\ worker'.new.ready = cached.ready
           Typed == worker' \in Worker /\ queued' \in BOOLEAN /\ faults' \in 0 .. MaxFaults
<1>1. /\ cluster \in Beskar7Cluster /\ cached \in Beskar7Cluster
      /\ faults \in 0 .. MaxFaults
  BY DEF ClusterInv, TypeOK
<1>2. NothingToReconcile => Typed /\ Begun
  BY <1>1, FaultType, Constructed DEF NothingToReconcile, Return
<1>3. ASSUME NEW pc \in {"domains", "patch"}, NEW new \in Beskar7Cluster,
             NEW again \in BOOLEAN, Go(pc, new, again),
             new.endpoint = cached.endpoint, new.ready = cached.ready
      PROVE  Typed /\ Begun
  BY <1>1, <1>3, FaultType DEF Go, Worker
<1>4. ReconcileDelete => Typed /\ Begun
  <2> DEFINE new == [cached EXCEPT !.condition = "Deleting", !.finalizer = FALSE]
  <2>1. /\ new \in Beskar7Cluster /\ new.endpoint = cached.endpoint
        /\ new.ready = cached.ready
    BY <1>1 DEF Beskar7Cluster, EndpointConditions
  <2> QED
    BY <1>3, <2>1 DEF ReconcileDelete
<1>5. AddFinalizer => Typed /\ Begun
  <2> DEFINE new == [cached EXCEPT !.finalizer = TRUE]
  <2>1. /\ new \in Beskar7Cluster /\ new.endpoint = cached.endpoint
        /\ new.ready = cached.ready
    BY <1>1 DEF Beskar7Cluster, EndpointConditions
  <2> QED
    BY <1>3, <2>1 DEF AddFinalizer
<1>6. ReconcileNormal => Typed /\ Begun
  BY <1>1, <1>3 DEF ReconcileNormal
<1>7. Typed /\ Begun /\ UNCHANGED <<cluster, cached, worldVars, webhook>>
  BY <1>2, <1>4, <1>5, <1>6 DEF Reconcile
<1> HIDE DEF Typed
<1>8. /\ \A e \in {cluster'.endpoint, cached'.endpoint, worker'.old.endpoint,
                   worker'.new.endpoint} : e # None => WasOffered(e)
      /\ cluster'.ready => cluster'.endpoint # None
      /\ cluster'.exists /\ cluster'.endpoint = None
           => cached'.endpoint = None /\ worker'.old.endpoint = None
      /\ worker'.new.endpoint = None => worker'.old.endpoint = None
      /\ worker'.new.ready => worker'.old.ready \/ worker'.new.endpoint # None
  BY <1>7, NoEndpointYet DEF ClusterInv, EndpointsFollow
<1>9. missed' \in BOOLEAN
  BY MissedType DEF Work
<1> QED
  BY <1>1, <1>7, <1>8, <1>9, ReconcilerStep DEF Typed

(* The steps between: an endpoint is put in the copy only if it is offered *)
(* now, and is never taken from it.                                        *)
LEMMA ContinueStep ==
  ASSUME ClusterInv, \/ ReconcileFailureDomains \/ ReconcileControlPlaneEndpoint
  PROVE  ClusterInv'
<1>1. /\ cluster \in Beskar7Cluster /\ cached \in Beskar7Cluster
      /\ worker \in Worker /\ worker.old \in Beskar7Cluster /\ worker.new \in Beskar7Cluster
      /\ queued \in BOOLEAN /\ faults \in 0 .. MaxFaults
      /\ controlPlane \in [ControlPlanes -> Machine]
  BY DEF ClusterInv, TypeOK, Worker
<1>2. EndpointsFollow
  BY DEF ClusterInv
<1>3. faults' \in 0 .. MaxFaults /\ missed' \in BOOLEAN
  <2>1. faults' \in 0 .. MaxFaults
    BY <1>1, FaultType
    DEF ReconcileFailureDomains, ReconcileControlPlaneEndpoint, ListFails
  <2> QED
    BY <2>1, MissedType DEF Work
<1>4. ASSUME NEW pc \in {"endpoint", "patch"}, NEW new \in Beskar7Cluster,
             NEW again \in BOOLEAN, Continue(pc, new, again),
             \/ /\ new.endpoint = worker.new.endpoint
                /\ new.ready => worker.new.ready
             \/ new.endpoint # None /\ WasOffered(new.endpoint)
      PROVE  ClusterInv'
  <2>1. /\ worker' \in Worker /\ worker'.old = worker.old /\ worker'.new = new
        /\ UNCHANGED <<cluster, cached, worldVars, webhook, queued>>
    BY <1>1, <1>4 DEF Continue, Worker
  <2>2. /\ \A e \in {cluster'.endpoint, cached'.endpoint, worker'.old.endpoint,
                     worker'.new.endpoint} : e # None => WasOffered(e)
        /\ cluster'.ready => cluster'.endpoint # None
        /\ cluster'.exists /\ cluster'.endpoint = None
             => cached'.endpoint = None /\ worker'.old.endpoint = None
        /\ worker'.new.endpoint = None => worker'.old.endpoint = None
        /\ worker'.new.ready => worker'.old.ready \/ worker'.new.endpoint # None
    BY <1>2, <1>4, <2>1 DEF EndpointsFollow
  <2> QED
    BY <1>1, <1>3, <2>1, <2>2, ReconcilerStep
<1>5. CASE ListFails
  BY <1>1, <1>4, <1>5 DEF ListFails
<1>6. CASE Continue("endpoint", [worker.new EXCEPT !.domains = FailureDomains], FALSE)
  <2> DEFINE new == [worker.new EXCEPT !.domains = FailureDomains]
  <2>1. FailureDomains \in SUBSET Zones
    BY DEF ClusterInv, TypeOK, FailureDomains
  <2>2. /\ new \in Beskar7Cluster
        /\ new.endpoint = worker.new.endpoint /\ new.ready = worker.new.ready
    BY <1>1, <2>1 DEF Beskar7Cluster
  <2> QED
    BY <1>4, <1>6, <2>2
<1>7. CASE NoEndpoint
  <2> DEFINE new == [worker.new EXCEPT !.condition = "ControlPlaneEndpointNotSet",
                                       !.ready = FALSE]
  <2>1. new \in Beskar7Cluster /\ new.endpoint = worker.new.endpoint /\ ~new.ready
    BY <1>1 DEF Beskar7Cluster, EndpointConditions
  <2> QED
    BY <1>4, <1>7, <2>1 DEF NoEndpoint
<1>8. ASSUME NEW m \in ControlPlanes, Suitable(m),
             Continue("patch",
               [worker.new EXCEPT !.endpoint  = SelectedAddress(controlPlane[m].addresses),
                                  !.condition = "True", !.ready = TRUE], FALSE)
      PROVE  ClusterInv'
  <2> DEFINE list == controlPlane[m].addresses
             a == SelectedAddress(list)
             new == [worker.new EXCEPT !.endpoint = a, !.condition = "True", !.ready = TRUE]
  <2>1. list \in AddressLists /\ list # <<>> /\ list \in offered
    BY <1>1, <1>2, <1>8 DEF Machine, Suitable, EndpointsFollow
  <2>2. a \in Addresses /\ WasOffered(a)
    BY <2>1, Selected DEF WasOffered
  <2> HIDE DEF a
  <2>3. new \in Beskar7Cluster /\ new.endpoint = a
    BY <1>1, <2>2 DEF Beskar7Cluster, EndpointConditions
  <2> QED
    BY <1>4, <1>8, <2>2, <2>3, ClusterAssumption DEF a
<1> QED
  BY <1>5, <1>6, <1>7, <1>8 DEF ReconcileFailureDomains, ReconcileControlPlaneEndpoint

(* The deferred patch: status.ready and the endpoint are merged one by     *)
(* one, and still no cluster gets ready without an endpoint.               *)
LEMMA PatchStep ==
  ASSUME ClusterInv, Patch
  PROVE  ClusterInv'
<1> DEFINE old == worker.old
           new == worker.new
           patched == Patched(old, new)
<1>1. /\ cluster \in Beskar7Cluster /\ cached \in Beskar7Cluster
      /\ old \in Beskar7Cluster /\ new \in Beskar7Cluster
      /\ worker.again \in BOOLEAN /\ queued \in BOOLEAN /\ faults \in 0 .. MaxFaults
  BY DEF ClusterInv, TypeOK, Worker
<1>2. EndpointsFollow
  BY DEF ClusterInv
<1>3. /\ faults' \in 0 .. MaxFaults /\ queued' \in BOOLEAN /\ missed' \in BOOLEAN
      /\ worker' = IdleWorker /\ UNCHANGED <<cached, worldVars, webhook>>
  <2>1. faults' \in 0 .. MaxFaults
    BY <1>1, FaultType DEF Patch
  <2>2. queued' \in BOOLEAN
    BY Zenon DEF Patch
  <2>3. missed' \in BOOLEAN
    BY MissedType DEF Work
  <2> QED
    BY <2>1, <2>2, <2>3 DEF Patch
<1>4. patched.exists =>
        /\ patched.endpoint # None => WasOffered(patched.endpoint)
        /\ patched.ready => patched.endpoint # None
        /\ patched.endpoint = None => cached.endpoint = None
  <2> SUFFICES ASSUME patched.exists
               PROVE  /\ patched.endpoint # None => WasOffered(patched.endpoint)
                      /\ patched.ready => patched.endpoint # None
                      /\ patched.endpoint = None => cached.endpoint = None
    OBVIOUS
  <2>1. /\ cluster.exists
        /\ patched.endpoint = Merge(cluster.endpoint, old.endpoint, new.endpoint)
        /\ patched.ready = Merge(cluster.ready, old.ready, new.ready)
    BY <1>1, PatchedFields
  <2>2. cluster.ready \in BOOLEAN /\ old.ready \in BOOLEAN /\ new.ready \in BOOLEAN
    BY <1>1 DEF Beskar7Cluster
  <2> HIDE DEF patched
  <2> QED
    BY <1>2, <2>1, <2>2 DEF EndpointsFollow, Merge
<1>5. /\ cluster' \in Beskar7Cluster
      /\ cluster'.endpoint # None => WasOffered(cluster'.endpoint)
      /\ cluster'.ready => cluster'.endpoint # None
      /\ cluster'.exists /\ cluster'.endpoint = None => cached.endpoint = None
  <2>1. CASE UNCHANGED cluster
    BY <1>1, <1>2, <2>1 DEF EndpointsFollow
  <2>2. CASE cluster.exists /\ cluster' = Stored(patched)
    <3>1. patched \in Beskar7Cluster /\ patched.exists
      BY <1>1, <2>2, PatchedFields
    <3>2. cluster' \in {patched, AbsentCluster}
      BY <2>2 DEF Stored
    <3> HIDE DEF patched
    <3> QED
      BY <1>4, <3>1, <3>2, NoEndpointYet, Constructed
  <2> QED
    BY <2>1, <2>2 DEF Patch
<1>6. worker' \in Worker
  BY <1>3, Constructed
<1>7. /\ \A e \in {cluster'.endpoint, cached'.endpoint, worker'.old.endpoint,
                   worker'.new.endpoint} : e # None => WasOffered(e)
      /\ cluster'.ready => cluster'.endpoint # None
      /\ cluster'.exists /\ cluster'.endpoint = None
           => cached'.endpoint = None /\ worker'.old.endpoint = None
      /\ worker'.new.endpoint = None => worker'.old.endpoint = None
      /\ worker'.new.ready => worker'.old.ready \/ worker'.new.endpoint # None
  BY <1>2, <1>3, <1>5, NoEndpointYet DEF EndpointsFollow
<1> QED
  BY <1>1, <1>3, <1>5, <1>6, <1>7, ReconcilerStep

(* The cache catches up, at an event or with a new manager.                *)
LEMMA SyncStep ==
  ASSUME ClusterInv, SyncCluster \/ RestartManager \/ Resync
  PROVE  ClusterInv'
<1>1. /\ cluster \in Beskar7Cluster /\ cached \in Beskar7Cluster /\ worker \in Worker
      /\ faults \in 0 .. MaxFaults /\ cluster.exists \in BOOLEAN
  BY DEF ClusterInv, TypeOK, Beskar7Cluster
<1>2. EndpointsFollow
  BY DEF ClusterInv
<1>3. /\ UNCHANGED <<cluster, worldVars, missed>>
      /\ cached' \in {cluster, cached} /\ worker' \in {worker, IdleWorker}
      /\ queued' \in BOOLEAN /\ webhook' \in BOOLEAN /\ faults' \in 0 .. MaxFaults
  BY <1>1, FaultType DEF SyncCluster, RestartManager, Resync, ClusterInv, TypeOK
<1>4. TypeOK'
  BY <1>1, <1>3, Constructed DEF ClusterInv, TypeOK, worldVars
<1>5. EndpointsFollow'
  <2>1. \A e : WasOffered(e) => WasOffered(e)'
    BY <1>3 DEF WasOffered, worldVars
  <2>2. UNCHANGED <<controlPlane, offered>>
    BY <1>3 DEF worldVars
  <2> QED
    BY <1>2, <1>3, <2>1, <2>2, NoEndpointYet DEF EndpointsFollow
<1> QED
  BY <1>4, <1>5 DEF ClusterInv

(* What people and the Cluster controller do to the cluster leaves its     *)
(* endpoint alone, unless the cluster goes.                                *)
LEMMA StoreStep ==
  ASSUME ClusterInv, NEW new \in Beskar7Cluster, StoreCluster(new),
         changes' \in 0 .. MaxChanges,
         \/ new = AbsentCluster
         \/ new.endpoint = cluster.endpoint /\ new.ready = cluster.ready
  PROVE  ClusterInv'
<1>1. EndpointsFollow
  BY DEF ClusterInv
<1>2. TypeOK'
  BY DEF ClusterInv, TypeOK, StoreCluster
<1>3. EndpointsFollow'
  <2>1. \A e : WasOffered(e) => WasOffered(e)'
    BY DEF WasOffered, StoreCluster
  <2>2. /\ cluster.exists /\ cluster' = new
        /\ UNCHANGED <<cached, worker, controlPlane, offered>>
    BY DEF StoreCluster
  <2> QED
    BY <1>1, <2>1, <2>2, NoEndpointYet DEF EndpointsFollow
<1> QED
  BY <1>2, <1>3 DEF ClusterInv
(* An update goes through the webhook, which may fill in the port.         *)
LEMMA UpdateStep ==
  ASSUME ClusterInv, NEW new \in Beskar7Cluster, UpdateCluster(new),
         changes' \in 0 .. MaxChanges,
         new.endpoint = cluster.endpoint /\ new.ready = cluster.ready
  PROVE  ClusterInv'
<1> DEFINE d == Defaulted(new)
<1>1. d \in Beskar7Cluster
  BY ClusterEdits
<1>2. d.endpoint = new.endpoint /\ d.ready = new.ready
  BY DEF Defaulted, Beskar7Cluster
<1>3. StoreCluster(d)
  BY DEF UpdateCluster
<1> HIDE DEF d
<1> QED
  BY <1>1, <1>2, <1>3, StoreStep

(* The operators and the Cluster controller.                               *)
LEMMA PeopleStep ==
  ASSUME ClusterInv,
         \/ AdoptCluster \/ PauseCluster \/ DeleteCluster
         \/ \E spec \in SpecEndpoints : EditCluster(spec)
  PROVE  ClusterInv'
<1>1. cluster \in Beskar7Cluster /\ changes \in 0 .. MaxChanges
  BY DEF ClusterInv, TypeOK
<1>2. CASE AdoptCluster
  <2> DEFINE new == [cluster EXCEPT !.owner = TRUE]
  <2>1. /\ new \in Beskar7Cluster /\ new.endpoint = cluster.endpoint
        /\ new.ready = cluster.ready
    BY <1>1 DEF Beskar7Cluster
  <2>2. UpdateCluster(new) /\ changes' \in 0 .. MaxChanges
    BY <1>1, <1>2 DEF AdoptCluster
  <2> HIDE DEF new
  <2> QED
    BY <2>1, <2>2, UpdateStep
<1>3. CASE PauseCluster
  <2> DEFINE new == [cluster EXCEPT !.paused = ~@]
  <2>1. /\ new \in Beskar7Cluster /\ new.endpoint = cluster.endpoint
        /\ new.ready = cluster.ready
    BY <1>1 DEF Beskar7Cluster
  <2>2. UpdateCluster(new) /\ changes' \in 0 .. MaxChanges
    BY <1>1, <1>3, ChangeType DEF PauseCluster, ChangeUnless
  <2> HIDE DEF new
  <2> QED
    BY <2>1, <2>2, UpdateStep
<1>4. ASSUME NEW spec \in SpecEndpoints, EditCluster(spec)
      PROVE  ClusterInv'
  <2> DEFINE new == [cluster EXCEPT !.spec = spec]
  <2>1. spec \in SpecEndpoint
    BY ClusterAssumption
  <2>2. /\ new \in Beskar7Cluster /\ new.endpoint = cluster.endpoint
        /\ new.ready = cluster.ready
    BY <1>1, <2>1 DEF Beskar7Cluster
  <2>3. UpdateCluster(new) /\ changes' \in 0 .. MaxChanges
    BY <1>1, <1>4, ChangeType DEF EditCluster
  <2> HIDE DEF new
  <2> QED
    BY <2>2, <2>3, UpdateStep
<1>5. CASE DeleteCluster
  <2> DEFINE new == [cluster EXCEPT !.deleting = TRUE]
  <2>1. /\ new \in Beskar7Cluster /\ new.endpoint = cluster.endpoint
        /\ new.ready = cluster.ready
    BY <1>1 DEF Beskar7Cluster
  <2>2. StoreCluster(Stored(new)) /\ changes' \in 0 .. MaxChanges
    BY <1>1, <1>5, ChangeType DEF DeleteCluster
  <2>3. Stored(new) \in {new, AbsentCluster}
    BY DEF Stored
  <2> HIDE DEF new
  <2> QED
    BY <2>1, <2>2, <2>3, StoreStep, Constructed
<1> QED
  BY <1>2, <1>3, <1>4, <1>5

(* Hosts, Machines and the owner: what is offered only grows.              *)
LEMMA WorldStep ==
  ASSUME ClusterInv,
         \/ PauseOwner
         \/ \E h \in Hosts, z \in Zones \cup {None} : RelabelHost(h, z)
         \/ \E m \in ControlPlanes, ready \in BOOLEAN, list \in AddressLists :
              UpdateMachine(m, ready, list)
  PROVE  ClusterInv'
<1>1. /\ changes \in 0 .. MaxChanges /\ ownerPaused \in BOOLEAN
      /\ zone \in [Hosts -> Zones \cup {None}]
      /\ controlPlane \in [ControlPlanes -> Machine] /\ offered \subseteq AddressLists
  BY DEF ClusterInv, TypeOK
<1>2. EndpointsFollow
  BY DEF ClusterInv
<1>3. /\ UNCHANGED <<cluster, cached, worker, webhook>>
      /\ changes' \in 0 .. MaxChanges
  BY <1>1, ChangeType DEF PauseOwner, ChangeUnless, RelabelHost, UpdateMachine
<1>4. CASE PauseOwner \/ \E h \in Hosts, z \in Zones \cup {None} : RelabelHost(h, z)
  <2>1. /\ UNCHANGED <<controlPlane, offered>>
        /\ ownerPaused' \in BOOLEAN /\ zone' \in [Hosts -> Zones \cup {None}]
    BY <1>1, <1>4 DEF PauseOwner, RelabelHost
  <2>2. queued' \in BOOLEAN /\ missed' \in BOOLEAN /\ faults' \in 0 .. MaxFaults
    BY <1>4, FaultType
    DEF PauseOwner, RelabelHost, PhysicalHostToBeskar7Clusters, ClusterInv, TypeOK, NoFault
  <2>3. TypeOK'
    BY <1>3, <2>1, <2>2 DEF ClusterInv, TypeOK
  <2>4. EndpointsFollow'
    BY <1>2, <1>3, <2>1 DEF EndpointsFollow, WasOffered
  <2> QED
    BY <2>3, <2>4 DEF ClusterInv
<1>5. ASSUME NEW m \in ControlPlanes, NEW ready \in BOOLEAN, NEW list \in AddressLists,
             UpdateMachine(m, ready, list)
      PROVE  ClusterInv'
  <2> DEFINE new == [infrastructureReady |-> ready, addresses |-> list]
  <2>1. /\ controlPlane' = [controlPlane EXCEPT ![m] = new]
        /\ offered' = IF ready THEN offered \cup {list} ELSE offered
        /\ UNCHANGED <<zone, ownerPaused, queued, missed, faults>>
    BY <1>5 DEF UpdateMachine
  <2>2. controlPlane' \in [ControlPlanes -> Machine] /\ offered' \subseteq AddressLists
    BY <1>1, <2>1 DEF Machine
  <2>3. TypeOK'
    BY <1>3, <2>1, <2>2 DEF ClusterInv, TypeOK
  <2>4. \A e : WasOffered(e) => WasOffered(e)'
    BY <2>1 DEF WasOffered
  <2>5. \A k \in ControlPlanes :
          controlPlane'[k].infrastructureReady => controlPlane'[k].addresses \in offered'
    BY <1>1, <1>2, <2>1 DEF EndpointsFollow
  <2>6. EndpointsFollow'
    BY <1>2, <1>3, <2>4, <2>5 DEF EndpointsFollow
  <2> QED
    BY <2>3, <2>6 DEF ClusterInv
<1> QED
  BY <1>4, <1>5

(* Every step keeps the invariant.                                         *)
LEMMA ClusterNext == ClusterInv /\ [Next]_vars => ClusterInv'
<1> SUFFICES ASSUME ClusterInv, [Next]_vars PROVE ClusterInv'
  OBVIOUS
<1>1. CASE UNCHANGED vars
  BY <1>1 DEF vars, worldVars, ClusterInv, TypeOK, EndpointsFollow, WasOffered
<1>2. CASE Work
  BY <1>2, ReconcileStep, ContinueStep, PatchStep DEF Work
<1> QED
  BY <1>1, <1>2, SyncStep, PeopleStep, WorldStep DEF Next, World

-----------------------------------------------------------------------------
(* The results.                                                            *)

(* The state of the Beskar7Cluster reconciler is of its type.              *)
THEOREM ClusterTypeCorrect == Spec => []TypeOK
BY ClusterInit, ClusterNext, PTL DEF Spec, ClusterInv

(* However stale the reconciler's copies are and in whatever order its     *)
(* patches land, the endpoint it publishes is one that a control plane     *)
(* Machine had with its infrastructure ready, a private one if there was   *)
(* any, and status.ready is never set without one                          *)
(* (findControlPlaneEndpoint and the deferred patch).                      *)
THEOREM EndpointIsGenuine == Spec => []EndpointWasOffered
<1>1. ClusterInv => EndpointWasOffered
  BY DEF ClusterInv, EndpointsFollow, EndpointWasOffered, WasOffered
<1> QED
  BY <1>1, ClusterInit, ClusterNext, PTL DEF Spec

(* What the webhook admits, it admits again with the port it filled in.    *)
LEMMA DefaultIsAdmitted ==
  /\ \A spec \in SpecEndpoint : Admitted(spec) => Admitted(defaultBeskar7Cluster(spec))
  /\ Admitted(Unset)
<1>1. ASSUME NEW spec \in SpecEndpoint
      PROVE  defaultBeskar7Cluster(defaultBeskar7Cluster(spec)) = defaultBeskar7Cluster(spec)
  <2> DEFINE d == defaultBeskar7Cluster(spec)
  <2>1. ~(d.host # None /\ d.port = 0)
    BY DEF SpecEndpoint, defaultBeskar7Cluster, DefaultPort
  <2> HIDE DEF d
  <2>2. defaultBeskar7Cluster(d) = d
    BY <2>1 DEF defaultBeskar7Cluster
  <2> QED
    BY <2>2 DEF d
<1>2. defaultBeskar7Cluster(Unset) = Unset
  BY DEF defaultBeskar7Cluster, Unset
<1> QED
  BY <1>1, <1>2 DEF Admitted, validateBeskar7Cluster

(* An object that the webhook does not refuse it does not refuse           *)
(* afterwards.                                                             *)
LEMMA DefaultedIsAdmitted ==
  ASSUME NEW object \in Beskar7Cluster, webhook, ~Refused(object)
  PROVE  Admitted(Defaulted(object).spec)
<1>1. Admitted(object.spec) /\ object.spec \in SpecEndpoint
  BY DEF Refused, Beskar7Cluster
<1>2. Defaulted(object).spec = defaultBeskar7Cluster(object.spec)
  BY DEF Defaulted, Beskar7Cluster
<1> QED
  BY <1>1, <1>2, DefaultIsAdmitted

(* Every write of the object through a serving webhook leaves a cluster    *)
(* that was not refused before one that is not refused: the finalizer can  *)
(* be patched, and the cluster deleted, whatever endpoint people have      *)
(* written (ValidateUpdate and Default).                                   *)
THEOREM AdmissionIsStable == Spec => AdmittedStaysAdmitted
<1> DEFINE Stable == Refused(cluster)' => Refused(cluster) \/ ~webhook
<1>1. ClusterInv /\ [Next]_vars => [Stable]_vars
  <2> SUFFICES ASSUME ClusterInv, Next, webhook, ~Refused(cluster), webhook'
               PROVE  Admitted(cluster'.spec)
    BY DEF Refused
  <2>1. cluster \in Beskar7Cluster /\ worker.old \in Beskar7Cluster
        /\ worker.new \in Beskar7Cluster
    BY DEF ClusterInv, TypeOK, Worker
  <2>2. Admitted(cluster.spec) /\ Admitted(Defaulted(cluster).spec)
    BY <2>1, DefaultedIsAdmitted DEF Refused
  <2>3. Admitted(AbsentCluster.spec)
    BY DefaultIsAdmitted DEF AbsentCluster, NewCluster
  <2>4. CASE UNCHANGED cluster
    BY <2>2, <2>4
  <2>5. CASE cluster' = Stored(Patched(worker.old, worker.new))
    BY <2>1, <2>2, <2>3, <2>5, PatchedFields DEF Stored
  <2>6. ASSUME NEW new \in Beskar7Cluster, UpdateCluster(new)
        PROVE  Admitted(cluster'.spec)
    BY <2>6, DefaultedIsAdmitted DEF UpdateCluster, StoreCluster
  <2>7. CASE DeleteCluster
    <3>1. cluster' \in {AbsentCluster, [cluster EXCEPT !.deleting = TRUE]}
      BY <2>7 DEF DeleteCluster, StoreCluster, Stored
    <3>2. [cluster EXCEPT !.deleting = TRUE].spec = cluster.spec
      BY <2>1 DEF Beskar7Cluster
    <3> QED
      BY <2>2, <2>3, <3>1, <3>2
  <2>8. CASE AdoptCluster \/ PauseCluster \/ \E spec \in SpecEndpoints : EditCluster(spec)
    <3>1. PICK new : /\ UpdateCluster(new)
                     /\ \/ new = [cluster EXCEPT !.owner = TRUE]
                        \/ new = [cluster EXCEPT !.paused = ~@]
                        \/ \E spec \in SpecEndpoints : new = [cluster EXCEPT !.spec = spec]
      BY <2>8 DEF AdoptCluster, PauseCluster, EditCluster
    <3>2. new \in Beskar7Cluster
      <4>1. /\ [cluster EXCEPT !.owner = TRUE] \in Beskar7Cluster
            /\ [cluster EXCEPT !.paused = ~@] \in Beskar7Cluster
        BY <2>1 DEF Beskar7Cluster
      <4>2. \A spec \in SpecEndpoint : [cluster EXCEPT !.spec = spec] \in Beskar7Cluster
        BY <2>1 DEF Beskar7Cluster
      <4>3. SpecEndpoints \subseteq SpecEndpoint
        BY ClusterAssumption
      <4> QED
        BY <3>1, <4>1, <4>2, <4>3, Zenon
    <3> QED
      BY <2>6, <3>1, <3>2
  <2> QED
    BY <2>4, <2>5, <2>7, <2>8 DEF Next, Work, Reconcile, ReconcileFailureDomains,
       ReconcileControlPlaneEndpoint, ListFails, NoEndpoint, Continue, Patch, SyncCluster,
       World, PauseOwner, RelabelHost, UpdateMachine, Resync, RestartManager
<1> QED
  BY <1>1, ClusterInit, ClusterNext, PTL DEF Spec, AdmittedStaysAdmitted
=============================================================================
