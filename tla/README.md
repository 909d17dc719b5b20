# Beskar7 in TLA+

Beskar7 is a Cluster API infrastructure provider for bare metal.  A controller
manager claims a server for every `Beskar7Machine`, boots an inspection image on
it through the server's BMC, validates the report that the image posts, and
reports the machine ready.  What is hard about it is that three writers (two
reconcilers and an HTTP handler), in one or more managers, update the same
`PhysicalHost` from copies that may be out of date, while BMCs fail, managers
restart and people delete things.  These modules model that, TLC checks it on
small instances, and TLAPS proves the central results for instances of any size.

Paths are relative to the repository root (`src/` in `PROJECT.json`).

## 1. The system and its parts

| Part | Source | Module | Status |
|------|--------|--------|--------|
| Stored objects, client, caches | `api/v1beta1/physicalhost_types.go`, `beskar7machine_types.go` | `Resources` | modelled |
| PhysicalHost reconciler | `controllers/physicalhost_controller.go` | `PhysicalHostController` | modelled |
| Beskar7Machine reconciler | `controllers/beskar7machine_controller.go` | `Beskar7MachineController` | modelled |
| Inspection handler | `controllers/inspection_handler.go` | `InspectionHandler` | modelled |
| Redfish client, servers | `internal/redfish/client.go`, `gofish_client.go` | `BareMetal` (power, PXE, failures), `RedfishAddresses` | modelled |
| Hardware requirements | `validateInspectionReport` | `HardwareValidation` | modelled |
| Manager, users, Cluster API | `cmd/manager/main.go` | `Beskar7` | wiring, restarts |
| Host life cycle (abstract) | what the writers promise together | `HostLifecycle` | modelled |
| Beskar7Cluster reconciler | `controllers/beskar7cluster_controller.go` | `Beskar7ClusterController` | modelled |
| Cluster webhook | `api/v1beta1/webhooks/beskar7cluster_webhook.go` | `Beskar7ClusterWebhook` | modelled |
| Provisioning queue | `internal/coordination/provisioning_queue.go` | `ProvisioningQueue` | modelled |
| Security monitor | `internal/security/monitor.go` | `SecurityMonitor` | modelled |
| RBAC and TLS validators | `internal/security/rbac_validator.go`, `tls_validator.go` | `RBACValidator`, `TLSValidator` | checks; no formatting |
| Metrics, generated code, test doubles | `internal/metrics`, `zz_generated.deepcopy.go`, `test/emulation` | | not modelled |

How they interact.  The PhysicalHost reconciler keeps `status.state` in step
with the BMC and with `spec.consumerRef`: Available when free, InUse when
claimed, Error when the BMC does not answer.  The machine reconciler claims an
Available host by writing its `consumerRef`, and on a host that is InUse sets
PXE boot, powers the server on and sets Inspecting.  The image on the server
posts its report to the inspection handler, which stores it and sets the phase
Complete.  The machine reconciler then validates it, sets the host Ready, and
finally the machine.  Deletion of the machine clears the `consumerRef`.  The
cluster reconciler only reads hosts and CAPI Machines, and shares its object with
the people who edit it and with the webhook, so it is a specification of its own.
So are the provisioning queue, which no other code uses yet, and the security
monitor, which reads hosts, roles and secrets and writes only events.

The module structure is

    Resources <- BareMetal <- PhysicalHostController   \
                           <- Beskar7MachineController  > Beskar7 <- Beskar7Properties
                           <- InspectionHandler        /               |
                                       HostLifecycle  (INSTANCE) ------+
    Beskar7Properties <- Beskar7Proofs <- LifecycleProofs <- StatusProofs,
                                                             MachineProofs, UnwiredProofs
    Beskar7Properties, HardwareValidation <- MCBeskar7
    Beskar7ClusterWebhook <- Beskar7ClusterController <- MCBeskar7Cluster, ClusterProofs
    RedfishAddresses (INSTANCE) ------------------------ MCBeskar7Cluster
    ProvisioningQueue <- MCProvisioningQueue, QueueProofs
    RBACValidator, TLSValidator <- SecurityMonitor <- MCSecurityMonitor, SecurityProofs

## 2. How state and actions correspond to the code

**Reads and writes (`Resources`).**  `hosts` and `machines` are the API server.
Each manager reads from an informer cache (`cache`, `machineCache`) that lags
until `Sync`.  `Update` and `Status().Update` carry the resourceVersion of the
copy that was read.  Instead of version numbers every copy has a bit `current`,
which a write to the object clears in all other copies; an update of a copy that
is not current is a conflict (`Conflict`).  A write that changes nothing does
not clear it, as in the API server.  `view[t]` is the host copy that thread `t`
works on.  The machine is written by the CAPI patch helper, an unversioned merge
patch of the difference between the machine as read and as changed (`PatchMachine`);
it is deferred, so every exit of Reconcile goes through it, and it is taken as
one step.  An object with a deletionTimestamp disappears with its finalizer.

**Steps.**  A reconciliation is cut at every call that others can see: the read
of the cache, each BMC command, each write.  `workers[g].step` is the place in
the code.  In each manager a controller has one worker (the default of
controller-runtime).  Two managers reconcile at once when leader election is
switched off, or when an old leader has not yet noticed that it lost its lease.  A
panic is recovered by the worker and the reconciliation is tried again.  Requests
to the inspection handler run in goroutines of their own, in every manager,
since the HTTP server is started whether or not the manager is the leader.

**Data.**  A report is a model value, and `Accepts[m]` the reports that meet the
requirements of machine `m`; `HardwareValidation` is the arithmetic behind that
set, from which `MCBeskar7` computes it for hardware that just reaches a minimum
and for hardware with a memory module whose capacity cannot be read.  Hosts and
machines are identified by namespace and name; `Namespace` and `Name` say what
they are, where the code looks at one without the other.  A machine claims hosts of
its own namespace and works on the host of its ProviderID only if that is there
too (`LocalHosts`, `HasAssociatedHost`), but `reconcileDelete` follows the ProviderID
into any namespace and compares no more than the consumer's name
(`NamedHostFound`, `NamedHostIsOurs`).  A ProviderID is the host it names:
namespaces and names hold no slash, so `parseProviderID` undoes `providerID`, and a
string that does not parse is treated by the code like the name of a host that is
absent.  Of a condition the model
keeps whether it is True.  Power state, hardware details and addresses
in a host's status only show as writes that change the object (`touch`).

**The world (`Beskar7`).**  `Operations` lists what people and Cluster API do in
an instance: create machines with a ProviderID (`preset`), set the ProviderID of
a machine that has claimed a host (`bind`), pause, delete, use a name again,
restart a manager, switch the power.  `bind` is there because the code sets the
ProviderID only when the host is Ready, and finds a machine's host only through
the ProviderID: without somebody's help a claimed host is never inspected
(see the hazards in `PROJECT.json`).

**`Beskar7ClusterController`.**  One Beskar7Cluster, its stored and its cached
copy, its key in the workqueue and one worker.  The steps are Reconcile up to
the first call, the List of hosts, the List of Machines and the deferred patch.
An event of a host enqueues the cluster, unless the List of clusters fails that
finds out which ones to enqueue: the event is lost then, which the history variable
`missed` records until hosts are listed again.  The patch of the failure domains
adds and removes single keys, or all of them when none is left, since an empty map
is omitted; the condition is merged three ways and may be refused while the rest of the patch is applied.
Hosts and Machines are never written by this reconciler, so their variables
stand for the cached state, and a change is its delivery.  What addresses a
Machine can have is not made up: `MCBeskar7Cluster` assumes, and TLC evaluates,
that its lists are exactly those which `RedfishAddresses` produces from the
answers of a BMC, through the host and the Beskar7Machine.

**`Beskar7ClusterWebhook`.**  Defaulting and validation of
`spec.controlPlaneEndpoint`.  While `webhook` is TRUE, every update of the object
itself goes through them (`UpdateCluster`), the reconciler's patch of the
finalizer included (`WithFinalizer`); status patches and deletions do not.  The
flag may change with a restart of the manager, so clusters exist that were stored
before the webhook was there and that it refuses.

**`SecurityMonitor`.**  The loop of `StartMonitoring`, cut at every call: the
List of hosts, the dial of each listed host (which may have changed since), the
Lists of roles and of secrets, and each event.  Every call may fail, which the
code logs and passes over.  An event is named after its reason and the second, so
the second of two with one reason is refused within a second (`taken`); this is
why the model records which reasons have events and not which findings.  The
validators are operators that map an object to its set of findings.

**`ProvisioningQueue`.**  One mutex guards the queue's state, so each critical
section is a step.  An address is in cooldown or not, a context is done or not;
time itself is left out.  A worker that leaves because of its context does what
one does that sees the stop channel.  Stop is called once: a second call would close
a closed channel and panic.

`PROJECT.json` maps every definition to the lines it models.

## 3. What the runs check

| Run | Instance | Distinct states | Properties |
|-----|----------|-----------------|------------|
| `owners` | 1 host, 2 machines and 2 of their names in another namespace, 2 managers, hosts deleted and created again | 364,831 (symmetry) | `AssociationIsReal`, `FollowsLifecycle`, `LiveMachineKeepsHost` |
| `reports` | 1 machine, 2 concurrent requests, good and bad reports, 1 fault | 498,360 (symmetry) | `TypeOK`, `HostStatusCoherent`, `FollowsLifecycle`, `ReadyIsValidated`, `ReportsAreKept` |
| `failures` | 1 machine, 1 fault or restart, power cuts, timeouts | 79,903 | `ReadyMachineIsBound`, `FreeHostBecomesAvailable`, `InspectionEnds`, `ReportedMachineIsProvisioned`, `MachineDeletionCompletes` |
| `lag` | 1 machine, machine caches lag, timeouts | 165,508 | `ReportedMachineIsProvisioned` |
| `unwired` | the wiring of `cmd/manager/main.go` | 13,648 | `NothingWorksUnwired`, `HostDeletionCompletes` |
| `cluster` | 2 hosts, 2 zones, 1 Machine, 3 endpoints, 2 changes, 1 fault | 220,466 | `TypeOK`, `EndpointWasOffered`, `AdmittedStaysAdmitted`, `DomainsSettle`, `StatusSettles`, `EndpointIsFound`, `ResyncCatchesUp`, `ClusterDeletionCompletes` |
| `queue` | 2 hosts, 2 requests, 2 workers, 1 permit caller | 127,560 | `TypeOK`, `WithinLimits`, `RequestsAreInOnePlace`, `ResultIsDelivered`, `CancelledStaysOut`, `QueueIsServed`, `StopCompletes` |
| `monitor` | 1 host, 1 role, 1 secret, 1 change, any failures | 88,643 | `TypeOK`, `WideningIsNoticed`, `StandingIssueIsReported`, `AlarmsCease`, `MonitorStops` |

Each property is stated in words above its definition (`Beskar7Properties`, and
the end of the three stand-alone modules).  For each there is a mutant, an operator
whose comment begins with "Mutant:", that changes one definition as a plausible
bug would; with it TLC finds the property violated.

Four more runs show where the code does not do what the repository says, each
with a counterexample:

- `leak`: "When deleted, releases the claimed PhysicalHost by clearing
  `spec.consumerRef`" (`docs/architecture.md:135`).  A machine deleted between
  its claim and the moment its ProviderID is set leaves the host claimed for good.
- `retry`: after an inspection timeout "Host transitions back to Available (can
  be retried)" (`docs/architecture.md:460`).  The host keeps its consumer and goes
  to InUse.
- `wiring`: `RedfishClientFactory: nil, // Use default` (`cmd/manager/main.go:150`).
  There is no default; the call panics and no host becomes Available.
- `permit`: AcquireBMCPermit "marks the host as processing so other acquires will
  wait" (`internal/coordination/provisioning_queue.go:77`).  A second caller is
  let through as re-entrant.

**Bounds.**  The conflicts of interest are between two writers of one host, so
one host and two of whatever competes for it (machines, managers, requests) show
them; the proofs below cover other numbers.  `MaxFaults` bounds failing calls,
restarts and repeated reports together; one fault can strike at any point and
is followed by every recovery.  In `owners` two managers are at work together
as long as nobody operates on machines and hosts; what people do meets one
manager (`MCOneOfTwo`), since both at once go beyond five million states, and
machines of the same name in two namespaces meet where no host is deleted
(`MCTwoOfFour`).  The proofs have no such bounds.  Faults and lagging machine caches
are in different runs, `failures` and `lag`, for the same reason, so liveness with
both at once is not checked.  In `cluster` two
changes are enough for one that a reconciliation has seen and one that it has
missed, or a label that is set and taken back; the end of a pause is not counted.
In `queue` a limit of one operation makes workers and the permit caller compete.
Two operations are under way at once all the same, when the caller gives back a
permit for the host that a worker operates on: it takes the worker's mark away, and
the next request for that host gets a mark of its own.  `WithinLimits` counts marks
and not operations.  In `monitor` an object of
each kind has, or gets, serious findings, the certificate two of them so that
event names collide; one change before, during or after a scan separates what a
list showed from what is there.  Symmetry is used only in runs without liveness
properties, over managers, request slots, and machines with the same
requirements.

**Fairness.**  A reconciliation that has begun goes on, watch events arrive and
requests are answered: weak fairness.  Beginning a reconciliation of a given
object has strong fairness, because the worker may be busy with another one at
any time, but the workqueue is first-in first-out, and a path that has not
finished asks for a requeue, returns an error, or is followed by an event of the
object that it wrote.  One does not: a machine whose host is in Error is not
requeued (`beskar7machine_controller.go:216`) and hosts are not watched for it, so
there the ten-hour resync of the informers is what the fairness rests on.  The
inspection image posts until its report is taken, time passes, and Cluster API
sets owner references.  Users, faults and permit callers owe nothing.  In
`cluster` only weak fairness is used and, except in `ResyncCatchesUp`, the resync
is not relied on: events and requeues are part of that model, and those
properties are about behaviours in which the owner Cluster is never paused, since
that Cluster is not watched.  `ResyncCatchesUp` adds the ten-hour resync and
covers the rest: pauses of the owner, a Machine behind a published endpoint
that goes or changes its addresses, and an event of a host that was lost, which
`DomainsSettle` excepts.  In `monitor` the loop goes on and time
passes; a select that finds the context ended again and again takes that case in
the end (strong fairness), because Go chooses among ready cases at random.  That
a List or an event succeeds at times is a hypothesis of `StandingIssueIsReported`,
for the reason in question only.  `cluster` and `monitor` run without deadlock
checking: the one comes to rest once the cluster is gone, the other when it has
stopped.

## 4. What is proved

| Theorem | Module | Statement |
|---------|--------|-----------|
| `TypeCorrect` | `Beskar7Proofs` | `Spec => []TypeOK` |
| `CopiesStayCurrent` | `LifecycleProofs` | `Spec => []CopiesAreCurrent` |
| `ImplementsLifecycle` | `LifecycleProofs` | `Spec => FollowsLifecycle` |
| `StatusIsCoherent` | `StatusProofs` | `Spec => []HostStatusCoherent` |
| `ReportsAreNotLost` | `StatusProofs` | `Spec => ReportsAreKept` |
| `ReadyMachinesAreBound` | `MachineProofs` | `SameIncarnation`: `Spec => []ReadyMachineIsBound` |
| `LiveMachinesKeepHosts` | `MachineProofs` | `SameIncarnation`: `Spec => LiveMachineKeepsHost` |
| `AssociationsAreReal` | `MachineProofs` | `SameIncarnation`, `ClaimedHostsStay`: `Spec => []AssociationIsReal` |
| `ReadyHostsAreValidated` | `MachineProofs` | `HeldMachinesStay`: `Spec => ReadyIsValidated` |
| `NothingEverWorksUnwired` | `UnwiredProofs` | `Spec => []NothingWorksUnwired` |
| `ClusterTypeCorrect` | `ClusterProofs` | `Spec => []TypeOK` |
| `EndpointIsGenuine` | `ClusterProofs` | `Spec => []EndpointWasOffered` |
| `AdmissionIsStable` | `ClusterProofs` | `Spec => AdmittedStaysAdmitted` |
| `QueueInvariant`, `QueueTypeCorrect` | `QueueProofs` | `Spec => []QueueInv`, `Spec => []TypeOK` |
| `LimitIsKept` | `QueueProofs` | `Spec => []WithinLimits` |
| `RequestsStayInOnePlace` | `QueueProofs` | `Spec => []RequestsAreInOnePlace` |
| `ResultsAreDelivered` | `QueueProofs` | `Spec => []ResultIsDelivered` |
| `CancelledRequestsStayOut` | `QueueProofs` | `Spec => CancelledStaysOut` |
| `MonitorTypeCorrect` | `SecurityProofs` | `Spec => []TypeOK` |
| `WideningIsAlwaysNoticed` | `SecurityProofs` | `Spec => WideningIsNoticed` |

They hold for every value of the constants that satisfies the named assumptions:
`None` is not one of the values it stands in for, no two machines have the same
namespace and name, `Accepts` gives each machine a set of reports, the switches are Booleans, the bounds are natural numbers
(`NoneAssumption`, `NamesAssumption`, `AcceptsAssumption`, `BareMetalAssumption`,
`RecorderAssumption`, `OperationsAssumption`); an address is an InternalIP exactly
if it is private, as `RedfishClient` classifies it, and the lists a Machine may
have include the empty one (`ClusterAssumption`); every host has a BMC address and
the markers are not requests (`QueueAssumption`); the specs, certificates, Secrets
and roles are of their types (`MonitorAssumption`).  TLC evaluates all of them.

*Types.*  One lemma for each action of each component, with lemmas on the client
operations (`GetHost`, `UpdateHost`, `StoreHost`, the patches) that they share.

*Life cycle.*  `FollowsLifecycle` says that the composition implements
`HostLifecycle`, whose actions are those a host may go through: claimed only when
free and Available, never handed from one consumer to another, Ready only out of
an inspection that was reported on.  A reconciler decides on its copy, so the
proof needs that a copy whose update is accepted is the stored host.  The
inductive invariant is

    LifecycleInv == TypeOK /\ CopiesAreCurrent /\ WorkerKnows

where `CopiesAreCurrent` is that fact for caches and threads, and `WorkerKnows`
says what the machine worker has established about its copy when it is about to
write it: that the host is claimable before the claim, and InUse from the BMC
commands to the start of the inspection.  Without `WorkerKnows` an accepted write of an
arbitrary copy could do anything; without `CopiesAreCurrent` what the worker knows
of its copy says nothing about the host.  Every write of a host is then shown to
be a step of the life cycle on that host or to leave it as it is
(`LifecycleWrite`), and one lemma lifts this to steps of `HostLifecycle`.

*Status.*  `HostStatusCoherent` (an error message exactly in state Error, ready
and connected in every later state, a start time while Inspecting) is inductive
relative to `LifecycleInv`: each write takes a coherent host to a coherent one.

*Reports.*  The reconcilers write back the report of the copy they edited, which
by `CopiesAreCurrent` is the stored one.  The handler is the only writer left; that
it writes to the host its request is about needs `HandlerHolds`: from the Get to
the answer a request's goroutine holds a copy of that host, and a request that a
restart drops loses its copy with it.

*Machines.*  A machine, unlike a host, is patched without a resourceVersion, so
nothing refuses a patch made from an old copy.  What makes it harmless is that the
fields the reconciler decides on move one way only: a finalizer stays until the
machine goes, a ProviderID is not replaced, a deletion is not taken back.
`MachineInv` adds to `LifecycleInv` that every cached machine is an earlier version
of the stored one in that sense (`CopiesFollow`), and for each worker that its copy
is too, that it is let go of only in a deletion, made ready only with a ProviderID,
and that the host at hand is the one the machine names, or one of its namespace
that it is about to claim (`WorkersFollow`).  The
properties of the run are not inductive without this: a worker's next patch could
take the ProviderID of a ready machine away, and its next release could be for a
machine that lives on.  Every write of a host is then classified by who may make it, and
on whose behalf (`Writes`, `NextWrites`), every write of a machine by what it may
start (`MachineWrites`).  `AssociationInv` adds what a worker has to know before it reports
the association: that its machine names a host, or is the consumer of one, and that
this stays so until the worker has moved on.

`LiveMachineKeepsHost` is as strong as the code allows and no stronger: the machine
that a host is released for has the name of the host's consumer, but may be another
one, of another namespace, whose ProviderID names the host.  That the consumer itself
is on its way out, the code does not ensure.  `AssociationIsReal` is therefore about
machines whose name no machine of another namespace has, or had (`HasOwnName`).

Some of this holds only under conditions on the deployment, which
`Beskar7Properties` names and the theorems have as hypotheses:

- `HeldMachinesStay`: no machine goes while a worker holds a copy of it.  It is so
  if machines are not deleted, or if one manager reconciles (leader election) from
  a cache that has its own patches.  Otherwise a worker may go on with a machine
  that another manager, or its own earlier reconciliation, has let go of.
- `SameIncarnation`: `HeldMachinesStay`, or no name of a machine is used again,
  which Cluster API guarantees by random suffixes.  Otherwise a merge patch made
  for the old machine is applied to the new one.
- `ClaimedHostsStay`: no claimed host is removed.  `reconcileDelete` of a host
  removes the finalizer whether or not the host is claimed; what prevents it is that
  nobody deletes hosts, or that the missing Recorder makes that path panic.

The first two are no limits on the number of managers where machines are not
deleted, or not under the same name.  The instances of the runs that check these
properties satisfy the hypotheses, so the theorems extend those runs.

*Unwired.*  That no host is usable with the nil factory of `main.go` is not
inductive on the stored hosts alone, because a worker acts on its copy.  The
invariant says it of every host, cache entry and copy (`HostsUntouched`) and that no
server has a boot override (`NoOverride`).  It is also what justifies that
`triggerInspection` has no panic in the model: with a nil factory it is never reached.

*Cluster.*  `ClusterInv == TypeOK /\ EndpointsFollow` speaks of all four places an
endpoint can be in: the stored cluster, the cached one, and the worker's copy before
and after its edits.  Each endpoint there was offered by a ready Machine; a copy has
one only if the stored cluster has; a reconciliation never takes it away; and a
ready Machine's addresses are among those offered.  The last three make the merge
patch, which writes only what differs between the worker's two copies, harmless when
the worker's copy is old.  `AdmissionIsStable` rests on the defaulting webhook being
idempotent and on its result being admitted (`DefaultIsAdmitted`): the controller's
own writes go through both webhooks again.

*Queue.*  `QueueInv` is `TypeOK`, the three invariants that the run checks,
finiteness of the set of marks (so that it can be counted) and `Bookkeeping`: a
queued request has a host and has not been finished, and a worker has a request
exactly while it operates on it or sends its result.  Without `Bookkeeping` a worker
could take from the queue what was answered already, and delivery would not be
inductive.

*Security.*  `WideningIsNoticed` is not that findings only grow: widening
`pods/exec` to `*` loses the finding on that name.  The lemmas show that a lost
finding is always replaced by one at least as severe (`WideningIsNoLessSevere`),
since a wildcard for the resources stands for secrets and nodes at once, which is
found as HIGH (`WildcardIsHigh`).

`MonitorTypeCorrect` is about more than types: what is still to be reported is
serious and was found by the current scan.  A new scan empties the report and not
what is pending, so `ScanInv` adds that nothing is pending except while reporting.

Only model-checked: the liveness properties, which need fairness and ENABLED; the
four runs that show a violation; and what `HardwareValidation` and `RedfishAddresses`
compute, which TLC evaluates for the instances.  Every invariant and
every action property that a passing run checks is proved, four of them under the
conditions above.

## 5. Not modelled, and why

- The three calls inside the patch helper are one step.  A failure between them
  shows as a conflict (cluster) or a restart (machine) around the step.
- Secrets as state of the host reconciler: a missing or changed Secret is a
  connection failure that may end.
- The security monitor's totals, recommendations and permission checks
  (`monitor.go` 356-468) are only logged.  `GetCertificateInfo` and the names of key
  usages (`tls_validator.go` 219-296) are formatting.  RBAC warnings reach the log only.
- Names of events: `monitor.go` names an event by its reason and the second, so two
  events of the same reason in one second collide and the later Create fails.
  `StandingIssueIsReported` therefore promises one event for each reason and scan.
- The syntax of a host name is a constant set of the addresses (`ValidHosts`); what
  follows from an address being valid or not is modelled.
- `Beskar7MachineTemplate` is a type that no controller of this repository reads.
- Metrics and logging are not read by any part.  Generated code and test doubles
  are not part of the system.
- Real time: timeouts, cooldowns and scan intervals may run out at any moment.

## 6. Plan

Built so far: the resources, both host-side reconcilers with hardware validation
and address discovery, the handler and their composition; the abstract life cycle
and its refinement; the cluster reconciler with its webhooks; the provisioning queue;
the security monitor with its three validators; the theorems of section 4.

1. *Secrets and watches*: credentials as state, with `SecretToPhysicalHosts`
   deciding which hosts are enqueued.
2. *Patch helper as separate calls* for the machine, if its intermediate states
   can be told apart by a property.
3. *Abstract specification of the queue*: a bounded set of jobs, each done at
   most once, that `ProvisioningQueue` implements.

## 7. Running it

    tlc -workers 2 -config reports.cfg MCBeskar7
    tlc -workers 2 -config cluster.cfg MCBeskar7Cluster
    tlc -workers 2 -config queue.cfg MCProvisioningQueue
    tlc -workers 2 -config monitor.cfg MCSecurityMonitor
    tlapm LifecycleProofs.tla

`PROJECT.json` lists every run with its module and every theorem with its own.
