--------------------------- MODULE MachineProofs ---------------------------
(***************************************************************************)
(* Machines and the hosts they hold.  Machines are patched without a       *)
(* resourceVersion, so a worker acts on, and patches from, a copy that may *)
(* be older than the stored machine.  What makes that safe is that the     *)
(* fields its decisions rest on only move one way: a finalizer stays until *)
(* the machine goes, a ProviderID is never replaced, a deletion is never   *)
(* taken back.  The invariant says so of every copy of a machine, and what *)
(* the worker has made of its copy so far.                                 *)
(***************************************************************************)
EXTENDS LifecycleProofs

-----------------------------------------------------------------------------
(* The invariant.                                                          *)

WellFormed(object) ==
  /\ \/ object.finalizer \/ object.associated \/ object.ready
     \/ object.providerID # None
     => object.exists
  /\ object.deleting => object.finalizer /\ "delete machine" \in Operations

(* The machine as it is stored may be what has become of object.           *)
Earlier(object, stored) ==
  object.finalizer =>
    /\ stored.exists \/ (stored.retired /\ ~HeldMachinesStay)
    /\ stored.exists =>
         /\ stored.finalizer
         /\ object.providerID # None => stored.providerID = object.providerID
         /\ object.deleting => stored.deleting

(* What worker w is about to do to its machine.  A machine read without    *)
(* the finalizer is only given it; a machine that is let go of is being    *)
(* deleted; a machine becomes ready only with a ProviderID.                *)
Pursues(w, stored) ==
  /\ Earlier(w.old, stored)
  /\ w.new.providerID = w.old.providerID
  /\ ~w.old.finalizer => /\ w.step = "patch" /\ w.new.finalizer
                         /\ w.new.associated = w.old.associated
                         /\ w.new.ready = w.old.ready
  /\ w.new.ready /\ ~w.old.ready => w.old.providerID # None
  /\ w.step \in {"delete", "release"} \/ ~w.new.finalizer =>
       (stored.exists => stored.deleting)

(* The copy of a host that worker g holds is of the host that the machine  *)
(* names, or of one in its namespace to claim; a host is released only if  *)
(* its consumer has the machine's name.                                    *)
HoldsNamedHost(g) ==
  /\ workers[g].step \in {"handle", "power", "inspect", "release"} =>
       Host(g) = workers[g].old.providerID /\ Host(g) \in Hosts
  /\ At(g, "claim") => /\ Host(g) \in Hosts
                       /\ Namespace[Host(g)] = Namespace[workers[g].machine]
  /\ At(g, "release") => Name[HostCopy(g).consumerRef] = Name[workers[g].machine]

CopiesFollow ==
  /\ \A m \in Machines : WellFormed(machines[m])
  /\ \A g \in Managers, m \in Machines :
       /\ WellFormed(machineCache[g][m])
       /\ Earlier(machineCache[g][m], machines[m])
       /\ ~MachineLag => machineCache[g][m] = machines[m]

WorkersFollow ==
  \A g \in Managers :
    ~At(g, "idle") => /\ Pursues(workers[g], machines[workers[g].machine])
                      /\ HoldsNamedHost(g)

MachineInv == LifecycleInv /\ CopiesFollow /\ WorkersFollow

-----------------------------------------------------------------------------
(* How a stored machine may change without harm to older copies of it.     *)

Grows(stored, next) ==
  /\ next.exists = stored.exists /\ next.retired = stored.retired
  /\ stored.finalizer => next.finalizer
  /\ stored.deleting => next.deleting
  /\ stored.providerID # None => next.providerID = stored.providerID

Continues(stored, next) ==
  \/ Grows(stored, next)
  \/ /\ ~stored.exists /\ (stored.retired => "reuse name" \in Operations)
     /\ next.exists
  \/ /\ stored.exists /\ next = RetiredMachine
     /\ ~stored.finalizer \/ ~HeldMachinesStay

(* An older copy stays one.                                                *)
LEMMA EarlierKept ==
  ASSUME SameIncarnation, NEW object, NEW stored, NEW next,
         Earlier(object, stored), Continues(stored, next)
  PROVE  Earlier(object, next)
<1>1. CASE Grows(stored, next)
  BY <1>1 DEF Earlier, Grows
<1>2. CASE ~stored.exists /\ (stored.retired => "reuse name" \in Operations)
  BY <1>2 DEF Earlier, SameIncarnation
<1>3. CASE /\ stored.exists /\ next = RetiredMachine
           /\ ~stored.finalizer \/ ~HeldMachinesStay
  BY <1>3 DEF Earlier, RetiredMachine, AbsentMachine
<1> QED
  BY <1>1, <1>2, <1>3 DEF Continues

(* A machine that the API server stores is what it is.                     *)
LEMMA EarlierThanItself ==
  ASSUME NEW object, WellFormed(object)
  PROVE  Earlier(object, object) /\ Continues(object, object)
BY DEF WellFormed, Earlier, Continues, Grows

(* What a worker is about to do stays justified.                           *)
LEMMA PursuitKept ==
  ASSUME SameIncarnation, NEW w, NEW stored, NEW next,
         Pursues(w, stored), Continues(stored, next)
  PROVE  Pursues(w, next)
<1>1. Earlier(w.old, next)
  BY EarlierKept DEF Pursues
<1>2. ASSUME w.step \in {"delete", "release"} \/ ~w.new.finalizer, next.exists
      PROVE  next.deleting
  <2>1. w.old.finalizer
    BY <1>2 DEF Pursues
  <2>2. CASE Grows(stored, next)
    BY <1>2, <2>2 DEF Grows, Pursues
  <2>3. CASE ~stored.exists /\ (stored.retired => "reuse name" \in Operations)
    BY <2>1, <2>3 DEF Pursues, Earlier, SameIncarnation
  <2>4. CASE next = RetiredMachine
    BY <1>2, <2>4 DEF RetiredMachine, AbsentMachine
  <2> QED
    BY <2>2, <2>3, <2>4 DEF Continues
<1> QED
  BY <1>1, <1>2 DEF Pursues

(* The API server stores new as machine m.                                 *)
LEMMA StoredMachines ==
  ASSUME MachineSideOK, NEW m \in Machines, NEW new, StoreMachine(m, new)
  PROVE  /\ \A i \in Machines : machines'[i] = IF i = m THEN new ELSE machines[i]
         /\ \A g \in Managers, i \in Machines :
              machineCache'[g][i] = IF ~MachineLag /\ i = m THEN new
                                    ELSE machineCache[g][i]
<1>1. \A i \in Machines : machines'[i] = IF i = m THEN new ELSE machines[i]
  BY DEF StoreMachine, MachineSideOK
<1>2. ASSUME NEW g \in Managers, NEW i \in Machines
      PROVE  machineCache'[g][i] = IF ~MachineLag /\ i = m THEN new
                                   ELSE machineCache[g][i]
  <2>1. machineCache[g] \in [Machines -> MachineObject]
    BY DEF MachineSideOK
  <2>2. machineCache'[g] = IF MachineLag THEN machineCache[g]
                           ELSE [machineCache[g] EXCEPT ![m] = new]
    BY DEF StoreMachine
  <2> QED
    BY <2>1, <2>2
<1> QED
  BY <1>1, <1>2

(* A write that continues the stored machine keeps all copies of it older  *)
(* ones.                                                                   *)
LEMMA StoreFollows ==
  ASSUME SameIncarnation, MachineSideOK, CopiesFollow, NEW m \in Machines, NEW new,
         StoreMachine(m, new), WellFormed(new), Continues(machines[m], new)
  PROVE  /\ CopiesFollow'
         /\ \A w : w.machine \in Machines /\ Pursues(w, machines[w.machine])
                     => Pursues(w, machines'[w.machine])
<1>1. /\ \A i \in Machines : machines'[i] = IF i = m THEN new ELSE machines[i]
      /\ \A g \in Managers, i \in Machines :
           machineCache'[g][i] = IF ~MachineLag /\ i = m THEN new
                                 ELSE machineCache[g][i]
  BY StoredMachines
<1>2. \A i \in Machines : WellFormed(machines'[i])
  BY <1>1 DEF CopiesFollow
<1>3. Earlier(new, new)
  BY EarlierThanItself
<1>4. ASSUME NEW g \in Managers, NEW i \in Machines
      PROVE  /\ WellFormed(machineCache'[g][i])
             /\ Earlier(machineCache'[g][i], machines'[i])
             /\ ~MachineLag => machineCache'[g][i] = machines'[i]
  <2>1. CASE i # m
    <3>1. machineCache'[g][i] = machineCache[g][i] /\ machines'[i] = machines[i]
      BY <1>1, <2>1
    <3> QED
      BY <3>1 DEF CopiesFollow
  <2>2. CASE i = m /\ ~MachineLag
    <3>1. machineCache'[g][i] = new /\ machines'[i] = new
      BY <1>1, <2>2
    <3> QED
      BY <1>3, <3>1
  <2>3. CASE i = m /\ MachineLag
    <3>1. machineCache'[g][i] = machineCache[g][m] /\ machines'[i] = new
      BY <1>1, <2>3
    <3>2. WellFormed(machineCache[g][m]) /\ Earlier(machineCache[g][m], machines[m])
      BY DEF CopiesFollow
    <3> QED
      BY <2>3, <3>1, <3>2, EarlierKept
  <2> QED
    BY <2>1, <2>2, <2>3
<1>5. CopiesFollow'
  BY <1>2, <1>4 DEF CopiesFollow, WellFormed, Earlier
<1>6. ASSUME NEW w, w.machine \in Machines, Pursues(w, machines[w.machine])
      PROVE  Pursues(w, machines'[w.machine])
  <2>1. CASE w.machine = m
    BY <1>1, <1>6, <2>1, PursuitKept
  <2>2. CASE w.machine # m
    BY <1>1, <1>6, <2>2
  <2> QED
    BY <2>1, <2>2
<1> QED
  BY <1>5, <1>6

-----------------------------------------------------------------------------
(* The deferred patch.                                                     *)

(* However old the worker's copy, the patch lets a machine grow, or takes  *)
(* the finalizer from one that is being deleted.                           *)
LEMMA PatchCases ==
  ASSUME NEW stored \in MachineObject, WellFormed(stored), stored.exists,
         NEW w \in Worker, Pursues(w, stored)
  PROVE  LET patched == PatchedMachine(stored, w.old, w.new) IN
         \/ patched.deleting /\ ~patched.finalizer /\ stored.deleting
         \/ /\ ~(patched.deleting /\ ~patched.finalizer)
            /\ Grows(stored, patched) /\ WellFormed(patched)
<1> DEFINE patched == PatchedMachine(stored, w.old, w.new)
<1>1. /\ patched.exists = stored.exists /\ patched.retired = stored.retired
      /\ patched.deleting = stored.deleting
      /\ patched.finalizer = Merge(stored.finalizer, w.old.finalizer, w.new.finalizer)
      /\ patched.providerID = Merge(stored.providerID, w.old.providerID, w.new.providerID)
  BY Zenon DEF PatchedMachine, MachineObject
<1> HIDE DEF patched
<1>2. patched.providerID = stored.providerID
  BY <1>1 DEF Pursues, Merge
<1>3. stored.finalizer /\ ~patched.finalizer => stored.deleting
  BY <1>1 DEF Pursues, Merge
<1>4. patched.finalizer \in BOOLEAN /\ stored.deleting \in BOOLEAN
  <2>1. w.old \in MachineObject /\ w.new \in MachineObject
    BY DEF Worker
  <2> QED
    BY <1>1, <2>1 DEF Merge, MachineObject
<1>5. CASE stored.deleting /\ ~patched.finalizer
  BY <1>1, <1>5 DEF patched
<1>6. CASE ~(stored.deleting /\ ~patched.finalizer)
  <2>1. Grows(stored, patched)
    BY <1>1, <1>2, <1>3, <1>6 DEF Grows
  <2>2. WellFormed(patched)
    BY <1>1, <1>4, <1>6 DEF WellFormed
  <2> QED
    BY <1>1, <1>6, <2>1, <2>2 DEF patched
<1> QED
  BY <1>5, <1>6

(* What PatchMachine makes of the stored machine.                          *)
Result(stored, w) ==
  LET patched == PatchedMachine(stored, w.old, w.new) IN
  IF ~stored.exists THEN stored
  ELSE IF patched.deleting /\ ~patched.finalizer THEN RetiredMachine
  ELSE patched

(* The deferred patch takes nothing back of what a machine had, or removes *)
(* a machine that was being deleted together with its finalizer.           *)
LEMMA PatchResult ==
  ASSUME MachineInv, NEW g \in Managers, Patch(g)
  PROVE  LET m == workers[g].machine
             result == Result(machines[m], workers[g]) IN
         /\ m \in Machines /\ machines[m] \in MachineObject
         /\ WellFormed(machines[m]) /\ Pursues(workers[g], machines[m])
         /\ StoreMachine(m, result) /\ WellFormed(result)
         /\ \/ Grows(machines[m], result)
            \/ /\ machines[m].exists /\ machines[m].deleting
               /\ result = RetiredMachine
<1> DEFINE w == workers[g]
           m == workers[g].machine
           result == Result(machines[m], w)
<1>1. MachineSideOK /\ w \in Worker /\ m \in Machines
  BY TypeParts DEF MachineInv, LifecycleInv, MachineControllerTypeOK, WorkerKnows, Patch, At
<1>2. /\ machines[m] \in MachineObject /\ WellFormed(machines[m])
      /\ Pursues(w, machines[m])
  BY <1>1 DEF MachineInv, MachineSideOK, CopiesFollow, WorkersFollow, Patch, At
<1>3. StoreMachine(m, result)
  BY DEF Patch, PatchMachine, New, Result
<1>4. CASE ~machines[m].exists
  BY <1>1, <1>2, <1>3, <1>4 DEF Result, Grows
<1>5. CASE machines[m].exists
  <2> DEFINE patched == PatchedMachine(machines[m], w.old, w.new)
  <2>1. \/ patched.deleting /\ ~patched.finalizer /\ machines[m].deleting
        \/ /\ ~(patched.deleting /\ ~patched.finalizer)
           /\ Grows(machines[m], patched) /\ WellFormed(patched)
    BY <1>1, <1>2, <1>5, PatchCases
  <2>2. result = IF patched.deleting /\ ~patched.finalizer THEN RetiredMachine ELSE patched
    BY <1>5 DEF Result
  <2> HIDE DEF patched, result
  <2>3. WellFormed(RetiredMachine)
    BY DEF WellFormed, RetiredMachine, AbsentMachine
  <2> QED
    BY <1>1, <1>2, <1>3, <1>5, <2>1, <2>2, <2>3 DEF result
<1> QED
  BY <1>4, <1>5

(* A machine that goes with the patch of one worker is in no other hands   *)
(* if held machines stay.                                                  *)
LEMMA PatchFollows ==
  ASSUME SameIncarnation, MachineInv, NEW g \in Managers, Patch(g)
  PROVE  CopiesFollow' /\ WorkersFollow'
<1> DEFINE m == workers[g].machine
           result == Result(machines[m], workers[g])
<1>1. /\ m \in Machines /\ machines[m] \in MachineObject
      /\ WellFormed(machines[m]) /\ Pursues(workers[g], machines[m])
      /\ StoreMachine(m, result) /\ WellFormed(result)
      /\ \/ Grows(machines[m], result)
         \/ /\ machines[m].exists /\ machines[m].deleting
            /\ result = RetiredMachine
  BY PatchResult
<1> HIDE DEF result
<1>2. /\ MachineSideOK /\ CopiesFollow /\ WorkersFollow /\ WorkerKnows
      /\ workers \in [Managers -> Worker]
  BY TypeParts DEF MachineInv, LifecycleInv, MachineControllerTypeOK
<1>3. /\ workers'[g].step = "idle" /\ UNCHANGED view
      /\ \A k \in Managers \ {g} : workers'[k] = workers[k]
  BY <1>2 DEF Patch, Idle
<1>4. CASE Continues(machines[m], result)
  <2>1. /\ CopiesFollow'
        /\ \A w : w.machine \in Machines /\ Pursues(w, machines[w.machine])
                    => Pursues(w, machines'[w.machine])
    BY <1>1, <1>2, <1>4, StoreFollows
  <2>2. ASSUME NEW k \in Managers, workers'[k].step # "idle"
        PROVE  /\ Pursues(workers'[k], machines'[workers'[k].machine])
               /\ HoldsNamedHost(k)'
    <3>1. k # g /\ workers'[k] = workers[k] /\ ~At(k, "idle")
      BY <1>3, <2>2 DEF At
    <3>2. /\ workers[k].machine \in Machines /\ HoldsNamedHost(k)
          /\ Pursues(workers[k], machines[workers[k].machine])
      BY <1>2, <3>1 DEF WorkerKnows, WorkersFollow
    <3>3. HoldsNamedHost(k)'
      BY <1>3, <3>1, <3>2 DEF HoldsNamedHost, Host, HostCopy, At
    <3> QED
      BY <2>1, <3>1, <3>2, <3>3
  <2>3. WorkersFollow'
    BY <2>2 DEF WorkersFollow, At, Pursues, Earlier
  <2> QED
    BY <2>1, <2>3
<1>5. CASE /\ HeldMachinesStay /\ machines[m].exists /\ machines[m].deleting
           /\ result = RetiredMachine
  <2>1. OneManager /\ ~MachineLag
    BY <1>1, <1>5 DEF HeldMachinesStay, WellFormed
  <2>2. /\ \A i \in Machines : machines'[i] = IF i = m THEN result ELSE machines[i]
        /\ \A k \in Managers, i \in Machines :
             machineCache'[k][i] = IF ~MachineLag /\ i = m THEN result
                                   ELSE machineCache[k][i]
    BY <1>1, <1>2, StoredMachines
  <2>3. /\ \A i \in Machines : WellFormed(machines'[i])
        /\ \A k \in Managers, i \in Machines : machineCache'[k][i] = machines'[i]
    BY <1>1, <1>2, <2>1, <2>2 DEF CopiesFollow
  <2>4. CopiesFollow'
    <3>1. \A i \in Machines : Earlier(machines'[i], machines'[i])
      BY <2>3, EarlierThanItself
    <3> QED
      BY <2>3, <3>1 DEF CopiesFollow, WellFormed, Earlier
  <2>5. \A k \in Managers : workers'[k].step = "idle"
    BY <1>3, <2>1 DEF OneManager
  <2>6. WorkersFollow'
    BY <2>5 DEF WorkersFollow, At
  <2> QED
    BY <2>4, <2>6
<1> QED
  BY <1>1, <1>4, <1>5 DEF Continues

-----------------------------------------------------------------------------
(* The other steps of the worker leave the machines alone.                 *)

(* A change of the worker's copy that neither binds the machine, nor lets  *)
(* go of it, nor makes it ready.                                           *)
Mild(object, new) ==
  /\ new.providerID = object.providerID /\ new.finalizer = object.finalizer
  /\ new.ready => object.ready

(* The edits of reconcileNormal, but for the binding and the readiness.    *)
LEMMA MildEdits ==
  ASSUME NEW object \in MachineObject
  PROVE  /\ Mild(object, object)
         /\ \A b : Mild(object, [object EXCEPT !.associated = b])
         /\ Mild(object, [object EXCEPT !.infraReady = FALSE, !.ready = FALSE,
                                        !.phase = "Failed"])
         /\ Mild(object, [object EXCEPT !.infraReady = FALSE, !.phase = "Pending"])
         /\ Mild(object, [object EXCEPT !.phase = "Inspecting"])
BY DEF Mild, MachineObject

(* The worker moves on with what it has made of its copy.                  *)
LEMMA WorkerMoves ==
  ASSUME workers \in [Managers -> Worker], NEW g \in Managers, NEW stored, NEW step,
         NEW new, GoTo(g, step, new), Pursues(workers[g], stored), workers[g].step # "patch",
         new.providerID = workers[g].old.providerID,
         new.ready /\ ~workers[g].old.ready => workers[g].old.providerID # None,
         step \in {"delete", "release"} \/ ~new.finalizer =>
           workers[g].step \in {"delete", "release"} \/ ~workers[g].new.finalizer
  PROVE  /\ workers'[g].machine = workers[g].machine
         /\ workers'[g].step = step
         /\ workers'[g].old = workers[g].old
         /\ workers'[g].new = new
         /\ Pursues(workers'[g], stored)
<1>1. /\ workers'[g].machine = workers[g].machine /\ workers'[g].step = step
      /\ workers'[g].old = workers[g].old /\ workers'[g].new = new
  <2>1. workers[g] \in Worker
    OBVIOUS
  <2>2. workers'[g] = [workers[g] EXCEPT !.step = step, !.new = new]
    BY DEF GoTo
  <2> QED
    BY <2>1, <2>2 DEF Worker
<1>2. workers[g].old.finalizer
  BY DEF Pursues
<1> QED
  BY <1>1, <1>2 DEF Pursues

(* The worker of g has moved on; everybody else is where they were.        *)
LEMMA FollowsOfOne ==
  ASSUME MachineInv, NEW g \in Managers, MachineStep(g), UNCHANGED machines,
         workers'[g].step # "idle" =>
           Pursues(workers'[g], machines[workers'[g].machine]) /\ HoldsNamedHost(g)'
  PROVE  WorkersFollow'
<1> SUFFICES ASSUME NEW k \in Managers, workers'[k].step # "idle"
             PROVE  /\ Pursues(workers'[k], machines[workers'[k].machine])
                    /\ HoldsNamedHost(k)'
  BY DEF WorkersFollow, At, Pursues, Earlier
<1>1. CASE k # g
  <2>1. workers'[k] = workers[k] /\ HostCopy(k)' = HostCopy(k) /\ Host(k)' = Host(k)
    BY <1>1, MachineStepOthers DEF MachineInv
  <2>2. Pursues(workers[k], machines[workers[k].machine]) /\ HoldsNamedHost(k)
    BY <2>1 DEF MachineInv, WorkersFollow, At
  <2>3. HoldsNamedHost(k)'
    BY <2>1, <2>2 DEF HoldsNamedHost, At
  <2> QED
    BY <2>1, <2>2, <2>3
<1> QED
  BY <1>1

(* One step of the worker that is not the patch.                           *)
LEMMA MachineStepFollows ==
  ASSUME MachineInv, NEW g \in Managers, MachineStep(g), ~Patch(g)
  PROVE  CopiesFollow' /\ WorkersFollow'
<1> DEFINE t == MachineWorker(g)
           w == workers[g]
           stored == machines[w.machine]
<1>1. /\ HostSideOK /\ t \in Threads /\ workers \in [Managers -> Worker]
      /\ CopiesFollow /\ New(g) \in MachineObject
      /\ w.old.providerID \in Hosts \cup {None}
  BY TypeParts, WorkerThreads
  DEF MachineInv, LifecycleInv, MachineControllerTypeOK, New, Worker, MachineObject
<1>2. UNCHANGED machineVars /\ ~At(g, "idle") /\ ~At(g, "patch")
  BY Zenon
     DEF MachineStep, GetAssociatedHost, ChooseHost, NoHostAvailable, ClaimHost,
    HandleReadyHost, HandleErrorHost, HandleIntermediateHost, ReportMachine, HandlingState,
    InspectionTimeout, InspectionInProgress, InspectionRejected, InspectionAccepted,
    BootFails, SetPXE, SetPower, StartInspection, NothingToRelease, GetHostToRelease,
    ReleaseHost, At
<1>3. CopiesFollow' /\ UNCHANGED machines
  BY <1>1, <1>2 DEF CopiesFollow, machineVars, WellFormed, Earlier
<1>4. Pursues(w, stored) /\ HoldsNamedHost(g)
  BY <1>2 DEF MachineInv, WorkersFollow
<1> HIDE DEF w
<1>5. w = workers[g] /\ New(g) = w.new
  BY DEF w, New
<1>6. ASSUME NEW step, NEW new, GoTo(g, step, new), Mild(New(g), new),
             step \notin {"delete", "release"}
      PROVE  /\ workers'[g].machine = w.machine /\ workers'[g].step = step
             /\ workers'[g].old = w.old /\ Pursues(workers'[g], stored)
  <2>1. /\ new.providerID = workers[g].old.providerID
        /\ new.ready /\ ~workers[g].old.ready => workers[g].old.providerID # None
        /\ ~new.finalizer => ~workers[g].new.finalizer
    BY <1>4, <1>5, <1>6 DEF Mild, Pursues
  <2>2. workers[g].step # "patch" /\ Pursues(workers[g], stored)
    BY <1>2, <1>4, <1>5 DEF At
  <2> QED
    BY <1>1, <1>5, <1>6, <2>1, <2>2, WorkerMoves
<1>7. ASSUME NEW new, GoTo(g, "patch", new), Mild(New(g), new)
      PROVE  WorkersFollow'
  <2>1. /\ workers'[g].machine = w.machine /\ workers'[g].step = "patch"
        /\ Pursues(workers'[g], stored)
    BY <1>6, <1>7
  <2>2. HoldsNamedHost(g)'
    BY <2>1 DEF HoldsNamedHost, At
  <2> QED
    BY <1>3, <2>1, <2>2, FollowsOfOne
<1>8. CASE GetAssociatedHost(g)
  <2>1. /\ workers'[g].machine = w.machine /\ workers'[g].step = "handle"
        /\ workers'[g].old = w.old /\ Pursues(workers'[g], stored)
    <3> DEFINE new == [New(g) EXCEPT !.associated = TRUE]
    <3>1. GoTo(g, "handle", new) /\ Mild(New(g), new)
      BY <1>1, <1>8, MildEdits, ZenonT(30) DEF GetAssociatedHost
    <3> HIDE DEF new
    <3> QED
      BY <1>6, <3>1
  <2>2. w.old.providerID \in Hosts /\ Host(g)' = w.old.providerID
    BY <1>1, <1>5, <1>8
    DEF GetAssociatedHost, HasAssociatedHost, LocalHosts, GetHost, CopyOf, Host, HostSideOK
  <2>3. HoldsNamedHost(g)'
    BY <2>1, <2>2 DEF HoldsNamedHost, At
  <2> QED
    BY <1>3, <2>1, <2>3, FollowsOfOne
<1>9. CASE \E h \in Hosts : ChooseHost(g, h)
  <2>1. /\ workers'[g].machine = w.machine /\ workers'[g].step = "claim"
        /\ Pursues(workers'[g], stored)
    BY <1>1, <1>6, <1>9, MildEdits, Zenon DEF ChooseHost
  <2>2. /\ Host(g)' \in Hosts
        /\ Namespace[Host(g)'] = Namespace[w.machine]
    BY <1>1, <1>5, <1>9 DEF ChooseHost, LocalHosts, GetHost, CopyOf, Host, HostSideOK
  <2>3. HoldsNamedHost(g)'
    BY <2>1, <2>2 DEF HoldsNamedHost, At
  <2> QED
    BY <1>3, <2>1, <2>3, FollowsOfOne
<1>10. CASE \/ NoHostAvailable(g) \/ ClaimHost(g) \/ HandleErrorHost(g)
            \/ HandleIntermediateHost(g) \/ InspectionTimeout(g)
            \/ InspectionInProgress(g) \/ InspectionRejected(g)
            \/ InspectionAccepted(g) \/ BootFails(g) \/ StartInspection(g)
  <2> DEFINE associated(b) == [New(g) EXCEPT !.associated = b]
             failed == [New(g) EXCEPT !.infraReady = FALSE, !.ready = FALSE,
                                      !.phase = "Failed"]
             pending == [New(g) EXCEPT !.infraReady = FALSE, !.phase = "Pending"]
             inspecting == [New(g) EXCEPT !.phase = "Inspecting"]
  <2>1. \/ GoTo(g, "patch", New(g))
        \/ \E b : GoTo(g, "patch", associated(b))
        \/ GoTo(g, "patch", failed)
        \/ GoTo(g, "patch", pending)
        \/ GoTo(g, "patch", inspecting)
    BY <1>10, Zenon DEF NoHostAvailable, ClaimHost, HandleErrorHost,
      HandleIntermediateHost, ReportMachine, InspectionTimeout, InspectionInProgress,
      InspectionRejected, InspectionAccepted, BootFails, StartInspection
  <2>2. /\ Mild(New(g), New(g)) /\ \A b : Mild(New(g), associated(b))
        /\ Mild(New(g), failed) /\ Mild(New(g), pending) /\ Mild(New(g), inspecting)
    BY <1>1, MildEdits, Zenon
  <2> HIDE DEF associated, failed, pending, inspecting
  <2> QED
    BY <1>3, <1>7, <2>1, <2>2
<1>11. CASE HandleReadyHost(g)
  <2> DEFINE new == [New(g) EXCEPT !.providerID = Host(g), !.infraReady = TRUE,
                                   !.ready = TRUE, !.phase = "Provisioned"]
  <2>1. Host(g) = w.old.providerID /\ Host(g) # None
    BY <1>4, <1>5, <1>11, NoneAssumption
    DEF HandleReadyHost, HandlingState, HoldsNamedHost, At
  <2>2. /\ GoTo(g, "patch", new) /\ new.providerID = Host(g)
        /\ new.finalizer = New(g).finalizer
    BY <1>1, <1>11 DEF HandleReadyHost, ReportMachine, MachineObject
  <2> HIDE DEF new
  <2>3. /\ workers'[g].machine = w.machine /\ workers'[g].step = "patch"
        /\ Pursues(workers'[g], stored)
    BY <1>1, <1>2, <1>4, <1>5, <2>1, <2>2, WorkerMoves DEF At
  <2>4. HoldsNamedHost(g)'
    BY <2>3 DEF HoldsNamedHost, At
  <2> QED
    BY <1>3, <2>3, <2>4, FollowsOfOne
<1>12. CASE SetPXE(g) \/ SetPower(g)
  <2>1. PICK step \in {"power", "inspect"} : GoTo(g, step, New(g))
    BY <1>12 DEF SetPXE, SetPower
  <2>2. /\ workers'[g].machine = w.machine /\ workers'[g].step = step
        /\ workers'[g].old = w.old /\ Pursues(workers'[g], stored)
    BY <1>1, <1>6, <2>1, MildEdits, ZenonT(30)
  <2>3. Host(g)' = Host(g) /\ Host(g) = w.old.providerID /\ Host(g) \in Hosts
    BY <1>4, <1>5, <1>12 DEF SetPXE, SetPower, HandlingState, At, HoldsNamedHost, Host
  <2>4. HoldsNamedHost(g)'
    BY <2>1, <2>2, <2>3 DEF HoldsNamedHost, At
  <2> QED
    BY <1>3, <2>2, <2>4, FollowsOfOne
<1>13. CASE GetHostToRelease(g)
  <2>1. /\ workers'[g].machine = w.machine /\ workers'[g].step = "release"
        /\ workers'[g].old = w.old /\ Pursues(workers'[g], stored)
    <3>1. /\ GoTo(g, "release", New(g)) /\ workers[g].step = "delete"
          /\ New(g).providerID = workers[g].old.providerID
          /\ New(g).ready /\ ~workers[g].old.ready => workers[g].old.providerID # None
      BY <1>4, <1>5, <1>13 DEF GetHostToRelease, Pursues, At
    <3> QED
      BY <1>1, <1>4, <1>5, <3>1, WorkerMoves
  <2>2. /\ w.old.providerID \in Hosts /\ Host(g)' = w.old.providerID
        /\ Name[HostCopy(g)'.consumerRef] = Name[w.machine]
    BY <1>1, <1>5, <1>13, ThreadsDiffer, ZenonT(30)
    DEF GetHostToRelease, NamedHostIsOurs, NamedHostFound, GetHost, CopyOf, Host,
        HostCopy, HostSideOK
  <2>3. HoldsNamedHost(g)'
    BY <2>1, <2>2 DEF HoldsNamedHost, At
  <2> QED
    BY <1>3, <2>1, <2>3, FollowsOfOne
<1>14. CASE NothingToRelease(g) \/ ReleaseHost(g)
  <2>1. PICK new \in {New(g), WithoutFinalizer(New(g))} : GoTo(g, "patch", new)
    BY <1>14, Zenon DEF NothingToRelease, ReleaseHost
  <2>2. w.step \in {"delete", "release"}
    BY <1>5, <1>14, Zenon DEF NothingToRelease, ReleaseHost, At
  <2>3. new.providerID = New(g).providerID /\ new.ready = New(g).ready
    BY <1>1, <2>1 DEF WithoutFinalizer, MachineObject
  <2>4. /\ workers'[g].machine = w.machine /\ workers'[g].step = "patch"
        /\ Pursues(workers'[g], stored)
    <3>1. /\ new.providerID = workers[g].old.providerID
          /\ new.ready /\ ~workers[g].old.ready => workers[g].old.providerID # None
      BY <1>4, <1>5, <2>3 DEF Pursues
    <3> QED
      BY <1>1, <1>4, <1>5, <2>1, <2>2, <3>1, WorkerMoves
  <2>5. HoldsNamedHost(g)'
    BY <2>4 DEF HoldsNamedHost, At
  <2> QED
    BY <1>3, <2>4, <2>5, FollowsOfOne
<1> QED
  BY <1>3, <1>8, <1>9, <1>10, <1>11, <1>12, <1>13, <1>14 DEF MachineStep

(* The worker takes up a machine as its manager's cache has it.            *)
LEMMA TakeUpFollows ==
  ASSUME MachineInv, NEW g \in Managers, NEW m \in Machines, MachineReconcile(g, m)
  PROVE  CopiesFollow' /\ WorkersFollow'
<1> DEFINE object == machineCache[g][m]
<1>1. /\ object \in MachineObject /\ workers \in [Managers -> Worker]
      /\ CopiesFollow /\ WorkersFollow
  BY TypeParts DEF MachineInv, LifecycleInv, MachineControllerTypeOK, MachineSideOK
<1>2. WellFormed(object) /\ Earlier(object, machines[m]) /\ CopiesFollow'
  BY <1>1 DEF CopiesFollow, MachineReconcile, ReconcileMachine, machineVars, WellFormed,
              Earlier
<1>3. /\ workers'[g].step = IF object.deleting THEN "delete"
                            ELSE IF object.finalizer THEN "find" ELSE "patch"
      /\ workers'[g].machine = m /\ workers'[g].old = Read(object)
      /\ workers'[g].new = IF object.deleting THEN Read(object)
                           ELSE [Read(object) EXCEPT !.finalizer = TRUE]
  BY <1>1 DEF MachineReconcile, ReconcileMachine
<1> HIDE DEF object
<1> DEFINE old == Read(object)
           kept == [old EXCEPT !.finalizer = TRUE]
<1>4. /\ old \in MachineObject /\ ~old.deleting
      /\ old.finalizer = object.finalizer /\ old.providerID = object.providerID
  BY <1>1, Zenon DEF Read, MachineObject
<1> HIDE DEF old
<1>5. /\ kept.finalizer /\ kept.providerID = old.providerID
      /\ kept.associated = old.associated /\ kept.ready = old.ready
  BY <1>4 DEF MachineObject
<1> HIDE DEF kept
<1>6. /\ workers'[g].old = old
      /\ workers'[g].new = IF object.deleting THEN old ELSE kept
  BY <1>3 DEF old, kept
<1>7. Earlier(old, machines[m])
  BY <1>2, <1>4 DEF Earlier
<1>8. Pursues(workers'[g], machines[m])
  <2>1. CASE object.deleting
    <3>1. /\ workers'[g].step = "delete" /\ workers'[g].new = old /\ old.finalizer
          /\ machines[m].exists => machines[m].deleting
      BY <1>2, <1>3, <1>4, <1>6, <2>1 DEF WellFormed, Earlier
    <3> QED
      BY <1>6, <1>7, <3>1 DEF Pursues
  <2>2. CASE ~object.deleting
    <3>1. /\ workers'[g].step \in {"find", "patch"} /\ workers'[g].new = kept
          /\ ~old.finalizer => workers'[g].step = "patch"
      BY <1>3, <1>4, <1>6, <2>2
    <3> QED
      BY <1>5, <1>6, <1>7, <3>1 DEF Pursues
  <2> QED
    BY <2>1, <2>2
<1>9. ASSUME NEW k \in Managers, workers'[k].step # "idle"
      PROVE  /\ Pursues(workers'[k], machines[workers'[k].machine])
             /\ HoldsNamedHost(k)'
  <2>1. CASE k = g
    BY <1>3, <1>8, <2>1 DEF HoldsNamedHost, At
  <2>2. CASE k # g
    <3>1. /\ workers'[k] = workers[k]
          /\ HostCopy(k)' = HostCopy(k) /\ Host(k)' = Host(k)
      BY <2>2, MachineStepOthers DEF MachineInv, MachineReconcile
    <3>2. Pursues(workers[k], machines[workers[k].machine]) /\ HoldsNamedHost(k)
      BY <1>1, <1>9, <3>1 DEF WorkersFollow, At
    <3> QED
      BY <3>1, <3>2 DEF HoldsNamedHost, At
  <2> QED
    BY <2>1, <2>2
<1>10. UNCHANGED machines
  BY DEF MachineReconcile, ReconcileMachine, machineVars
<1> QED
  BY <1>2, <1>9, <1>10 DEF WorkersFollow, At, Pursues, Earlier

-----------------------------------------------------------------------------
(* What the rest of the system does.                                       *)

(* Steps that are not about machines.                                      *)
HostSideStep ==
  \/ \E g \in Managers :
       HostContinue(g) \/ \E h \in Hosts : HostReconcile(g, h) \/ CacheSync(g, h)
  \/ \E r \in Requests : Handlers(r)
  \/ \E h \in Hosts : DeleteHost(h) \/ CreateHost(h) \/ Expire(h) \/ SwitchPower(h)

(* They leave the machines, the workers and the workers' copies alone.     *)
LEMMA HostSideLeaves ==
  ASSUME LifecycleInv, HostSideStep
  PROVE  /\ UNCHANGED <<workers, machineVars>>
         /\ \A k \in Managers : HostCopy(k)' = HostCopy(k) /\ Host(k)' = Host(k)
<1> DEFINE Still == \A k \in Managers : HostCopy(k)' = HostCopy(k) /\ Host(k)' = Host(k)
<1>1. /\ HostSideOK /\ CopiesAreCurrent /\ requests \in [Requests -> Request]
      /\ \A k \in Managers : MachineWorker(k) \in Threads
  BY TypeParts, WorkerThreads DEF LifecycleInv, InspectionHandlerTypeOK
<1>2. UNCHANGED view => Still
  BY DEF HostCopy, Host
<1>3. UNCHANGED <<workers, machineVars>>
  BY Zenon
     DEF HostSideStep, HostContinue, HostControllerLeaves, HostStep, AddHostFinalizer,
    HostUnreachable, HostReachable, HostFactoryPanic, DeleteHostFinalizer, HostReconcile,
    ReconcileHost, CacheSync, Sync, UserLeaves, Handlers, ReportPost, PostReport,
    ReportHandle, GetReportedHost, StoreReport, DeleteHost, CreateHost, ReplaceHost, Expire,
    SwitchPower, machineVars
<1>4. ASSUME NEW t \in Threads, \A k \in Managers : t # MachineWorker(k),
             \/ DropView(t)
             \/ \E g \in Managers, h \in Hosts : GetHost(t, g, h)
             \/ \E new, touch : UpdateHost(t, new, touch)
      PROVE  Still
  <2> SUFFICES ASSUME NEW k \in Managers
               PROVE  HostCopy(k)' = HostCopy(k) /\ Host(k)' = Host(k)
    OBVIOUS
  <2>1. HostCopy(k)' = HostCopy(k)
    BY <1>1, <1>4, OthersKeepCopy
  <2>2. view'[MachineWorker(k)].host = view[MachineWorker(k)].host
    BY <1>1, <1>4, OthersKeepHost
  <2> QED
    BY <2>1, <2>2 DEF Host
<1>5. ASSUME NEW h \in Hosts, NEW new, ReplaceHost(h, new)
      PROVE  Still
  BY <1>1, <1>5, OutdatedKeepsObject, OutdatedKeepsHost DEF ReplaceHost, HostCopy, Host
<1>6. ASSUME NEW g \in Managers, HostContinue(g) \/ \E h \in Hosts : HostReconcile(g, h)
      PROVE  Still
  <2>1. HostWorker(g) \in Threads /\ \A k \in Managers : HostWorker(g) # MachineWorker(k)
    BY WorkerThreads, ThreadsDiffer
  <2> QED
    BY <1>4, <1>6, <2>1, Zenon
       DEF HostContinue, HostStep, AddHostFinalizer, HostUnreachable,
      HostReachable, HostFactoryPanic, DeleteHostFinalizer, HostReconcile, ReconcileHost
<1>7. ASSUME NEW r \in Requests, Handlers(r), ~UNCHANGED view
      PROVE  Still
  <2>1. Handler(r) \in Threads /\ \A k \in Managers : Handler(r) # MachineWorker(k)
    BY WorkerThreads, ThreadsDiffer
  <2>2. Handling(r) => requests[r].host \in Hosts /\ requests[r].manager \in Managers
    BY <1>1 DEF Request, NoRequest, Handling
  <2> QED
    BY <1>4, <1>7, <2>1, <2>2, Zenon
    DEF Handlers, ReportPost, PostReport, ReportHandle, GetReportedHost, StoreReport
<1> HIDE DEF Still
<1>8. Still
  <2>1. ASSUME NEW h \in Hosts, DeleteHost(h) \/ CreateHost(h)
        PROVE  Still
    BY <1>5, <2>1 DEF DeleteHost, CreateHost
  <2> QED
    BY <1>2, <1>6, <1>7, <2>1
    DEF HostSideStep, CacheSync, Sync, Expire, SwitchPower
<1> QED
  BY <1>3, <1>8 DEF Still

(* So the invariant is not concerned.                                      *)
LEMMA HostSideFollows ==
  ASSUME MachineInv, UNCHANGED <<workers, machineVars>>,
         \A k \in Managers : HostCopy(k)' = HostCopy(k) /\ Host(k)' = Host(k)
  PROVE  CopiesFollow' /\ WorkersFollow'
<1>1. CopiesFollow'
  BY DEF MachineInv, CopiesFollow, machineVars, WellFormed, Earlier
<1>2. WorkersFollow'
  BY ZenonT(30)
     DEF MachineInv, WorkersFollow, machineVars, Pursues, Earlier, HoldsNamedHost, At
<1> QED
  BY <1>1, <1>2

(* A machine is created, adopted, bound, paused or deleted.                *)
MachineEdit(m) ==
  \/ \E p \in Hosts \cup {None} : CreateMachine(m, p)
  \/ AdoptMachine(m)
  \/ \E h \in Hosts : BindMachine(m, h)
  \/ PauseMachine(m)
  \/ DeleteMachine(m)

(* What is stored then continues the machine.                              *)
LEMMA MachineEditContinues ==
  ASSUME MachineSideOK, NEW m \in Machines, WellFormed(machines[m]), MachineEdit(m)
  PROVE  \E new : /\ StoreMachine(m, new) /\ WellFormed(new)
                  /\ Continues(machines[m], new)
                  /\ new.associated => machines[m].associated
                  /\ new.ready => machines[m].ready
<1> DEFINE o == machines[m]
           Good(new) == /\ WellFormed(new) /\ Continues(o, new)
                        /\ new.associated => o.associated
                        /\ new.ready => o.ready
<1>1. o \in MachineObject
  BY DEF MachineSideOK
<1>2. ASSUME NEW p \in Hosts \cup {None}, CreateMachine(m, p)
      PROVE  \E new : StoreMachine(m, new) /\ Good(new)
  <2> DEFINE new == [AbsentMachine EXCEPT !.exists = TRUE, !.providerID = p]
  <2>1. Good(new)
    BY <1>2 DEF CreateMachine, AbsentMachine, WellFormed, Continues
  <2> HIDE DEF Good
  <2> QED
    BY <1>2, <2>1 DEF CreateMachine
<1>3. CASE AdoptMachine(m)
  <2> DEFINE new == [o EXCEPT !.owner = TRUE]
  <2>1. Good(new)
    BY <1>1 DEF MachineObject, WellFormed, Continues, Grows
  <2> HIDE DEF Good
  <2> QED
    BY <1>3, <2>1, Zenon DEF AdoptMachine, Good
<1>4. ASSUME NEW h \in Hosts, BindMachine(m, h)
      PROVE  \E new : StoreMachine(m, new) /\ Good(new)
  <2> DEFINE new == [o EXCEPT !.providerID = h]
  <2>1. Good(new)
    BY <1>1, <1>4 DEF BindMachine, MachineObject, WellFormed, Continues, Grows
  <2> HIDE DEF Good
  <2> QED
    BY <1>4, <2>1 DEF BindMachine
<1>5. CASE PauseMachine(m)
  <2> DEFINE new == [o EXCEPT !.paused = ~@]
  <2>1. Good(new)
    BY <1>1 DEF MachineObject, WellFormed, Continues, Grows
  <2>2. StoreMachine(m, new)
    BY <1>5 DEF PauseMachine
  <2> HIDE DEF new
  <2> QED
    BY <2>1, <2>2
<1>6. CASE DeleteMachine(m)
  <2> DEFINE marked == [o EXCEPT !.deleting = TRUE]
  <2>1. CASE o.finalizer
    <3>1. Good(marked)
      BY <1>1, <1>6, <2>1 DEF DeleteMachine, MachineObject, WellFormed, Continues, Grows
    <3>2. StoreMachine(m, marked)
      BY <1>6, <2>1 DEF DeleteMachine
    <3> HIDE DEF marked
    <3> QED
      BY <3>1, <3>2
  <2>2. CASE ~o.finalizer
    <3>1. Good(RetiredMachine)
      BY <1>6, <2>2
      DEF DeleteMachine, RetiredMachine, AbsentMachine, WellFormed, Continues
    <3>2. StoreMachine(m, RetiredMachine)
      BY <1>6, <2>2 DEF DeleteMachine
    <3> QED
      BY <3>1, <3>2
  <2> QED
    BY <2>1, <2>2
<1> QED
  BY <1>2, <1>3, <1>4, <1>5, <1>6, Zenon DEF MachineEdit

(* Workers and caches go on following it.                                  *)
LEMMA MachineEditFollows ==
  ASSUME SameIncarnation, MachineInv, NEW m \in Machines, MachineEdit(m)
  PROVE  CopiesFollow' /\ WorkersFollow'
<1>1. MachineSideOK /\ CopiesFollow /\ WorkersFollow /\ WorkerKnows
  BY TypeParts DEF MachineInv, LifecycleInv
<1>2. PICK new : /\ StoreMachine(m, new) /\ WellFormed(new)
                 /\ Continues(machines[m], new)
  BY <1>1, MachineEditContinues DEF CopiesFollow
<1>3. /\ CopiesFollow'
      /\ \A w : w.machine \in Machines /\ Pursues(w, machines[w.machine])
                  => Pursues(w, machines'[w.machine])
  BY <1>1, <1>2, StoreFollows
<1>4. UNCHANGED <<view, workers>>
  BY Zenon
     DEF MachineEdit, CreateMachine, AdoptMachine, BindMachine, PauseMachine, DeleteMachine,
         UserLeaves
<1>5. ASSUME NEW k \in Managers, workers[k].step # "idle"
      PROVE  Pursues(workers[k], machines'[workers[k].machine]) /\ HoldsNamedHost(k)'
  <2>1. /\ workers[k].machine \in Machines /\ HoldsNamedHost(k)
        /\ Pursues(workers[k], machines[workers[k].machine])
    BY <1>1, <1>5 DEF WorkerKnows, WorkersFollow, At
  <2>2. HoldsNamedHost(k)'
    BY <1>4, <2>1 DEF HoldsNamedHost, Host, HostCopy, At
  <2> QED
    BY <1>3, <2>1, <2>2
<1>6. WorkersFollow'
  BY <1>4, <1>5, ZenonT(30) DEF WorkersFollow, At, Pursues, Earlier
<1> QED
  BY <1>3, <1>6

(* A cache gets the stored machine, from a watch event or by a restart.    *)
LEMMA CacheFollows ==
  ASSUME CopiesFollow, UNCHANGED machines,
         \A g \in Managers, m \in Machines :
           machineCache'[g][m] \in {machines[m], machineCache[g][m]}
  PROVE  CopiesFollow'
<1>1. ASSUME NEW g \in Managers, NEW m \in Machines
      PROVE  /\ WellFormed(machineCache'[g][m])
             /\ Earlier(machineCache'[g][m], machines[m])
             /\ ~MachineLag => machineCache'[g][m] = machines[m]
  <2>1. CASE machineCache'[g][m] = machines[m]
    BY <2>1, EarlierThanItself DEF CopiesFollow
  <2>2. CASE machineCache'[g][m] = machineCache[g][m]
    BY <2>2 DEF CopiesFollow
  <2> QED
    BY <2>1, <2>2
<1> QED
  BY <1>1 DEF CopiesFollow, WellFormed, Earlier

(* A watch event brings one cache up to date and leaves the workers alone. *)
LEMMA MachineSyncFollows ==
  ASSUME MachineInv, NEW g \in Managers, NEW m \in Machines, MachineCacheSync(g, m)
  PROVE  CopiesFollow' /\ WorkersFollow'
<1>1. MachineSideOK /\ CopiesFollow
  BY TypeParts DEF MachineInv, LifecycleInv
<1>2. CopiesFollow'
  BY <1>1, CacheFollows DEF MachineCacheSync, SyncMachine, MachineSideOK
<1>3. WorkersFollow'
  BY ZenonT(30)
     DEF MachineInv, MachineCacheSync, SyncMachine, UserLeaves, WorkersFollow, Pursues,
         Earlier, HoldsNamedHost, Host, HostCopy, At
<1> QED
  BY <1>2, <1>3

(* A restarted manager has forgotten what it was doing.                    *)
LEMMA RestartFollows ==
  ASSUME MachineInv, NEW g \in Managers, Restart(g)
  PROVE  CopiesFollow' /\ WorkersFollow'
<1>1. /\ MachineSideOK /\ CopiesFollow /\ WorkersFollow
      /\ workers \in [Managers -> Worker]
  BY TypeParts DEF MachineInv, LifecycleInv, MachineControllerTypeOK
<1>2. CopiesFollow' /\ UNCHANGED machines
  BY <1>1, CacheFollows DEF Restart, MachineSideOK
<1>3. workers'[g].step = "idle"
  BY <1>1 DEF Restart, Idle
<1>4. ASSUME NEW k \in Managers \ {g}
      PROVE  workers'[k] = workers[k] /\ HostCopy(k)' = HostCopy(k) /\ Host(k)' = Host(k)
  <2>1. MachineWorker(k) \notin {HostWorker(g), MachineWorker(g)}
                                   \cup {Handler(r) : r \in Requests}
    BY ThreadsDiffer
  <2>2. view'[MachineWorker(k)] = view[MachineWorker(k)]
    BY <2>1, WorkerThreads DEF Restart
  <2> QED
    BY <1>1, <2>2 DEF Restart, HostCopy, Host
<1>5. ASSUME NEW k \in Managers, workers'[k].step # "idle"
      PROVE  /\ Pursues(workers'[k], machines[workers'[k].machine])
             /\ HoldsNamedHost(k)'
  <2>1. k \in Managers \ {g} /\ workers'[k] = workers[k]
    BY <1>3, <1>4, <1>5
  <2>2. Pursues(workers[k], machines[workers[k].machine]) /\ HoldsNamedHost(k)
    BY <1>1, <1>5, <2>1 DEF WorkersFollow, At
  <2> QED
    BY <1>4, <2>1, <2>2 DEF HoldsNamedHost, At
<1> QED
  BY <1>2, <1>5, Zenon DEF WorkersFollow, At, Pursues, Earlier

-----------------------------------------------------------------------------
(* The invariant is inductive if copies are of the same incarnation.       *)

(* It holds in the initial state.                                          *)
LEMMA MachineInit == Init => MachineInv
<1> SUFFICES ASSUME Init PROVE CopiesFollow /\ WorkersFollow
  BY LifecycleInit DEF MachineInv
<1>1. \A m \in Machines : machines[m] = AbsentMachine
  BY DEF Init, ResourcesInit
<1>2. WellFormed(AbsentMachine) /\ Earlier(AbsentMachine, AbsentMachine)
  BY DEF WellFormed, Earlier, AbsentMachine
<1>3. \A g \in Managers : machineCache[g] = machines
  BY DEF Init, ResourcesInit
<1>4. CopiesFollow
  BY <1>1, <1>2, <1>3 DEF CopiesFollow
<1>5. WorkersFollow
  BY DEF Init, MachineControllerInit, Idle, WorkersFollow, At
<1> QED
  BY <1>4, <1>5

(* Every step is one of these.                                             *)
LEMMA NextCases ==
  ASSUME Next
  PROVE  \/ HostSideStep
         \/ \E g \in Managers : \/ MachineContinue(g) \/ Restart(g)
                               \/ \E m \in Machines : \/ MachineReconcile(g, m)
                                                      \/ MachineCacheSync(g, m)
         \/ \E m \in Machines : MachineEdit(m)
BY DEF Next, Controllers, Users, World, HostSideStep, MachineEdit

(* Every step keeps the invariant.                                         *)
LEMMA MachineNext ==
  ASSUME SameIncarnation, MachineInv, [Next]_vars
  PROVE  MachineInv'
<1> SUFFICES CopiesFollow' /\ WorkersFollow'
  BY LifecycleNext DEF MachineInv
<1>1. CASE UNCHANGED vars
  <2>1. \A k \in Managers : HostCopy(k)' = HostCopy(k) /\ Host(k)' = Host(k)
    BY <1>1 DEF vars, HostCopy, Host
  <2> QED
    BY <1>1, <2>1, HostSideFollows DEF vars, machineVars
<1>2. CASE HostSideStep
  BY <1>2, HostSideLeaves, HostSideFollows DEF MachineInv
<1>3. ASSUME NEW g \in Managers, MachineContinue(g)
      PROVE  CopiesFollow' /\ WorkersFollow'
  BY <1>3, PatchFollows, MachineStepFollows DEF MachineContinue
<1> QED
  BY <1>1, <1>2, <1>3, NextCases, RestartFollows, TakeUpFollows, MachineSyncFollows,
     MachineEditFollows

-----------------------------------------------------------------------------
(* What is written to hosts.                                               *)

(* The host stays with its consumer, or with none.                         *)
Maintained(old, new) ==
  /\ new.exists = old.exists /\ new.consumerRef = old.consumerRef
  /\ old.finalizer => new.finalizer
  /\ new.state = "Available" => new.finalizer \/ old.state = "Available"
  /\ new.deleting => old.deleting \/ "delete host" \in Operations

(* Worker g is about to write host h from a copy that is up to date.       *)
Writer(g, h) == Host(g) = h /\ HostCopy(g) = hosts[h]

(* A machine's worker has found its requirements met by the report.        *)
Validated(h) ==
  \E g \in Managers : Writer(g, h) /\ At(g, "handle") /\ MeetsRequirements(g)

(* Host h may become new: maintained, claimed, released, removed, created. *)
Writes(h, new) ==
  \/ /\ Maintained(hosts[h], new)
     /\ new.state = "Ready" => hosts[h].state = "Ready" \/ Validated(h)
  \/ \E g \in Managers :
       /\ Writer(g, h) /\ At(g, "claim")
       /\ new = [hosts[h] EXCEPT !.consumerRef = workers[g].machine]
  \/ \E g \in Managers :
       /\ Writer(g, h) /\ At(g, "release")
       /\ new = [hosts[h] EXCEPT !.consumerRef = None]
  \/ /\ new = AbsentHost
     /\ \/ hosts[h].deleting /\ (hosts[h].consumerRef = None \/ RecorderSet)
        \/ ~hosts[h].finalizer /\ "delete host" \in Operations
  \/ ~hosts[h].exists /\ new = NewHost

HostsWritten == \A h \in Hosts : Writes(h, hosts'[h])

(* A host that is not written is maintained.                               *)
LEMMA Unwritten ==
  ASSUME UNCHANGED hosts
  PROVE  HostsWritten
BY DEF HostsWritten, Writes, Maintained

(* One host is written.                                                    *)
LEMMA StoreWrites ==
  ASSUME HostSideOK, NEW h \in Hosts, NEW new, StoreHost(h, new), Writes(h, new)
  PROVE  HostsWritten
<1>1. \A i \in Hosts : hosts'[i] = IF i = h THEN new ELSE hosts[i]
  BY DEF StoreHost, HostSideOK
<1>2. \A i \in Hosts : Writes(i, hosts[i])
  BY DEF Writes, Maintained
<1> QED
  BY <1>1, <1>2 DEF HostsWritten

(* A thread's update is written if its copy is up to date.                 *)
LEMMA UpdateWrites ==
  ASSUME HostSideOK, CopiesAreCurrent, NEW t \in Threads, NEW new, NEW touch,
         UpdateHost(t, new, touch),
         view[t].host \in Hosts /\ view[t].object = hosts[view[t].host]
           => Writes(view[t].host, new)
  PROVE  HostsWritten
<1>1. CASE UNCHANGED hosts
  BY <1>1, Unwritten
<1>2. CASE /\ view[t].host \in Hosts /\ view[t].object = hosts[view[t].host]
           /\ StoreHost(view[t].host, new)
  BY <1>2, StoreWrites
<1> QED
  BY <1>1, <1>2, UpdateCases

(* An edit that leaves the consumer alone and makes no host Ready.         *)
LEMMA UpdateMaintains ==
  ASSUME HostSideOK, CopiesAreCurrent, NEW t \in Threads, NEW new, NEW touch,
         UpdateHost(t, new, touch), Maintained(view[t].object, new),
         new.state = "Ready" => view[t].object.state = "Ready"
  PROVE  HostsWritten
BY UpdateWrites DEF Writes

(* The edits of the PhysicalHost reconciler.                               *)
LEMMA HostReconcilerMaintains ==
  ASSUME NEW object \in HostObject, object.finalizer
  PROVE  \A new \in {ConnectionFailed(object), StateByConsumer(Connected(object))} :
           Maintained(object, new) /\ (new.state = "Ready" => object.state = "Ready")
<1> DEFINE Good(new) == Maintained(object, new) /\ (new.state = "Ready" => object.state = "Ready")
<1>1. Good(ConnectionFailed(object))
  <2> DEFINE s == updateStatus(object, "Error", FALSE, TRUE)
  <2>1. s \in HostObject /\ s.state = "Error" /\ Good(s)
    BY DEF updateStatus, HostObject, HostStates, Maintained
  <2> HIDE DEF s
  <2>2. Good([s EXCEPT !.conditions = @ \ {"RedfishConnectionReady"}])
    BY <2>1 DEF Maintained, HostObject
  <2> QED
    BY <2>2, Zenon DEF ConnectionFailed, s
<1> DEFINE c == Connected(object)
<1>2. c \in HostObject /\ Good(c)
  BY DEF Connected, HostObject, HostConditions, Maintained
<1> HIDE DEF c
<1>3. \A s \in {"InUse", "Available"} :
        LET u == updateStatus(c, s, TRUE, FALSE) IN u \in HostObject /\ Good(u)
  BY <1>2 DEF updateStatus, HostObject, HostStates, Maintained
<1>4. ASSUME NEW o \in HostObject, Good(o)
      PROVE  Good([o EXCEPT !.conditions = @ \cup {"HostAvailable"}])
  BY <1>4 DEF Maintained, HostObject
<1>5. Good(StateByConsumer(c))
  <2> DEFINE u == updateStatus(c, "InUse", TRUE, FALSE)
             v == updateStatus(c, "Available", TRUE, FALSE)
             w == [v EXCEPT !.conditions = @ \cup {"HostAvailable"}]
  <2>1. StateByConsumer(c) \in {c, u, w}
    BY DEF StateByConsumer
  <2>2. Good(u) /\ Good(w)
    <3> HIDE DEF Good
    <3> QED
      BY <1>3, <1>4, Zenon
  <2> HIDE DEF u, w, Good
  <2> QED
    BY <1>2, <2>1, <2>2 DEF Good
<1> QED
  BY <1>1, <1>5 DEF c

(* The writes of the PhysicalHost reconciler.                              *)
LEMMA HostStepWrites ==
  ASSUME LifecycleInv, NEW g \in Managers, HostContinue(g)
  PROVE  HostsWritten
<1> DEFINE t == HostWorker(g)
<1>1. HostSideOK /\ CopiesAreCurrent /\ t \in Threads /\ Copy(g) \in HostObject
  BY TypeParts, WorkerThreads DEF LifecycleInv, HostSideOK, Copy, View
<1>2. Copy(g) = view[t].object
  BY DEF Copy
<1>3. CASE UNCHANGED hosts
  BY <1>3, Unwritten
<1>4. CASE AddHostFinalizer(g)
  <2> DEFINE new == [Copy(g) EXCEPT !.finalizer = TRUE]
  <2>1. Maintained(Copy(g), new) /\ new.state = Copy(g).state
    BY <1>1 DEF Maintained, HostObject
  <2>2. UpdateHost(t, new, FALSE)
    BY <1>4, Zenon DEF AddHostFinalizer
  <2> HIDE DEF new
  <2> QED
    BY <1>1, <1>2, <2>1, <2>2, UpdateMaintains, Zenon
<1>5. CASE HostUnreachable(g) \/ HostReachable(g)
  <2>1. PICK new \in {ConnectionFailed(Copy(g)), StateByConsumer(Connected(Copy(g)))},
             touch \in BOOLEAN : UpdateHost(t, new, touch)
    BY <1>5, Zenon DEF HostUnreachable, HostReachable
  <2>2. Copy(g).finalizer
    BY <1>5, Zenon DEF HostUnreachable, HostReachable, Reconcilable
  <2>3. Maintained(Copy(g), new) /\ (new.state = "Ready" => Copy(g).state = "Ready")
    BY <1>1, <2>1, <2>2, HostReconcilerMaintains
  <2> QED
    BY <1>1, <1>2, <2>1, <2>3, UpdateMaintains
<1>6. CASE HostFactoryPanic(g)
  BY <1>3, <1>6 DEF HostFactoryPanic
<1>7. CASE DeleteHostFinalizer(g) /\ ~UNCHANGED hosts
  <2>1. /\ UpdateHost(t, AbsentHost, FALSE) /\ Copy(g).deleting
        /\ Copy(g).consumerRef = None \/ RecorderSet
    BY <1>7, ZenonT(30) DEF DeleteHostFinalizer
  <2>2. view[t].object = hosts[view[t].host] => Writes(view[t].host, AbsentHost)
    BY <1>2, <2>1 DEF Writes
  <2> QED
    BY <1>1, <2>1, <2>2, UpdateWrites, Zenon
<1> QED
  BY <1>3, <1>4, <1>5, <1>6, <1>7 DEF HostContinue, HostStep

(* The writes of the Beskar7Machine reconciler.                            *)
LEMMA MachineStepWrites ==
  ASSUME LifecycleInv, NEW g \in Managers, MachineStep(g)
  PROVE  HostsWritten
<1> DEFINE t == MachineWorker(g)
<1>1. /\ HostSideOK /\ CopiesAreCurrent /\ WorkerKnows /\ t \in Threads
      /\ HostCopy(g) \in HostObject
  BY TypeParts, WorkerThreads DEF LifecycleInv, HostSideOK, HostCopy, View
<1>2. HostCopy(g) = view[t].object /\ Host(g) = view[t].host
  BY DEF HostCopy, Host
<1>3. CASE UNCHANGED hosts
  BY <1>3, Unwritten
<1>4. CASE ClaimHost(g)
  <2> DEFINE new == [HostCopy(g) EXCEPT !.consumerRef = workers[g].machine]
  <2>1. HostCopy(g) = hosts[Host(g)] => Writes(Host(g), new)
    BY <1>4 DEF Writes, Writer, ClaimHost
  <2> QED
    BY <1>1, <1>2, <1>4, <2>1, UpdateWrites, Zenon DEF ClaimHost
<1>5. CASE ReleaseHost(g)
  <2> DEFINE new == [HostCopy(g) EXCEPT !.consumerRef = None]
  <2>1. HostCopy(g) = hosts[Host(g)] => Writes(Host(g), new)
    BY <1>5 DEF Writes, Writer, ReleaseHost
  <2> QED
    BY <1>1, <1>2, <1>5, <2>1, UpdateWrites, Zenon DEF ReleaseHost
<1>6. CASE InspectionTimeout(g)
  <2> DEFINE new == [HostCopy(g) EXCEPT !.phase = "Timeout", !.state = "Error",
                                        !.errorMessage = TRUE]
  <2>1. Maintained(HostCopy(g), new) /\ new.state # "Ready"
    BY <1>1 DEF Maintained, HostObject
  <2>2. UpdateHost(t, new, FALSE)
    BY <1>6, Zenon DEF InspectionTimeout
  <2> HIDE DEF new
  <2> QED
    BY <1>1, <1>2, <2>1, <2>2, UpdateMaintains, Zenon
<1>7. CASE StartInspection(g)
  <2> DEFINE new == [HostCopy(g) EXCEPT !.state = "Inspecting", !.phase = "Booting",
                                        !.timestamp = TRUE]
  <2>1. Maintained(HostCopy(g), new) /\ new.state # "Ready"
    BY <1>1 DEF Maintained, HostObject
  <2>2. UpdateHost(t, new, FALSE)
    BY <1>7, Zenon DEF StartInspection
  <2> HIDE DEF new
  <2> QED
    BY <1>1, <1>2, <2>1, <2>2, UpdateMaintains
<1>8. CASE InspectionAccepted(g)
  <2> DEFINE new == [HostCopy(g) EXCEPT !.state = "Ready",
                                        !.conditions = @ \cup {"HostInspected"}]
  <2>1. Maintained(HostCopy(g), new)
    BY <1>1 DEF Maintained, HostObject
  <2>2. UpdateHost(t, new, FALSE)
    BY <1>8, Zenon DEF InspectionAccepted
  <2> HIDE DEF new
  <2>3. HostCopy(g) = hosts[Host(g)] => Validated(Host(g))
    BY <1>8 DEF InspectionAccepted, HandlingState, Validated, Writer
  <2>4. HostCopy(g) = hosts[Host(g)] => Writes(Host(g), new)
    BY <2>1, <2>3 DEF Writes
  <2> QED
    BY <1>1, <1>2, <2>2, <2>4, UpdateWrites, Zenon
<1> QED
  BY <1>3, <1>4, <1>5, <1>6, <1>7, <1>8 DEF MachineStep,
    GetAssociatedHost, ChooseHost, NoHostAvailable, HandleReadyHost, HandleErrorHost,
    HandleIntermediateHost, ReportMachine, InspectionInProgress, InspectionRejected,
    BootFails, SetPXE, SetPower, NothingToRelease, GetHostToRelease, Patch

(* Every write to a host, whoever makes it.                                *)
LEMMA NextWrites ==
  ASSUME LifecycleInv, [Next]_vars
  PROVE  HostsWritten
<1>1. HostSideOK /\ CopiesAreCurrent
  BY TypeParts DEF LifecycleInv
<1>2. CASE UNCHANGED hosts
  BY <1>2, Unwritten
<1>3. ASSUME NEW r \in Requests, StoreReport(r)
      PROVE  HostsWritten
  <2> DEFINE t == Handler(r)
             new == WithReport(view[t].object, requests[r].report)
  <2>1. t \in Threads /\ view[t].object \in HostObject
    BY <1>1, WorkerThreads DEF HostSideOK, View
  <2>2. Maintained(view[t].object, new) /\ new.state = view[t].object.state
    BY <2>1 DEF Maintained, WithReport, HostObject
  <2>3. UpdateHost(t, new, TRUE)
    BY <1>3, Zenon DEF StoreReport
  <2> HIDE DEF new
  <2> QED
    BY <1>1, <2>1, <2>2, <2>3, UpdateMaintains, Zenon
<1>4. ASSUME NEW h \in Hosts, DeleteHost(h)
      PROVE  HostsWritten
  <2> DEFINE marked == [hosts[h] EXCEPT !.deleting = TRUE]
  <2>1. hosts[h] \in HostObject /\ "delete host" \in Operations
    BY <1>1, <1>4 DEF HostSideOK, DeleteHost, ReplaceHost
  <2>2. CASE hosts[h].finalizer
    <3>1. Maintained(hosts[h], marked) /\ marked.state = hosts[h].state
      BY <2>1 DEF Maintained, HostObject
    <3>2. StoreHost(h, marked)
      BY <1>4, <2>2 DEF DeleteHost, ReplaceHost
    <3> HIDE DEF marked
    <3> QED
      BY <1>1, <3>1, <3>2, StoreWrites DEF Writes
  <2>3. CASE ~hosts[h].finalizer
    <3>1. StoreHost(h, AbsentHost)
      BY <1>4, <2>3 DEF DeleteHost, ReplaceHost
    <3> QED
      BY <1>1, <2>1, <2>3, <3>1, StoreWrites DEF Writes
  <2> QED
    BY <2>2, <2>3
<1>5. ASSUME NEW h \in Hosts, CreateHost(h)
      PROVE  HostsWritten
  <2>1. Writes(h, NewHost) /\ StoreHost(h, NewHost)
    BY <1>5 DEF Writes, CreateHost, ReplaceHost
  <2> QED
    BY <1>1, <2>1, StoreWrites
<1>6. CASE HostSideStep /\ ~UNCHANGED hosts
  BY <1>3, <1>4, <1>5, <1>6, HostStepWrites, Zenon
  DEF HostSideStep, HostReconcile, ReconcileHost, CacheSync, Sync, Handlers, ReportPost,
      PostReport, ReportHandle, GetReportedHost, Expire, SwitchPower
<1>7. ASSUME NEW g \in Managers, MachineContinue(g)
      PROVE  HostsWritten
  BY <1>7, MachineStepWrites DEF MachineContinue
<1>8. ASSUME NEW m \in Machines, MachineEdit(m)
      PROVE  UNCHANGED hosts
  BY <1>8, Zenon
     DEF MachineEdit, CreateMachine, AdoptMachine, BindMachine, PauseMachine,
              DeleteMachine
<1> QED
  BY <1>2, <1>6, <1>7, <1>8, NextCases
  DEF vars, Restart, MachineReconcile, ReconcileMachine, MachineCacheSync, SyncMachine

(* A host with a consumer is there, and so is its finalizer: only a host   *)
(* that the PhysicalHost reconciler has taken on becomes Available.        *)
HostKept(host) ==
  /\ host.consumerRef # None => host.exists
  /\ host.state = "Available" \/ host.consumerRef # None => host.finalizer
  /\ host.deleting => "delete host" \in Operations

HostsKept == \A h \in Hosts : HostKept(hosts[h])

(* It is so in the initial state.                                          *)
LEMMA KeptInit == Init => HostsKept
<1>1. HostKept(NewHost)
  BY DEF HostKept, NewHost, AbsentHost
<1> QED
  BY <1>1 DEF Init, ResourcesInit, HostsKept

(* Every write keeps it so.                                                *)
LEMMA KeptNext ==
  ASSUME LifecycleInv, HostsKept, [Next]_vars
  PROVE  HostsKept'
<1> SUFFICES ASSUME NEW h \in Hosts, NEW new, Writes(h, new) PROVE HostKept(new)
  BY NextWrites DEF HostsKept, HostKept, HostsWritten
<1> DEFINE old == hosts[h]
<1>1. old \in HostObject /\ HostKept(old)
  BY TypeParts DEF LifecycleInv, HostSideOK, HostsKept
<1>2. CASE Maintained(old, new)
  BY <1>1, <1>2 DEF Maintained, HostKept
<1>3. ASSUME NEW g \in Managers, Writer(g, h), At(g, "claim"),
             new = [old EXCEPT !.consumerRef = workers[g].machine]
      PROVE  HostKept(new)
  <2>1. Claimable(old)
    BY <1>3 DEF LifecycleInv, WorkerKnows, Writer
  <2> QED
    BY <1>1, <1>3, <2>1 DEF Claimable, HostObject, HostKept
<1>4. CASE new = [old EXCEPT !.consumerRef = None]
  BY <1>1, <1>4 DEF HostObject, HostKept
<1>5. HostKept(AbsentHost) /\ HostKept(NewHost)
  BY DEF AbsentHost, NewHost, HostKept
<1> QED
  BY <1>2, <1>3, <1>4, <1>5 DEF Writes

-----------------------------------------------------------------------------
(* Theorems.                                                               *)

(* The patch of worker g makes machine m ready, or associated.             *)
Readies(g, m) ==
  /\ At(g, "patch") /\ workers[g].machine = m
  /\ workers[g].new.ready /\ ~workers[g].old.ready

Associates(g, m) ==
  /\ At(g, "patch") /\ workers[g].machine = m
  /\ workers[g].new.associated /\ ~workers[g].old.associated

(* What a step makes of a machine.                                         *)
LEMMA MachineWrites ==
  ASSUME MachineInv, [Next]_vars, NEW m \in Machines
  PROVE  LET stored == machines[m]
             next == machines'[m] IN
         /\ WellFormed(stored)
         /\ Continues(stored, next) \/ (stored.exists /\ next = RetiredMachine)
         /\ next.ready =>
              stored.ready \/ (stored.exists /\ \E g \in Managers : Readies(g, m))
         /\ next.associated =>
              stored.associated \/ (stored.exists /\ \E g \in Managers : Associates(g, m))
<1> DEFINE stored == machines[m]
           next == machines'[m]
<1>1. /\ MachineSideOK /\ stored \in MachineObject /\ WellFormed(stored)
      /\ Continues(stored, stored) /\ workers \in [Managers -> Worker]
  BY TypeParts, EarlierThanItself
  DEF MachineInv, LifecycleInv, MachineControllerTypeOK, MachineSideOK, CopiesFollow
<1>3. ASSUME NEW g \in Managers, Patch(g), next # stored
      PROVE  /\ Continues(stored, next) \/ (stored.exists /\ next = RetiredMachine)
             /\ next.ready => stored.ready \/ (stored.exists /\ Readies(g, m))
             /\ next.associated => stored.associated \/ (stored.exists /\ Associates(g, m))
  <2> DEFINE w == workers[g]
             result == Result(machines[w.machine], w)
             patched == PatchedMachine(stored, w.old, w.new)
  <2>1. /\ w.machine \in Machines /\ StoreMachine(w.machine, result)
        /\ Pursues(w, machines[w.machine])
        /\ \/ Grows(machines[w.machine], result)
           \/ machines[w.machine].exists /\ result = RetiredMachine
    BY <1>3, PatchResult, ZenonT(30)
  <2>2. w.machine = m /\ next = Result(stored, w)
    BY <1>1, <1>3, <2>1, StoredMachines, ZenonT(30)
  <2>3. Continues(stored, next) \/ (stored.exists /\ next = RetiredMachine)
    BY <2>1, <2>2, ZenonT(30) DEF Continues
  <2>4. stored.exists /\ next \in {RetiredMachine, patched}
    BY <1>3, <2>2 DEF Result
  <2>5. /\ patched.ready = Merge(stored.ready, w.old.ready, w.new.ready)
        /\ patched.associated = Merge(stored.associated, w.old.associated, w.new.associated)
    BY <1>1 DEF PatchedMachine, MachineObject
  <2>6. /\ w.old.ready \in BOOLEAN /\ w.new.ready \in BOOLEAN
        /\ w.old.associated \in BOOLEAN /\ w.new.associated \in BOOLEAN
    BY <1>1 DEF Worker, MachineObject
  <2>7. /\ ~RetiredMachine.ready /\ ~RetiredMachine.associated
    BY DEF RetiredMachine, AbsentMachine
  <2> HIDE DEF patched
  <2>8. next.ready => stored.ready \/ (w.new.ready /\ ~w.old.ready)
    BY <2>4, <2>5, <2>6, <2>7 DEF Merge
  <2>9. next.associated => stored.associated \/ (w.new.associated /\ ~w.old.associated)
    BY <2>4, <2>5, <2>6, <2>7 DEF Merge
  <2> QED
    BY <1>3, <2>2, <2>3, <2>4, <2>8, <2>9, ZenonT(30)
       DEF Patch, Readies, Associates
<1>4. ASSUME NEW i \in Machines, MachineEdit(i), next # stored
      PROVE  /\ Continues(stored, next)
             /\ next.ready => stored.ready
             /\ next.associated => stored.associated
  <2>1. WellFormed(machines[i])
    BY <1>4 DEF MachineInv, CopiesFollow
  <2>2. PICK new : /\ StoreMachine(i, new) /\ Continues(machines[i], new)
                   /\ new.associated => machines[i].associated
                   /\ new.ready => machines[i].ready
    BY <1>1, <1>4, <2>1, MachineEditContinues
  <2>3. i = m /\ next = new
    BY <1>1, <1>4, <2>2, StoredMachines
  <2> QED
    BY <2>2, <2>3, ZenonT(30)
<1>5. ASSUME NEW g \in Managers, MachineContinue(g), ~Patch(g)
      PROVE  next = stored
  BY <1>5, ZenonT(30)
     DEF MachineContinue, MachineStep, GetAssociatedHost, ChooseHost, NoHostAvailable,
    ClaimHost, HandleReadyHost, HandleErrorHost, HandleIntermediateHost, ReportMachine,
    InspectionTimeout, InspectionInProgress, InspectionRejected, InspectionAccepted,
    BootFails, SetPXE, SetPower, StartInspection, NothingToRelease, GetHostToRelease,
    ReleaseHost, machineVars
<1> HIDE DEF next
<1>6. \/ next = stored
      \/ \E g \in Managers : Patch(g)
      \/ \E i \in Machines : MachineEdit(i)
  <2>1. \/ HostSideStep \/ UNCHANGED machines
        \/ \E g \in Managers : MachineContinue(g)
        \/ \E i \in Machines : MachineEdit(i)
    BY NextCases
    DEF vars, Restart, MachineReconcile, ReconcileMachine, MachineCacheSync, SyncMachine,
        machineVars
  <2>2. HostSideStep => UNCHANGED machines
    BY HostSideLeaves DEF MachineInv, machineVars
  <2>3. UNCHANGED machines => next = stored
    BY DEF next
  <2> QED
    BY <1>5, <2>1, <2>2, <2>3
<1>7. /\ Continues(stored, next) \/ (stored.exists /\ next = RetiredMachine)
      /\ next.ready =>
           stored.ready \/ (stored.exists /\ \E g \in Managers : Readies(g, m))
      /\ next.associated =>
           stored.associated \/ (stored.exists /\ \E g \in Managers : Associates(g, m))
  BY <1>1, <1>3, <1>4, <1>6, ZenonT(30)
<1> QED
  BY <1>1, <1>7, Zenon DEF next

(* A machine is patched ready only from a copy with its finalizer and its  *)
(* ProviderID, which the stored machine then has too.                      *)
LEMMA ReadyNext ==
  ASSUME MachineInv, ReadyMachineIsBound, [Next]_vars
  PROVE  ReadyMachineIsBound'
<1> SUFFICES ASSUME NEW m \in Machines, machines'[m].ready
             PROVE  machines'[m].providerID # None /\ machines'[m].finalizer
  BY DEF ReadyMachineIsBound
<1> DEFINE stored == machines[m]
           next == machines'[m]
<1> HIDE DEF next
<1>1. next.ready
  BY DEF next
<1>2. stored.exists /\ stored.providerID # None /\ stored.finalizer
  <2>1. CASE stored.ready
    BY <2>1, MachineWrites, ZenonT(30) DEF ReadyMachineIsBound, WellFormed
  <2>2. ASSUME NEW g \in Managers, Readies(g, m), stored.exists
        PROVE  stored.providerID # None /\ stored.finalizer
    <3>1. Pursues(workers[g], stored)
      BY <2>2 DEF MachineInv, WorkersFollow, Readies, At
    <3>2. /\ workers[g].old.finalizer /\ workers[g].old.providerID # None
          /\ Earlier(workers[g].old, stored)
      BY <2>2, <3>1, Zenon DEF Pursues, Readies
    <3> QED
      BY <2>2, <3>2 DEF Earlier
  <2> QED
    BY <2>1, <2>2, MachineWrites, ZenonT(30)
<1>3. Continues(stored, next) \/ next = RetiredMachine
  BY MachineWrites, Zenon DEF next
<1>4. Grows(stored, next)
  BY <1>1, <1>2, <1>3 DEF Continues, RetiredMachine, AbsentMachine
<1> QED
  BY <1>2, <1>4 DEF Grows, next

(* A machine reported ready is bound to a host and still holds the         *)
(* finalizer that makes reconcileDelete release that host, however old the *)
(* copies that its workers patch it from: if no copy is of a machine that  *)
(* had the name before.                                                    *)
THEOREM ReadyMachinesAreBound ==
  ASSUME SameIncarnation
  PROVE  Spec => []ReadyMachineIsBound
<1>1. Init => ReadyMachineIsBound
  BY DEF Init, ResourcesInit, AbsentMachine, ReadyMachineIsBound
<1>2. MachineInv /\ ReadyMachineIsBound /\ [Next]_vars
        => MachineInv' /\ ReadyMachineIsBound'
  BY MachineNext, ReadyNext
<1> QED
  BY <1>1, <1>2, MachineInit, PTL DEF Spec

(* A host passes from its consumer only by a release for a machine of that *)
(* name, or by the removal of the host.                                    *)
LEMMA ConsumerStays ==
  ASSUME MachineInv, HostsKept, [Next]_vars, NEW h \in Hosts, NEW m,
         hosts[h].consumerRef = m, m # None, ClaimedHostsStay \/ hosts'[h].exists,
         \A g \in Managers :
           At(g, "release") /\ Host(g) = h => Name[workers[g].machine] # Name[m]
  PROVE  hosts'[h].consumerRef = m
<1> DEFINE old == hosts[h]
           new == hosts'[h]
<1>1. Writes(h, new) /\ HostKept(old)
  BY NextWrites DEF MachineInv, HostsWritten, HostsKept
<1> HIDE DEF new
<1>2. ASSUME NEW g \in Managers, Writer(g, h), At(g, "claim")
      PROVE  FALSE
  BY <1>2 DEF MachineInv, LifecycleInv, WorkerKnows, Writer, Claimable
<1>3. ASSUME NEW g \in Managers, Writer(g, h), At(g, "release")
      PROVE  FALSE
  BY <1>3 DEF MachineInv, WorkersFollow, HoldsNamedHost, Writer, At
<1>4. ~AbsentHost.exists /\ old.exists /\ old.finalizer
  BY <1>1 DEF AbsentHost, HostKept
<1>5. new = AbsentHost => ~(old.deleting /\ RecorderSet)
  BY <1>1, <1>4 DEF HostKept, ClaimedHostsStay, new
<1>6. Maintained(old, new)
  BY <1>1, <1>2, <1>3, <1>4, <1>5 DEF Writes
<1> QED
  BY <1>6 DEF Maintained, new

(* A live machine keeps its host, if no copy is of a machine that had the  *)
(* name before.  Only reconcileDelete clears a consumerRef, that of a      *)
(* machine with the name of the one it works for, and however old its copy *)
(* of that one is, the stored one is being deleted or gone.                *)
THEOREM LiveMachinesKeepHosts ==
  ASSUME SameIncarnation
  PROVE  Spec => LiveMachineKeepsHost
<1> DEFINE Kept == \A h \in Hosts :
             LET m == hosts[h].consumerRef IN
             m # None /\ hosts'[h].exists /\ hosts'[h].consumerRef # m
             => \E k \in Machines : Name[k] = Name[m] /\ LeavesHost(k, h)
<1>1. Init => MachineInv /\ HostsKept
  BY MachineInit, KeptInit
<1>2. MachineInv /\ HostsKept /\ [Next]_vars => MachineInv' /\ HostsKept'
  BY MachineNext, KeptNext DEF MachineInv
<1>3. ASSUME MachineInv, HostsKept, [Next]_vars, NEW h \in Hosts, NEW m,
             m = hosts[h].consumerRef, m # None, hosts'[h].exists,
             hosts'[h].consumerRef # m
      PROVE  \E k \in Machines : Name[k] = Name[m] /\ LeavesHost(k, h)
  <2>1. PICK g \in Managers : /\ At(g, "release") /\ Host(g) = h
                              /\ Name[workers[g].machine] = Name[m]
    BY <1>3, ConsumerStays
  <2> DEFINE k == workers[g].machine
             stored == machines[k]
  <2>2. k \in Machines /\ Pursues(workers[g], stored) /\ HoldsNamedHost(g)
    BY <1>3, <2>1 DEF MachineInv, LifecycleInv, WorkerKnows, WorkersFollow, At
  <2>3. /\ workers[g].old.providerID = h /\ workers[g].old.finalizer
        /\ Earlier(workers[g].old, stored)
        /\ stored.exists => stored.deleting
    BY <2>1, <2>2, ZenonT(30) DEF HoldsNamedHost, Pursues, At
  <2>4. LeavesHost(k, h)
    BY <1>3, <2>3, NoneAssumption DEF Earlier, LeavesHost
  <2> QED
    BY <2>1, <2>2, <2>4
<1>4. MachineInv /\ HostsKept /\ [Next]_vars => [Kept]_vars
  BY <1>3
<1> QED
  BY <1>1, <1>2, <1>4, PTL DEF Spec, LiveMachineKeepsHost

(* A worker that validates a report works for the machine that is bound to *)
(* the host, and its write is accepted only while the host still has the   *)
(* report that it has validated.                                           *)
LEMMA ValidatedStep ==
  ASSUME HeldMachinesStay, MachineInv, [Next]_vars, NEW h \in Hosts,
         hosts[h].state # "Ready", hosts'[h].state = "Ready"
  PROVE  \E m \in Machines : /\ hosts[h].report \in Accepts[m]
                             /\ machines[m].providerID = h
<1>1. Writes(h, hosts'[h]) /\ hosts[h] \in HostObject
  BY NextWrites, TypeParts DEF MachineInv, LifecycleInv, HostSideOK, HostsWritten
<1>2. Validated(h)
  <2>1. \A c : [hosts[h] EXCEPT !.consumerRef = c].state = hosts[h].state
    BY <1>1 DEF HostObject
  <2>2. AbsentHost.state # "Ready" /\ NewHost.state # "Ready"
    BY DEF AbsentHost, NewHost
  <2> QED
    BY <1>1, <2>1, <2>2 DEF Writes
<1>3. PICK g \in Managers : /\ Writer(g, h) /\ At(g, "handle")
                            /\ MeetsRequirements(g)
  BY <1>2 DEF Validated
<1> DEFINE w == workers[g]
<1>4. /\ w.machine \in Machines /\ Pursues(w, machines[w.machine]) /\ HoldsNamedHost(g)
  BY <1>3 DEF MachineInv, LifecycleInv, WorkerKnows, WorkersFollow, At
<1>5. h = w.old.providerID /\ h # None /\ w.old.finalizer
  BY <1>3, <1>4, NoneAssumption, ZenonT(30) DEF Writer, HoldsNamedHost, Pursues, At
<1>6. machines[w.machine].providerID = h
  BY <1>4, <1>5, ZenonT(30) DEF Pursues, Earlier
<1>7. hosts[h].report \in Accepts[w.machine]
  BY <1>3 DEF MeetsRequirements, Writer
<1> QED
  BY <1>4, <1>6, <1>7

(* A host becomes Ready only on the strength of the report that it has at  *)
(* that moment, for a machine bound to it that accepts that report, if no  *)
(* machine goes while a worker holds a copy of it.                         *)
THEOREM ReadyHostsAreValidated ==
  ASSUME HeldMachinesStay
  PROVE  Spec => ReadyIsValidated
<1> DEFINE Step == \A h \in Hosts :
             hosts[h].state # "Ready" /\ hosts'[h].state = "Ready"
             => \E m \in Machines : /\ hosts[h].report \in Accepts[m]
                                    /\ machines[m].providerID = h
<1>1. SameIncarnation
  BY DEF SameIncarnation
<1>2. MachineInv /\ [Next]_vars => MachineInv'
  BY <1>1, MachineNext
<1>3. MachineInv /\ [Next]_vars => [Step]_vars
  BY ValidatedStep
<1> QED
  BY <1>2, <1>3, MachineInit, PTL DEF Spec, ReadyIsValidated

-----------------------------------------------------------------------------
(* PhysicalHostAssociated tells the truth.                                 *)

(* Machine m has a host in its namespace, named or claimed.                *)
HasHost(m) ==
  \E h \in Hosts : /\ Namespace[h] = Namespace[m]
                   /\ machines[m].providerID = h \/ hosts[h].consumerRef = m

(* A worker that is about to say so of a machine that is still there.      *)
ToBeAssociated(g) ==
  /\ ~At(g, "idle")
  /\ workers[g].new.associated /\ ~workers[g].old.associated
  /\ machines[workers[g].machine].exists /\ HasOwnName(workers[g].machine)

AssociationInv ==
  /\ MachineInv /\ HostsKept /\ AssociationIsReal
  /\ \A g \in Managers : ToBeAssociated(g) => HasHost(workers[g].machine)

(* Once a name is in use in two namespaces, it is for good.                *)
LEMMA OwnNameBefore ==
  ASSUME MachineInv, [Next]_vars, NEW m \in Machines, HasOwnName(m)'
  PROVE  HasOwnName(m)
<1> SUFFICES ASSUME NEW k \in Machines, Name[k] = Name[m],
                    machines[k].exists \/ machines[k].retired
             PROVE  k = m
  BY DEF HasOwnName
<1> DEFINE stored == machines[k]
           next == machines'[k]
<1>1. Continues(stored, next) \/ next = RetiredMachine
  BY MachineWrites
<1>2. RetiredMachine.retired
  BY DEF RetiredMachine, AbsentMachine
<1>3. next.exists \/ next.retired
  BY <1>1, <1>2 DEF Continues, Grows
<1> QED
  BY <1>3 DEF HasOwnName

(* A machine that stays keeps what makes the condition true: the host that *)
(* is released for it is the one its ProviderID names.                     *)
LEMMA HasHostKept ==
  ASSUME ClaimedHostsStay, MachineInv, HostsKept, [Next]_vars, NEW m \in Machines,
         machines[m].exists, machines'[m].exists, HasOwnName(m), HasHost(m)
  PROVE  HasHost(m)'
<1> DEFINE stored == machines[m]
           next == machines'[m]
<1>1. Continues(stored, next) \/ next = RetiredMachine
  BY MachineWrites
<1>2. ~RetiredMachine.exists
  BY DEF RetiredMachine, AbsentMachine
<1>3. Grows(stored, next)
  BY <1>1, <1>2 DEF Continues
<1>4. PICK h \in Hosts : /\ Namespace[h] = Namespace[m]
                         /\ stored.providerID = h \/ hosts[h].consumerRef = m
  BY DEF HasHost
<1>5. CASE stored.providerID = h
  BY <1>3, <1>4, <1>5, NoneAssumption DEF Grows, HasHost
<1>6. CASE stored.providerID # h
  <2>1. hosts[h].consumerRef = m
    BY <1>4, <1>6
  <2>2. ASSUME NEW g \in Managers, At(g, "release"), Host(g) = h,
               Name[workers[g].machine] = Name[m]
        PROVE  FALSE
    <3> DEFINE k == workers[g].machine
    <3>1. /\ k \in Machines /\ Pursues(workers[g], machines[k]) /\ HoldsNamedHost(g)
      BY <2>2 DEF MachineInv, LifecycleInv, WorkerKnows, WorkersFollow, At
    <3>2. /\ workers[g].old.providerID = h /\ workers[g].old.finalizer
          /\ Earlier(workers[g].old, machines[k])
      BY <2>2, <3>1, ZenonT(30) DEF HoldsNamedHost, Pursues, At
    <3>3. k = m
      BY <2>2, <3>1, <3>2 DEF Earlier, HasOwnName
    <3> QED
      BY <1>6, <3>2, <3>3, NoneAssumption DEF Earlier
  <2>3. m # None
    BY NoneAssumption
  <2>4. \A g \in Managers :
          At(g, "release") /\ Host(g) = h => Name[workers[g].machine] # Name[m]
    BY <2>2
  <2>5. hosts'[h].consumerRef = m
    BY <2>1, <2>3, <2>4, ConsumerStays
  <2> QED
    BY <1>4, <2>5 DEF HasHost
<1> QED
  BY <1>5, <1>6

(* A step of the worker has it say so only if it found the host named, or  *)
(* its claim was accepted.                                                 *)
LEMMA StepAssociates ==
  ASSUME MachineInv, NEW g \in Managers, MachineStep(g), ~Patch(g)
  PROVE  LET w == workers[g] IN
         /\ workers'[g].machine = w.machine /\ workers'[g].old = w.old
         /\ w.step \notin {"idle", "patch"} /\ UNCHANGED machines
         /\ workers'[g].new.associated =>
              \/ w.new.associated
              \/ \E h \in Hosts :
                   /\ Namespace[h] = Namespace[w.machine]
                   /\ w.old.providerID = h \/ hosts'[h].consumerRef = w.machine
<1> DEFINE t == MachineWorker(g)
           w == workers[g]
<1>1. /\ HostSideOK /\ CopiesAreCurrent /\ t \in Threads
      /\ workers \in [Managers -> Worker] /\ New(g) \in MachineObject
      /\ HostCopy(g) \in HostObject /\ New(g) = w.new
  BY TypeParts, WorkerThreads
  DEF MachineInv, LifecycleInv, MachineControllerTypeOK, HostSideOK, New, Worker, HostCopy,
      View
<1>2. UNCHANGED machines /\ ~At(g, "idle") /\ ~At(g, "patch")
  BY Zenon
     DEF MachineStep, GetAssociatedHost, ChooseHost, NoHostAvailable, ClaimHost,
    HandleReadyHost, HandleErrorHost, HandleIntermediateHost, ReportMachine, HandlingState,
    InspectionTimeout, InspectionInProgress, InspectionRejected, InspectionAccepted,
    BootFails, SetPXE, SetPower, StartInspection, NothingToRelease, GetHostToRelease,
    ReleaseHost, machineVars, At
<1>3. ASSUME NEW step, NEW new, GoTo(g, step, new)
      PROVE  /\ workers'[g].machine = w.machine /\ workers'[g].old = w.old
             /\ workers'[g].new = new
  <2>1. workers'[g] = [w EXCEPT !.step = step, !.new = new] /\ w \in Worker
    BY <1>1, <1>3 DEF GoTo
  <2> QED
    BY <2>1 DEF Worker
<1>4. CASE GetAssociatedHost(g)
  BY <1>2, <1>3, <1>4 DEF GetAssociatedHost, HasAssociatedHost, LocalHosts, At
<1>5. CASE ClaimHost(g)
  <2> DEFINE new == [New(g) EXCEPT !.associated = ~Conflict(t)]
             claimed == [HostCopy(g) EXCEPT !.consumerRef = w.machine]
  <2>1. GoTo(g, "patch", new) /\ new.associated = ~Conflict(t)
    BY <1>1, <1>5 DEF ClaimHost, MachineObject
  <2>2. claimed.consumerRef = w.machine
    BY <1>1 DEF HostObject
  <2>3. ASSUME ~Conflict(t)
        PROVE  Host(g) \in Hosts /\ hosts'[Host(g)] = claimed
    <3>1. Host(g) \in Hosts
      BY <1>1, <2>3 DEF Conflict, CopiesAreCurrent, Host
    <3> QED
      BY <1>1, <1>5, <2>3, <3>1 DEF ClaimHost, UpdateHost, StoreHost, Host, HostSideOK
  <2>4. Namespace[Host(g)] = Namespace[w.machine]
    BY <1>5 DEF ClaimHost, MachineInv, WorkersFollow, HoldsNamedHost, At
  <2> HIDE DEF new, claimed
  <2> QED
    BY <1>2, <1>3, <2>1, <2>2, <2>3, <2>4, Zenon DEF At
<1>6. CASE ~GetAssociatedHost(g) /\ ~ClaimHost(g)
  <2> DEFINE unassociated == [New(g) EXCEPT !.associated = FALSE]
             failed == [New(g) EXCEPT !.infraReady = FALSE, !.ready = FALSE,
                                      !.phase = "Failed"]
             pending == [New(g) EXCEPT !.infraReady = FALSE, !.phase = "Pending"]
             inspecting == [New(g) EXCEPT !.phase = "Inspecting"]
             provisioned == [New(g) EXCEPT !.providerID = Host(g), !.infraReady = TRUE,
                                           !.ready = TRUE, !.phase = "Provisioned"]
             loose == WithoutFinalizer(New(g))
  <2>1. \E step : \/ GoTo(g, step, New(g)) \/ GoTo(g, step, unassociated)
                 \/ GoTo(g, step, failed) \/ GoTo(g, step, pending)
                 \/ GoTo(g, step, inspecting) \/ GoTo(g, step, provisioned)
                 \/ GoTo(g, step, loose)
    BY <1>6, Zenon DEF MachineStep, ChooseHost, NoHostAvailable, HandleReadyHost,
      HandleErrorHost, HandleIntermediateHost, ReportMachine, InspectionTimeout,
      InspectionInProgress, InspectionRejected, InspectionAccepted, BootFails, SetPXE,
      SetPower, StartInspection, NothingToRelease, GetHostToRelease, ReleaseHost
  <2>2. \A new \in {New(g), unassociated, failed, pending, inspecting, provisioned, loose} :
          new.associated => New(g).associated
    BY <1>1, ZenonT(30) DEF MachineObject, WithoutFinalizer
  <2> HIDE DEF unassociated, failed, pending, inspecting, provisioned, loose
  <2> QED
    BY <1>1, <1>2, <1>3, <2>1, <2>2, ZenonT(30) DEF At
<1> QED
  BY <1>4, <1>5, <1>6, ZenonT(30)

(* What a step makes of worker g.                                          *)
LEMMA WorkerChanges ==
  ASSUME LifecycleInv, [Next]_vars, NEW g \in Managers
  PROVE  \/ workers'[g] = workers[g]
         \/ workers'[g].step = "idle"
         \/ \E m \in Machines : MachineReconcile(g, m)
         \/ MachineStep(g) /\ ~Patch(g)
<1>1. workers \in [Managers -> Worker]
  BY DEF LifecycleInv, TypeOK, MachineControllerTypeOK
<1>2. Patch(g) => workers'[g].step = "idle"
  BY <1>1 DEF Patch, Idle
<1>3. ASSUME NEW k \in Managers, Restart(k)
      PROVE  workers'[g] = workers[g] \/ workers'[g].step = "idle"
  BY <1>1, <1>3 DEF Restart, Idle
<1>4. ASSUME NEW k \in Managers \ {g},
             MachineContinue(k) \/ \E m \in Machines : MachineReconcile(k, m)
      PROVE  workers'[g] = workers[g]
  BY <1>4, MachineStepOthers DEF MachineContinue, MachineReconcile
<1>5. CASE UNCHANGED workers
  BY <1>5
<1>6. HostSideStep => UNCHANGED workers
  BY HostSideLeaves
<1>7. ASSUME NEW m \in Machines, MachineEdit(m)
      PROVE  UNCHANGED workers
  BY <1>7, ZenonT(30)
     DEF MachineEdit, CreateMachine, AdoptMachine, BindMachine, PauseMachine,
              DeleteMachine, UserLeaves
<1> QED
  BY <1>2, <1>3, <1>4, <1>5, <1>6, <1>7, NextCases, Zenon
  DEF vars, MachineCacheSync, UserLeaves, MachineContinue

(* Every step keeps the invariant.                                         *)
LEMMA AssociationNext ==
  ASSUME SameIncarnation, ClaimedHostsStay, AssociationInv, [Next]_vars
  PROVE  AssociationInv'
<1>1. /\ MachineInv /\ HostsKept /\ AssociationIsReal /\ LifecycleInv
      /\ MachineInv' /\ HostsKept'
  BY MachineNext, KeptNext DEF AssociationInv, MachineInv
<1>2. ASSUME NEW m \in Machines, machines'[m].associated, HasOwnName(m)'
      PROVE  HasHost(m)'
  <2>0. HasOwnName(m)
    BY <1>1, <1>2, OwnNameBefore
  <2>1. machines'[m].exists
    BY <1>1, <1>2, ZenonT(30) DEF MachineInv, CopiesFollow, WellFormed
  <2>2. \/ machines[m].associated
        \/ machines[m].exists /\ \E g \in Managers : Associates(g, m)
    BY <1>1, <1>2, MachineWrites, ZenonT(30)
  <2>3. machines[m].exists
    BY <1>1, <2>2, ZenonT(30) DEF MachineInv, CopiesFollow, WellFormed
  <2>4. CASE machines[m].associated
    BY <1>1, <2>0, <2>1, <2>3, <2>4, HasHostKept DEF AssociationIsReal, HasHost
  <2>5. ASSUME NEW g \in Managers, Associates(g, m)
        PROVE  HasHost(m)
    <3>1. ToBeAssociated(g) /\ workers[g].machine = m
      BY <2>0, <2>3, <2>5 DEF Associates, ToBeAssociated, At
    <3> QED
      BY <3>1 DEF AssociationInv
  <2> QED
    BY <1>1, <2>0, <2>1, <2>2, <2>3, <2>4, <2>5, HasHostKept
<1>3. ASSUME NEW g \in Managers, NEW m, ToBeAssociated(g)', workers'[g].machine = m
      PROVE  HasHost(m)'
  <2> DEFINE w == workers[g]
             stored == machines[m]
             next == machines'[m]
  <2>0. HasOwnName(m)'
    BY <1>3 DEF ToBeAssociated, HasOwnName
  <2>1. /\ workers'[g].step # "idle" /\ next.exists
        /\ workers'[g].new.associated /\ ~workers'[g].old.associated
    BY <1>3 DEF ToBeAssociated, At
  <2>2. ~At(g, "idle") /\ w.machine = m =>
          m \in Machines /\ HasOwnName(m) /\ Pursues(w, stored)
    BY <1>1, <2>0, OwnNameBefore, ZenonT(30)
    DEF MachineInv, LifecycleInv, WorkerKnows, WorkersFollow
  <2>3. CASE workers'[g] = w
    <3>1. /\ ~At(g, "idle") /\ w.machine = m /\ m \in Machines /\ HasOwnName(m)
          /\ w.old.finalizer /\ Earlier(w.old, stored)
      BY <1>3, <2>1, <2>2, <2>3, ZenonT(30) DEF At, Pursues
    <3>2. Continues(stored, next) \/ stored.exists
      BY <1>1, <3>1, MachineWrites, ZenonT(30)
    <3>3. stored.exists
      BY <2>1, <3>1, <3>2 DEF Continues, Grows, Earlier, SameIncarnation
    <3>4. HasHost(m)
      <4>1. ToBeAssociated(g)
        BY <2>1, <2>3, <3>1, <3>3, Zenon DEF ToBeAssociated
      <4> QED
        BY <3>1, <4>1 DEF AssociationInv
    <3> QED
      BY <1>1, <2>1, <3>1, <3>3, <3>4, HasHostKept
  <2>4. ASSUME NEW i \in Machines, MachineReconcile(g, i)
        PROVE  FALSE
    <3> DEFINE object == machineCache[g][i]
               old == Read(object)
    <3>1. object \in MachineObject /\ workers \in [Managers -> Worker]
      BY <1>1, TypeParts DEF LifecycleInv, MachineControllerTypeOK, MachineSideOK
    <3>2. /\ workers'[g].old = old
          /\ workers'[g].new \in {old, [old EXCEPT !.finalizer = TRUE]}
      BY <2>4, <3>1 DEF MachineReconcile, ReconcileMachine
    <3>3. old \in MachineObject
      BY <3>1, ZenonT(30) DEF Read, MachineObject
    <3> HIDE DEF old
    <3>4. workers'[g].new.associated = old.associated
      BY <3>2, <3>3 DEF MachineObject
    <3> QED
      BY <2>1, <3>2, <3>4
  <2>5. CASE MachineStep(g) /\ ~Patch(g)
    <3>1. /\ w.machine = m /\ workers'[g].old = w.old
          /\ w.step \notin {"idle", "patch"} /\ UNCHANGED machines
          /\ \/ w.new.associated
             \/ \E h \in Hosts :
                  /\ Namespace[h] = Namespace[m]
                  /\ w.old.providerID = h \/ hosts'[h].consumerRef = m
      BY <1>1, <1>3, <2>1, <2>5, StepAssociates
    <3>2. m \in Machines /\ HasOwnName(m) /\ Pursues(w, stored) /\ stored.exists
      BY <2>1, <2>2, <3>1 DEF At
    <3>3. CASE w.new.associated
      <4>1. ToBeAssociated(g)
        BY <2>1, <3>1, <3>2, <3>3 DEF ToBeAssociated, At
      <4>2. HasHost(m)
        BY <3>1, <4>1 DEF AssociationInv
      <4> QED
        BY <1>1, <2>1, <3>2, <4>2, HasHostKept, ZenonT(30)
    <3>4. ASSUME NEW h \in Hosts, Namespace[h] = Namespace[m],
                 w.old.providerID = h \/ hosts'[h].consumerRef = m
          PROVE  HasHost(m)'
      <4>1. w.old.finalizer /\ Earlier(w.old, stored)
        BY <3>1, <3>2 DEF Pursues
      <4>2. w.old.providerID = h => stored.providerID = h
        BY <3>2, <4>1, NoneAssumption DEF Earlier
      <4> QED
        BY <3>1, <3>4, <4>2 DEF HasHost
    <3> QED
      BY <3>1, <3>3, <3>4
  <2> QED
    BY <1>1, <2>1, <2>3, <2>4, <2>5, WorkerChanges
<1>4. AssociationIsReal'
  BY <1>2 DEF AssociationIsReal, HasHost
<1> QED
  BY <1>1, <1>3, <1>4 DEF AssociationInv, HasHost

(* PhysicalHostAssociated is True only on a machine with a host in its     *)
(* namespace, whatever copies it is patched from and whichever claims are  *)
(* refused: if no copy is of a machine that had the name before, no claimed*)
(* host goes, and no machine of another namespace has, or had, its name.   *)
THEOREM AssociationsAreReal ==
  ASSUME SameIncarnation, ClaimedHostsStay
  PROVE  Spec => []AssociationIsReal
<1>1. Init => AssociationInv
  <2> SUFFICES ASSUME Init PROVE AssociationInv
    OBVIOUS
  <2>1. AssociationIsReal
    BY DEF Init, ResourcesInit, AbsentMachine, AssociationIsReal
  <2>2. \A g \in Managers : At(g, "idle")
    BY DEF Init, MachineControllerInit, Idle, At
  <2> QED
    BY <2>1, <2>2, MachineInit, KeptInit DEF AssociationInv, ToBeAssociated
<1>2. AssociationInv /\ [Next]_vars => AssociationInv'
  BY AssociationNext
<1>3. AssociationInv => AssociationIsReal
  BY DEF AssociationInv
<1> QED
  BY <1>1, <1>2, <1>3, PTL DEF Spec
=============================================================================
