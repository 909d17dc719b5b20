----------------------------- MODULE MCBeskar7 -----------------------------
(* Small instances of Beskar7 for TLC.                                     *)
EXTENDS Beskar7Properties, HardwareValidation, TLC

CONSTANTS h1, h2, m1, m2, m3, m4, g1, g2, r1, r2, good, bad

(* Every machine asks for 8 cores and 64 GB, and does not care for disks.  *)
MCRequirements == <<[minCPUCores |-> 8, minMemoryGB |-> 64, minDiskGB |-> 0]>>

(* One report just meets that.  In the other the capacity of a memory      *)
(* module cannot be read.                                                  *)
MCHardware ==
  [report \in {good, bad} |->
     [cpus   |-> <<4, 4>>,
      memory |-> IF report = good THEN <<32, 32>> ELSE <<32, NotANumber>>,
      disks  |-> << >>]]

MCAccepts ==
  [m \in Machines |->
     {report \in Reports :
        validateInspectionReport(MCRequirements, MCHardware[report])}]

(* Everything is in one namespace but the machines m3 and m4, which have   *)
(* the names of m1 and m2.                                                 *)
MCNamespace ==
  [o \in Hosts \cup Machines |-> IF o \in {m3, m4} THEN "other" ELSE "default"]

MCName == m1 :> m1 @@ m2 :> m2 @@ m3 :> m1 @@ m4 :> m2

(* A manager that has not done anything yet.                               *)
MCFresh(g) ==
  /\ workers[g] = Idle /\ ~Working(g)
  /\ \A h \in Hosts : cache[g][h].object = NewHost

(* Somebody other than Cluster API's controllers has touched a machine or  *)
(* a host.                                                                 *)
MCOperated ==
  \/ \E m \in Machines :
       \/ machines[m].providerID # None \/ machines[m].deleting \/ machines[m].retired
       \/ m \in {m3, m4} /\ machines[m].exists
  \/ \E h \in Hosts : hosts[h].deleting \/ ~hosts[h].exists

(* Both managers are at work as long as nobody operates on the objects;    *)
(* operations meet one manager.                                            *)
MCOneOfTwo == MCOperated => \E g \in Managers : \A k \in Managers \ {g} : MCFresh(k)

(* A machine meets another one of its namespace, or the one of its name in *)
(* the other namespace while no host is deleted.                           *)
MCTwoOfFour ==
  LET there == {m \in Machines : machines[m] # AbsentMachine} IN
  \/ there \subseteq {m1, m2}
  \/ /\ there \subseteq {m1, m3} \/ there \subseteq {m2, m4}
     /\ \A h \in Hosts : hosts[h].exists /\ ~hosts[h].deleting

(* Managers are interchangeable, and so are the slots of requests.         *)
MCSymmetry == Permutations(Managers) \cup Permutations(Requests)

(* So are the namespace's machines, together with the ones of their names. *)
MCOwnersSymmetry ==
  Permutations(Managers) \cup {m1 :> m2 @@ m2 :> m1 @@ m3 :> m4 @@ m4 :> m3}

=============================================================================
