------------------------- MODULE HardwareValidation -------------------------
(***************************************************************************)
(* How validateInspectionReport holds a report against the requirements of *)
(* a machine: the cores of all CPUs, the leading numbers of the capacities *)
(* of all memory modules, and the sizes of all disks are added up.         *)
(***************************************************************************)
EXTENDS Integers, Sequences, Functions

CONSTANT NotANumber    \* a capacity that Sscanf cannot parse

Total(numbers) == FoldFunction(LAMBDA n, total : n + total, 0, numbers)

(* "32GB" counts as 32, whatever the unit; a module without a number is    *)
(* passed over.                                                            *)
TotalMemory(capacities) ==
  Total(SelectSeq(capacities, LAMBDA capacity : capacity # NotANumber))

(* A minimum of 0 asks for nothing.                                        *)
Reaches(total, minimum) == minimum > 0 => total >= minimum

(* requirements is a sequence of at most one: the field may be nil.        *)
validateInspectionReport(requirements, report) ==
  \A i \in DOMAIN requirements :
    /\ Reaches(Total(report.cpus), requirements[i].minCPUCores)
    /\ Reaches(TotalMemory(report.memory), requirements[i].minMemoryGB)
    /\ Reaches(Total(report.disks), requirements[i].minDiskGB)
=============================================================================
