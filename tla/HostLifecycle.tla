--------------------------- MODULE HostLifecycle ---------------------------
(***************************************************************************)
(* What the controllers promise about one host after another, whoever acts *)
(* and however their steps interleave: who its consumer is, in which state *)
(* it is, and whether a report has come in since its inspection began.     *)
(***************************************************************************)
CONSTANTS Hosts, Machines, None

VARIABLES consumer, state, reported

vars == <<consumer, state, reported>>

States == {"None", "Available", "InUse", "Inspecting", "Ready", "Error"}

Init ==
  /\ consumer = [h \in Hosts |-> None]
  /\ state = [h \in Hosts |-> "None"]
  /\ reported = [h \in Hosts |-> FALSE]

Enter(h, s) == state' = [state EXCEPT ![h] = s]

(* Only a free host that is Available is claimed, and a claimed host stays *)
(* with its consumer until it is released.                                 *)
Claim(h, m) ==
  /\ consumer[h] = None /\ state[h] = "Available"
  /\ consumer' = [consumer EXCEPT ![h] = m]
  /\ UNCHANGED <<state, reported>>

Release(h) ==
  /\ consumer' = [consumer EXCEPT ![h] = None]
  /\ UNCHANGED <<state, reported>>

(* The BMC answers for a free host, or for a claimed one.                  *)
Free(h) ==
  /\ consumer[h] = None
  /\ Enter(h, "Available")
  /\ UNCHANGED <<consumer, reported>>

Use(h) ==
  /\ consumer[h] # None /\ state[h] \in {"None", "Available", "Error"}
  /\ Enter(h, "InUse")
  /\ UNCHANGED <<consumer, reported>>

Fail(h) ==
  /\ Enter(h, "Error")
  /\ UNCHANGED <<consumer, reported>>

(* Inspection: begin, hear from the image, accept or give up.              *)
Inspect(h) ==
  /\ state[h] = "InUse"
  /\ Enter(h, "Inspecting")
  /\ reported' = [reported EXCEPT ![h] = FALSE]
  /\ UNCHANGED consumer

Hear(h) ==
  /\ reported' = [reported EXCEPT ![h] = TRUE]
  /\ UNCHANGED <<consumer, state>>

Accept(h) ==
  /\ state[h] = "Inspecting" /\ reported[h]
  /\ Enter(h, "Ready")
  /\ UNCHANGED <<consumer, reported>>

GiveUp(h) ==
  /\ state[h] = "Inspecting"
  /\ Enter(h, "Error")
  /\ reported' = [reported EXCEPT ![h] = FALSE]
  /\ UNCHANGED consumer

(* The host is removed.  One of the same name starts over.                 *)
Remove(h) ==
  /\ consumer' = [consumer EXCEPT ![h] = None]
  /\ Enter(h, "None")
  /\ reported' = [reported EXCEPT ![h] = FALSE]

Next ==
  \E h \in Hosts :
    \/ \E m \in Machines : Claim(h, m)
    \/ Release(h)
    \/ Free(h)
    \/ Use(h)
    \/ Fail(h)
    \/ Inspect(h)
    \/ Hear(h)
    \/ Accept(h)
    \/ GiveUp(h)
    \/ Remove(h)

Spec == Init /\ [][Next]_vars
=============================================================================
