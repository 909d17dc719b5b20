----------------------------- MODULE BareMetal -----------------------------
(***************************************************************************)
(* The servers behind the PhysicalHosts, as the Redfish client commands    *)
(* them: a BMC that switches the power and holds a one-time PXE override,  *)
(* and the image that the server runs.  A server that is switched on with  *)
(* the override set boots the inspection image; one that is already on     *)
(* keeps running what it runs.                                             *)
(*                                                                         *)
(* Every failure of the environment (a BMC call that fails, a restart, a   *)
(* repeated report) is taken from one budget, MaxFaults.                   *)
(***************************************************************************)
EXTENDS Naturals, Resources

CONSTANTS MaxFaults,     \* bound on the failures of the environment
          FactorySet     \* the reconcilers have a RedfishClientFactory

ASSUME BareMetalAssumption == MaxFaults \in Nat /\ FactorySet \in BOOLEAN

VARIABLES servers,    \* power, PXE override and running image of each server
          faults      \* number of failures so far

Images == {"none", "inspector", "posting", "os"}

Server == [on : BOOLEAN, pxe : BOOLEAN, image : Images]

Fails == /\ faults < MaxFaults
         /\ faults' = faults + 1

Succeeds == UNCHANGED faults

SetBootSourcePXE(h) == servers' = [servers EXCEPT ![h].pxe = TRUE]

(* GetPowerState, then SetPowerState(On) unless the server is on already.  *)
PowerOn(h) ==
  servers' = [servers EXCEPT ![h] =
    IF @.on THEN @
    ELSE [on |-> TRUE, pxe |-> FALSE,
          image |-> IF @.pxe THEN "inspector" ELSE "os"]]

(* Someone switches the server off.                                        *)
PowerOff(h) ==
  /\ servers[h].on
  /\ servers' = [servers EXCEPT ![h].on = FALSE, ![h].image = "none"]

BareMetalInit ==
  /\ servers = [h \in Hosts |-> [on |-> FALSE, pxe |-> FALSE, image |-> "none"]]
  /\ faults = 0

BareMetalTypeOK ==
  /\ servers \in [Hosts -> Server]
  /\ faults \in 0..MaxFaults
=============================================================================
