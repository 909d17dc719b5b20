-------------------------- MODULE MCBeskar7Cluster --------------------------
(* A small instance of Beskar7ClusterController for TLC.                   *)
EXTENDS Beskar7ClusterController

CONSTANTS p1, p2, z1, z2, c1, c2, a1, a2, valid, invalid, NoAddress

Redfish == INSTANCE RedfishAddresses

(* Servers with nothing to report, a public address, and a private address *)
(* on an interface after that of the public one.                           *)
MCInterfaces ==
  {<<>>,
   <<[ipv4 |-> <<NoAddress, a1>>, ipv6 |-> <<>>]>>,
   <<[ipv4 |-> <<>>, ipv6 |-> <<a1>>], [ipv4 |-> <<a2>>, ipv6 |-> <<>>]>>}

MCSystems == [ethernet : MCInterfaces, ethernetFails : BOOLEAN, networkFails : BOOLEAN]

(* Nothing, a public address, or a private one after it.                   *)
MCAddressLists ==
  {<<>>,
   <<[type |-> "ExternalIP", address |-> a1]>>,
   <<[type |-> "ExternalIP", address |-> a1], [type |-> "InternalIP", address |-> a2]>>}

(* That is what reaches a Machine from two discoveries, one after the      *)
(* other.                                                                  *)
ASSUME DiscoveryAssumption ==
  LET First(s) == Redfish!MachineAddresses(Redfish!HostAddresses(s, <<>>), <<>>) IN
  MCAddressLists =
    {Redfish!MachineAddresses(Redfish!HostAddresses(t, First(s)), First(s)) :
       s, t \in MCSystems}

(* No endpoint, one without a port, and one that is refused.               *)
MCSpecEndpoints ==
  {Unset, [host |-> valid, port |-> 0], [host |-> invalid, port |-> 0]}
=============================================================================
