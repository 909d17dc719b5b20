-------------------------- MODULE RedfishAddresses --------------------------
(***************************************************************************)
(* Discovery of a server's network addresses through its BMC, and their    *)
(* classification for Cluster API.  The PhysicalHost reconciler stores the *)
(* result, the Beskar7Machine of a Ready host copies it, and Cluster API   *)
(* copies it on to the Machine, where the Beskar7Cluster reconciler looks  *)
(* for an endpoint.                                                        *)
(***************************************************************************)
EXTENDS Naturals, Sequences, SequencesExt

CONSTANTS Private,    \* addresses in a private, loopback or link-local range
          NoAddress   \* the empty string

(* A system is what the BMC answers: its EthernetInterfaces, each with the *)
(* lists of its IPv4 and IPv6 addresses, or an error instead of them, and  *)
(* whether the call for its NetworkInterfaces succeeds.                    *)
Named(list, type) ==
  LET named == SelectSeq(list, LAMBDA a : a # NoAddress) IN
  [i \in DOMAIN named |-> [type |-> type, address |-> named[i]]]

extractAddressesFromEthernetInterface(interface) ==
  Named(interface.ipv4, "IPv4") \o Named(interface.ipv6, "IPv6")

OfEthernetInterfaces(system) ==
  IF system.ethernetFails THEN <<>>
  ELSE FlattenSeq([i \in DOMAIN system.ethernet |->
                     extractAddressesFromEthernetInterface(system.ethernet[i])])

(* NetworkInterfaces are only asked when there are no addresses so far, and *)
(* have none to add; what counts is whether the call fails.                *)
GetNetworkAddresses(system) ==
  LET found == OfEthernetInterfaces(system) IN
  [fails |-> found = <<>> /\ system.networkFails, addresses |-> found]

MachineAddressType(a) ==
  IF a.type \in {"IPv4", "IPv6"} /\ a.address \notin Private
  THEN "ExternalIP" ELSE "InternalIP"

ConvertToMachineAddresses(list) ==
  [i \in DOMAIN list |->
     [type |-> MachineAddressType(list[i]), address |-> list[i].address]]

(* status.addresses after a reconciliation of the host: an error leaves    *)
(* what was there.                                                         *)
HostAddresses(system, before) ==
  LET discovery == GetNetworkAddresses(system) IN
  IF discovery.fails THEN before
  ELSE ConvertToMachineAddresses(discovery.addresses)

(* status.addresses of a Beskar7Machine whose host is Ready: an empty list *)
(* is not copied.                                                          *)
MachineAddresses(host, before) == IF host = <<>> THEN before ELSE host
=============================================================================
