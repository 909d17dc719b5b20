----------------------- MODULE Beskar7ClusterWebhook -----------------------
(***************************************************************************)
(* Admission of Beskar7Clusters: spec.controlPlaneEndpoint gets a default  *)
(* port and is then validated, on every create and update of the object    *)
(* itself, whoever makes it and whatever it changes.  Deletions and writes *)
(* of the status subresource are not sent to the webhook.                  *)
(***************************************************************************)
EXTENDS Naturals

CONSTANTS ValidHosts,   \* strings that are IP addresses or hostnames
          None          \* the empty string

DefaultPort == 6443

Unset == [host |-> None, port |-> 0]

defaultBeskar7Cluster(spec) ==
  IF spec.host # None /\ spec.port = 0 THEN [spec EXCEPT !.port = DefaultPort]
  ELSE spec

validateHost(host) == host \in ValidHosts

validatePort(port) == port \in 1 .. 65535

(* An empty host and the port 0 are refused as missing.                    *)
validateControlPlaneEndpoint(spec) ==
  /\ spec.host # None /\ validateHost(spec.host)
  /\ spec.port # 0 /\ validatePort(spec.port)

validateBeskar7Cluster(spec) ==
  spec # Unset => validateControlPlaneEndpoint(spec)

(* The API server calls the defaulter, and the validator on its result.    *)
Admitted(spec) == validateBeskar7Cluster(defaultBeskar7Cluster(spec))
=============================================================================
