------------------------ MODULE MCProvisioningQueue ------------------------
(* Small instances of ProvisioningQueue for TLC.                           *)
EXTENDS ProvisioningQueue, TLC

CONSTANTS h1, h2, a1, a2, r1, r2, r3, w1, w2, c1, c2

(* Every host has a BMC of its own.                                        *)
MCAddress == [h \in Hosts |-> IF h = h1 THEN a1 ELSE a2]
=============================================================================
