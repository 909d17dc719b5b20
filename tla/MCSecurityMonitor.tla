------------------------- MODULE MCSecurityMonitor -------------------------
(* A small instance of SecurityMonitor for TLC.                            *)
EXTENDS SecurityMonitor

CONSTANTS h1, c1, s1

MCHostSpecs == {[insecureSkipVerify |-> TRUE, address |-> "https"]}

Sound == [validity |-> "long", selfSigned |-> FALSE,
          usages |-> {"digital signature", "key exchange", "server auth"},
          cas |-> <<FALSE, TRUE>>, names |-> {"DNS"}, matches |-> TRUE]

(* Two errors and two warnings, and the same with a self-signed one.       *)
Wrong == [Sound EXCEPT !.validity = "expired", !.matches = FALSE,
                       !.cas = <<FALSE>>]

MCCertificates == {Wrong, [Wrong EXCEPT !.selfSigned = TRUE]}

(* Roles that widen each other.                                            *)
MCRoleRules ==
  {<<PolicyRule({""}, {"users", "pods/exec"}, {"get"})>>,
   <<PolicyRule({""}, {"users", "pods/exec"}, {"get", "impersonate"})>>,
   <<PolicyRule({""}, {"*"}, {"get", "impersonate"})>>}

MCSecretData == {[fields |-> {"username"}, age |-> "90 days"]}

(* The recommended minimal role is found without fault.                    *)
ASSUME MinimalAssumption ==
  ValidateClusterRole(GetRecommendedPermissions("beskar7-minimal")) = {}
=============================================================================
