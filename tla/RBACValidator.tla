--------------------------- MODULE RBACValidator ---------------------------
(***************************************************************************)
(* What internal/security finds wrong with a ClusterRole.  A rule has sets *)
(* of API groups, resources and verbs; a finding is told apart by its type *)
(* and by the number of its rule, 0 for a finding about the whole role.    *)
(* Warnings are left out: nobody reads them.                               *)
(***************************************************************************)
EXTENDS Naturals, Sequences

Severities == {"LOW", "MEDIUM", "HIGH", "CRITICAL"}

Finding(type, severity, rule) ==
  [type |-> type, severity |-> severity, rule |-> rule]

FoundIf(condition, finding) == IF condition THEN {finding} ELSE {}

PolicyRule(apiGroups, resources, verbs) ==
  [apiGroups |-> apiGroups, resources |-> resources, verbs |-> verbs]

containsWildcard(set) == "*" \in set

OnResource(rule, resource) ==
  resource \in rule.resources \/ containsWildcard(rule.resources)

InAPIGroup(rule, apiGroup) ==
  apiGroup \in rule.apiGroups \/ containsWildcard(rule.apiGroups)

isClusterAdminEquivalent(rule) ==
  /\ containsWildcard(rule.apiGroups)
  /\ containsWildcard(rule.resources)
  /\ containsWildcard(rule.verbs)

validateRule(i, rule) ==
  FoundIf(isClusterAdminEquivalent(rule), Finding("OverlyBroadRule", "CRITICAL", i))
    \cup
  FoundIf(containsWildcard(rule.verbs), Finding("OverlyBroadVerbs", "HIGH", i))
    \cup
  FoundIf(/\ OnResource(rule, "secrets")
          /\ {"create", "delete", "patch"} \subseteq rule.verbs,
          Finding("SecretsFullAccess", "HIGH", i))
    \cup
  FoundIf(isClusterAdminEquivalent(rule),
          Finding("ClusterAdminEquivalent", "CRITICAL", i))
    \cup
  FoundIf(/\ {"users", "groups", "serviceaccounts"} \cap rule.resources # {}
          /\ "impersonate" \in rule.verbs,
          Finding("ImpersonationRisk", "HIGH", i))

ValidateRole(rules) == UNION {validateRule(i, rules[i]) : i \in DOMAIN rules}

Some(rules, Condition(_)) == \E i \in DOMAIN rules : Condition(rules[i])

CoreWildcard(rule) == InAPIGroup(rule, "") /\ containsWildcard(rule.resources)

RBACWildcard(rule) ==
  /\ InAPIGroup(rule, "rbac.authorization.k8s.io")
  /\ containsWildcard(rule.resources)

checkOverlyBroadPermissions(rules) ==
  {Finding("RBACWildcardAccess", "HIGH", i) :
     i \in {j \in DOMAIN rules : RBACWildcard(rules[j])}}
    \cup
  FoundIf(Some(rules, CoreWildcard) /\ Some(rules, RBACWildcard),
          Finding("ExcessivePrivileges", "CRITICAL", 0))

SecretAccess(rule) == OnResource(rule, "secrets")

(* Mutant: the wildcard is not taken for access to the nodes.              *)
NodeAccessByName(rule) == "nodes" \in rule.resources

NodeAccess(rule) == OnResource(rule, "nodes")

PodExec(rule) == {"pods/exec", "pods/attach"} \cap rule.resources # {}

checkDangerousPermissions(rules) ==
  {Finding("PodExecAccess", "MEDIUM", i) :
     i \in {j \in DOMAIN rules : PodExec(rules[j])}}
    \cup
  FoundIf(Some(rules, SecretAccess) /\ Some(rules, NodeAccess),
          Finding("SecretNodeAccess", "HIGH", 0))
    \cup
  FoundIf(Some(rules, SecretAccess) /\ Some(rules, PodExec),
          Finding("SecretExecAccess", "HIGH", 0))

ValidateClusterRole(rules) ==
  ValidateRole(rules)
    \cup checkOverlyBroadPermissions(rules)
    \cup checkDangerousPermissions(rules)

-----------------------------------------------------------------------------
Reading == {"get", "list", "watch"}

GetRecommendedPermissions(useCase) ==
  CASE useCase = "beskar7-minimal" ->
         << PolicyRule({"infrastructure.cluster.x-k8s.io"},
                       {"physicalhosts", "beskar7machines", "beskar7clusters"},
                       Reading \cup {"create", "update", "patch", "delete"}),
            PolicyRule({"infrastructure.cluster.x-k8s.io"},
                       {"physicalhosts/status", "beskar7machines/status",
                        "beskar7clusters/status"},
                       {"get", "update", "patch"}),
            PolicyRule({"cluster.x-k8s.io"}, {"clusters", "machines"}, Reading),
            PolicyRule({""}, {"secrets"}, Reading),
            PolicyRule({""}, {"events"}, {"create", "patch"}) >>
    [] useCase = "read-only" -> << PolicyRule({"*"}, {"*"}, Reading) >>
    [] OTHER -> << >>

-----------------------------------------------------------------------------
(* How a role is judged on the whole: 4 for CRITICAL to 0 for no finding.  *)
Worst(findings) ==
  IF \E f \in findings : f.severity = "CRITICAL" THEN 4
  ELSE IF \E f \in findings : f.severity = "HIGH" THEN 3
  ELSE IF \E f \in findings : f.severity = "MEDIUM" THEN 2
  ELSE IF findings # {} THEN 1 ELSE 0

(* Rule s grants all that rule r grants; the wildcard stands for anything. *)
Grants(s, r) ==
  /\ "*" \in s.apiGroups \/ r.apiGroups \subseteq s.apiGroups
  /\ "*" \in s.resources \/ r.resources \subseteq s.resources
  /\ "*" \in s.verbs \/ r.verbs \subseteq s.verbs

(* Every rule is still there, the same or widened.                         *)
Widened(old, new) ==
  \A i \in DOMAIN old : \E j \in DOMAIN new : Grants(new[j], old[i])
=============================================================================
