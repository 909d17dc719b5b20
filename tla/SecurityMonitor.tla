-------------------------- MODULE SecurityMonitor --------------------------
(***************************************************************************)
(* The SecurityMonitor of internal/security: a loop that scans the         *)
(* PhysicalHosts, the ClusterRoles and the Secrets on every tick of an     *)
(* hourly ticker and posts an event for each serious finding.  It shares   *)
(* the objects with everybody who may change them during a scan, and any   *)
(* call to the API server may fail; a failure is logged and passed over.   *)
(*                                                                         *)
(*   hosts [-> dial]* -> roles -> secrets [-> report]* -> wait -> hosts    *)
(*                                                                         *)
(* The totals and recommendations of a report are only logged.             *)
(***************************************************************************)
EXTENDS RBACValidator, TLSValidator, FiniteSets

CONSTANTS Hosts, Roles, Secrets,    \* names of the objects
          None,                     \* no object of that name
          HostSpecs,                \* connections of PhysicalHosts
          Certificates,             \* certificates of their BMCs
          RoleRules,                \* rules of ClusterRoles
          SecretData,               \* what Secrets hold
          Related,                  \* the roles with a name of Beskar7's
          CredentialNamed,          \* the secrets named like credentials
          MaxChanges                \* bound on the changes of the objects

HostSpec == [insecureSkipVerify : BOOLEAN,
             address : {"", "unparsable", "http", "https"}]

Secret == [fields : SUBSET {"username", "password"},
           age : {"fresh", "90 days", "1 year"}]    \* or more

ASSUME MonitorAssumption ==
  /\ HostSpecs \subseteq HostSpec
  /\ Certificates \subseteq Certificate \cup {Unreachable}
  /\ SecretData \subseteq Secret
  /\ None \notin HostSpecs \cup SecretData
  /\ None \notin RoleRules
  /\ Related \subseteq Roles /\ CredentialNamed \subseteq Secrets
  /\ MaxChanges \in Nat

VARIABLES hosts, answers,     \* PhysicalHosts, and what their BMCs show
          roles, secrets,     \* ClusterRoles and Secrets
          changes,            \* number of changes so far
          tick,               \* the ticker's channel holds a tick
          cancelled,          \* the context has ended
          step,               \* where the monitor is
          listed,             \* hosts of the list that are still to be dialled
          report,             \* findings of this scan, by the event's reason
          pending,            \* findings for which an event is to be created
          taken,              \* reasons of the events named after this second
          events              \* reasons of the events of this scan

objects == <<hosts, answers, roles, secrets, changes>>

vars == <<hosts, answers, roles, secrets, changes, tick, cancelled, step,
          listed, report, pending, taken, events>>

Reasons == {"TLSSecurityIssue", "RBACSecurityIssue", "SecretSecurityIssue"}

NoFindings == [reason \in Reasons |-> {}]

IsSerious(finding) == finding.severity \in {"CRITICAL", "HIGH"}

-----------------------------------------------------------------------------
(* What one object adds to the report.                                     *)

TLSFinding(h, type, severity) ==
  [resource |-> h, type |-> type, severity |-> severity]

TLSFindings(h, spec, answer) ==
  LET error(text) == TLSFinding(h, text, IF IsSelfSigned(spec.address, answer)
                                         THEN "MEDIUM" ELSE "HIGH")
      warning(text) == TLSFinding(h, text, "LOW")
  IN FoundIf(spec.insecureSkipVerify, TLSFinding(h, "InsecureSkipVerify", "MEDIUM"))
       \cup (IF spec.address = "" THEN {}
             ELSE {error(text) :
                     text \in ValidateTLSEndpointErrors(spec.address, answer)}
                    \cup
                  {warning(text) :
                     text \in ValidateTLSEndpointWarnings(spec.address, answer)})

RBACFindings(c, rules) ==
  {[resource |-> c, type |-> f.type, severity |-> f.severity, rule |-> f.rule] :
     f \in ValidateClusterRole(rules)}

isCredentialSecret(s, secret) == secret.fields # {} \/ s \in CredentialNamed

SecretFindings(s, secret) ==
  LET found(condition, type, severity) ==
        FoundIf(condition, [resource |-> s, type |-> type, severity |-> severity])
  IN found(secret.age # "fresh", "OldCredentials", "MEDIUM")
       \cup found(secret.age = "1 year", "VeryOldCredentials", "HIGH")
       \cup found("username" \notin secret.fields, "MissingUsername", "HIGH")
       \cup found("password" \notin secret.fields, "MissingPassword", "HIGH")

-----------------------------------------------------------------------------
(* The scans.  Each begins with a List, which may fail.                    *)

At(s) == step = s

Report(reason, findings) == [report EXCEPT ![reason] = @ \cup findings]

NoEvents == UNCHANGED <<pending, taken, events>>

MonitorLeaves == UNCHANGED <<objects, tick, cancelled>>

(* Mutant: the report of the last scan is carried on.                      *)
BeginScanOldReport ==
  /\ step' = "hosts" /\ events' = taken
  /\ UNCHANGED <<report, listed, pending, taken>>

(* runSecurityScan starts from an empty report.                            *)
BeginScan ==
  /\ step' = "hosts" /\ events' = taken
  /\ report' = NoFindings
  /\ UNCHANGED <<listed, pending, taken>>

ListHosts ==
  /\ At("hosts")
  /\ listed' = {<<h, hosts[h]>> : h \in {g \in Hosts : hosts[g] # None}}
  /\ step' = "dial"
  /\ UNCHANGED report /\ NoEvents /\ MonitorLeaves

(* The next host of the list; it may have changed since.                   *)
DialHost(h, spec) ==
  /\ At("dial") /\ <<h, spec>> \in listed
  /\ report' = Report("TLSSecurityIssue", TLSFindings(h, spec, answers[h]))
  /\ listed' = listed \ {<<h, spec>>}
  /\ UNCHANGED step /\ NoEvents /\ MonitorLeaves

HostsScanned ==
  /\ At("dial") /\ listed = {}
  /\ step' = "roles"
  /\ UNCHANGED <<listed, report>> /\ NoEvents /\ MonitorLeaves

ListRoles ==
  /\ At("roles")
  /\ report' = Report("RBACSecurityIssue",
                 UNION {RBACFindings(c, roles[c]) :
                          c \in {d \in Related : roles[d] # None}})
  /\ step' = "secrets"
  /\ UNCHANGED listed /\ NoEvents /\ MonitorLeaves

(* Mutant: every finding is up for reporting.                              *)
SecretsScannedAll(new) ==
  /\ report' = new
  /\ pending' = new
  /\ step' = "report"
  /\ UNCHANGED <<listed, taken, events>> /\ MonitorLeaves

(* With the last scan, the serious findings are up for reporting.          *)
SecretsScanned(new) ==
  /\ report' = new
  /\ pending' = [reason \in Reasons |-> {f \in new[reason] : IsSerious(f)}]
  /\ step' = "report"
  /\ UNCHANGED <<listed, taken, events>> /\ MonitorLeaves

ListSecrets ==
  /\ At("secrets")
  /\ SecretsScanned(Report("SecretSecurityIssue",
       UNION {SecretFindings(s, secrets[s]) :
                s \in {t \in Secrets : /\ secrets[t] # None
                                       /\ isCredentialSecret(t, secrets[t])}}))

(* Mutant: the first error ends the scan.                                  *)
ListFailsReturn ==
  /\ At("hosts") \/ At("roles") \/ At("secrets")
  /\ step' = "wait"
  /\ UNCHANGED <<listed, report>> /\ NoEvents /\ MonitorLeaves

ListFails ==
  \/ /\ At("hosts")
     /\ step' = "roles"
     /\ UNCHANGED <<listed, report>> /\ NoEvents /\ MonitorLeaves
  \/ /\ At("roles")
     /\ step' = "secrets"
     /\ UNCHANGED <<listed, report>> /\ NoEvents /\ MonitorLeaves
  \/ /\ At("secrets")
     /\ SecretsScanned(report)

-----------------------------------------------------------------------------
(* reportFindings and createSecurityEvent.  An event is named after its    *)
(* reason and the second: a second one of the same name is refused, and    *)
(* the finding is passed over like one whose event cannot be created.      *)

(* TLS findings come first, then RBAC, then Secrets.                       *)
IsNext(reason) ==
  /\ pending[reason] # {}
  /\ reason # "TLSSecurityIssue" => pending["TLSSecurityIssue"] = {}
  /\ reason = "SecretSecurityIssue" => pending["RBACSecurityIssue"] = {}

Done(reason, f) == [pending EXCEPT ![reason] = @ \ {f}]

createSecurityEvent(reason, f) ==
  /\ At("report") /\ IsNext(reason) /\ f \in pending[reason]
  /\ pending' = Done(reason, f)
  /\ taken' = taken \cup {reason}
  /\ events' = events \cup {reason}
  /\ UNCHANGED <<step, listed, report>> /\ MonitorLeaves

CreateFails(reason, f) ==
  /\ At("report") /\ IsNext(reason) /\ f \in pending[reason]
  /\ pending' = Done(reason, f)
  /\ UNCHANGED <<step, listed, report, taken, events>> /\ MonitorLeaves

ScanCompleted ==
  /\ At("report") /\ pending = NoFindings
  /\ step' = "wait"
  /\ UNCHANGED <<listed, report>> /\ NoEvents /\ MonitorLeaves

-----------------------------------------------------------------------------
(* StartMonitoring: select takes either of two that are ready.             *)

NextScan ==
  /\ At("wait") /\ tick
  /\ tick' = FALSE
  /\ BeginScan
  /\ UNCHANGED <<objects, cancelled>>

(* Mutant: the break leaves the select and not the loop.                   *)
MonitoringStoppedIdle ==
  /\ At("wait") /\ cancelled /\ step' = "wait"
  /\ UNCHANGED <<listed, report>> /\ NoEvents /\ MonitorLeaves

MonitoringStopped ==
  /\ At("wait") /\ cancelled
  /\ step' = "stopped"
  /\ UNCHANGED <<listed, report>> /\ NoEvents /\ MonitorLeaves

-----------------------------------------------------------------------------
(* Time, the owner of the context, and everybody who changes the objects.  *)

Others == UNCHANGED <<step, listed, report, pending, events>>

NextSecond ==
  /\ taken # {}
  /\ taken' = {}
  /\ UNCHANGED <<objects, tick, cancelled>> /\ Others

(* An hour is over.  The channel holds one tick; further ones are dropped. *)
Tick ==
  /\ ~tick
  /\ tick' = TRUE /\ taken' = {}
  /\ UNCHANGED <<objects, cancelled>> /\ Others

Cancel ==
  /\ ~cancelled
  /\ cancelled' = TRUE
  /\ UNCHANGED <<objects, tick, taken>> /\ Others

ChangeObject ==
  /\ changes < MaxChanges
  /\ changes' = changes + 1
  /\ \/ \E h \in Hosts, spec \in HostSpecs \cup {None} :
          /\ hosts' = [hosts EXCEPT ![h] = spec]
          /\ UNCHANGED <<answers, roles, secrets>>
     \/ \E h \in Hosts, cert \in Certificates :
          /\ answers' = [answers EXCEPT ![h] = cert]
          /\ UNCHANGED <<hosts, roles, secrets>>
     \/ \E c \in Roles, rules \in RoleRules \cup {None} :
          /\ roles' = [roles EXCEPT ![c] = rules]
          /\ UNCHANGED <<hosts, answers, secrets>>
     \/ \E s \in Secrets, secret \in SecretData \cup {None} :
          /\ secrets' = [secrets EXCEPT ![s] = secret]
          /\ UNCHANGED <<hosts, answers, roles>>
  /\ UNCHANGED <<tick, cancelled, taken>> /\ Others

-----------------------------------------------------------------------------
Init ==
  /\ hosts \in [Hosts -> HostSpecs \cup {None}]
  /\ answers \in [Hosts -> Certificates]
  /\ roles \in [Roles -> RoleRules \cup {None}]
  /\ secrets \in [Secrets -> SecretData \cup {None}]
  /\ changes = 0 /\ tick = FALSE /\ cancelled = FALSE
  /\ step = "hosts" /\ listed = {}
  /\ report = NoFindings /\ pending = NoFindings
  /\ taken = {} /\ events = {}

Monitor ==
  \/ ListHosts
  \/ \E h \in Hosts, spec \in HostSpecs : DialHost(h, spec)
  \/ HostsScanned
  \/ ListRoles
  \/ ListSecrets
  \/ ListFails
  \/ \E reason \in Reasons : \E f \in pending[reason] :
       createSecurityEvent(reason, f) \/ CreateFails(reason, f)
  \/ ScanCompleted
  \/ NextScan
  \/ MonitoringStopped

Next == Monitor \/ NextSecond \/ Tick \/ Cancel \/ ChangeObject

(* The monitor goes on, time passes, and a select that finds the context   *)
(* ended again and again takes that case in the end.                       *)
Spec ==
  /\ Init /\ [][Next]_vars
  /\ WF_vars(Monitor) /\ WF_vars(NextSecond) /\ WF_vars(Tick)
  /\ SF_vars(MonitoringStopped)

-----------------------------------------------------------------------------
(* The state is of its type.  Only serious findings lead to events, and an *)
(* event of this second belongs to this scan or the one before.            *)
TypeOK ==
  /\ hosts \in [Hosts -> HostSpecs \cup {None}]
  /\ answers \in [Hosts -> Certificates]
  /\ roles \in [Roles -> RoleRules \cup {None}]
  /\ secrets \in [Secrets -> SecretData \cup {None}]
  /\ changes \in 0..MaxChanges
  /\ tick \in BOOLEAN /\ cancelled \in BOOLEAN
  /\ step \in {"hosts", "dial", "roles", "secrets", "report", "wait", "stopped"}
  /\ listed \subseteq Hosts \X HostSpecs
  /\ \A reason \in Reasons : \A f \in pending[reason] :
       f \in report[reason] /\ IsSerious(f)
  /\ taken \subseteq events /\ events \subseteq Reasons

(* A role that is changed to grant more is not judged less severe, though  *)
(* each check knows the wildcard in some places and not in others          *)
(* (ValidateClusterRole).                                                  *)
WideningIsNoticed ==
  [][\A c \in Roles :
       /\ roles[c] # None /\ roles'[c] # None
       /\ Widened(roles[c], roles'[c])
       => Worst(ValidateClusterRole(roles'[c]))
            >= Worst(ValidateClusterRole(roles[c]))]_vars

(* The serious findings about the objects as they are now.                 *)
Issues(reason) ==
  LET found ==
        CASE reason = "TLSSecurityIssue" ->
               UNION {TLSFindings(h, hosts[h], answers[h]) :
                        h \in {g \in Hosts : hosts[g] # None}}
          [] reason = "RBACSecurityIssue" ->
               UNION {RBACFindings(c, roles[c]) :
                        c \in {d \in Related : roles[d] # None}}
          [] reason = "SecretSecurityIssue" ->
               UNION {SecretFindings(s, secrets[s]) :
                        s \in {t \in Secrets :
                                 /\ secrets[t] # None
                                 /\ isCredentialSecret(t, secrets[t])}}
  IN {f \in found : IsSerious(f)}

Listing(reason) ==
  CASE reason = "TLSSecurityIssue" -> ListHosts
    [] reason = "RBACSecurityIssue" -> ListRoles
    [] reason = "SecretSecurityIssue" -> ListSecrets

Creating(reason) ==
  \E f \in pending[reason] : createSecurityEvent(reason, f)

(* A serious issue that stays is reported again and again, by one event    *)
(* per scan at least, as long as the objects concerned can be listed and   *)
(* the event be created at times; the other scans may fail every time      *)
(* (runSecurityScan).                                                      *)
StandingIssueIsReported ==
  \A reason \in Reasons :
    (/\ []~cancelled /\ <>[](Issues(reason) # {})
     /\ SF_vars(Listing(reason)) /\ SF_vars(Creating(reason)))
      => []<>(reason \in events)

(* Once an issue is settled for good, its events cease: no scan reports    *)
(* what an earlier one has found (runSecurityScan).                        *)
AlarmsCease ==
  \A reason \in Reasons :
    []~cancelled /\ <>[](Issues(reason) = {}) => <>[](reason \notin events)

(* The monitor ends when its context does, even if scans take so long that *)
(* a tick is always waiting (StartMonitoring).                             *)
MonitorStops == cancelled ~> step = "stopped"
=============================================================================
