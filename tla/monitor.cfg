CONSTANTS
  h1 = h1  c1 = c1  s1 = s1
  None = None  Unreachable = Unreachable
  Hosts = {h1}
  Roles = {c1}
  Secrets = {s1}
  HostSpecs <- MCHostSpecs
  Certificates <- MCCertificates
  RoleRules <- MCRoleRules
  SecretData <- MCSecretData
  Related = {c1}
  CredentialNamed = {s1}
  MaxChanges = 1
SPECIFICATION Spec
CHECK_DEADLOCK FALSE
INVARIANTS TypeOK
PROPERTIES WideningIsNoticed StandingIssueIsReported AlarmsCease MonitorStops
