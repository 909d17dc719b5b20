CONSTANTS
  p1 = p1  p2 = p2  z1 = z1  z2 = z2  c1 = c1  c2 = c2  a1 = a1  a2 = a2
  valid = valid  invalid = invalid  None = None  NoAddress = NoAddress
  Hosts = {p1, p2}
  Zones = {z1, z2}
  ControlPlanes = {c1}
  Addresses = {a1, a2}
  Private = {a2}
  AddressLists <- MCAddressLists
  ValidHosts = {valid}
  InvalidHosts = {invalid}
  SpecEndpoints <- MCSpecEndpoints
  MaxChanges = 2
  MaxFaults = 1
SPECIFICATION FairSpec
CHECK_DEADLOCK FALSE
INVARIANTS TypeOK EndpointWasOffered
PROPERTIES AdmittedStaysAdmitted DomainsSettle StatusSettles EndpointIsFound ResyncCatchesUp ClusterDeletionCompletes
