CONSTANTS
  h1 = h1  h2 = h2  m1 = m1  m2 = m2  m3 = m3  m4 = m4  g1 = g1  g2 = g2  r1 = r1  r2 = r2
  good = good  bad = bad  None = None  NotANumber = NotANumber
  Hosts = {h1}
  Machines = {m1}
  Managers = {g1}
  Requests = {}
  Reports = {}
  Namespace <- MCNamespace
  Name <- MCName
  Accepts <- MCAccepts
  MaxFaults = 0
  MachineLag = FALSE
  FactorySet = TRUE
  RecorderSet = TRUE
  Operations = {"delete machine"}
SPECIFICATION Spec
INVARIANTS DeletedMachineHoldsNoHost
