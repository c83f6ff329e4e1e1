SPECIFICATION HostSpec
CONSTANTS
  PiCalls = {c1, c2}
  Procs = {1, 2}
  MaxRestarts = 1
  MaxCrashes = 1
  Leader = root
  Kids = {kid1, kid2}
  a1 = a1
  a2 = a2
  s1 = s1
  s2 = s2
  Appends = {a1, a2, a3}
  Servers = {s1, s2}
  ServerOf <- HostServerOf
  Cap = 1
  Files = {1, 2, 3, 4, 5}
  MaxFaults = 2
  Good = {"v1", "v2"}
  Bad = {"broken"}
  MaxScripts = 3
  MaxStops = 2
INVARIANTS
  NoOrphan
  WorkIsAwaited
  NothingLeftBehind
  RecordSurvives
PROPERTIES
  EveryCallReturns
  CommandReturns
  BinaryWorks
