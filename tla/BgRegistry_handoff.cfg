\* Three jobs, one of them killed: the tombstone of the killed job is the first
\* to be evicted because its finishedAt is zero.
SPECIFICATION Spec
CONSTANTS
  w1 = w1
  p1 = p1
  p2 = p2
  p3 = p3
  NoPid = NoPid
  NJobs = 3
  Pids <- ThreePids
  Waiters <- NoWaiter
  Killers = {"user"}
  Kin = {}
  Ends = {"ok"}
  MaxProcs = 3
  MaxCompleted = 1
  MaxTombs = 1
  PidReuse = "never"
  ProcfsFails = {}
CHECK_DEADLOCK FALSE
SYMMETRY PidSymmetry
PROPERTIES
  SettledIsConsumable
