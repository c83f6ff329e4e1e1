\* Kills against the kernel: two jobs share one pid, every kind of descendant,
\* a user and shutdown kill at the same time.
SPECIFICATION Spec
CONSTANTS
  w1 = w1
  p1 = p1
  p2 = p2
  p3 = p3
  NoPid = NoPid
  NJobs = 2
  Pids <- OnePid
  Waiters <- NoWaiter
  Killers = {"user", "shutdown"}
  Kin = {"held", "quiet", "escaped"}
  Ends = {"ok"}
  MaxProcs = 2
  MaxCompleted = 1
  MaxTombs = 1
  PidReuse = "settled"
  ProcfsFails = {}
CHECK_DEADLOCK FALSE
INVARIANTS
  DoneMeansDead
  ShutdownLeavesNone
PROPERTIES
  NoStrayKill
