\* Progress under the reaper alone: two jobs, one slot, one pid, every kind of
\* descendant. No symmetry: a liveness property is checked.
SPECIFICATION FairSpec
CONSTANTS
  w1 = w1
  p1 = p1
  p2 = p2
  p3 = p3
  NoPid = NoPid
  NJobs = 2
  Pids <- OnePid
  Waiters <- NoWaiter
  Killers = {"reaper"}
  Kin = {"held", "quiet", "escaped"}
  Ends = {"ok"}
  MaxProcs = 1
  MaxCompleted = 2
  MaxTombs = 1
  PidReuse = "settled"
  ProcfsFails = {}
CHECK_DEADLOCK FALSE
PROPERTIES
  JobsSettle
