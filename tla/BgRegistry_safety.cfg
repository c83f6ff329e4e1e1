\* The cap, retention and the timers: three jobs, one slot, one completed job
\* kept, one tombstone. Each job may be killed once, by its max-age timer.
\* The run stops when the three launches are over: no deadlock check.
SPECIFICATION Spec
CONSTANTS
  w1 = w1
  p1 = p1
  p2 = p2
  p3 = p3
  NoPid = NoPid
  NJobs = 3
  Pids <- ThreePids
  Waiters <- NoWaiter
  Killers = {"timer"}
  Kin = {}
  Ends = {"ok"}
  MaxProcs = 1
  MaxCompleted = 1
  MaxTombs = 1
  PidReuse = "never"
  ProcfsFails = {}
CHECK_DEADLOCK FALSE
SYMMETRY PidSymmetry
INVARIANTS
  TypeOK
  RunningCap
  TimerNotLeaked
  RetentionBounded
  HandlesNotLost
PROPERTIES
  NaturalEndIsConsumable
