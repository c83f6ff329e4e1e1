\* Two jobs over one pid: the kill of the first, whose leader is gone, takes the
\* surviving group of the second for its own.
SPECIFICATION Spec
CONSTANTS
  w1 = w1
  p1 = p1
  p2 = p2
  p3 = p3
  NoPid = NoPid
  NJobs = 2
  Pids <- OnePid
  Waiters <- NoWaiter
  Killers = {"user"}
  Kin = {"held", "quiet"}
  Ends = {"ok"}
  MaxProcs = 2
  MaxCompleted = 1
  MaxTombs = 1
  PidReuse = "settled"
  ProcfsFails = {}
CHECK_DEADLOCK FALSE
PROPERTIES
  NoStrayGroupKill
