\* A killed job is pruned while its Wait goroutine is between the two critical
\* sections of finishBackground: its done channel is never closed.
SPECIFICATION Spec
CONSTANTS
  w1 = w1
  p1 = p1
  p2 = p2
  p3 = p3
  NoPid = NoPid
  NJobs = 2
  Pids <- TwoPids
  Waiters <- NoWaiter
  Killers = {"user"}
  Kin = {}
  Ends = {"ok"}
  MaxProcs = 2
  MaxCompleted = 1
  MaxTombs = 1
  PidReuse = "never"
  ProcfsFails = {}
CHECK_DEADLOCK FALSE
SYMMETRY PidSymmetry
INVARIANTS
  RemovedIsSignaled
