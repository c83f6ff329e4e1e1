\* A caller blocked in ctx_bg wait, a user who kills at any time and any number
\* of times, leaders that exit with any code, /proc reads that may fail.
SPECIFICATION Spec
CONSTANTS
  w1 = w1
  p1 = p1
  p2 = p2
  p3 = p3
  NoPid = NoPid
  NJobs = 2
  Pids <- TwoPids
  Waiters <- OneWaiter
  Killers = {"user"}
  Kin = {}
  Ends = {"ok", "minus1"}
  MaxProcs = 1
  MaxCompleted = 1
  MaxTombs = 1
  PidReuse = "never"
  ProcfsFails = {"register", "kill"}
CHECK_DEADLOCK FALSE
SYMMETRY PidSymmetry
INVARIANTS
  WaitReportsSettled
  ExitCodeIsReal
