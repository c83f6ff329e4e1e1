\* Two full answers and four attempts in a window of three ticks, rings of four
\* slots: nine calls wrap the ring of attempts twice. The bounds stop the run.
SPECIFICATION Spec
CONSTANTS
  Window = 3
  OkArg = 2
  TotalArg = 4
  CapacityArg = 1
  LeastCapacity = 3
  MaxTime = 7
  MaxCalls = 9
CHECK_DEADLOCK FALSE
INVARIANTS
  WindowCountExact
PROPERTIES
  ImplementsPolicy
