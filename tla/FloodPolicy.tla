---------------------------- MODULE FloodPolicy ----------------------------
(***************************************************************************)
(* What a FloodGuard promises (the comments at floodguard.go:20 and :105), *)
(* said over the log of every call ever answered: a call is blocked when   *)
(* the window holds TotalLimit calls of any kind, throttled when it holds  *)
(* OkLimit calls that were answered ok, and answered ok otherwise.         *)
(***************************************************************************)
EXTENDS Integers, Sequences, FiniteSets

CONSTANTS
  Window,      \* windowDur, in ticks of the clock
  OkLimit,     \* okLimit in force
  TotalLimit   \* totalLimit in force

VARIABLES
  now,   \* the monotonic clock
  log    \* the calls answered so far: when, and how

vars == <<now, log>>

(* The calls of the sliding window that ends at time t. *)
Recent(calls, t) == {i \in DOMAIN calls : calls[i].at > t - Window}

OkAmong(calls, I) == {i \in I : calls[i].status = "ok"}

Verdict(calls, t) ==
  IF Cardinality(Recent(calls, t)) >= TotalLimit THEN "blocked"
  ELSE IF Cardinality(OkAmong(calls, Recent(calls, t))) >= OkLimit THEN "throttled"
  ELSE "ok"

Init == now = 0 /\ log = <<>>

Tick == now' = now + 1 /\ UNCHANGED log

Allow ==
  /\ log' = Append(log, [at |-> now, status |-> Verdict(log, now)])
  /\ UNCHANGED now

Next == Tick \/ Allow

Spec == Init /\ [][Next]_vars
=============================================================================
