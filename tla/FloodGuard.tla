----------------------------- MODULE FloodGuard -----------------------------
(***************************************************************************)
(* The rate limiter of floodguard.go as it is: two ring buffers of         *)
(* timestamps, one of every attempt and one of the attempts answered ok.   *)
(* Allow runs under fg.mu and reads a monotonic clock under it, so a call  *)
(* is one action, and timestamps enter a ring in the order of the clock.   *)
(*                                                                         *)
(* The log of all answers is history: the code keeps only what the rings   *)
(* hold.  It is what FloodPolicy speaks of, and the refinement Policy says *)
(* that the rings forget nothing that an answer depends on.                *)
(***************************************************************************)
EXTENDS Integers, Sequences, FiniteSets

CONSTANTS
  Window,       \* windowDur
  OkArg,        \* the arguments of NewFloodGuardWithThresholds
  TotalArg,
  CapacityArg,
  LeastCapacity, \* the 64 of NewFloodGuard
  MaxTime,      \* bound: ticks of the clock
  MaxCalls      \* bound: calls

ASSUME GuardAssumption ==
  /\ Window \in Nat \ {0} /\ LeastCapacity \in Nat \ {0}
  /\ OkArg \in Int /\ TotalArg \in Int /\ CapacityArg \in Int
  /\ MaxTime \in Nat /\ MaxCalls \in Nat

Larger(a, b) == IF a >= b THEN a ELSE b

(* The thresholds and the capacity that the constructor settles on. *)
OkLimit == Larger(OkArg, 1)

TotalLimit == IF TotalArg <= OkLimit THEN OkLimit + 1 ELSE TotalArg

CapacityUnclamped == Larger(CapacityArg, LeastCapacity)

Capacity == Larger(Larger(CapacityArg, TotalLimit), LeastCapacity)

Slots == 0 .. Capacity - 1

VARIABLES
  now,       \* time.Now(), a monotonic reading
  ok,        \* okBuf with its head, tail and size
  attempts,  \* attemptsBuf with its head, tail and size
  log        \* history

vars == <<now, ok, attempts, log>>

Ring == [buf : [Slots -> Nat], head : Slots, tail : Slots, size : 0 .. Capacity]

Empty == [buf |-> [s \in Slots |-> 0], head |-> 0, tail |-> 0, size |-> 0]

TypeOK ==
  /\ now \in Nat
  /\ ok \in Ring /\ attempts \in Ring
  /\ log \in Seq([at : Nat, status : {"ok", "throttled", "blocked"}])

Init == now = 0 /\ ok = Empty /\ attempts = Empty /\ log = <<>>

-----------------------------------------------------------------------------
(* The ring buffers. *)

Wrapped(i) == i % Capacity

(* The i-th oldest timestamp. *)
Entry(r, i) == r.buf[Wrapped(r.tail + i)]

InWindowInclusive(t) == t >= now - Window

(* time.Time.After(cutoff): an entry exactly Window old has left. *)
InWindow(t) == t > now - Window

PrunedWhenFull(r) ==
  IF r.size = Capacity /\ ~InWindow(Entry(r, 0))
  THEN [r EXCEPT !.tail = Wrapped(r.tail + 1), !.size = r.size - 1]
  ELSE r

(* The loop that drops expired entries from the tail, one after another. *)
Pruned(r) ==
  LET n == CHOOSE n \in 0 .. r.size :
             /\ \A i \in 0 .. n - 1 : ~InWindow(Entry(r, i))
             /\ n < r.size => InWindow(Entry(r, n))
  IN [r EXCEPT !.tail = Wrapped(r.tail + n), !.size = r.size - n]

PushedKeepingTail(r) ==
  [buf |-> [r.buf EXCEPT ![r.head] = now],
   head |-> Wrapped(r.head + 1),
   tail |-> r.tail,
   size |-> r.size + 1]

(* Record now at the head; a full ring loses its oldest entry. *)
Pushed(r) ==
  [buf |-> [r.buf EXCEPT ![r.head] = now],
   head |-> Wrapped(r.head + 1),
   tail |-> IF r.size < Capacity THEN r.tail ELSE Wrapped(r.tail + 1),
   size |-> IF r.size < Capacity THEN r.size + 1 ELSE r.size]

-----------------------------------------------------------------------------
AnswerLate(nAttempts, nOk) ==
  IF nAttempts >= TotalLimit THEN "blocked" ELSE IF nOk > OkLimit THEN "throttled" ELSE "ok"

(* The switch of Allow, over the sizes of the pruned rings. *)
Answer(nAttempts, nOk) ==
  IF nAttempts >= TotalLimit THEN "blocked" ELSE IF nOk >= OkLimit THEN "throttled" ELSE "ok"

Allow ==
  /\ Len(log) < MaxCalls
  /\ LET o == Pruned(ok)
         a == Pruned(attempts)
         status == Answer(a.size, o.size)
     IN /\ attempts' = Pushed(a)
        /\ ok' = IF status = "ok" THEN Pushed(o) ELSE o
        /\ log' = Append(log, [at |-> now, status |-> status])
  /\ UNCHANGED now

(* WindowCount: counts without pruning, for the statistics. *)
WindowCount == Cardinality({i \in 0 .. ok.size - 1 : InWindow(Entry(ok, i))})

Tick == now < MaxTime /\ now' = now + 1 /\ UNCHANGED <<ok, attempts, log>>

Next == Allow \/ Tick

Spec == Init /\ [][Next]_vars

-----------------------------------------------------------------------------
(* The rings, which forget entries when they expire and when a ring is     *)
(* full, answer as the full log would: the claim of the capacity clamp     *)
(* ("so the block threshold stays measurable", floodguard.go:66).          *)
Policy == INSTANCE FloodPolicy WITH
  Window <- Window, OkLimit <- OkLimit, TotalLimit <- TotalLimit, now <- now, log <- log

ImplementsPolicy == Policy!Spec

OkIn(from, to) ==
  {i \in DOMAIN log : log[i].status = "ok" /\ log[i].at > from /\ log[i].at <= to}

(* The number that ctx_kb stats reports is the number of calls answered ok *)
(* in the window, also between calls, when no one has pruned.              *)
WindowCountExact == WindowCount = Cardinality(OkIn(now - Window, now))

(* Whatever window of the past one looks at, not only those that end at a  *)
(* call: no more than OkLimit calls in it got full results.                *)
RateBounded == \A t \in 0 .. MaxTime : Cardinality(OkIn(t - Window, t)) <= OkLimit

(* A caller that pauses for a window is served again: pruning leaves       *)
(* nothing behind of a burst, however often the rings wrapped in it.       *)
PauseRecovers ==
  (\A i \in DOMAIN log : ~InWindow(log[i].at)) =>
     Answer(Pruned(attempts).size, Pruned(ok).size) = "ok"

-----------------------------------------------------------------------------
(* The inductive invariant behind the theorems of FloodGuardProofs. *)

ClockGrows ==
  /\ \A i \in DOMAIN log : log[i].at <= now
  /\ \A i, k \in DOMAIN log : i <= k => log[i].at <= log[k].at

Calls == DOMAIN log

Served == {i \in DOMAIN log : log[i].status = "ok"}

(* The entries of r, oldest first, are the calls f[0], f[1], ... of C.     *)
Lists(r, C, f) ==
  /\ f \in [0 .. r.size - 1 -> C]
  /\ \A i, k \in 0 .. r.size - 1 : i < k => f[i] < f[k]
  /\ \A i \in 0 .. r.size - 1 : Entry(r, i) = log[f[i]].at

Hit(r, f, k) == \E i \in 0 .. r.size - 1 : f[i] = k

(* They are the newest of C, and the ring is full when one of the window   *)
(* is missing.                                                             *)
Newest(r, C, f) ==
  /\ \A k \in C, i \in 0 .. r.size - 1 : k > f[i] => Hit(r, f, k)
  /\ \A k \in C : InWindow(log[k].at) => r.size = Capacity \/ Hit(r, f, k)

Keeps(r, C) ==
  /\ r.head = Wrapped(r.tail + r.size)
  /\ \E f \in [0 .. r.size - 1 -> C] : Lists(r, C, f) /\ Newest(r, C, f)

IInv ==
  /\ TypeOK /\ ClockGrows
  /\ Keeps(attempts, Calls) /\ Keeps(ok, Served)
  /\ ok.size <= OkLimit
=============================================================================
