-------------------------- MODULE BgRegistryProofs --------------------------
(* Theorems about BgRegistry, for every number of jobs, pids, waiters and  *)
(* killers, every cap and every retention bound.                           *)
EXTENDS BgRegistry, FiniteSetTheorems, WellFoundedInduction, TLAPS

(* Every set of jobs is finite, its cardinality is a natural number. *)
LEMMA JobSets == ASSUME NEW S \in SUBSET Jobs
                 PROVE  IsFiniteSet(S) /\ Cardinality(S) \in Nat
<1>1. IsFiniteSet(Jobs)
  BY FS_Interval, SizesAssumption DEF Jobs
<1> QED
  BY <1>1, FS_Subset, FS_CardinalityType

LEMMA NowType == TypeOK => Now \in Nat
<1> SUFFICES ASSUME TypeOK PROVE Now \in Nat
  OBVIOUS
<1>1. {i \in Jobs : finishedAt[i] > 0} \in SUBSET Jobs
  OBVIOUS
<1>2. Cardinality({i \in Jobs : finishedAt[i] > 0}) \in Nat
  BY <1>1, JobSets
<1> QED
  BY <1>2 DEF Now

LEMMA TypeInit == Init => TypeOK
BY SizesAssumption, KindsAssumption DEF Init, TypeOK, LaunchPc, KillPc, WaitPc, Lists

(* What every step of a killBackground call leaves alone, and the two      *)
(* things it may do: signal the group of j's pid, mark the entry of j.     *)
LEMMA KillShape ==
  ASSUME TypeOK, NEW j \in Jobs, NEW k \in Killers, KillStep(j, k)
  PROVE  /\ UNCHANGED <<pid, code, escapee, reg, tomb, finishedAt, signaled>>
         /\ UNCHANGED <<launch, blind, fin, todo, waiter, aged, phase>>
         /\ phase # "down" /\ kill[j][k] # "idle"
         /\ \E to \in KillPc : kill' = [kill EXCEPT ![j][k] = to]
         /\ SigKill(pid[j]) \/ NoSignal
         /\ MarkKilled(j) \/ NoMark
<1> USE DEF Goes, Seen, KillPc
<1>1. CASE KillBlind(j, k)
  BY <1>1 DEF KillBlind
<1>2. CASE KillRefuses(j, k)
  BY <1>2 DEF KillRefuses
<1>3. CASE KillNobody(j, k)
  BY <1>3 DEF KillNobody
<1>4. CASE KillOrphansFirst(j, k)
  BY <1>4 DEF KillOrphansFirst
<1>5. CASE KillOrphansSecond(j, k)
  BY <1>5 DEF KillOrphansSecond
<1>6. CASE KillOrphansThird(j, k)
  BY <1>6 DEF KillOrphansThird
<1>7. CASE KillLeaderFirst(j, k)
  BY <1>7 DEF KillLeaderFirst
<1>8. CASE KillLeaderSecond(j, k)
  BY <1>8 DEF KillLeaderSecond
<1>9. CASE KillMarks(j, k)
  BY <1>9 DEF KillMarks
<1> QED
  BY <1>1, <1>2, <1>3, <1>4, <1>5, <1>6, <1>7, <1>8, <1>9 DEF KillStep

(* The only thing a signal does to a leader is to doom it. *)
LEMMA SignalDooms ==
  ASSUME TypeOK, NEW j \in Jobs, SigKill(pid[j]) \/ NoSignal, NEW i \in Jobs
  PROVE  leader'[i] = leader[i] \/ (leader[i] = "alive" /\ leader'[i] = "doomed")
BY DEF TypeOK, SigKill, NoSignal

(* What a lookup consumes: a timer that has fired, an id of a list. *)
LEMMA LookupShape ==
  ASSUME NEW j \in Jobs, NEW k \in Killers, KillLookup(j, k)
  PROVE  /\ \/ timer' = timer
            \/ timer[j] \in {"running", "stored"} /\ timer' = [timer EXCEPT ![j] = "off"]
         /\ \/ todo' = todo
            \/ k \in Lists /\ todo' = [todo EXCEPT ![k] = todo[k] \ {j}]
BY DEF KillLookup, Calls

(* The entry that finishBackground settles has a real exit code. *)
LEMMA ExitCodeType ==
  ASSUME TypeOK, Lifecycle, NEW j \in Jobs, fin[j] # "waiting"
  PROVE  ExitCode(j) \in {"ok", "minus1"}
BY DEF TypeOK, Lifecycle, Origin, ExitCode, Done

LEMMA TypeStep == TypeOK /\ Lifecycle /\ [Next]_vars => TypeOK'
<1> SUFFICES ASSUME TypeOK, Lifecycle, [Next]_vars PROVE TypeOK'
  OBVIOUS
<1> USE DEF TypeOK, LaunchPc, KillPc, WaitPc, Lists
<1>1. ASSUME NEW j \in Jobs, Kernel(j) PROVE TypeOK'
  <2>1. CASE LeaderExits(j)
    BY <2>1, KindsAssumption DEF LeaderExits, table, calls
  <2>2. CASE ForkMember(j)
    BY <2>2, KindsAssumption DEF ForkMember, table, calls
  <2>3. CASE ForkEscapee(j)
    BY <2>3 DEF ForkEscapee, table, calls
  <2>4. CASE MemberExits(j)
    BY <2>4 DEF MemberExits, table, calls
  <2>5. CASE EscapeeExits(j)
    BY <2>5 DEF EscapeeExits, table, calls
  <2> QED
    BY <1>1, <2>1, <2>2, <2>3, <2>4, <2>5 DEF Kernel
<1>2. ASSUME NEW j \in Jobs, Launching(j) PROVE TypeOK'
  <2>1. CASE Launch(j)
    BY <2>1 DEF Launch, table
  <2>2. CASE Register(j)
    BY <2>2 DEF Register, RegisterAnyway, kernel
  <2>3. CASE RejectLaunch(j)
    BY <2>3 DEF RejectLaunch, SigKill, table
  <2>4. CASE RejectReturns(j)
    BY <2>4 DEF RejectReturns, kernel, table
  <2>5. CASE StoreTimer(j)
    BY <2>5 DEF StoreTimer, kernel, table
  <2> QED
    BY <1>2, <2>1, <2>2, <2>3, <2>4, <2>5 DEF Launching
<1>3. ASSUME NEW j \in Jobs, Finishing(j) PROVE TypeOK'
  <2>1. CASE Reap(j)
    BY <2>1 DEF Reap, table, calls
  <2>2. CASE FinishFirst(j)
    BY <2>2 DEF FinishFirst, kernel, table
  <2>3. CASE FinishSecond(j)
    <3>1. CASE j \notin reg
      BY <2>3, <3>1 DEF FinishSecond, kernel, table
    <3>2. CASE j \in reg
      <4>1. FinishEntry(j) /\ fin[j] = "half"
        BY <2>3, <3>2 DEF FinishSecond
      <4>2. Stamp(j) \in Nat
        BY NowType DEF Stamp
      <4>3. finishedAt' \in [Jobs -> Nat]
        BY <4>1, <4>2 DEF FinishEntry
      <4>4. exit' \in [Jobs -> {"running", "ok", "minus1"}]
        BY <4>1, ExitCodeType DEF FinishEntry
      <4>5. timer' \in [Jobs -> {"none", "running", "stored", "off"}]
        BY <4>1 DEF FinishEntry, Stopped
      <4>6. reg' \subseteq Jobs /\ tomb' \subseteq Jobs /\ signaled' \subseteq Jobs
        BY <4>1 DEF FinishEntry, Retained, Excess
      <4> QED
        BY <2>3, <4>3, <4>4, <4>5, <4>6 DEF FinishSecond, kernel
    <3> QED
      BY <3>1, <3>2
  <2> QED
    BY <1>3, <2>1, <2>2, <2>3 DEF Finishing
<1>4. ASSUME NEW j \in Jobs, NEW k \in Killers, Killing(j, k) PROVE TypeOK'
  <2>1. CASE KillLookup(j, k)
    <3>3. kill' \in [Jobs -> [Killers -> KillPc]]
      BY <2>1 DEF KillLookup
    <3>1. timer' = timer \/ timer' = [timer EXCEPT ![j] = "off"]
      BY <2>1, LookupShape
    <3>4. timer' \in [Jobs -> {"none", "running", "stored", "off"}]
      BY <3>1
    <3>5. todo' \in [Lists -> SUBSET Jobs]
      <4>1. CASE k \in Lists /\ todo' = [todo EXCEPT ![k] = todo[k] \ {j}]
        <5>1. todo[k] \ {j} \in SUBSET Jobs
          BY <4>1
        <5> QED
          BY <4>1, <5>1
      <4> QED
        BY <2>1, <4>1, LookupShape
    <3> QED
      BY <2>1, <3>3, <3>4, <3>5 DEF KillLookup, kernel, table
  <2>2. CASE KillStep(j, k)
    <3>1. leader' \in [Jobs -> {"none", "alive", "doomed", "zombie", "reaped"}]
          /\ group' \in [Jobs -> {"none", "held", "quiet", "doomed"}]
      BY <2>2, KillShape DEF SigKill, NoSignal
    <3>2. exit' \in [Jobs -> {"running", "ok", "minus1"}]
          /\ timer' \in [Jobs -> {"none", "running", "stored", "off"}]
      <4>1. CASE exit' = [exit EXCEPT ![j] = "minus1"] /\ timer' = [timer EXCEPT ![j] = Stopped(@)]
        <5>1. Stopped(timer[j]) \in {"none", "running", "stored", "off"}
          BY DEF Stopped
        <5> QED
          BY <4>1, <5>1
      <4>2. CASE UNCHANGED <<exit, timer>>
        BY <4>2
      <4> QED
        BY <2>2, <4>1, <4>2, KillShape DEF MarkKilled, NoMark
    <3>3. PICK to \in KillPc : kill' = [kill EXCEPT ![j][k] = to]
      BY <2>2, KillShape
    <3>4. kill' \in [Jobs -> [Killers -> KillPc]]
      BY <3>3
    <3> QED
      BY <2>2, <3>1, <3>2, <3>4, KillShape
  <2> QED
    BY <1>4, <2>1, <2>2 DEF Killing
<1>5. CASE Age
  BY <1>5, SizesAssumption DEF Age, kernel, table, Jobs
<1>6. CASE ReaperTick
  BY <1>6 DEF ReaperTick, Retained, Live, kernel
<1>7. CASE ShutdownFirst
  BY <1>7 DEF ShutdownFirst, Live, kernel, table
<1>8. CASE ShutdownSecond
  BY <1>8 DEF ShutdownSecond, kernel
<1>9. ASSUME NEW w \in Waiters, Waiting(w) PROVE TypeOK'
  <2>1. ASSUME NEW j \in Jobs, WaitCall(w, j) PROVE TypeOK'
    BY <2>1 DEF WaitCall, kernel, table
  <2>2. ASSUME NEW p \in WaitPc, Answer(w, p) PROVE TypeOK'
    <3>1. waiter' = [waiter EXCEPT ![w] = [waiter[w] EXCEPT !.pc = p]]
      BY <2>2 DEF Answer
    <3>2. [waiter[w] EXCEPT !.pc = p] \in [pc : WaitPc, job : Jobs \cup {0}]
      OBVIOUS
    <3>3. waiter' \in [Waiters -> [pc : WaitPc, job : Jobs \cup {0}]]
      BY <3>1, <3>2
    <3> QED
      BY <2>2, <3>3 DEF Answer, kernel, table
  <2> QED
    BY <1>9, <2>1, <2>2 DEF Waiting, WaitWakes, WaitTimesOut
<1>10. CASE UNCHANGED vars
  BY <1>10 DEF vars, kernel, table, calls
<1> QED
  BY <1>1, <1>2, <1>3, <1>4, <1>5, <1>6, <1>7, <1>8, <1>9, <1>10 DEF Next

(* Every step keeps the life of a job in order: no exit code before the    *)
(* end, no channel closed without the real code, no timer left behind.     *)
LEMMA LifecycleStep == TypeOK /\ Lifecycle /\ [Next]_vars => Lifecycle'
<1> SUFFICES ASSUME TypeOK, Lifecycle, [Next]_vars, NEW i \in Jobs
             PROVE  (Origin(i) /\ Settlement(i) /\ TimerKept(i))'
  BY DEF Lifecycle
<1>a. Origin(i) /\ Settlement(i) /\ TimerKept(i)
  BY DEF Lifecycle
<1> USE <1>a DEF TypeOK, LaunchPc, KillPc, Lists, Origin, Settlement, TimerKept, Done, Admitted
<1>1. ASSUME NEW j \in Jobs, Kernel(j) PROVE (Origin(i) /\ Settlement(i) /\ TimerKept(i))'
  <2>1. CASE LeaderExits(j)
    BY <2>1, KindsAssumption DEF LeaderExits, table, calls
  <2>2. CASE UNCHANGED <<leader, code, table, calls>>
    BY <2>2 DEF table, calls
  <2> QED
    BY <1>1, <2>1, <2>2 DEF Kernel, ForkMember, ForkEscapee, MemberExits, EscapeeExits
<1>2. ASSUME NEW j \in Jobs, Launching(j) PROVE (Origin(i) /\ Settlement(i) /\ TimerKept(i))'
  <2>1. CASE Launch(j)
    BY <2>1 DEF Launch, table
  <2>2. CASE Register(j)
    BY <2>2 DEF Register, RegisterAnyway, kernel
  <2>3. CASE RejectLaunch(j)
    BY <2>3 DEF RejectLaunch, SigKill, table
  <2>4. CASE RejectReturns(j)
    BY <2>4 DEF RejectReturns, kernel, table
  <2>5. CASE StoreTimer(j)
    BY <2>5 DEF StoreTimer, kernel, table
  <2> QED
    BY <1>2, <2>1, <2>2, <2>3, <2>4, <2>5 DEF Launching
<1>3. ASSUME NEW j \in Jobs, Finishing(j) PROVE (Origin(i) /\ Settlement(i) /\ TimerKept(i))'
  <2>1. CASE Reap(j)
    BY <2>1 DEF Reap, table, calls
  <2>2. CASE FinishFirst(j)
    BY <2>2 DEF FinishFirst, Waited, kernel, table
  <2>3. CASE FinishSecond(j) /\ j \notin reg
    BY <2>3 DEF FinishSecond, kernel, table
  <2>4. CASE FinishSecond(j) /\ j \in reg
    <3>1. FinishEntry(j) /\ fin[j] = "half" /\ fin' = [fin EXCEPT ![j] = "done"]
          /\ UNCHANGED <<kernel, launch>>
      BY <2>4 DEF FinishSecond
    <3>2. leader[j] = "reaped" /\ Admitted(j) /\ code[j] \in {"ok", "minus1"}
      BY <3>1 DEF Lifecycle
    <3>3. exit'[j] = code[j] /\ \A n \in Jobs \ {j} : exit'[n] = exit[n]
      BY <3>1 DEF FinishEntry, ExitCode, Lifecycle
    <3>4. timer'[j] = (IF exit[j] # "running" THEN timer[j] ELSE Stopped(timer[j]))
          /\ \A n \in Jobs \ {j} : timer'[n] = timer[n]
      BY <3>1 DEF FinishEntry
    <3>5. reg' \subseteq reg /\ signaled' = signaled \cup {j}
      BY <3>1 DEF FinishEntry
    <3> QED
      BY <3>1, <3>2, <3>3, <3>4, <3>5 DEF Stopped, kernel, Lifecycle
  <2> QED
    BY <1>3, <2>1, <2>2, <2>3, <2>4 DEF Finishing
<1>4. ASSUME NEW j \in Jobs, NEW k \in Killers, Killing(j, k)
      PROVE  (Origin(i) /\ Settlement(i) /\ TimerKept(i))'
  <2>1. CASE KillLookup(j, k)
    <3>1. UNCHANGED <<leader, code, reg, exit, signaled, launch, fin>>
      BY <2>1 DEF KillLookup, kernel, table
    <3>2. timer' = timer \/ (timer[j] \in {"running", "stored"} /\ timer' = [timer EXCEPT ![j] = "off"])
      BY <2>1, LookupShape
    <3> QED
      BY <3>1, <3>2
  <2>2. CASE KillStep(j, k)
    <3>1. UNCHANGED <<code, reg, signaled, launch, fin>>
      BY <2>2, KillShape
    <3>2. leader'[i] = leader[i] \/ (leader[i] = "alive" /\ leader'[i] = "doomed")
      BY <2>2, KillShape, SignalDooms
    <3>3. CASE j \in reg /\ exit[j] = "running" /\ exit' = [exit EXCEPT ![j] = "minus1"]
               /\ timer' = [timer EXCEPT ![j] = Stopped(@)]
      <4>1. Admitted(j) /\ j \notin signaled
        BY <3>3 DEF Lifecycle
      <4> QED
        BY <3>1, <3>2, <3>3, <4>1 DEF Stopped
    <3>4. CASE UNCHANGED <<exit, timer>>
      BY <3>1, <3>2, <3>4
    <3> QED
      BY <2>2, <3>3, <3>4, KillShape DEF MarkKilled, NoMark
  <2> QED
    BY <1>4, <2>1, <2>2 DEF Killing
<1>5. CASE Age
  BY <1>5 DEF Age, kernel, table
<1>6. CASE ReaperTick
  BY <1>6 DEF ReaperTick, kernel
<1>7. CASE ShutdownFirst
  BY <1>7 DEF ShutdownFirst, kernel, table
<1>8. CASE ShutdownSecond
  BY <1>8 DEF ShutdownSecond, kernel
<1>9. ASSUME NEW w \in Waiters, Waiting(w) PROVE (Origin(i) /\ Settlement(i) /\ TimerKept(i))'
  BY <1>9 DEF Waiting, WaitCall, WaitWakes, WaitTimesOut, Answer, kernel, table
<1>10. CASE UNCHANGED vars
  BY <1>10 DEF vars, kernel, table, calls
<1> QED
  BY <1>1, <1>2, <1>3, <1>4, <1>5, <1>6, <1>7, <1>8, <1>9, <1>10 DEF Next

(* A finished job stays finished, a closed channel stays closed. *)
LEMMA SettledForGood ==
  ASSUME TypeOK, Lifecycle, [Next]_vars
  PROVE  /\ signaled \subseteq signaled'
         /\ \A j \in Jobs : fin[j] = "done" => fin'[j] = "done"
<1> USE DEF kernel, table, calls
<1>1. ASSUME NEW j \in Jobs, Kernel(j) PROVE UNCHANGED <<signaled, fin>>
  BY <1>1 DEF Kernel, LeaderExits, ForkMember, ForkEscapee, MemberExits, EscapeeExits
<1>2. ASSUME NEW j \in Jobs, Launching(j) PROVE UNCHANGED <<signaled, fin>>
  BY <1>2 DEF Launching, Launch, Register, RegisterAnyway, RejectLaunch, RejectReturns, StoreTimer
<1>3. ASSUME NEW j \in Jobs, Finishing(j)
      PROVE  signaled \subseteq signaled' /\ \A i \in Jobs : fin[i] = "done" => fin'[i] = "done"
  <2>1. CASE Reap(j)
    BY <2>1 DEF Reap
  <2>2. CASE FinishFirst(j)
    BY <2>2 DEF FinishFirst, TypeOK
  <2>3. CASE FinishSecond(j)
    BY <2>3 DEF FinishSecond, FinishEntry, TypeOK
  <2> QED
    BY <1>3, <2>1, <2>2, <2>3 DEF Finishing
<1>4. ASSUME NEW j \in Jobs, NEW k \in Killers, Killing(j, k) PROVE UNCHANGED <<signaled, fin>>
  BY <1>4, KillShape DEF Killing, KillLookup
<1>5. CASE Age \/ ReaperTick \/ ShutdownFirst \/ ShutdownSecond
  BY <1>5 DEF Age, ReaperTick, ShutdownFirst, ShutdownSecond
<1>6. ASSUME NEW w \in Waiters, Waiting(w) PROVE UNCHANGED <<signaled, fin>>
  BY <1>6 DEF Waiting, WaitCall, WaitWakes, WaitTimesOut, Answer
<1>7. CASE UNCHANGED vars
  BY <1>7 DEF vars
<1> QED
  BY <1>1, <1>2, <1>3, <1>4, <1>5, <1>6, <1>7 DEF Next

(* The waiters: only the three actions of a wait call change them, and     *)
(* each of them answers "result" for a settled job only.                   *)
LEMMA WaitStep ==
  TypeOK /\ Lifecycle /\ WaitReportsSettled /\ [Next]_vars => WaitReportsSettled'
<1> SUFFICES ASSUME TypeOK, Lifecycle, WaitReportsSettled, [Next]_vars,
                    NEW w \in Waiters, waiter'[w].pc = "result"
             PROVE  waiter'[w].job \in signaled' /\ fin'[waiter'[w].job] = "done"
  BY DEF WaitReportsSettled
<1>1. ASSUME NEW j \in Jobs, j \in signaled PROVE j \in signaled' /\ fin'[j] = "done"
  BY <1>1, SettledForGood DEF Lifecycle, Settlement
<1>2. signaled \subseteq Jobs
  BY DEF TypeOK
<1>3. CASE waiter'[w] = waiter[w]
  BY <1>1, <1>2, <1>3 DEF WaitReportsSettled
<1>4. ASSUME NEW j \in Jobs, WaitCall(w, j)
      PROVE  waiter'[w].job \in signaled' /\ fin'[waiter'[w].job] = "done"
  <2>1. waiter'[w] = [pc |-> IF ~Known(j) THEN "nomatch" ELSE IF MustWait(j) THEN "blocked" ELSE "result",
                      job |-> j]
    BY <1>4 DEF WaitCall, TypeOK
  <2>2. ~MustWait(j) /\ waiter'[w].job = j
    BY <2>1
  <2>3. j \in signaled
    BY <2>2 DEF MustWait, Done, Lifecycle, Settlement
  <2> QED
    BY <1>1, <2>2, <2>3
<1>5. CASE WaitWakes(w)
  <2>1. waiter[w].job \in signaled
        /\ waiter' = [waiter EXCEPT ![w].pc = IF Known(waiter[w].job) THEN "result" ELSE "lost"]
    BY <1>5 DEF WaitWakes, Answer
  <2>2. waiter'[w].job = waiter[w].job
    BY <2>1 DEF TypeOK
  <2> QED
    BY <1>1, <1>2, <2>1, <2>2
<1>6. CASE WaitTimesOut(w)
  <2>1. waiter' = [waiter EXCEPT ![w].pc = "timeout"]
    BY <1>6 DEF WaitTimesOut, Answer
  <2>2. waiter'[w].pc = "timeout"
    BY <2>1 DEF TypeOK
  <2> QED
    BY <2>2
<1>7. ASSUME NEW v \in Waiters, Waiting(v), v # w PROVE waiter'[w] = waiter[w]
  BY <1>7 DEF Waiting, WaitCall, WaitWakes, WaitTimesOut, Answer, TypeOK
<1>8. ASSUME NEW j \in Jobs, Kernel(j) \/ Launching(j) \/ Finishing(j) PROVE waiter' = waiter
  BY <1>8 DEF calls, Kernel, LeaderExits, ForkMember, ForkEscapee, MemberExits, EscapeeExits,
    Launching, Launch, Register, RegisterAnyway, RejectLaunch, RejectReturns, StoreTimer,
    Finishing, Reap, FinishFirst, FinishSecond
<1>9. ASSUME NEW j \in Jobs, NEW k \in Killers, Killing(j, k) PROVE waiter' = waiter
  BY <1>9, KillShape DEF Killing, KillLookup
<1>10. CASE Age \/ ReaperTick \/ ShutdownFirst \/ ShutdownSecond
  BY <1>3, <1>10 DEF Age, ReaperTick, ShutdownFirst, ShutdownSecond
<1>11. CASE UNCHANGED vars
  BY <1>3, <1>11 DEF vars, calls
<1>12. ASSUME NEW j \in Jobs, Kernel(j) \/ Launching(j) \/ Finishing(j)
       PROVE  waiter'[w].job \in signaled' /\ fin'[waiter'[w].job] = "done"
  BY <1>3, <1>8, <1>12
<1>13. ASSUME NEW j \in Jobs, NEW k \in Killers, Killing(j, k)
       PROVE  waiter'[w].job \in signaled' /\ fin'[waiter'[w].job] = "done"
  BY <1>3, <1>9, <1>13
<1>14. ASSUME NEW v \in Waiters, Waiting(v)
       PROVE  waiter'[w].job \in signaled' /\ fin'[waiter'[w].job] = "done"
  BY <1>3, <1>4, <1>5, <1>6, <1>7, <1>14 DEF Waiting
<1> QED
  BY <1>10, <1>11, <1>12, <1>13, <1>14 DEF Next

(* Entries leave the registry by pruning, by the reaper, or at the end of  *)
(* shutdown; the first two take only entries whose handles are released.   *)
LEMMA HandlesStep ==
  TypeOK /\ Lifecycle /\ HandlesNotLost /\ [Next]_vars => HandlesNotLost'
<1> SUFFICES ASSUME TypeOK, Lifecycle, HandlesNotLost, [Next]_vars, phase' # "down",
                    NEW i \in Jobs, Admitted(i)', fin'[i] = "waiting"
             PROVE  i \in reg'
  BY DEF HandlesNotLost
<1> USE DEF HandlesNotLost, TypeOK, Admitted, kernel, table, calls
<1>1. ASSUME NEW j \in Jobs, Kernel(j) PROVE i \in reg'
  BY <1>1 DEF Kernel, LeaderExits, ForkMember, ForkEscapee, MemberExits, EscapeeExits
<1>2. ASSUME NEW j \in Jobs, Launching(j) PROVE i \in reg'
  BY <1>2 DEF Launching, Launch, Register, RegisterAnyway, RejectLaunch, RejectReturns, StoreTimer
<1>3. ASSUME NEW j \in Jobs, Finishing(j) PROVE i \in reg'
  <2>1. CASE Reap(j)
    BY <2>1 DEF Reap
  <2>2. CASE FinishFirst(j)
    BY <2>2 DEF FinishFirst
  <2>3. CASE FinishSecond(j)
    BY <2>3 DEF FinishSecond, FinishEntry, Excess, Released
  <2> QED
    BY <1>3, <2>1, <2>2, <2>3 DEF Finishing
<1>4. ASSUME NEW j \in Jobs, NEW k \in Killers, Killing(j, k) PROVE i \in reg'
  BY <1>4, KillShape DEF Killing, KillLookup
<1>5. CASE Age \/ ReaperTick \/ ShutdownFirst \/ ShutdownSecond
  BY <1>5 DEF Age, ReaperTick, ShutdownFirst, ShutdownSecond, Released
<1>6. ASSUME NEW w \in Waiters, Waiting(w) PROVE i \in reg'
  BY <1>6 DEF Waiting, WaitCall, WaitWakes, WaitTimesOut, Answer
<1>7. CASE UNCHANGED vars
  BY <1>7 DEF vars
<1> QED
  BY <1>1, <1>2, <1>3, <1>4, <1>5, <1>6, <1>7 DEF Next

(* IInv is an inductive invariant. *)
THEOREM Inductive == Spec => []IInv
<1>1. Init => IInv
  <2>1. Init => Lifecycle
    BY DEF Init, Lifecycle, Origin, Settlement, TimerKept, Done, Admitted
  <2>2. Init => WaitReportsSettled /\ HandlesNotLost
    BY DEF Init, WaitReportsSettled, HandlesNotLost, Admitted
  <2> QED
    BY <2>1, <2>2, TypeInit DEF IInv
<1>2. IInv /\ [Next]_vars => IInv'
  BY TypeStep, LifecycleStep, WaitStep, HandlesStep DEF IInv
<1> QED
  BY <1>1, <1>2, PTL DEF Spec

(* Every variable keeps its type. *)
THEOREM TypeCorrect == Spec => []TypeOK
<1>1. IInv => TypeOK
  BY DEF IInv
<1> QED
  BY <1>1, Inductive, PTL

(* ctx_bg wait never reports a job whose log is open or whose exit code is *)
(* still the placeholder of a kill.                                        *)
THEOREM WaitCorrect == Spec => []WaitReportsSettled
<1>1. IInv => WaitReportsSettled
  BY DEF IInv
<1> QED
  BY <1>1, Inductive, PTL

(* A closed done channel means the exit code of the kernel. *)
THEOREM ExitCodeCorrect == Spec => []ExitCodeIsReal
<1>1. IInv => ExitCodeIsReal
  BY DEF IInv, TypeOK, Lifecycle, Settlement, Origin, ExitCodeIsReal, Done
<1> QED
  BY <1>1, Inductive, PTL

(* No max-age timer outlives its job and its launch. *)
THEOREM TimerCorrect == Spec => []TimerNotLeaked
<1>1. IInv => TimerNotLeaked
  BY DEF IInv, Lifecycle, TimerKept, TimerNotLeaked
<1> QED
  BY <1>1, Inductive, PTL

(* No entry is dropped with its log open before shutdown. *)
THEOREM HandlesCorrect == Spec => []HandlesNotLost
<1>1. IInv => HandlesNotLost
  BY DEF IInv
<1> QED
  BY <1>1, Inductive, PTL

(* A leader that runs is seen by every look at /proc. *)
LEMMA RunningIsSeen ==
  ASSUME NEW j \in Jobs, leader[j] = "alive"
  PROVE  Present(j) /\ PidTaken(j) /\ Survivors(j)
<1>1. Present(j)
  BY DEF Present
<1> QED
  BY <1>1 DEF PidTaken, Survivors, Jobs

(* A SIGKILL to the group of a leader leaves no running leader. *)
LEMMA SigKillDooms ==
  ASSUME TypeOK, NEW j \in Jobs, SigKill(pid[j])
  PROVE  leader'[j] # "alive"
BY DEF TypeOK, SigKill

(* Where /proc can be read, a call of killBackground ends, and marks the   *)
(* entry, only when the leader no longer runs; the SIGTERM stage is the    *)
(* one place where it may still run.                                       *)
LEMMA KillWorks ==
  ASSUME TypeOK, ProcfsFails = {}, NEW j \in Jobs, NEW k \in Killers,
         Struggle(j), KillStep(j, k)
  PROVE  \/ leader'[j] # "alive"
         \/ kill'[j][k] = "grace" /\ NoMark
<1> SUFFICES ASSUME leader'[j] = "alive" PROVE kill'[j][k] = "grace" /\ NoMark
  OBVIOUS
<1>1. leader[j] = "alive" /\ ~SigKill(pid[j])
  BY KillShape, SignalDooms, SigKillDooms
<1>2. Present(j) /\ PidTaken(j) /\ Survivors(j)
  BY <1>1, RunningIsSeen
<1>3. kill[j][k] \notin {"done", "orphans", "drain", "mark"}
  BY <1>1 DEF Struggle
<1>4. ~Unreadable
  BY DEF Unreadable
<1>5. ~KillBlind(j, k)
  BY <1>1, <1>2, <1>3, <1>4 DEF KillBlind, Goes, Seen
<1>6. ~KillRefuses(j, k) /\ ~KillNobody(j, k) /\ ~KillOrphansFirst(j, k)
  BY <1>2, <1>4 DEF KillRefuses, KillNobody, KillOrphansFirst, NoneSeen
<1>7. ~KillOrphansSecond(j, k) /\ ~KillOrphansThird(j, k) /\ ~KillMarks(j, k)
  BY <1>3 DEF KillOrphansSecond, KillOrphansThird, KillMarks, Goes
<1>8. ~KillLeaderSecond(j, k)
  BY <1>1, <1>2, <1>4 DEF KillLeaderSecond, NoneSeen
<1>9. KillLeaderFirst(j, k)
  BY <1>5, <1>6, <1>7, <1>8 DEF KillStep
<1>10. kill[j][k] = "live" /\ kill' = [kill EXCEPT ![j][k] = "grace"] /\ NoMark
  BY <1>3, <1>9 DEF KillLeaderFirst, Goes, Seen
<1> QED
  BY <1>10 DEF TypeOK

(* Every step keeps a call of killBackground right about what it has seen. *)
LEMMA StruggleStep ==
  ASSUME ProcfsFails = {}, KillInv, [Next]_vars, NEW i \in Jobs
  PROVE  Struggle(i)'
<1>a. TypeOK /\ Lifecycle /\ Struggle(i) /\ Origin(i)
  BY DEF KillInv, IInv, Lifecycle
<1> USE <1>a DEF TypeOK, Struggle, Admitted, Done
<1>1. ASSUME NEW j \in Jobs, Kernel(j) PROVE Struggle(i)'
  BY <1>1 DEF Kernel, LeaderExits, ForkMember, ForkEscapee, MemberExits, EscapeeExits, table, calls
<1>2. ASSUME NEW j \in Jobs, Launching(j) PROVE Struggle(i)'
  <2>1. CASE Launch(j)
    BY <2>1 DEF Launch, Origin, table
  <2>2. CASE Register(j)
    BY <2>2 DEF Register, RegisterAnyway, kernel
  <2>3. CASE RejectLaunch(j)
    BY <2>3 DEF RejectLaunch, SigKill, table
  <2>4. CASE RejectReturns(j) \/ StoreTimer(j)
    BY <2>4 DEF RejectReturns, StoreTimer, kernel, table
  <2> QED
    BY <1>2, <2>1, <2>2, <2>3, <2>4 DEF Launching
<1>3. ASSUME NEW j \in Jobs, Finishing(j) PROVE Struggle(i)'
  <2>1. CASE Reap(j)
    BY <2>1 DEF Reap, table, calls
  <2>2. CASE FinishFirst(j)
    BY <2>2 DEF FinishFirst, kernel, table
  <2>3. CASE FinishSecond(j)
    <3>1. UNCHANGED <<leader, kill, launch>> /\ leader[j] = "reaped"
      BY <2>3 DEF FinishSecond, kernel, Lifecycle, Origin
    <3>2. \A n \in Jobs \ {j} : exit'[n] = exit[n]
      BY <2>3 DEF FinishSecond, FinishEntry, table
    <3> QED
      BY <3>1, <3>2
  <2> QED
    BY <1>3, <2>1, <2>2, <2>3 DEF Finishing
<1>4. ASSUME NEW j \in Jobs, NEW k \in Killers, Killing(j, k) PROVE Struggle(i)'
  <2>1. CASE KillLookup(j, k)
    <3>1. kill' = [kill EXCEPT ![j][k] = IF j \notin reg THEN "idle" ELSE IF Done(j) THEN "done" ELSE "live"]
          /\ UNCHANGED <<leader, exit, launch>>
      BY <2>1 DEF KillLookup, kernel, table
    <3>2. j \in reg => Admitted(j)
      BY DEF Lifecycle, Origin
    <3> QED
      BY <3>1, <3>2
  <2>2. CASE KillStep(j, k)
    <3>1. UNCHANGED launch /\ kill[j][k] # "idle"
      BY <2>2, KillShape
    <3>2. leader'[i] = "alive" => leader[i] = "alive"
      BY <2>2, KillShape, SignalDooms
    <3>3. PICK to \in KillPc : kill' = [kill EXCEPT ![j][k] = to]
      BY <2>2, KillShape
    <3>4. \A n \in Jobs \ {j} : exit'[n] = exit[n]
      <4>1. MarkKilled(j) \/ NoMark
        BY <2>2, KillShape
      <4> QED
        BY <4>1 DEF MarkKilled, NoMark
    <3>5. CASE i # j
      BY <3>1, <3>2, <3>3, <3>4, <3>5
    <3>6. CASE i = j /\ leader'[j] # "alive"
      BY <3>1, <3>3, <3>6
    <3>7. CASE i = j /\ to = "grace" /\ NoMark
      BY <3>1, <3>2, <3>3, <3>7 DEF NoMark
    <3>8. kill'[j][k] = to
      BY <3>3
    <3>9. Struggle(j)
      BY DEF KillInv
    <3> QED
      BY <2>2, <3>5, <3>6, <3>7, <3>8, <3>9, KillWorks
  <2> QED
    BY <1>4, <2>1, <2>2 DEF Killing
<1>5. CASE Age \/ ReaperTick \/ ShutdownFirst \/ ShutdownSecond
  BY <1>5 DEF Age, ReaperTick, ShutdownFirst, ShutdownSecond, kernel, table
<1>6. ASSUME NEW w \in Waiters, Waiting(w) PROVE Struggle(i)'
  BY <1>6 DEF Waiting, WaitCall, WaitWakes, WaitTimesOut, Answer, kernel, table
<1>7. CASE UNCHANGED vars
  BY <1>7 DEF vars, kernel, table, calls
<1> QED
  BY <1>1, <1>2, <1>3, <1>4, <1>5, <1>6, <1>7 DEF Next

(* Shutdown loses sight of no job that runs. *)
LEMMA ClosingStep ==
  ASSUME ProcfsFails = {}, KillInv, [Next]_vars, NEW i \in Jobs
  PROVE  Closing(i)'
<1>a. TypeOK /\ Lifecycle /\ Struggle(i) /\ Origin(i) /\ Closing(i) /\ HandlesNotLost
  BY DEF KillInv, IInv, Lifecycle
<1>b. ASSUME NEW j \in Jobs, NEW k \in Killers, KillStep(j, k)
      PROVE  \E to \in KillPc : kill' = [kill EXCEPT ![j][k] = to]
  BY <1>a, <1>b, KillShape
<1> USE <1>a DEF TypeOK, Closing, Admitted
<1>1. ASSUME NEW j \in Jobs, Kernel(j) PROVE Closing(i)'
  BY <1>1 DEF Kernel, LeaderExits, ForkMember, ForkEscapee, MemberExits, EscapeeExits, table, calls
<1>2. ASSUME NEW j \in Jobs, Launching(j) PROVE Closing(i)'
  <2>1. phase = "up"
    BY <1>2 DEF KillInv, Launching, Launch, Register, RegisterAnyway, RejectLaunch, RejectReturns, StoreTimer
  <2>2. phase' = phase
    BY <1>2 DEF Launching, Launch, Register, RegisterAnyway, RejectLaunch, RejectReturns, StoreTimer
  <2> QED
    BY <2>1, <2>2
<1>3. ASSUME NEW j \in Jobs, Finishing(j) PROVE Closing(i)'
  BY <1>3 DEF Finishing, Reap, FinishFirst, FinishSecond, kernel, table, calls
<1>4. ASSUME NEW j \in Jobs, NEW k \in Killers, Killing(j, k) PROVE Closing(i)'
  <2>1. CASE KillLookup(j, k)
    <3>1. UNCHANGED <<leader, launch, phase>> /\ kill[j][k] = "idle" /\ phase # "down"
      BY <2>1 DEF KillLookup, kernel
    <3>2. kill' = [kill EXCEPT ![j][k] = IF j \notin reg THEN "idle" ELSE IF Done(j) THEN "done" ELSE "live"]
      BY <2>1 DEF KillLookup
    <3>3. CASE todo' = todo
      BY <3>1, <3>2, <3>3
    <3>4. CASE k \in Lists /\ todo' = [todo EXCEPT ![k] = todo[k] \ {j}]
      <4>1. leader[j] = "alive" /\ Admitted(j) => kill'[j][k] = "live"
        BY <3>1, <3>2 DEF HandlesNotLost, KillInv, Lifecycle, Origin, Struggle
      <4> QED
        BY <3>1, <3>2, <3>4, <4>1 DEF Lists
    <3> QED
      BY <2>1, <3>3, <3>4, LookupShape
  <2>2. CASE KillStep(j, k)
    <3>1. UNCHANGED <<launch, todo, phase>> /\ phase # "down"
      BY <2>2, KillShape
    <3>2. leader'[i] = "alive" => leader[i] = "alive"
      BY <2>2, KillShape, SignalDooms
    <3>3. PICK to \in KillPc : kill' = [kill EXCEPT ![j][k] = to]
      BY <1>b, <2>2
    <3>4. CASE i # j
      BY <3>1, <3>2, <3>3, <3>4
    <3>5. Struggle(j)
      BY DEF KillInv
    <3>6. kill'[j][k] = to
      BY <3>3
    <3>7. leader'[j] # "alive" \/ to = "grace"
      BY <2>2, <3>5, <3>6, KillWorks
    <3> QED
      BY <3>1, <3>2, <3>3, <3>4, <3>7
  <2> QED
    BY <1>4, <2>1, <2>2 DEF Killing
<1>5. CASE Age \/ ReaperTick
  BY <1>5 DEF Age, ReaperTick, kernel, table, Lists
<1>6. CASE ShutdownFirst
  BY <1>6 DEF ShutdownFirst, kernel, Live, Lists, HandlesNotLost, Origin, Struggle, Done
<1>7. CASE ShutdownSecond
  BY <1>7 DEF ShutdownSecond, kernel
<1>8. ASSUME NEW w \in Waiters, Waiting(w) PROVE Closing(i)'
  BY <1>8 DEF Waiting, WaitCall, WaitWakes, WaitTimesOut, Answer, kernel, table
<1>9. CASE UNCHANGED vars
  BY <1>9 DEF vars, kernel, table, calls
<1> QED
  BY <1>1, <1>2, <1>3, <1>4, <1>5, <1>6, <1>7, <1>8, <1>9 DEF Next

(* Where /proc can be read, KillInv is an inductive invariant. *)
THEOREM KillInductive == ASSUME ProcfsFails = {} PROVE Spec => []KillInv
<1>1. Init /\ IInv => KillInv
  BY DEF Init, KillInv, Struggle, Closing, Done, Admitted
<1>2. KillInv /\ [Next]_vars /\ IInv' => KillInv'
  BY StruggleStep, ClosingStep DEF KillInv
<1> QED
  BY <1>1, <1>2, Inductive, PTL DEF Spec

(* Nothing that the registry calls Done runs: a freed slot is free. *)
THEOREM DoneCorrect == ASSUME ProcfsFails = {} PROVE Spec => []DoneMeansDead
<1>1. KillInv => DoneMeansDead
  BY DEF KillInv, Struggle, DoneMeansDead
<1> QED
  BY <1>1, KillInductive, PTL

(* When shutdownBackground returns no job of this server runs. *)
THEOREM ShutdownCorrect == ASSUME ProcfsFails = {} PROVE Spec => []ShutdownLeavesNone
<1>1. KillInv => ShutdownLeavesNone
  BY DEF KillInv, Closing, ShutdownLeavesNone
<1> QED
  BY <1>1, KillInductive, PTL

(* Only a registration lets the live entries grow, and only by one. *)
LEMMA LiveStep ==
  ASSUME IInv, [Next]_vars
  PROVE  \/ Live' \subseteq Live
         \/ Cardinality(Live) < MaxProcs /\ \E j \in Jobs : Live' = Live \cup {j}
<1>a. TypeOK /\ Lifecycle
  BY DEF IInv
<1> USE DEF Live, Done
<1>1. ASSUME NEW j \in Jobs, Kernel(j) PROVE Live' = Live
  BY <1>1 DEF Kernel, LeaderExits, ForkMember, ForkEscapee, MemberExits, EscapeeExits, table
<1>2. ASSUME NEW j \in Jobs, Launching(j), ~Register(j) PROVE Live' = Live
  BY <1>2 DEF Launching, Launch, RejectLaunch, RejectReturns, StoreTimer, table
<1>3. ASSUME NEW j \in Jobs, Register(j)
      PROVE  Cardinality(Live) < MaxProcs /\ Live' = Live \cup {j}
  <2>1. Cardinality(Live) < MaxProcs
    BY <1>3 DEF Register
  <2>2. exit[j] = "running"
    BY <1>a, <1>3 DEF Register, RegisterAnyway, Lifecycle, Origin, Settlement, TypeOK, Admitted
  <2>3. reg' = reg \cup {j} /\ exit' = exit
    BY <1>3 DEF Register, RegisterAnyway
  <2> QED
    BY <2>1, <2>2, <2>3
<1>4. ASSUME NEW j \in Jobs, Finishing(j) PROVE Live' \subseteq Live
  <2>1. CASE Reap(j) \/ FinishFirst(j)
    BY <2>1 DEF Reap, FinishFirst, table
  <2>2. CASE FinishSecond(j) /\ j \notin reg
    BY <2>2 DEF FinishSecond, table
  <2>3. CASE FinishSecond(j) /\ j \in reg
    <3>1. FinishEntry(j) /\ fin[j] = "half"
      BY <2>3 DEF FinishSecond
    <3>2. reg' \subseteq reg /\ exit' = [exit EXCEPT ![j] = ExitCode(j)]
      BY <3>1 DEF FinishEntry
    <3>3. exit'[j] # "running"
      BY <1>a, <3>1, <3>2, ExitCodeType DEF TypeOK
    <3>4. \A n \in Jobs \ {j} : exit'[n] = exit[n]
      BY <1>a, <3>2 DEF TypeOK
    <3>5. reg \subseteq Jobs
      BY <1>a DEF TypeOK
    <3> QED
      BY <3>2, <3>3, <3>4, <3>5
  <2> QED
    BY <1>4, <2>1, <2>2, <2>3 DEF Finishing
<1>5. ASSUME NEW j \in Jobs, NEW k \in Killers, Killing(j, k) PROVE Live' \subseteq Live
  <2>1. CASE KillLookup(j, k)
    BY <2>1 DEF KillLookup, table
  <2>2. CASE KillStep(j, k)
    <3>1. reg' = reg /\ (MarkKilled(j) \/ NoMark)
      BY <1>a, <2>2, KillShape
    <3> QED
      BY <1>a, <3>1 DEF MarkKilled, NoMark, TypeOK
  <2> QED
    BY <1>5, <2>1, <2>2 DEF Killing
<1>6. CASE Age \/ ReaperTick \/ ShutdownFirst \/ ShutdownSecond
  BY <1>6 DEF Age, ReaperTick, ShutdownFirst, ShutdownSecond, table
<1>7. ASSUME NEW w \in Waiters, Waiting(w) PROVE Live' = Live
  BY <1>7 DEF Waiting, WaitCall, WaitWakes, WaitTimesOut, Answer, table
<1>8. CASE UNCHANGED vars
  BY <1>8 DEF vars, table
<1> QED
  BY <1>1, <1>2, <1>3, <1>4, <1>5, <1>6, <1>7, <1>8 DEF Next, Launching

(* The registry never has more than MaxProcs live entries. *)
THEOREM LiveBounded == Spec => [](IInv /\ Cardinality(Live) <= MaxProcs)
<1>1. Init => Cardinality(Live) <= MaxProcs
  <2>1. Init => Live = {}
    BY DEF Init, Live
  <2> QED
    BY <2>1, FS_EmptySet, SizesAssumption
<1>2. IInv /\ Cardinality(Live) <= MaxProcs /\ [Next]_vars => (Cardinality(Live) <= MaxProcs)'
  <2> SUFFICES ASSUME IInv, Cardinality(Live) <= MaxProcs, [Next]_vars
               PROVE  Cardinality(Live') <= MaxProcs
    OBVIOUS
  <2>1. Live \in SUBSET Jobs
    BY DEF IInv, TypeOK, Live
  <2>2. IsFiniteSet(Live) /\ Cardinality(Live) \in Nat
    BY <2>1, JobSets
  <2>3. CASE Live' \subseteq Live
    <3>1. Cardinality(Live') \in Nat /\ Cardinality(Live') <= Cardinality(Live)
      BY <2>1, <2>2, <2>3, FS_Subset, FS_CardinalityType
    <3> QED
      BY <2>2, <3>1, SizesAssumption
  <2>4. ASSUME Cardinality(Live) < MaxProcs, NEW j \in Jobs, Live' = Live \cup {j}
        PROVE  Cardinality(Live') <= MaxProcs
    <3>1. Cardinality(Live') = Cardinality(Live) \/ Cardinality(Live') = Cardinality(Live) + 1
      BY <2>2, <2>4, FS_AddElement
    <3> QED
      BY <2>2, <2>4, <3>1, SizesAssumption
  <2> QED
    BY <2>3, <2>4, LiveStep
<1> QED
  BY <1>1, <1>2, Inductive, PTL DEF Spec

(* The cap bounds processes: no interleaving of launches, kills and ends   *)
(* has more than MaxProcs leaders of admitted jobs running at a time.      *)
THEOREM CapCorrect == ASSUME ProcfsFails = {} PROVE Spec => []RunningCap
<1>1. KillInv /\ Cardinality(Live) <= MaxProcs => RunningCap
  <2> SUFFICES ASSUME KillInv, Cardinality(Live) <= MaxProcs PROVE RunningCap
    OBVIOUS
  <2> DEFINE Running == {j \in Jobs : Admitted(j) /\ leader[j] = "alive"}
  <2>1. Running \subseteq Live
    BY DEF KillInv, IInv, TypeOK, Lifecycle, Origin, Struggle, Closing, HandlesNotLost, Live
  <2>2. Live \in SUBSET Jobs
    BY DEF KillInv, IInv, TypeOK, Live
  <2>3. IsFiniteSet(Live) /\ Cardinality(Live) \in Nat
    BY <2>2, JobSets
  <2>4. Cardinality(Running) \in Nat /\ Cardinality(Running) <= Cardinality(Live)
    BY <2>1, <2>3, FS_Subset, FS_CardinalityType
  <2> QED
    BY <2>3, <2>4, SizesAssumption DEF RunningCap
<1> QED
  BY <1>1, KillInductive, LiveBounded, PTL

-----------------------------------------------------------------------------
(* Retention: what the registry and its tombstones keep. *)

(* The least of some jobs. *)
LEMMA OldestExists ==
  ASSUME NEW S \in SUBSET Jobs, S # {}
  PROVE  \E m \in S : \A i \in S : m <= i
<1>1. S \subseteq Nat
  BY SizesAssumption DEF Jobs
<1>2. PICK m \in S : \A i \in S : ~ (<<i, m>> \in OpToRel(<, Nat))
  BY <1>1, WFMin, NatLessThanWellFounded
<1>3. ASSUME NEW i \in S PROVE ~ (i < m)
  BY <1>1, <1>2 DEF OpToRel
<1> QED BY <1>1, <1>3

(* Pruning leaves at most MaxCompleted of the completed entries. *)
LEMMA PruningLeavesFew ==
  ASSUME NEW C \in SUBSET Jobs
  PROVE  Cardinality(C \ Excess(C)) \in Nat /\ Cardinality(C \ Excess(C)) <= MaxCompleted
<1> DEFINE K == C \ Excess(C)
<1>1. K \in SUBSET Jobs /\ Cardinality(K) \in Nat
  BY JobSets
<1>2. CASE K = {}
  BY <1>2, FS_EmptySet, SizesAssumption
<1>3. CASE K # {}
  <2>1. PICK m \in K : \A i \in K : m <= i
    BY <1>1, <1>3, OldestExists
  <2> DEFINE above == {n \in C : n > m}
  <2>2. above \in SUBSET Jobs /\ IsFiniteSet(above) /\ Cardinality(above) \in Nat
    BY JobSets
  <2>3. Cardinality(above) < MaxCompleted
    BY <2>1, <2>2, SizesAssumption DEF Excess
  <2>4. K \in SUBSET (above \cup {m})
    BY <1>1, <2>1, SizesAssumption DEF Jobs
  <2>5. /\ IsFiniteSet(above \cup {m})
        /\ Cardinality(above \cup {m}) \in Nat /\ Cardinality(above \cup {m}) <= Cardinality(above) + 1
    <3>1. /\ IsFiniteSet(above \cup {m})
          /\ Cardinality(above \cup {m}) = IF m \in above THEN Cardinality(above) ELSE Cardinality(above) + 1
      BY <2>2, FS_AddElement
    <3> HIDE DEF above
    <3> QED BY <2>2, <3>1
  <2>6. Cardinality(K) <= Cardinality(above \cup {m})
    BY <2>4, <2>5, FS_Subset
  <2> HIDE DEF K, above
  <2>7. Cardinality(K) <= MaxCompleted
    BY <1>1, <2>2, <2>3, <2>5, <2>6, SizesAssumption
  <2> QED BY <1>1, <2>7 DEF K
<1> QED BY <1>2, <1>3

LEMMA FewAreRetained ==
  ASSUME NEW S \in SUBSET Jobs, NEW f, NEW T \in Retained(S, f)
  PROVE  T \in SUBSET S /\ Cardinality(T) \in Nat /\ Cardinality(T) <= MaxTombs
BY JobSets, SizesAssumption DEF Retained

(* The natural ends so far, which the stamps count. *)
Stamped == {i \in Jobs : finishedAt[i] > 0}

(* What a completed entry, and the stamp of a job, stand for. *)
Settled(j) ==
  /\ j \in reg /\ fin[j] = "done" => Done(j)
  /\ finishedAt[j] > 0 => Done(j)
  /\ finishedAt[j] <= Cardinality(Stamped)

RetentionInv == IInv /\ RetentionBounded /\ \A j \in Jobs : Settled(j)

(* Only the second critical section of finishBackground, the reaper and    *)
(* shutdown touch what is retained.                                        *)
LEMMA QuietForRetention ==
  ASSUME RetentionInv, IInv', tomb' = tomb, UNCHANGED finishedAt,
         \A j \in Jobs : Done(j) => Done(j)',
         \A j \in Jobs : j \in reg' /\ fin'[j] = "done" => j \in reg /\ fin[j] = "done"
  PROVE  RetentionInv'
<1> DEFINE S == {j \in reg : fin[j] = "done"}
<1>1. S' \in SUBSET S /\ S \in SUBSET Jobs
  BY DEF RetentionInv, IInv, TypeOK
<1>2. Cardinality(S') \in Nat /\ Cardinality(S) \in Nat /\ Cardinality(S') <= Cardinality(S)
  BY <1>1, JobSets, FS_Subset
<1>3. Cardinality(S') <= MaxCompleted
  BY <1>2, SizesAssumption DEF RetentionInv, RetentionBounded
<1>4. RetentionBounded'
  BY <1>3 DEF RetentionInv, RetentionBounded
<1> QED BY <1>4 DEF RetentionInv, Settled, Stamped

(* The step that settles an entry. *)
LEMMA FinishRetains ==
  ASSUME RetentionInv, IInv', NEW j \in Jobs, FinishSecond(j), j \in reg
  PROVE  RetentionInv'
<1>1. /\ FinishEntry(j) /\ fin[j] = "half" /\ fin' = [fin EXCEPT ![j] = "done"]
      /\ TypeOK /\ Lifecycle /\ TypeOK' /\ Lifecycle'
  BY DEF FinishSecond, RetentionInv, IInv
<1>2. exit'[j] # "running" /\ \A i \in Jobs \ {j} : exit'[i] = exit[i]
  <2>1. ExitCode(j) \in {"ok", "minus1"}
    BY <1>1, ExitCodeType
  <2>2. exit' = [exit EXCEPT ![j] = ExitCode(j)] /\ exit \in [Jobs -> {"running", "ok", "minus1"}]
    BY <1>1 DEF FinishEntry, TypeOK
  <2> QED BY <2>1, <2>2
<1> DEFINE C == {i \in reg : (Done(i) \/ i = j) /\ Released(i)}
<1>3. C \in SUBSET Jobs /\ reg' = reg \ Excess(C) /\ Excess(C) \in SUBSET C
      /\ tomb' \in Retained(tomb \cup Excess(C), finishedAt')
  BY <1>1 DEF FinishEntry, TypeOK, Excess
<1> HIDE DEF C
<1>4. RetentionBounded'
  <2>1. tomb \cup Excess(C) \in SUBSET Jobs
    BY <1>1, <1>3 DEF TypeOK
  <2>2. Cardinality(tomb') <= MaxTombs
    BY <1>3, <2>1, FewAreRetained
  <2> DEFINE S == {i \in reg' : fin'[i] = "done"}
  <2>3. S \in SUBSET (C \ Excess(C))
    BY <1>1, <1>3 DEF RetentionInv, Settled, Released, TypeOK, C
  <2>4. C \ Excess(C) \in SUBSET Jobs
    BY <1>3
  <2>5. Cardinality(S) \in Nat /\ Cardinality(S) <= Cardinality(C \ Excess(C))
    BY <2>3, <2>4, JobSets, FS_Subset
  <2> HIDE DEF S
  <2>6. Cardinality(S) <= MaxCompleted
    BY <1>3, <2>5, PruningLeavesFew, SizesAssumption
  <2> QED BY <2>2, <2>6 DEF RetentionBounded, S
<1>5. finishedAt' = [finishedAt EXCEPT ![j] = Stamp(j)]
  BY <1>1 DEF FinishEntry
<1>6. CASE Done(j)
  <2>1. finishedAt' = finishedAt
    BY <1>1, <1>5, <1>6 DEF Stamp, TypeOK
  <2>2. Stamped' = Stamped
    BY <2>1 DEF Stamped
  <2> QED
    BY <1>1, <1>2, <1>3, <1>4, <2>1, <2>2 DEF RetentionInv, Settled, Done, TypeOK
<1>7. CASE ~Done(j)
  <2>1. Stamped \in SUBSET Jobs /\ IsFiniteSet(Stamped) /\ Cardinality(Stamped) \in Nat
    BY JobSets DEF Stamped
  <2>2. finishedAt'[j] = 1 + Cardinality(Stamped) /\ \A i \in Jobs \ {j} : finishedAt'[i] = finishedAt[i]
    BY <1>1, <1>5, <1>7 DEF Stamp, Now, Stamped, TypeOK
  <2>3. j \notin Stamped
    BY <1>7 DEF RetentionInv, Settled, Stamped
  <2>4. Stamped' = Stamped \cup {j}
    BY <2>1, <2>2 DEF Stamped
  <2>5. Cardinality(Stamped') = Cardinality(Stamped) + 1
    BY <2>1, <2>3, <2>4, FS_AddElement
  <2>6. ASSUME NEW i \in Jobs PROVE finishedAt[i] \in Nat /\ finishedAt[i] <= Cardinality(Stamped)
    BY <1>1 DEF RetentionInv, Settled, TypeOK
  <2>7. ASSUME NEW i \in Jobs PROVE finishedAt'[i] <= Cardinality(Stamped')
    BY <2>1, <2>2, <2>5, <2>6
  <2>8. ASSUME NEW i \in Jobs, i # j PROVE finishedAt'[i] > 0 => Done(i)'
    BY <1>2, <2>2, <2>8 DEF RetentionInv, Settled, Done
  <2>9. ASSUME NEW i \in Jobs PROVE i \in reg' /\ fin'[i] = "done" => Done(i)'
    BY <1>1, <1>2, <1>3 DEF RetentionInv, Settled, Done, TypeOK
  <2>10. ASSUME NEW i \in Jobs PROVE Settled(i)'
    BY <1>2, <2>7, <2>8, <2>9 DEF Settled, Done
  <2> QED BY <1>4, <2>10 DEF RetentionInv
<1> QED BY <1>6, <1>7

LEMMA RetentionStep == ASSUME RetentionInv, [Next]_vars, IInv' PROVE RetentionInv'
<1>a. TypeOK /\ Lifecycle
  BY DEF RetentionInv, IInv
<1> USE DEF Done, kernel, table, calls
<1>1. ASSUME NEW j \in Jobs, Kernel(j) PROVE RetentionInv'
  BY <1>1, QuietForRetention DEF Kernel, LeaderExits, ForkMember, ForkEscapee, MemberExits, EscapeeExits
<1>2. ASSUME NEW j \in Jobs, Launching(j) PROVE RetentionInv'
  <2>1. CASE Register(j)
    <3>1. fin[j] = "waiting"
      BY <1>a, <2>1 DEF Register, RegisterAnyway, Lifecycle, Origin, Admitted, TypeOK
    <3> QED BY <2>1, <3>1, QuietForRetention DEF Register, RegisterAnyway
  <2>2. CASE ~Register(j)
    BY <1>2, <2>2, QuietForRetention
       DEF Launching, Launch, RejectLaunch, RejectReturns, StoreTimer
  <2> QED BY <2>1, <2>2
<1>3. ASSUME NEW j \in Jobs, Finishing(j) PROVE RetentionInv'
  <2>1. CASE Reap(j)
    BY <2>1, QuietForRetention DEF Reap
  <2>2. CASE FinishFirst(j)
    BY <1>a, <2>2, QuietForRetention DEF FinishFirst, TypeOK
  <2>3. CASE FinishSecond(j) /\ j \notin reg
    BY <1>a, <2>3, QuietForRetention DEF FinishSecond, TypeOK
  <2>4. CASE FinishSecond(j) /\ j \in reg
    BY <2>4, FinishRetains
  <2> QED BY <1>3, <2>1, <2>2, <2>3, <2>4 DEF Finishing
<1>4. ASSUME NEW j \in Jobs, NEW k \in Killers, Killing(j, k) PROVE RetentionInv'
  <2>1. CASE KillLookup(j, k)
    BY <2>1, QuietForRetention DEF KillLookup
  <2>2. CASE KillStep(j, k)
    <3>1. UNCHANGED <<reg, tomb, finishedAt, fin>> /\ (MarkKilled(j) \/ NoMark)
      BY <1>a, <2>2, KillShape
    <3>2. \A i \in Jobs : exit[i] # "running" => exit'[i] # "running"
      BY <1>a, <3>1 DEF MarkKilled, NoMark, TypeOK
    <3> QED BY <3>1, <3>2, QuietForRetention
  <2> QED BY <1>4, <2>1, <2>2 DEF Killing
<1>5. CASE ReaperTick
  <2> DEFINE stale == {j \in reg : exit[j] # "running" /\ Released(j) /\ j <= aged}
  <2>1. /\ reg' = reg \ stale /\ tomb' \in Retained(tomb \cup stale, finishedAt)
        /\ UNCHANGED <<fin, finishedAt, exit>>
    BY <1>5 DEF ReaperTick
  <2>2. tomb \cup stale \in SUBSET Jobs
    BY <1>a DEF TypeOK
  <2>3. Cardinality(tomb') <= MaxTombs
    BY <2>1, <2>2, FewAreRetained
  <2> HIDE DEF stale
  <2> DEFINE S == {j \in reg : fin[j] = "done"}
  <2>4. S' \in SUBSET S /\ S \in SUBSET Jobs
    BY <1>a, <2>1 DEF TypeOK
  <2>5. Cardinality(S') \in Nat /\ Cardinality(S) \in Nat /\ Cardinality(S') <= Cardinality(S)
    BY <2>4, JobSets, FS_Subset
  <2>6. Cardinality(S') <= MaxCompleted
    BY <2>5, SizesAssumption DEF RetentionInv, RetentionBounded
  <2> QED BY <2>1, <2>3, <2>6 DEF RetentionInv, RetentionBounded, Settled, Stamped
<1>6. CASE Age \/ ShutdownFirst
  BY <1>6, QuietForRetention DEF Age, ShutdownFirst
<1>7. CASE ShutdownSecond
  BY <1>7, QuietForRetention DEF ShutdownSecond
<1>8. ASSUME NEW w \in Waiters, Waiting(w) PROVE RetentionInv'
  BY <1>8, QuietForRetention DEF Waiting, WaitCall, WaitWakes, WaitTimesOut, Answer
<1>9. CASE UNCHANGED vars
  BY <1>9, QuietForRetention DEF vars
<1> QED
  BY <1>1, <1>2, <1>3, <1>4, <1>5, <1>6, <1>7, <1>8, <1>9 DEF Next

(* RetentionInv is an inductive invariant: the bounds hold, and a settled   *)
(* entry has the time at which it ended.                                    *)
THEOREM RetentionInductive == Spec => []RetentionInv
<1>1. Init /\ IInv => RetentionInv
  <2> SUFFICES ASSUME Init, IInv PROVE RetentionInv
    OBVIOUS
  <2>1. {j \in reg : fin[j] = "done"} = {} /\ tomb = {} /\ Stamped = {}
    BY DEF Init, Stamped
  <2> QED BY <2>1, FS_EmptySet, SizesAssumption DEF Init, RetentionInv, RetentionBounded, Settled
<1>2. RetentionInv /\ [Next]_vars /\ IInv' => RetentionInv'
  BY RetentionStep
<1> QED BY <1>1, <1>2, Inductive, PTL DEF Spec

(* At most MaxCompleted settled entries and MaxTombs results beyond them   *)
(* are kept, in whatever order jobs end, are pruned and grow old.          *)
THEOREM RetentionCorrect == Spec => []RetentionBounded
<1>1. RetentionInv => RetentionBounded
  BY DEF RetentionInv
<1> QED BY <1>1, RetentionInductive, PTL

(* The tombstone of a job that ends by itself has the newest stamp, so it  *)
(* is the last that the pruning would drop.                                *)
LEMMA NewestIsRetained ==
  ASSUME RetentionInv, MaxTombs > 0, NEW j \in Jobs, FinishSecond(j), j \in reg, ~Done(j)
  PROVE  Known(j)'
<1>1. FinishEntry(j) /\ TypeOK
  BY DEF FinishSecond, RetentionInv, IInv
<1> DEFINE C == {i \in reg : (Done(i) \/ i = j) /\ Released(i)}
           S == tomb \cup Excess(C)
<1>2. S \in SUBSET Jobs /\ reg' = reg \ Excess(C) /\ tomb' \in Retained(S, finishedAt')
  BY <1>1 DEF FinishEntry, TypeOK, Excess
<1> HIDE DEF C
<1>3. Stamped \in SUBSET Jobs /\ Cardinality(Stamped) \in Nat
  BY JobSets DEF Stamped
<1>4. finishedAt'[j] = 1 + Cardinality(Stamped) /\ \A i \in Jobs \ {j} : finishedAt'[i] = finishedAt[i]
  BY <1>1 DEF FinishEntry, Stamp, Now, Stamped, TypeOK
<1>5. ASSUME NEW i \in Jobs \ {j} PROVE finishedAt'[i] \in Nat /\ finishedAt'[i] < finishedAt'[j]
  BY <1>1, <1>3, <1>4 DEF RetentionInv, Settled, TypeOK
<1>6. CASE j \notin S
  BY <1>2, <1>6 DEF Known
<1>7. CASE j \in S /\ j \notin tomb'
  <2>1. \A t \in tomb' : finishedAt'[j] <= finishedAt'[t]
    BY <1>2, <1>7 DEF Retained
  <2>2. tomb' \in SUBSET S
    BY <1>2 DEF Retained
  <2>3. tomb' = {}
    BY <1>2, <1>3, <1>4, <1>5, <1>7, <2>1, <2>2
  <2>4. Cardinality(tomb') = 0
    BY <2>3, FS_EmptySet
  <2>5. IsFiniteSet(S) /\ Cardinality(S) \in Nat /\ Cardinality(S) # 0
    BY <1>2, <1>7, JobSets, FS_EmptySet
  <2> HIDE DEF S
  <2> QED BY <1>2, <2>4, <2>5, SizesAssumption DEF Retained
<1> QED BY <1>6, <1>7 DEF Known

(* Only the second critical section takes a job from "half" to "done".     *)
LEMMA OnlyFinishSettles ==
  ASSUME IInv, [Next]_vars, NEW i \in Jobs, fin[i] = "half", fin'[i] = "done"
  PROVE  FinishSecond(i)
<1>a. TypeOK /\ Lifecycle
  BY DEF IInv
<1> USE DEF kernel, table, calls
<1>1. ASSUME NEW j \in Jobs, Kernel(j) \/ Launching(j) PROVE FALSE
  BY <1>1 DEF Kernel, LeaderExits, ForkMember, ForkEscapee, MemberExits, EscapeeExits,
     Launching, Launch, Register, RegisterAnyway, RejectLaunch, RejectReturns, StoreTimer
<1>2. ASSUME NEW j \in Jobs, Finishing(j) PROVE FinishSecond(i)
  <2>1. CASE Reap(j) \/ FinishFirst(j)
    BY <1>a, <2>1 DEF Reap, FinishFirst, TypeOK
  <2>2. CASE FinishSecond(j)
    BY <1>a, <2>2 DEF FinishSecond, TypeOK
  <2> QED BY <1>2, <2>1, <2>2 DEF Finishing
<1>3. ASSUME NEW j \in Jobs, NEW k \in Killers, Killing(j, k) PROVE FALSE
  BY <1>a, <1>3, KillShape DEF Killing, KillLookup
<1>4. CASE Age \/ ReaperTick \/ ShutdownFirst \/ ShutdownSecond \/ UNCHANGED vars
  BY <1>4 DEF Age, ReaperTick, ShutdownFirst, ShutdownSecond, vars
<1>5. ASSUME NEW w \in Waiters, Waiting(w) PROVE FALSE
  BY <1>5 DEF Waiting, WaitCall, WaitWakes, WaitTimesOut, Answer
<1> QED BY <1>1, <1>2, <1>3, <1>4, <1>5 DEF Next

(* The result of a job that ends by itself is where wait finds it when     *)
(* finishBackground has returned, whatever it has pruned.                  *)
THEOREM EndIsConsumable == ASSUME MaxTombs > 0 PROVE Spec => NaturalEndIsConsumable
<1>1. RetentionInv /\ [Next]_vars =>
        [\A j \in Jobs : fin[j] = "half" /\ fin'[j] = "done" /\ j \in reg /\ ~Done(j) => Known(j)']_vars
  BY OnlyFinishSettles, NewestIsRetained DEF RetentionInv
<1> QED BY <1>1, RetentionInductive, PTL DEF Spec, NaturalEndIsConsumable

-----------------------------------------------------------------------------
(* Pids: who has one, and which calls of killBackground trust theirs. *)

(* Jobs are launched in their order; a process is collected only when its  *)
(* Wait goroutine runs.                                                    *)
Started(j) ==
  /\ launch[j] = "idle" <=> pid[j] = NoPid
  /\ launch[j] # "idle" => \A i \in Jobs : i < j => launch[i] # "idle"
  /\ launch[j] = "started" => leader[j] # "reaped"
  /\ launch[j] = "idle" => leader[j] = "none"

(* An earlier job with the pid of a later one has nothing left of it.      *)
Successive(j) ==
  \A i \in Jobs : i < j /\ pid[i] = pid[j] /\ pid[j] # NoPid =>
    leader[i] = "reaped" /\ group[i] = "none"

(* What a call has seen of j's pid holds while the call lasts: that nobody *)
(* has it, or that no later job has.                                       *)
Trusted(j) ==
  \A k \in Killers :
    /\ kill[j][k] # "idle" => pid[j] # NoPid
    /\ kill[j][k] = "orphans" => \A i \in Jobs : pid[i] = pid[j] => ~Present(i)
    /\ kill[j][k] = "grace" => \A i \in Jobs : i > j => pid[i] # pid[j]

PidsHeld == blind = {} /\ \A j \in Jobs : Started(j) /\ Successive(j) /\ Trusted(j)

PidInv == IInv /\ PidsHeld

(* The two of the kernel's and the code's doing that the theorem rules out *)
(* by assumption: a pid that is handed out again while a kill is under way *)
(* (the start time is looked at, the signal is sent after it), and a start *)
(* time that could not be read at registration.                            *)
PidsSettle == PidReuse # "any" /\ "register" \notin ProcfsFails

(* What no step but a launch and a kill does. *)
LEMMA PidFrame ==
  ASSUME PidInv, UNCHANGED <<pid, launch, blind, kill>>,
         \A j \in Jobs : group[j] = "none" => group'[j] = "none" \/ leader[j] = "alive",
         \A j \in Jobs : leader'[j] = leader[j] \/ (leader[j] \in {"alive", "doomed"} /\ leader'[j] = "zombie")
  PROVE  PidsHeld'
BY DEF PidInv, PidsHeld, Started, Successive, Trusted, Present

(* A pid is given to a job when nothing and nobody needs it.               *)
LEMMA LaunchKeepsPids ==
  ASSUME PidsSettle, PidInv, NEW j \in Jobs, Launch(j)
  PROVE  PidsHeld'
<1>a. TypeOK
  BY DEF PidInv, PidsHeld, IInv
<1>1. PICK p \in Pids : FreePid(p) /\ pid' = [pid EXCEPT ![j] = p]
  BY DEF Launch
<1>2. /\ launch[j] = "idle" /\ \A i \in Jobs : i < j => launch[i] # "idle"
      /\ launch' = [launch EXCEPT ![j] = "started"] /\ leader' = [leader EXCEPT ![j] = "alive"]
      /\ UNCHANGED <<group, kill, blind>>
  BY DEF Launch
<1>3. p # NoPid /\ pid[j] = NoPid
  BY <1>2, KindsAssumption DEF PidInv, PidsHeld, Started
<1>4. /\ pid'[j] = p /\ launch'[j] = "started" /\ leader'[j] = "alive"
      /\ \A i \in Jobs \ {j} : pid'[i] = pid[i] /\ launch'[i] = launch[i] /\ leader'[i] = leader[i]
  BY <1>a, <1>1, <1>2 DEF TypeOK
<1>5. \A i \in Jobs : pid[i] = p => /\ leader[i] = "reaped" /\ group[i] = "none"
                                   /\ \A k \in Killers : kill[i][k] = "idle"
  BY <1>1, KindsAssumption DEF FreePid, PidsSettle
<1>6. \A i \in Jobs : i > j => pid[i] = NoPid
  BY <1>2, SizesAssumption DEF PidInv, PidsHeld, Started, Jobs
<1>7. ASSUME NEW i \in Jobs PROVE Started(i)'
  BY <1>2, <1>3, <1>4 DEF PidInv, PidsHeld, Started
<1>8. ASSUME NEW i \in Jobs PROVE Successive(i)'
  BY <1>2, <1>3, <1>4, <1>5, <1>6, SizesAssumption DEF PidInv, PidsHeld, Successive, Jobs
<1>9. ASSUME NEW i \in Jobs PROVE Trusted(i)'
  BY <1>2, <1>3, <1>4, <1>5 DEF PidInv, PidsHeld, Trusted, Present
<1> QED BY <1>2, <1>7, <1>8, <1>9 DEF PidInv, PidsHeld

(* A leader that runs is the last with its pid. *)
LEMMA RunnerHasPid ==
  ASSUME PidInv, NEW j \in Jobs, Present(j), NEW i \in Jobs, pid[i] = pid[j]
  PROVE  i <= j /\ (i < j => leader[i] = "reaped" /\ group[i] = "none")
<1>1. pid[j] # NoPid
  BY DEF PidInv, PidsHeld, Started, Present, IInv, TypeOK
<1>2. i \in Int /\ j \in Int
  BY SizesAssumption DEF Jobs
<1> QED BY <1>1, <1>2 DEF PidInv, PidsHeld, Successive, Present

(* A step of killBackground strikes only the leader of its own job.        *)
LEMMA KillStrikesOwn ==
  ASSUME PidInv, NEW j \in Jobs, NEW k \in Killers, KillStep(j, k), NEW i \in Jobs, Struck(i)
  PROVE  i = j
<1>a. TypeOK
  BY DEF PidInv, PidsHeld, IInv
<1>1. SigKill(pid[j]) /\ pid[i] = pid[j] /\ leader[i] = "alive"
  BY <1>a, KillShape DEF Struck, SigKill, NoSignal, TypeOK
<1>2. ~NoSignal
  BY DEF Struck, NoSignal
<1>3. Present(i) /\ i \in Int /\ j \in Int
  BY <1>1, SizesAssumption DEF Present, Jobs
<1>4. CASE KillOrphansSecond(j, k)
  BY <1>1, <1>2, <1>3, <1>4 DEF KillOrphansSecond, Goes, PidInv, PidsHeld, Trusted
<1>5. CASE KillLeaderSecond(j, k)
  <2>1. kill[j][k] = "grace"
    BY <1>5 DEF KillLeaderSecond, Goes
  <2>2. ~(i > j)
    BY <1>1, <2>1 DEF PidInv, PidsHeld, Trusted
  <2>3. j <= i
    BY <1>1, <1>3, RunnerHasPid
  <2> QED BY <1>3, <2>2, <2>3
<1>6. ~KillBlind(j, k)
  BY DEF KillBlind, PidInv, PidsHeld
<1> QED
  BY <1>2, <1>4, <1>5, <1>6 DEF KillStep, KillRefuses, KillNobody, KillOrphansFirst,
     KillOrphansThird, KillLeaderFirst, KillMarks

LEMMA KillKeepsPids ==
  ASSUME PidInv, NEW j \in Jobs, NEW k \in Killers, KillStep(j, k)
  PROVE  PidsHeld'
<1>a. TypeOK
  BY DEF PidInv, PidsHeld, IInv
<1>1. UNCHANGED <<pid, launch, blind>> /\ kill[j][k] # "idle" /\ (SigKill(pid[j]) \/ NoSignal)
  BY <1>a, KillShape
<1>2. PICK to \in KillPc : kill' = [kill EXCEPT ![j][k] = to]
  BY <1>a, KillShape
<1>3. /\ kill'[j][k] = to
      /\ \A i \in Jobs, n \in Killers : i # j \/ n # k => kill'[i][n] = kill[i][n]
  BY <1>a, <1>2 DEF TypeOK
<1>4. ASSUME NEW i \in Jobs
      PROVE  leader'[i] = leader[i] \/ (leader[i] = "alive" /\ leader'[i] = "doomed")
  BY <1>a, <1>1, SignalDooms
<1>5. ASSUME NEW i \in Jobs PROVE group[i] = "none" => group'[i] = "none"
  BY <1>a, <1>1 DEF SigKill, NoSignal, TypeOK
<1>6. \A i \in Jobs : Present(i)' => Present(i)
  BY <1>4 DEF Present
<1>7. to = "orphans" => \A i \in Jobs : pid[i] = pid[j] => ~Present(i)
  BY <1>3 DEF KillStep, KillBlind, KillRefuses, KillNobody, KillOrphansFirst, KillOrphansSecond,
     KillOrphansThird, KillLeaderFirst, KillLeaderSecond, KillMarks, Goes, PidTaken, TypeOK, IInv, PidInv, KillPc
<1>8. to = "grace" => Present(j)
  BY <1>3 DEF KillStep, KillBlind, KillRefuses, KillNobody, KillOrphansFirst, KillOrphansSecond,
     KillOrphansThird, KillLeaderFirst, KillLeaderSecond, KillMarks, Goes, TypeOK, IInv, PidInv, KillPc
<1>9. to = "grace" => \A i \in Jobs : i > j => pid[i] # pid[j]
  BY <1>8, RunnerHasPid, SizesAssumption DEF Jobs
<1>10. ASSUME NEW i \in Jobs PROVE Trusted(i)'
  <2>1. ASSUME NEW n \in Killers, kill'[i][n] = "orphans", NEW o \in Jobs, pid'[o] = pid'[i]
        PROVE  ~Present(o)'
    BY <1>1, <1>3, <1>6, <1>7, <2>1 DEF PidInv, PidsHeld, Trusted
  <2>2. ASSUME NEW n \in Killers, kill'[i][n] = "grace", NEW o \in Jobs, o > i
        PROVE  pid'[o] # pid'[i]
    BY <1>1, <1>3, <1>9, <2>2 DEF PidInv, PidsHeld, Trusted
  <2>3. ASSUME NEW n \in Killers, kill'[i][n] # "idle" PROVE pid'[i] # NoPid
    BY <1>1, <1>3, <2>3 DEF PidInv, PidsHeld, Trusted
  <2> QED BY <2>1, <2>2, <2>3 DEF Trusted
<1>11. ASSUME NEW i \in Jobs PROVE Started(i)'
  BY <1>1, <1>4 DEF PidInv, PidsHeld, Started
<1>12. ASSUME NEW i \in Jobs PROVE Successive(i)'
  BY <1>1, <1>4, <1>5 DEF PidInv, PidsHeld, Successive
<1> QED BY <1>1, <1>10, <1>11, <1>12 DEF PidInv, PidsHeld

LEMMA PidStep == ASSUME PidsSettle, PidInv, [Next]_vars, IInv' PROVE PidInv'
<1> SUFFICES PidsHeld'
  BY DEF PidInv
<1>a. TypeOK /\ Lifecycle /\ PidsHeld
  BY DEF PidInv, IInv
<1> USE DEF kernel, table, calls
<1>1. ASSUME NEW j \in Jobs, Kernel(j) PROVE PidsHeld'
  <2>1. UNCHANGED <<pid, launch, blind, kill>>
    BY <1>1 DEF Kernel, LeaderExits, ForkMember, ForkEscapee, MemberExits, EscapeeExits
  <2>2. \A i \in Jobs : group[i] = "none" => group'[i] = "none" \/ leader[i] = "alive"
    BY <1>a, <1>1 DEF Kernel, LeaderExits, ForkMember, ForkEscapee, MemberExits, EscapeeExits, TypeOK
  <2>3. \A i \in Jobs : leader'[i] = leader[i] \/ (leader[i] \in {"alive", "doomed"} /\ leader'[i] = "zombie")
    BY <1>a, <1>1 DEF Kernel, LeaderExits, ForkMember, ForkEscapee, MemberExits, EscapeeExits, TypeOK
  <2> QED BY <1>a, <2>1, <2>2, <2>3, PidFrame
<1>2. ASSUME NEW j \in Jobs, Launching(j) PROVE PidsHeld'
  <2>1. CASE Launch(j)
    BY <1>a, <2>1, LaunchKeepsPids DEF Launch
  <2>2. CASE Register(j) \/ RejectReturns(j) \/ StoreTimer(j)
    <3>1. UNCHANGED <<pid, leader, group, kill>> /\ blind' = {}
      BY <1>a, <2>2 DEF Register, RegisterAnyway, RejectReturns, StoreTimer, PidsSettle, PidsHeld
    <3>2. \A i \in Jobs : /\ launch[i] = "idle" => launch'[i] = "idle"
                          /\ launch'[i] = "idle" => launch[i] = "idle"
                          /\ launch'[i] = "started" => launch[i] = "started"
      BY <1>a, <2>2 DEF Register, RegisterAnyway, RejectReturns, StoreTimer, TypeOK
    <3>3. ASSUME NEW i \in Jobs PROVE (Started(i) /\ Successive(i))'
      BY <1>a, <3>1, <3>2 DEF PidsHeld, Started, Successive
    <3>4. ASSUME NEW i \in Jobs PROVE Trusted(i)'
      BY <1>a, <3>1 DEF PidsHeld, Trusted, Present
    <3> QED BY <3>1, <3>3, <3>4 DEF PidsHeld
  <2>3. CASE RejectLaunch(j)
    <3>1. UNCHANGED <<pid, kill, blind>> /\ SigKill(pid[j])
      BY <2>3 DEF RejectLaunch
    <3>2. \A i \in Jobs : /\ launch[i] = "idle" => launch'[i] = "idle"
                          /\ launch'[i] = "idle" => launch[i] = "idle"
                          /\ launch'[i] = "started" => launch[i] = "started"
      BY <1>a, <2>3 DEF RejectLaunch, TypeOK
    <3>3. ASSUME NEW i \in Jobs
          PROVE  /\ leader'[i] = leader[i] \/ (leader[i] = "alive" /\ leader'[i] = "doomed")
                 /\ group[i] = "none" => group'[i] = "none"
      BY <1>a, <3>1 DEF SigKill, TypeOK
    <3>4. ASSUME NEW i \in Jobs PROVE (Started(i) /\ Successive(i))'
      BY <1>a, <3>1, <3>2, <3>3 DEF PidsHeld, Started, Successive
    <3>5. ASSUME NEW i \in Jobs PROVE Trusted(i)'
      BY <1>a, <3>1, <3>3 DEF PidsHeld, Trusted, Present
    <3> QED BY <1>a, <3>1, <3>4, <3>5 DEF PidsHeld
  <2> QED BY <1>2, <2>1, <2>2, <2>3 DEF Launching
<1>3. ASSUME NEW j \in Jobs, Finishing(j) PROVE PidsHeld'
  <2>1. CASE Reap(j)
    <3>1. /\ UNCHANGED <<pid, group, launch, blind, kill>> /\ launch[j] # "started" /\ launch[j] # "idle"
          /\ leader'[j] = "reaped" /\ \A i \in Jobs \ {j} : leader'[i] = leader[i]
      BY <1>a, <2>1 DEF Reap, Waited, TypeOK
    <3> QED BY <1>a, <3>1 DEF PidsHeld, Started, Successive, Trusted, Present
  <2>2. CASE FinishFirst(j) \/ FinishSecond(j)
    BY <1>a, <2>2, PidFrame DEF FinishFirst, FinishSecond
  <2> QED BY <1>3, <2>1, <2>2 DEF Finishing
<1>4. ASSUME NEW j \in Jobs, NEW k \in Killers, Killing(j, k) PROVE PidsHeld'
  <2>1. CASE KillLookup(j, k)
    <3>1. /\ UNCHANGED <<pid, group, leader, launch, blind>> /\ (j \in reg => launch[j] # "idle")
          /\ kill' = [kill EXCEPT ![j][k] = IF j \notin reg THEN "idle" ELSE IF Done(j) THEN "done" ELSE "live"]
      BY <1>a, <2>1 DEF KillLookup, Lifecycle, Origin, Admitted
    <3>2. /\ kill'[j][k] \in {"idle", "done", "live"} /\ (kill'[j][k] # "idle" => pid[j] # NoPid)
          /\ \A i \in Jobs, n \in Killers : i # j \/ n # k => kill'[i][n] = kill[i][n]
      BY <1>a, <3>1 DEF PidsHeld, TypeOK, Started
    <3>3. ASSUME NEW i \in Jobs PROVE Trusted(i)'
      BY <1>a, <3>1, <3>2 DEF PidsHeld, Trusted, Present
    <3> QED BY <1>a, <3>1, <3>3 DEF PidsHeld, Started, Successive
  <2>2. CASE KillStep(j, k)
    BY <1>a, <2>2, KillShape, KillKeepsPids
  <2> QED BY <1>4, <2>1, <2>2 DEF Killing
<1>5. CASE Age \/ ReaperTick \/ ShutdownFirst \/ ShutdownSecond
  BY <1>a, <1>5, PidFrame DEF Age, ReaperTick, ShutdownFirst, ShutdownSecond
<1>6. ASSUME NEW w \in Waiters, Waiting(w) PROVE PidsHeld'
  BY <1>a, <1>6, PidFrame DEF Waiting, WaitCall, WaitWakes, WaitTimesOut, Answer
<1>7. CASE UNCHANGED vars
  BY <1>a, <1>7, PidFrame DEF vars
<1> QED BY <1>1, <1>2, <1>3, <1>4, <1>5, <1>6, <1>7 DEF Next

(* PidInv is an inductive invariant: what a kill has looked at is still the *)
(* process that it took the pid from.                                       *)
THEOREM PidInductive == ASSUME PidsSettle PROVE Spec => []PidInv
<1>1. Init /\ IInv => PidInv
  BY KindsAssumption DEF Init, PidInv, PidsHeld, Started, Successive, Trusted
<1>2. PidInv /\ [Next]_vars /\ IInv' => PidInv'
  BY PidStep
<1> QED BY <1>1, <1>2, Inductive, PTL DEF Spec

(* A SIGKILL that reaches a leader was sent by a kill of its own job, or   *)
(* by the rejection of its own launch.                                     *)
LEMMA StrikesOwn ==
  ASSUME PidInv, [Next]_vars, NEW i \in Jobs, Struck(i)
  PROVE  (\E k \in Killers : kill'[i][k] # kill[i][k]) \/ launch'[i] # launch[i]
<1>a. TypeOK
  BY DEF PidInv, PidsHeld, IInv
<1> USE DEF Struck, kernel, table, calls
<1>1. ASSUME NEW j \in Jobs, Kernel(j) PROVE FALSE
  BY <1>a, <1>1 DEF Kernel, LeaderExits, ForkMember, ForkEscapee, MemberExits, EscapeeExits, TypeOK
<1>2. ASSUME NEW j \in Jobs, Launching(j) PROVE launch'[i] # launch[i]
  <2>1. CASE RejectLaunch(j)
    <3>1. pid[i] = pid[j] /\ Present(i) /\ launch[j] = "started" /\ launch'[j] = "rejecting"
      BY <1>a, <2>1 DEF RejectLaunch, SigKill, TypeOK, Present
    <3>2. leader[j] # "reaped"
      BY <3>1 DEF PidInv, PidsHeld, Started
    <3>3. i \in Int /\ j \in Int
      BY SizesAssumption DEF Jobs
    <3> QED BY <3>1, <3>2, <3>3, RunnerHasPid
  <2>2. CASE ~RejectLaunch(j)
    BY <1>a, <1>2, <2>2 DEF Launching, Launch, Register, RegisterAnyway, RejectReturns, StoreTimer, TypeOK
  <2> QED BY <2>1, <2>2
<1>3. ASSUME NEW j \in Jobs, Finishing(j) PROVE FALSE
  BY <1>a, <1>3 DEF Finishing, Reap, FinishFirst, FinishSecond, TypeOK
<1>4. ASSUME NEW j \in Jobs, NEW k \in Killers, Killing(j, k) PROVE kill'[i][k] # kill[i][k]
  <2>1. KillStep(j, k)
    BY <1>4 DEF Killing, KillLookup
  <2>2. i = j /\ SigKill(pid[j])
    BY <1>a, <2>1, KillStrikesOwn, KillShape DEF NoSignal
  <2>3. ~NoSignal
    BY DEF NoSignal
  <2> QED
    BY <1>a, <2>1, <2>2, <2>3 DEF KillStep, KillBlind, KillRefuses, KillNobody, KillOrphansFirst, KillOrphansSecond,
       KillOrphansThird, KillLeaderFirst, KillLeaderSecond, KillMarks, Goes, Seen, TypeOK
<1>5. CASE Age \/ ReaperTick \/ ShutdownFirst \/ ShutdownSecond \/ UNCHANGED vars
  BY <1>5 DEF Age, ReaperTick, ShutdownFirst, ShutdownSecond, vars
<1>6. ASSUME NEW w \in Waiters, Waiting(w) PROVE FALSE
  BY <1>6 DEF Waiting, WaitCall, WaitWakes, WaitTimesOut, Answer
<1> QED BY <1>1, <1>2, <1>3, <1>4, <1>5, <1>6 DEF Next

(* A pid that was recycled never turns a kill against the leader of        *)
(* another job, as long as the kernel recycles none during a kill.         *)
THEOREM StrayKillExcluded == ASSUME PidsSettle PROVE Spec => NoStrayKill
<1>1. PidInv /\ [Next]_vars =>
        [\A j \in Jobs : Struck(j) => (\E k \in Killers : kill'[j][k] # kill[j][k]) \/ launch'[j] # launch[j]]_vars
  BY StrikesOwn
<1> QED BY <1>1, PidInductive, PTL DEF Spec, NoStrayKill
=============================================================================
