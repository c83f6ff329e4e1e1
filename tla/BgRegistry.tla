----------------------------- MODULE BgRegistry -----------------------------
(***************************************************************************)
(* The supervision of background jobs (executor.go): the registry bgProcs  *)
(* and its tombstones under bgMu, the launch of a job under a cap, the     *)
(* goroutine that waits for its process, the staged killBackground called  *)
(* by a user, by the job's max-age timer, by the reaper and by shutdown,   *)
(* and the callers blocked in ctx_bg action=wait.                          *)
(*                                                                         *)
(* An action is one critical section of bgMu, or one observation of /proc  *)
(* together with the signal sent on the strength of it.  What the code     *)
(* does without the lock between two of them is a pc of the goroutine.     *)
(*                                                                         *)
(* Job j is the j-th process started; its number stands for its registry   *)
(* id, for its StartedAt and for the kernel's start time, which all grow   *)
(* in this order.  Log files, temp files and their removal are the tail of *)
(* the action that unlinks the entry: the properties only need to know     *)
(* whether an entry still holds its handles (fin).                         *)
(***************************************************************************)
EXTENDS Integers, FiniteSets

CONSTANTS
  NJobs,         \* launches of one server run
  Pids,          \* process ids of the kernel
  NoPid,         \* the pid of a job that was never started
  Waiters,       \* concurrent calls of ctx_bg action=wait
  Killers,       \* the callers of killBackground, one call at a time for a job
  Kin,           \* descendants that a job may leave: see ForkMember
  Ends,          \* exit codes of a leader that no SIGKILL ends
  MaxProcs,      \* maxBackgroundProcs
  MaxCompleted,  \* maxCompletedBackgroundJobs
  MaxTombs,      \* maxBackgroundTombstones
  PidReuse,      \* when the kernel hands out a pid again: see FreePid
  ProcfsFails    \* when a read of /proc/<pid>/stat may fail

Jobs == 1..NJobs

ASSUME SizesAssumption ==
  /\ NJobs \in Nat /\ MaxProcs \in Nat /\ MaxCompleted \in Nat /\ MaxTombs \in Nat
ASSUME KindsAssumption ==
  /\ NoPid \notin Pids
  /\ Killers \subseteq {"user", "timer", "reaper", "shutdown"}
  /\ Kin \subseteq {"held", "quiet", "escaped"}
  /\ Ends \subseteq {"ok", "minus1"}
  /\ PidReuse \in {"never", "settled", "any"}
  /\ ProcfsFails \subseteq {"register", "kill"}

VARIABLES
  launch,     \* the runCmd call that starts the job
  pid,        \* the process id of its leader, and the id of its process group
  leader,     \* the leader in the kernel
  code,       \* the exit code of the leader, "minus1" when a signal ended it
  group,      \* the other processes of its group: they hold its pipe or are quiet
  escapee,    \* jobs with a setsid descendant that holds the output pipe
  blind,      \* jobs whose start time could not be read when they registered
  reg,        \* bgProcs
  tomb,       \* bgTombstones
  exit,       \* Done and ExitCode of the entry: "running" while Done is false
  finishedAt, \* when finishBackground marked it Done, 0 when it did not
  signaled,   \* jobs whose done channel is closed
  fin,        \* the Wait goroutine: "half" between finishBackground's two sections
  timer,      \* the max-age timer: "stored" once the entry holds its handle
  kill,       \* kill[j][k]: the killBackground call of k for j
  todo,       \* ids collected by the reaper and by shutdown, not yet killed
  waiter,     \* the ctx_bg wait calls
  aged,       \* jobs 1..aged are older than defaultBackgroundMaxAge
  phase       \* the server

kernel == <<pid, leader, code, group, escapee>>
table == <<reg, tomb, exit, finishedAt, signaled>>
calls == <<launch, blind, fin, timer, kill, todo, waiter, aged, phase>>
vars == <<kernel, table, calls>>

LaunchPc == {"idle", "started", "registered", "returned", "rejecting", "rejected"}
KillPc == {"idle", "live", "done", "grace", "orphans", "drain", "mark"}
WaitPc == {"idle", "blocked", "result", "timeout", "nomatch", "lost"}
Lists == {"reaper", "shutdown"}

TypeOK ==
  /\ launch \in [Jobs -> LaunchPc]
  /\ pid \in [Jobs -> Pids \cup {NoPid}]
  /\ leader \in [Jobs -> {"none", "alive", "doomed", "zombie", "reaped"}]
  /\ code \in [Jobs -> {"none", "ok", "minus1"}]
  /\ group \in [Jobs -> {"none", "held", "quiet", "doomed"}]
  /\ escapee \subseteq Jobs /\ blind \subseteq Jobs
  /\ reg \subseteq Jobs /\ tomb \subseteq Jobs /\ signaled \subseteq Jobs
  /\ exit \in [Jobs -> {"running", "ok", "minus1"}]
  /\ finishedAt \in [Jobs -> Nat]
  /\ fin \in [Jobs -> {"waiting", "half", "done"}]
  /\ timer \in [Jobs -> {"none", "running", "stored", "off"}]
  /\ kill \in [Jobs -> [Killers -> KillPc]]
  /\ todo \in [Lists -> SUBSET Jobs]
  /\ waiter \in [Waiters -> [pc : WaitPc, job : Jobs \cup {0}]]
  /\ aged \in 0..NJobs
  /\ phase \in {"up", "killing", "down"}

Init ==
  /\ launch = [j \in Jobs |-> "idle"]
  /\ pid = [j \in Jobs |-> NoPid]
  /\ leader = [j \in Jobs |-> "none"]
  /\ code = [j \in Jobs |-> "none"]
  /\ group = [j \in Jobs |-> "none"]
  /\ escapee = {} /\ blind = {} /\ reg = {} /\ tomb = {} /\ signaled = {}
  /\ exit = [j \in Jobs |-> "running"]
  /\ finishedAt = [j \in Jobs |-> 0]
  /\ fin = [j \in Jobs |-> "waiting"]
  /\ timer = [j \in Jobs |-> "none"]
  /\ kill = [j \in Jobs |-> [k \in Killers |-> "idle"]]
  /\ todo = [l \in Lists |-> {}]
  /\ waiter = [w \in Waiters |-> [pc |-> "idle", job |-> 0]]
  /\ aged = 0
  /\ phase = "up"

-----------------------------------------------------------------------------
(* The registry. *)

Done(j) == exit[j] # "running"

Live == {j \in reg : ~Done(j)}

ReleasedOnceMarked(j) == Done(j)

(* The entry no longer holds its log and its temp files. *)
Released(j) == fin[j] # "waiting"

(* lookupBackgroundLocked, for an id. *)
Known(j) == j \in reg \cup tomb

(* The tombstones that survive pruneBackgroundTombstonesLocked: the newest *)
(* by finishedAt; equal times are ordered by an unstable sort.             *)
Retained(S, f) ==
  {T \in SUBSET S :
     /\ Cardinality(T) = IF Cardinality(S) <= MaxTombs THEN Cardinality(S) ELSE MaxTombs
     /\ \A e \in S \ T, t \in T : f[e] <= f[t]}

ExcessOffByOne(C) == {i \in C : Cardinality({n \in C : n > i}) > MaxCompleted}

(* pruneCompletedBackgroundJobsLocked on the completed entries C: the      *)
(* oldest by StartedAt beyond the newest MaxCompleted.                     *)
Excess(C) == {i \in C : Cardinality({n \in C : n > i}) >= MaxCompleted}

(* stopMaxAgeTimerLocked: only a stored handle can be stopped. *)
Stopped(t) == IF t = "stored" THEN "off" ELSE t

(* markBackgroundKilled. *)
MarkKilled(j) ==
  IF j \in reg /\ ~Done(j)
  THEN /\ exit' = [exit EXCEPT ![j] = "minus1"]
       /\ timer' = [timer EXCEPT ![j] = Stopped(@)]
  ELSE UNCHANGED <<exit, timer>>

-----------------------------------------------------------------------------
(* The kernel. *)

(* The leader has a /proc entry; a zombie still has one. *)
Present(j) == leader[j] \in {"alive", "doomed", "zombie"}

(* exec's Wait returns once every holder of the output pipe is gone. *)
PipeClosed(j) == group[j] \in {"none", "quiet"} /\ j \notin escapee

(* A pid can be given to a new process once nothing has it as its process  *)
(* id or its group id.  "settled": and no killBackground call is between   *)
(* two of its looks at /proc; "never": pids do not wrap around in a run.   *)
FreePid(p) ==
  \A i \in Jobs : pid[i] = p =>
    /\ leader[i] = "reaped" /\ group[i] = "none"
    /\ PidReuse # "never"
    /\ PidReuse = "settled" => \A k \in Killers : kill[i][k] = "idle"

(* kill(-p, SIGKILL) to the process group p, whoever leads it now. *)
SigKill(p) ==
  /\ leader' = [i \in Jobs |-> IF pid[i] = p /\ leader[i] = "alive" THEN "doomed" ELSE leader[i]]
  /\ group' = [i \in Jobs |-> IF pid[i] = p /\ group[i] # "none" THEN "doomed" ELSE group[i]]

(* The leader exits by itself, on a SIGTERM it may have been sent, or      *)
(* because it was sent a SIGKILL.                                          *)
LeaderExits(j) ==
  /\ leader[j] \in {"alive", "doomed"}
  /\ \E c \in IF leader[j] = "doomed" THEN {"minus1"} ELSE Ends : code' = [code EXCEPT ![j] = c]
  /\ leader' = [leader EXCEPT ![j] = "zombie"]
  /\ UNCHANGED <<pid, group, escapee, table, calls>>

(* A descendant stays in the group and holds the pipe ("held"), stays in   *)
(* the group with its output redirected ("quiet"), or leaves the session   *)
(* with the pipe ("escaped").                                              *)
ForkMember(j) ==
  /\ leader[j] = "alive" /\ group[j] = "none"
  /\ \E kind \in Kin \ {"escaped"} : group' = [group EXCEPT ![j] = kind]
  /\ UNCHANGED <<pid, leader, code, escapee, table, calls>>

ForkEscapee(j) ==
  /\ leader[j] = "alive" /\ "escaped" \in Kin /\ j \notin escapee
  /\ escapee' = escapee \cup {j}
  /\ UNCHANGED <<pid, leader, code, group, table, calls>>

MemberExits(j) ==
  /\ group[j] # "none"
  /\ group' = [group EXCEPT ![j] = "none"]
  /\ UNCHANGED <<pid, leader, code, escapee, table, calls>>

EscapeeExits(j) ==
  /\ j \in escapee
  /\ escapee' = escapee \ {j}
  /\ UNCHANGED <<pid, leader, code, group, table, calls>>

-----------------------------------------------------------------------------
(* Launching a job. *)

(* runCmd: the unlocked pre-check of the cap, then cmd.Start. *)
Launch(j) ==
  /\ phase = "up"
  /\ launch[j] = "idle" /\ \A i \in Jobs : i < j => launch[i] # "idle"
  /\ Cardinality(Live) < MaxProcs
  /\ \E p \in Pids : FreePid(p) /\ pid' = [pid EXCEPT ![j] = p]
  /\ leader' = [leader EXCEPT ![j] = "alive"]
  /\ launch' = [launch EXCEPT ![j] = "started"]
  /\ UNCHANGED <<code, group, escapee, table, blind, fin, timer, kill, todo, waiter, aged, phase>>

(* registerBackground under the cap; runCmd then starts the goroutine that *)
(* waits for the process, and the timer.                                   *)
RegisterAnyway(j) ==
  /\ launch[j] = "started"
  /\ reg' = reg \cup {j}
  /\ \/ blind' = blind
     \/ "register" \in ProcfsFails /\ blind' = blind \cup {j}
  /\ launch' = [launch EXCEPT ![j] = "registered"]
  /\ timer' = [timer EXCEPT ![j] = "running"]
  /\ UNCHANGED <<kernel, tomb, exit, finishedAt, signaled, fin, kill, todo, waiter, aged, phase>>

Register(j) == Cardinality(Live) < MaxProcs /\ RegisterAnyway(j)

(* registerBackground over the cap, a concurrent launch won: runCmd sends  *)
(* a SIGKILL to the group it has just started and waits for it.            *)
RejectLaunch(j) ==
  /\ launch[j] = "started"
  /\ Cardinality(Live) >= MaxProcs
  /\ SigKill(pid[j])
  /\ launch' = [launch EXCEPT ![j] = "rejecting"]
  /\ UNCHANGED <<pid, code, escapee, table, blind, fin, timer, kill, todo, waiter, aged, phase>>

RejectReturns(j) ==
  /\ launch[j] = "rejecting" /\ leader[j] = "reaped" /\ PipeClosed(j)
  /\ launch' = [launch EXCEPT ![j] = "rejected"]
  /\ UNCHANGED <<kernel, table, blind, fin, timer, kill, todo, waiter, aged, phase>>

(* runCmd's last critical section: the entry gets the timer's handle, or   *)
(* the timer is stopped because the job is already Done.                   *)
StoreTimerAlways(j) ==
  /\ phase # "down" /\ launch[j] = "registered"
  /\ launch' = [launch EXCEPT ![j] = "returned"]
  /\ timer' = [timer EXCEPT ![j] = IF @ = "running" THEN "stored" ELSE @]
  /\ UNCHANGED <<kernel, table, blind, fin, kill, todo, waiter, aged, phase>>

StoreTimer(j) ==
  /\ phase # "down" /\ launch[j] = "registered"
  /\ launch' = [launch EXCEPT ![j] = "returned"]
  /\ timer' = [timer EXCEPT ![j] =
                 IF @ # "running" THEN @ ELSE IF Done(j) THEN "off" ELSE "stored"]
  /\ UNCHANGED <<kernel, table, blind, fin, kill, todo, waiter, aged, phase>>

-----------------------------------------------------------------------------
(* The goroutine that waits for the process, and finishBackground. *)

Waited(j) == launch[j] \in {"registered", "returned", "rejecting"} /\ phase # "down"

(* cmd.Wait collects the zombie; its pid is free from now on. *)
Reap(j) ==
  /\ Waited(j) /\ leader[j] = "zombie"
  /\ leader' = [leader EXCEPT ![j] = "reaped"]
  /\ UNCHANGED <<pid, code, group, escapee, table, calls>>

FinishUnwaited(j) ==
  /\ Waited(j) /\ launch[j] # "rejecting"
  /\ PipeClosed(j) /\ fin[j] = "waiting"
  /\ fin' = [fin EXCEPT ![j] = IF j \in reg THEN "half" ELSE "done"]
  /\ UNCHANGED <<kernel, table, launch, blind, timer, kill, todo, waiter, aged, phase>>

(* cmd.Wait returns; the first critical section takes the handles. *)
FinishFirst(j) ==
  /\ Waited(j) /\ launch[j] # "rejecting"
  /\ leader[j] = "reaped" /\ PipeClosed(j) /\ fin[j] = "waiting"
  /\ fin' = [fin EXCEPT ![j] = IF j \in reg THEN "half" ELSE "done"]
  /\ UNCHANGED <<kernel, table, launch, blind, timer, kill, todo, waiter, aged, phase>>

(* time.Now() as a stamp that grows: the count of natural ends so far. *)
Now == 1 + Cardinality({i \in Jobs : finishedAt[i] > 0})

StampMissing(j) == finishedAt[j]

Stamp(j) == IF Done(j) THEN finishedAt[j] ELSE Now

PlaceholderKept(j) == IF Done(j) THEN exit[j] ELSE code[j]

(* The real exit code replaces the placeholder -1 of a kill, if there is one. *)
ExitCode(j) == IF Done(j) /\ code[j] = "minus1" THEN exit[j] ELSE code[j]

(* The second critical section, for an entry that is still registered:     *)
(* mark it Done unless a kill did, close the done channel, prune.          *)
FinishEntry(j) ==
  /\ exit' = [exit EXCEPT ![j] = ExitCode(j)]
  /\ timer' = [timer EXCEPT ![j] = IF Done(j) THEN @ ELSE Stopped(@)]
  /\ signaled' = signaled \cup {j}
  /\ finishedAt' = [finishedAt EXCEPT ![j] = Stamp(j)]
  /\ LET pruned == Excess({i \in reg : (Done(i) \/ i = j) /\ Released(i)})
     IN /\ reg' = reg \ pruned
        /\ tomb' \in Retained(tomb \cup pruned, finishedAt')

FinishSecond(j) ==
  /\ phase # "down" /\ fin[j] = "half"
  /\ fin' = [fin EXCEPT ![j] = "done"]
  /\ IF j \in reg THEN FinishEntry(j) ELSE UNCHANGED <<table, timer>>
  /\ UNCHANGED <<kernel, launch, blind, kill, todo, waiter, aged, phase>>

-----------------------------------------------------------------------------
(* killBackground. *)

(* What a caller needs for a call of killBackground, and what it consumes: *)
(* any registered id, a timer that fires, an id of the reaper's or of      *)
(* shutdown's list; the reaper kills its list one after the other.         *)
Calls(j, k) ==
  \/ /\ k = "user" /\ phase = "up" /\ j \in reg
     /\ UNCHANGED <<timer, todo>>
  \/ /\ k = "timer" /\ timer[j] \in {"running", "stored"}
     /\ timer' = [timer EXCEPT ![j] = "off"]
     /\ UNCHANGED todo
  \/ /\ k \in Lists /\ j \in todo[k]
     /\ k = "reaper" => \A i \in Jobs : kill[i][k] = "idle"
     /\ todo' = [todo EXCEPT ![k] = @ \ {j}]
     /\ UNCHANGED timer

(* The lookup under bgMu, which copies Done. *)
KillLookup(j, k) ==
  /\ phase # "down" /\ kill[j][k] = "idle"
  /\ Calls(j, k)
  /\ kill' = [kill EXCEPT ![j][k] =
                IF j \notin reg THEN "idle" ELSE IF Done(j) THEN "done" ELSE "live"]
  /\ UNCHANGED <<kernel, table, launch, blind, fin, waiter, aged, phase>>

(* The call of k for j is at one of the places in from and goes on to to. *)
Goes(j, k, from, to) ==
  /\ phase # "down" /\ kill[j][k] \in from
  /\ kill' = [kill EXCEPT ![j][k] = to]
  /\ UNCHANGED <<pid, code, escapee, reg, tomb, finishedAt, signaled>>
  /\ UNCHANGED <<launch, blind, fin, todo, waiter, aged, phase>>

NoSignal == UNCHANGED <<leader, group>>
NoMark == UNCHANGED <<exit, timer>>

Unreadable == "kill" \in ProcfsFails

(* The process that has j's pid now, if any, is a leader of its own group. *)
PidTaken(j) == \E i \in Jobs : pid[i] = pid[j] /\ Present(i)

(* findProcessGroupPIDs(pgid, starttime): processes of the group that      *)
(* started no earlier than the leader of j.                                *)
Survivors(j) == \E i \in Jobs : pid[i] = pid[j] /\ i >= j /\ (Present(i) \/ group[i] # "none")

(* It skips the processes that it cannot read. *)
NoneSeen(j) == ~Survivors(j) \/ Unreadable

Seen == {"live", "done"}

(* starttime == 0: the group is killed when the pid leads a group of its   *)
(* own, and otherwise the job is taken for dead.                           *)
KillBlind(j, k) ==
  /\ j \in blind
  /\ \/ kill[j][k] = "done" /\ NoSignal /\ NoMark
     \/ kill[j][k] = "live" /\ PidTaken(j) /\ SigKill(pid[j]) /\ MarkKilled(j)
     \/ kill[j][k] = "live" /\ (~PidTaken(j) \/ Unreadable) /\ NoSignal /\ MarkKilled(j)
  /\ Goes(j, k, Seen, "idle")

(* The identity cannot be verified, or the pid has another start time. *)
KillRefuses(j, k) ==
  /\ j \notin blind
  /\ Unreadable \/ (PidTaken(j) /\ ~Present(j))
  /\ Goes(j, k, Seen, "idle") /\ NoSignal /\ NoMark

KillNobodyUnmarked(j, k) ==
  /\ j \notin blind /\ ~PidTaken(j) /\ NoneSeen(j)
  /\ Goes(j, k, Seen, "idle") /\ NoSignal /\ NoMark

(* The leader is gone and nothing of its group is left. *)
KillNobody(j, k) ==
  /\ j \notin blind /\ ~PidTaken(j) /\ NoneSeen(j)
  /\ IF kill[j][k] = "live" THEN MarkKilled(j) ELSE NoMark
  /\ Goes(j, k, Seen, "idle") /\ NoSignal

(* The leader is gone and processes of its group survive: SIGTERM. *)
KillOrphansFirst(j, k) ==
  /\ j \notin blind /\ ~PidTaken(j) /\ Survivors(j)
  /\ Goes(j, k, Seen, "orphans") /\ NoSignal /\ NoMark

(* After 500ms: SIGKILL to those that are left. *)
KillOrphansSecond(j, k) ==
  \/ /\ Survivors(j)
     /\ SigKill(pid[j]) /\ Goes(j, k, {"orphans"}, "drain") /\ NoMark
  \/ /\ NoneSeen(j)
     /\ MarkKilled(j) /\ Goes(j, k, {"orphans"}, "idle") /\ NoSignal

(* After 100ms: an error when some are still there. *)
KillOrphansThird(j, k) ==
  /\ (Survivors(j) /\ NoMark) \/ (NoneSeen(j) /\ MarkKilled(j))
  /\ Goes(j, k, {"drain"}, "idle") /\ NoSignal

KillLeaderUnchecked(j, k) ==
  /\ j \notin blind /\ PidTaken(j)
  /\ Goes(j, k, Seen, IF kill[j][k] = "live" THEN "grace" ELSE "idle")
  /\ NoSignal /\ NoMark

(* The leader is there and has the recorded start time: SIGTERM to its     *)
(* group, unless the entry was already Done.                               *)
KillLeaderFirst(j, k) ==
  /\ j \notin blind /\ Present(j)
  /\ Goes(j, k, Seen, IF kill[j][k] = "live" THEN "grace" ELSE "idle")
  /\ NoSignal /\ NoMark

KillLeaderPolitely(j, k) == Goes(j, k, {"grace"}, "mark") /\ NoSignal /\ NoMark

(* After 500ms: SIGKILL to the group when the leader is still there or     *)
(* something of its group is; a failed read counts as nothing there.       *)
KillLeaderSecond(j, k) ==
  /\ \/ (Present(j) \/ Survivors(j)) /\ SigKill(pid[j])
     \/ ~Present(j) /\ NoneSeen(j) /\ NoSignal
     \/ Unreadable /\ NoSignal
  /\ Goes(j, k, {"grace"}, "mark") /\ NoMark

KillMarks(j, k) ==
  /\ MarkKilled(j)
  /\ Goes(j, k, {"mark"}, "idle") /\ NoSignal

KillStep(j, k) ==
  \/ KillBlind(j, k) \/ KillRefuses(j, k) \/ KillNobody(j, k)
  \/ KillOrphansFirst(j, k) \/ KillOrphansSecond(j, k) \/ KillOrphansThird(j, k)
  \/ KillLeaderFirst(j, k) \/ KillLeaderSecond(j, k) \/ KillMarks(j, k)

-----------------------------------------------------------------------------
(* The reaper and shutdown. *)

(* Time passes: the oldest job not yet older than defaultBackgroundMaxAge *)
(* becomes so.                                                            *)
Age ==
  /\ phase # "down" /\ "reaper" \in Killers
  /\ aged < NJobs /\ launch[aged + 1] # "idle"
  /\ aged' = aged + 1
  /\ UNCHANGED <<kernel, table, launch, blind, fin, timer, kill, todo, waiter, phase>>

TickWithoutKills ==
  /\ phase # "down" /\ "reaper" \in Killers
  /\ LET stale == {j \in reg : Done(j) /\ Released(j) /\ j <= aged}
     IN /\ reg' = reg \ stale
        /\ tomb' \in Retained(tomb \cup stale, finishedAt)
  /\ UNCHANGED <<kernel, exit, finishedAt, signaled, calls>>

(* A tick of backgroundReaperLoop: stale finished entries become           *)
(* tombstones, the ids of stale running ones are killed after the unlock.  *)
ReaperTick ==
  /\ phase # "down" /\ "reaper" \in Killers
  /\ todo["reaper"] = {} /\ \A i \in Jobs : kill[i]["reaper"] = "idle"
  /\ LET stale == {j \in reg : Done(j) /\ Released(j) /\ j <= aged}
     IN /\ reg' = reg \ stale
        /\ tomb' \in Retained(tomb \cup stale, finishedAt)
  /\ todo' = [todo EXCEPT !["reaper"] = {j \in Live : j <= aged}]
  /\ UNCHANGED <<kernel, exit, finishedAt, signaled, launch, blind, fin, timer, kill, waiter, aged, phase>>

(* shutdownBackground, once the MCP server has no call in flight: collect  *)
(* the running ids, each killed by a goroutine of its own.                 *)
ShutdownFirst ==
  /\ phase = "up" /\ "shutdown" \in Killers
  /\ \A j \in Jobs : launch[j] \in {"idle", "returned", "rejected"}
  /\ \A w \in Waiters : waiter[w].pc # "blocked"
  /\ "user" \in Killers => \A j \in Jobs : kill[j]["user"] = "idle"
  /\ todo' = [todo EXCEPT !["shutdown"] = Live]
  /\ phase' = "killing"
  /\ UNCHANGED <<kernel, table, launch, blind, fin, timer, kill, waiter, aged>>

DownAtOnce ==
  /\ phase = "killing"
  /\ reg' = {}
  /\ phase' = "down"
  /\ UNCHANGED <<kernel, tomb, exit, finishedAt, signaled>>
  /\ UNCHANGED <<launch, blind, fin, timer, kill, todo, waiter, aged>>

(* All the goroutines have returned: drop every entry; main returns. *)
ShutdownSecond ==
  /\ phase = "killing" /\ todo["shutdown"] = {}
  /\ \A j \in Jobs : kill[j]["shutdown"] = "idle"
  /\ reg' = {}
  /\ phase' = "down"
  /\ UNCHANGED <<kernel, tomb, exit, finishedAt, signaled>>
  /\ UNCHANGED <<launch, blind, fin, timer, kill, todo, waiter, aged>>

-----------------------------------------------------------------------------
(* toolBackgroundWait, for the id that the launch returned. *)

MustWaitWhileRunning(j) == ~Done(j)

(* The entry must still be waited for: it runs, or a kill has marked it    *)
(* and its Wait goroutine has not settled it.                              *)
MustWait(j) == ~Done(j) \/ (exit[j] = "minus1" /\ j \notin signaled)

Answer(w, p) ==
  /\ waiter' = [waiter EXCEPT ![w].pc = p]
  /\ UNCHANGED <<kernel, table, launch, blind, fin, timer, kill, todo, aged, phase>>

WaitCall(w, j) ==
  /\ phase = "up" /\ waiter[w].pc = "idle" /\ launch[j] = "returned"
  /\ waiter' = [waiter EXCEPT ![w] =
                  [pc |-> IF ~Known(j) THEN "nomatch" ELSE IF MustWait(j) THEN "blocked" ELSE "result",
                   job |-> j]]
  /\ UNCHANGED <<kernel, table, launch, blind, fin, timer, kill, todo, aged, phase>>

(* The done channel is closed: look the job up again. *)
WaitWakes(w) ==
  /\ phase = "up" /\ waiter[w].pc = "blocked" /\ waiter[w].job \in signaled
  /\ Answer(w, IF Known(waiter[w].job) THEN "result" ELSE "lost")

WaitTimesOut(w) ==
  /\ phase = "up" /\ waiter[w].pc = "blocked"
  /\ Answer(w, "timeout")

-----------------------------------------------------------------------------
Kernel(j) == LeaderExits(j) \/ ForkMember(j) \/ ForkEscapee(j) \/ MemberExits(j) \/ EscapeeExits(j)

Launching(j) == Launch(j) \/ Register(j) \/ RejectLaunch(j) \/ RejectReturns(j) \/ StoreTimer(j)

Finishing(j) == Reap(j) \/ FinishFirst(j) \/ FinishSecond(j)

Killing(j, k) == KillLookup(j, k) \/ KillStep(j, k)

Waiting(w) == (\E j \in Jobs : WaitCall(w, j)) \/ WaitWakes(w) \/ WaitTimesOut(w)

Next ==
  \/ \E j \in Jobs : Kernel(j) \/ Launching(j) \/ Finishing(j)
  \/ \E j \in Jobs, k \in Killers : Killing(j, k)
  \/ Age \/ ReaperTick \/ ShutdownFirst \/ ShutdownSecond
  \/ \E w \in Waiters : Waiting(w)

Spec == Init /\ [][Next]_vars

-----------------------------------------------------------------------------
(* Safety. *)

Admitted(j) == launch[j] \in {"registered", "returned"}

(* A job that the registry calls Done has no running leader: a kill marks  *)
(* the entry only when the process is gone or has its SIGKILL, so the slot *)
(* it frees is really free (markBackgroundKilled, executor.go:427).        *)
DoneMeansDead == \A j \in Jobs : Admitted(j) /\ Done(j) => leader[j] # "alive"

(* maxBackgroundProcs bounds processes, not only table entries: at most    *)
(* MaxProcs admitted jobs have a running leader, whatever launches, kills  *)
(* and ends are interleaved.                                               *)
RunningCap == Cardinality({j \in Jobs : Admitted(j) /\ leader[j] = "alive"}) <= MaxProcs

(* ctx_bg wait reports a result only for a job that is settled: its log is *)
(* closed, its done channel is closed, its exit code is final.             *)
WaitReportsSettled ==
  \A w \in Waiters : waiter[w].pc = "result" =>
    /\ waiter[w].job \in signaled
    /\ fin[waiter[w].job] = "done"

(* Once the done channel is closed, the exit code is the one that the      *)
(* kernel reported, also when a kill had put its placeholder -1 before.    *)
ExitCodeIsReal == \A j \in signaled : exit[j] = code[j] /\ code[j] # "none"

(* The launch has returned and the job is over: its max-age timer is not   *)
(* left behind, however the end raced with the store of the handle.        *)
TimerNotLeaked ==
  \A j \in Jobs : launch[j] = "returned" /\ Done(j) => timer[j] = "off"

(* The registry keeps at most MaxCompleted settled entries, and at most    *)
(* MaxTombs results beyond them.                                           *)
RetentionBounded ==
  /\ Cardinality({j \in reg : fin[j] = "done"}) <= MaxCompleted
  /\ Cardinality(tomb) <= MaxTombs

(* Until shutdown no entry leaves the registry before its Wait goroutine   *)
(* has taken over its log and its temp files: neither pruning nor the      *)
(* reaper loses an open file, also for a job that a kill has marked Done   *)
(* while a descendant keeps its pipe.                                      *)
HandlesNotLost ==
  phase # "down" => \A j \in Jobs : Admitted(j) /\ fin[j] = "waiting" => j \in reg

(* The comment on bgEntry.done: "done is closed once the job reaches a     *)
(* terminal state".  An entry that has left the registry of a running      *)
(* server, and can never be settled any more, has its channel closed.      *)
RemovedIsSignaled ==
  phase = "up" => \A j \in Jobs : Admitted(j) /\ j \notin reg => j \in signaled

(* The comment on maxBackgroundTombstones: "let wait consume an id         *)
(* returned just before pruning".  The step that settles a job leaves its  *)
(* result where wait finds it, even when it prunes the entry.              *)
SettledIsConsumable ==
  [][\A j \in Jobs : fin[j] = "half" /\ fin'[j] = "done" /\ j \in reg => Known(j)']_vars

(* The same for a job that no kill has marked. *)
NaturalEndIsConsumable ==
  [][\A j \in Jobs : fin[j] = "half" /\ fin'[j] = "done" /\ j \in reg /\ ~Done(j) => Known(j)']_vars

(* A SIGKILL reaches the leader of j. *)
Struck(j) == leader[j] = "alive" /\ leader'[j] = "doomed"

(* Only a kill of j itself, or the rejection of its launch, sends a        *)
(* SIGKILL to a leader: the start time keeps a recycled pid from being     *)
(* taken for the job that had it before.                                   *)
NoStrayKill ==
  [][\A j \in Jobs : Struck(j) => (\E k \in Killers : kill'[j][k] # kill[j][k]) \/ launch'[j] # launch[j]]_vars

(* The same for the other processes of the group. *)
NoStrayGroupKill ==
  [][\A j \in Jobs : group[j] \in {"held", "quiet"} /\ group'[j] = "doomed" =>
       (\E k \in Killers : kill'[j][k] # kill[j][k]) \/ launch'[j] # launch[j]]_vars

(* When shutdown is over no admitted job has a running leader. *)
ShutdownLeavesNone == phase = "down" => \A j \in Jobs : Admitted(j) => leader[j] # "alive"

-----------------------------------------------------------------------------
(* The inductive invariants behind the theorems of BgRegistryProofs. *)

(* What a job has gone through when it is at one place of its life. *)
Origin(j) ==
  /\ leader[j] \in {"zombie", "reaped"} => code[j] # "none"
  /\ fin[j] # "waiting" => leader[j] = "reaped" /\ Admitted(j)
  /\ j \in reg \/ Done(j) => Admitted(j)

(* How a job gets Done: by its Wait goroutine, which closes the channel    *)
(* and has the real exit code, or before it by a kill, with -1.            *)
Settlement(j) ==
  /\ j \in signaled => fin[j] = "done" /\ Done(j) /\ exit[j] = code[j]
  /\ Done(j) /\ j \notin signaled => exit[j] = "minus1"

(* Where the timer is while the launch goes on. *)
TimerKept(j) ==
  /\ launch[j] = "registered" => timer[j] \in {"running", "off"}
  /\ launch[j] = "returned" => timer[j] \in {"stored", "off"} /\ (Done(j) => timer[j] = "off")

Lifecycle == \A j \in Jobs : Origin(j) /\ Settlement(j) /\ TimerKept(j)

IInv == TypeOK /\ Lifecycle /\ WaitReportsSettled /\ HandlesNotLost

(* A call of killBackground that has seen the leader gone, or has sent it  *)
(* its SIGKILL, is right for good.                                         *)
Struggle(j) ==
  /\ \A k \in Killers :
       /\ kill[j][k] # "idle" => Admitted(j)
       /\ kill[j][k] \in {"done", "orphans", "drain", "mark"} => leader[j] # "alive"
  /\ Done(j) => leader[j] # "alive"

(* Shutdown still has to kill, or is killing, every job that runs. *)
Closing(j) ==
  /\ phase # "up" => launch[j] \in {"idle", "returned", "rejected"} /\ "shutdown" \in Killers
  /\ phase = "killing" /\ Admitted(j) /\ leader[j] = "alive" =>
       j \in todo["shutdown"] \/ kill[j]["shutdown"] \in {"live", "grace"}
  /\ phase = "down" /\ Admitted(j) => leader[j] # "alive"

KillInv == IInv /\ \A j \in Jobs : Struggle(j) /\ Closing(j)

-----------------------------------------------------------------------------
(* Liveness. *)

(* The kernel ends what got a SIGKILL; goroutines that can go on do; a     *)
(* timer that runs fires; time passes and the reaper ticks.  Nothing is    *)
(* assumed of the jobs themselves, of the users, or of shutdown.           *)
Fairness ==
  /\ \A j \in Jobs :
       /\ WF_vars(leader[j] = "doomed" /\ LeaderExits(j))
       /\ WF_vars(group[j] = "doomed" /\ MemberExits(j))
       /\ WF_vars(Register(j) \/ RejectLaunch(j))
       /\ WF_vars(RejectReturns(j))
       /\ WF_vars(StoreTimer(j))
       /\ WF_vars(Finishing(j))
  /\ \A j \in Jobs, k \in Killers : WF_vars(KillStep(j, k))
  /\ \A j \in Jobs, k \in Killers \cap {"timer", "reaper"} : WF_vars(KillLookup(j, k))
  /\ WF_vars(Age) /\ WF_vars(ReaperTick)

FairSpec == Spec /\ Fairness

(* Every started job that does not hide a descendant with the pipe is      *)
(* rejected or finished in the end: the timer and the reaper end its       *)
(* leader and what is left of its group, whatever races with what, and the *)
(* Wait goroutine closes its log and removes its temp files.  And no       *)
(* admitted job keeps its slot for ever, even when a hidden descendant     *)
(* keeps the Wait goroutine from returning.                                *)
JobsSettle ==
  \A j \in Jobs :
    /\ launch[j] = "started" ~> (fin[j] = "done" \/ launch[j] = "rejected" \/ j \in escapee)
    /\ launch[j] = "registered" ~> j \notin Live
=============================================================================
