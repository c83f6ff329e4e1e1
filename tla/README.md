# Verification of ctxmode

ctxmode is an MCP server in Go. It runs commands for a coding agent, in the
foreground, in batches or as supervised background jobs, keeps their output and
fetched pages in a searchable knowledge base (SQLite), and fences what it runs and
what it reads. A TypeScript bridge starts it as a child of an editor session. This
directory holds TLA+ models of the parts where order, time and failure decide
whether the code is right, TLC configurations that check them, and TLAPS proofs.

## 1. Inventory

| Part | State | What is hard | What makes it correct | Modules |
|---|---|---|---|---|
| Background jobs (`executor.go`) | registry, tombstones, timers, Wait goroutines | kills that look at /proc outside the lock, pid reuse, two critical sections in finish | cap on processes, no kill of a stranger, final results, bounded tables, everything settles | `BgRegistry`, proofs |
| Logs of jobs (`executor.go`) | ring file, position, fill | wrap-around, compaction under a reader, cuts at lines and characters | the tail is the newest lines of what the log keeps | `RingLog`, proofs |
| Foreground runs (`executor.go`, `batch.go`) | a process and its descendants | escapees, children that hold the pipe | every call returns; nothing of a killed command survives | `RunCmd`, proofs |
| Temp sources and logs (`executor.go`) | a directory shared by servers | launches that fail half-way, a shutdown into the end of a job, crashes, start-up cleaning | nothing is left behind, nothing is taken from a running job | `JobFiles`, proofs |
| FloodGuard (`floodguard.go`) | two rings of timestamps | wrap-around, expiry, full rings | answers as if nothing were forgotten | `FloodPolicy`, `FloodGuard`, proofs |
| Knowledge base, fetch, purge (`store.go`, `fetch.go`, `purge.go`) | documents, cache rows, singleflight, slots | two critical sections, stale row used after a check, callers that give up | cache and documents agree, refused content stays out, every call returns | `KbFetch`, proofs |
| Connections (`fetch.go`) | idle connections, redirects | DNS answers that change | no connection to an address of the listed ranges | `Dial`, proofs |
| Search (`search.go`, `store.go`) | two full-text indexes | writes between the two queries, an old or damaged database | scope kept, merged ranking fair, fallback used when it should | `Search`, proofs |
| Calls of ctx_run, tasks, batches (`main.go`, `batch.go`, `run_task.go`) | commands, deadline, slots, audit line | one of several steps fails | the audit line tells what happened, refused output is not kept | `CtxRun`, proofs |
| Audit log, statistics (`audit.go`, `stats.go`) | file, one rotated generation, counters | several processes, failing steps, torn writes | no record of the newest generations is lost but one after a torn one | `AuditLog`, proofs |
| File tools (`main.go`, `fs_tools.go`, `fs_resolve.go`) | walk, layers of ignore rules, inode set | caps, files that change between two looks, directories that cannot be read | what a tool owes is found or told to be missing; what was checked last was fit | `FileWalk`, proofs |
| rg (`fs_tools.go`, `fs_rg_rank.go`, `fs_rg_summary.go`) | bounded buffer, dedup map, dirty cache | concurrent probes, purges under the map, cut buffers and answers | pages partition a result; what is called indexed can be found, or was lost within the last ten minutes | `RgCapture`, `RgSearch`, proofs |
| ctx_git (`git_tools.go`) | none between calls | repositories that come and go between two runs of git | only repositories of a workspace are shown | `GitTool`, proofs |
| Shell screen (`shell_screen.go`, `shell_ast.go`) | collector over a script | loops, functions, redirections in order | the guards see what the shell will run and read | `ShellVars`, `ShellFeed`, proofs |
| Start-up migration (`main.go`) | old JSON store, database | a start that fails half-way | the old store is set aside after its migration only | `Migration` |
| Pi bridge (`integrations/pi/ctxmode.ts`) | child, pending requests, timers | events of an old child, stop during start | no orphan; every call is answered | `PiBridge`, proofs |
| Deployment (`deploy.sh`) | binary, backup, immutable bit | a script stopped at any command, no means to lock | there is always a verified binary | `Deploy`, proofs |
| Role guards, allowlist, content patterns | none | size | - | not modelled |
| Command line, doctor, hooks, install.sh | none | - | - | not modelled |

Interactions. The MCP router calls the tools, several at a time. `ctx_run` goes
through the screens to `runCmd`, which either waits or registers a job; jobs meet in
one registry under `bgMu`, touched at any time by Wait goroutines, timers, the
reaper, user kills and shutdown. Fetches, batches, walks and rg searches write to
the store under `server.mu`; searches and fetches ask a FloodGuard. Every call ends
in a line of the audit log. The bridge owns the server process. `PROJECT.json` lists
the hazards, each at its line, with the property that covers it.

## 2. Modules, runs, results

Modules that share no variable of the code are checked side by side: `MCKb`,
`MCHost` and `MCTools` choose one part in the initial state and let the others
rest, which costs the sum of the state spaces and not their product. The two parts of
`MCKb` share the document table, but no document: a fetch writes its own source, a
search its own label, and the one operation that touches both is a purge, which is a
step of either part (`PurgeIndexed` in `RgSearch`, `ToolPurge` in `KbFetch`). Parts that do
interact are in one module (`KbFetch` composes store, cache, singleflight, batches
and purges; `BgRegistry` composes the registry and the kernel; `AuditLog` composes
appenders, rotation and statistics; `CtxRun` composes checks, batch, store and
audit line; `PiBridge` composes client, processes and callers).

| Run | Module | Question | Answer |
|---|---|---|---|
| `safety` | `MCBgRegistry` | cap, bounds, timers, handles with three jobs, one slot and a timer that fires at any time | holds |
| `wait` | `MCBgRegistry` | what a blocked waiter is told, with kills and failing `/proc` reads | holds |
| `kernel` | `MCBgRegistry` | kills of two jobs over one recycled pid, with descendants, and shutdown | holds |
| `live` | `MCBgRegistry` | progress by the reaper alone, one slot | holds under fairness |
| `channel` | `MCBgRegistry` | "done is closed once the job reaches a terminal state" (`executor.go` 79) | violated |
| `handoff` | `MCBgRegistry` | "let wait consume an id returned just before pruning" (`executor.go` 40) | violated |
| `stray` | `MCBgRegistry` | "a recycled PID can never cause an unrelated process to be killed" (`executor.go` 69) | violated for members of a group |
| `flood` | `FloodGuard` | do the rings implement the policy over the whole history? | holds |
| `kb` | `MCKb` | three fetches, a purge, a changing page, a caller that gives up; two rg searches and purges | holds |
| `host` | `MCHost` | bridge, killed command, audit log, deployments | holds |
| `tools` | `MCTools` | what one tool call goes through, ten parts | holds |
| `migrate` | `Migration` | "Rename old file as backup only after successful migration" (`main.go` 1457) | violated |

The violated properties quote the code's own comments; `PROJECT.json` has the
scenarios. `NaturalEndIsConsumable` and `NoStrayKill` mark the border of two of
them: results that are lost are those of killed jobs only, and a *leader* is never
taken for another job.

The properties of the passing runs that are not about jobs:

| Property | What it says |
|---|---|
| `HitIsBacked` | a cache hit leaves documents that search finds, not older than what it reports while only cached fetches write |
| `RefusedNotStored`, `RowNeverGoesBack` | refused content enters neither table; the cache row does not go back to an older page |
| `NotCancelledByOthers`, `AllReturn` | a shared download is not cancelled with one of its callers; every call of every batch returns |
| `DirtyStateIsRecent`, `IndexedIsSearchable` | no git state older than its lifetime is used; "indexed under" is said only of what the store holds or will hold, or lost less than the ten minutes of an entry ago |
| `NoOrphan`, `WorkIsAwaited`, `EveryCallReturns` | the bridge refers to every child it has not told to end; the server works on nothing nobody waits for; calls return |
| `NothingLeftBehind`, `CommandReturns` | no descendant of a killed command that can be found lives on; the caller gets its answer |
| `RecordSurvives` | a line can be read until two rotations after its file was opened, unless it comes right after what a failed write has left; ctx_stats sums lines of its session and misses, but for such, none of the current file |
| `BinaryWorks` | at every moment the binary is a verified one; no script but one that SIGKILL ended rests without a last attempt to lock it |
| `OmissionIsTold`, `StoredIsFit` | a walk finds what it owes, of what can be read and is not too deep, or says that there is more; what was checked last before the open was a fit file, and what is stored is that or what was put in its place between the check and the open |
| `PagesPartition` | the first screen and the pages of one result hold every kept match once; an answer that is not called truncated has every match from its offset on, or has indexed them all; a rerun in another order of files has pages as long |
| `SearchIsFair` | a document that both indexes rank before another is not left out for it; none comes twice; "no matches" is said only if both indexes said so |
| `TailIsNewest` | a reader of a running or settled job's log sees its newest bytes in order and in whole characters: as many lines as it asked for, or all that begin in the window; nothing only where the window of a settled log is the end of one line; claimed while no write of the log has failed |
| `TempsFreed` | every temp file belongs to somebody, a source that a shutdown has overtaken to the next start's cleaning; a running job has its source |
| `AuditTells`, `SecretStays` | the audit line says what happened; a refused output is neither stored nor shown |
| `EveryWordIsScreened`, `StdinIsTracked` | each word the shell runs was handed to the guards as it is or as unknown; the standard input of each command likewise, unless it was opened by the path of a descriptor or by `<(...)` |
| `GitStaysInside` | ctx_git shows repositories of a workspace only, completely or with a note, without a refused line |
| `DialsAreChecked` | no connection, new or reused, goes to an address of the ranges of `fetch.go` 189, directly or embedded in IPv6, but for the local-use NAT64 addresses that the code does not decode |

### Bounds

Each bound is a constant of a cfg. The limits of the code (16 jobs, 64 tombstones,
64 dedup entries, the bytes of a log, 400 KB of git output) are scaled to 1-5
so that small histories reach them, cross them and wrap around; relations between
limits (`KeepLimit` is twice `ShowLimit`, `Capacity` is at least `TotalLimit`) are
kept. Two or three actors of each kind are used because every hazard listed is
between two, with a third as witness where the code merges or evicts. Faults
(`MaxFaults`, `MaxStops`, `MaxCrashes`, `MaxPurges`, `MaxChanges`) are one or two:
one to reach a state that nobody wrote a test for, another to hit its recovery.
A log has 5 bytes and its job writes up to 14, into a third round of the ring, with
lines of 1 to 5 bytes, empty ones among them, and runes of two bytes; readers ask for
one or two lines and for windows of 1, 2 and 4 bytes, and what a settled log is read by
(`MaxRead`) is shorter than its longest line. A response shows two lines (`MaxShown`),
fewer than a match with its context.
Runs stop when their bounds are used up, hence `CHECK_DEADLOCK FALSE` in the runs
that have no step for "nothing more to do".

### Fairness

`FairSpec` of `BgRegistry` asks weak fairness of what the Go runtime and the kernel
provide: a process with a pending SIGKILL ends, a goroutine that can run does, the
reaper's ticker ticks, time passes. Nothing is asked of jobs, users, timers' owners
or shutdown. `JobsSettle` excludes jobs with a descendant that left the session with
the pipe open: `cmd.Wait` of such a job returns when that descendant pleases, which
the code accepts. `MCSpec` asks that each fetch goes on (`Step(c)`: goroutines run,
a download ends by its timeout). `HostSpec` asks that timers fire, that the event
loop runs what is due, that a process told to end by SIGKILL or by a closed pipe
ends, and that a kill in progress goes on; the server need not answer and no
command need do anything by itself.

## 3. How the modules correspond to the code

**BgRegistry.** Job j is the j-th process started; its number stands for the id,
`StartedAt` and the kernel's start time, which grow in this order.

| Variable | Code |
|---|---|
| `reg`, `tomb` | `bgProcs`, `bgTombstones` |
| `exit`, `finishedAt`, `signaled` | `Done`/`ExitCode`, `finishedAt`, `doneSignaled` of an entry |
| `fin` | where the Wait goroutine is: `half` between the two critical sections of `finishBackground` |
| `timer`, `blind` | the max-age timer; entries registered with `starttime == 0` |
| `kill[j][k]`, `todo` | the call of `killBackground` by user, timer, reaper or shutdown; ids they have collected |
| `waiter`, `phase`, `aged` | wait calls, the server, the maximum age |
| `pid`, `leader`, `code`, `group`, `escapee` | the kernel |

An action is one critical section of `bgMu`, or one look at `/proc` with the signal
sent on the strength of it. SIGTERM only gives processes a reason to exit, which
they may do anyway. `PidReuse` is `never`, `settled` (a pid is not reused while a
kill of its old owner is between two looks at `/proc`) or `any`. `ProcfsFails` lets
the read of a start time fail at registration or in a kill. With failing reads a
kill may mark a job done that is alive (`executor.go` 934-948 explains the choice),
so `DoneMeansDead` and `RunningCap` are claimed for a readable procfs only.

**FloodPolicy, FloodGuard.** `FloodPolicy` says what the comments of
`floodguard.go` promise over the log of all calls. `FloodGuard` is the code: two
rings with head, tail and size, with the clamps of the constructors; `Policy ==
INSTANCE FloodPolicy` maps it to the policy, and `ImplementsPolicy` is the
refinement. `Allow` holds `fg.mu` from the clock to the end: one action.

**KbFetch.** One URL, one source. `docs` is the version that search finds, `row` the
cache row, `leader` the runner of `fetchGroup.Do`, `call` what each call has reached,
`apart` remembers that a purge, a direct fetch or a failed count came between the
two tables. `ReadCache`, `Count`, `Backfill`, `DropRow`, `JoinFlight`, `Download`,
`Index` and `StoreRow` with their failures are the steps of a call; `ToolPurge` is
`ctx_kb purge` with its arguments and confirmation.

**Dial.** `validateURL`, `DialContext`, `CheckRedirect` and the idle connections of the
client. An address is an IPv4 prefix, one of seven embeddings, the rest of the local-use
NAT64 prefix (`Undecoded`), or a class of IPv6; `Blocked` is `checkIP`, `Ranges` the
list of its comment.

**Search.** The opening of the store with its schema steps and health probe, then
the two queries with writes in between, the fusion of the rankings (`1/(60+rank)`)
and the fuzzy fallback. Rankings are any orders of what matches; scores are fractions,
because the sums of two shares must be compared exactly.

**RgSearch, RgCapture, FileWalk.** `RgSearch` has the two shared structures of
concurrent searches, the dirty cache and the dedup map, and what a purge does to the
documents the map speaks of (`gone` remembers when). `RgCapture` is one search from the
bytes rg writes into `limitedBuffer` to groups, pages and the summary, with the Go
engine beside it. Every page is a search of its own: `EachOnce` is about pages of one
result, `AsManyAgain` about the next run. `FileWalk` is one walk over a tree of five
entries whose kinds (plain, big, binary, hidden, sensitive, hard or symbolic links,
fifo, a file or a directory that cannot be opened) are chosen in the initial state, with
`.gitignore` rules, caps, and files that change, also into links, pipes and other names
of a sensitive file, under the three looks of the indexer. `WalkError` is the error a
walk passes for a directory it cannot read; only `index` makes a note of it. The last
matching rule of the last layer that has one decides (`RuleSays`, `Ignores`);
`tally.bytes` is `totalBytes`, which grows by the size seen at the first look, whatever
the file has become when it is read.

**GitTool.** Directories are sequences of names. `FindTop` runs git without
ceilings to name the root, `RunGit` with the parents of the workspaces as ceilings;
other processes make and remove repositories in between.

**CtxRun.** Checks, screens, commands of a batch in turn or in slots, the deadline,
indexing, answer and audit line. `file` and `fed` are the file of `execute_file` on
disk and what the code was given. **RunCmd** is the select of `runCmd` and
`executeCommand`; children fork, leave the group, close the pipe, and are adopted.

**RingLog** numbers bytes as they are written. A step of `Write` is one chunk: a call
whose bytes do not fit before the limit is several steps, as the loop has it;
`WriteFails` is a short or failed one, after which the ring is `broken`. `compact` is
three critical sections, each of which may fail. `TrimmedTail` is `trimBgLogTail` with
its cuts in their order: to a line after a cut prefix, to a window of bytes, to a number
of lines, to whole characters; of a live log the last is made once more (`Logical`).
**JobFiles** has two servers over one `os.TempDir()`; a source is taken out of the
registry in one step and removed in another (`RemoveSource`). **AuditLog** has an action
for each system call of append and rotation, failing or not. A write that fails may
leave nothing, a part of the line or all but its newline; `Readable` is what the scanner
of `ctx_stats` can parse of what then follows. **Migration** has crashes at any point of
a start.

**ShellVars** has a script walked by the collector and then run by a shell. `coll` is
`staticVars`, `litVars`, `taintedVars` and `ssaBlocked`, `emitted` the argument lists
handed over (`segs`, as a set: `dedupeSegTail`), `spot` the place of the recursive walk,
with the item of a loop that is enumerated (`enumVars`) and whether it is the walk over
the second parser's tree; one action is one statement. The shell (external) runs the
script from `place` on and has `todo` left of the statement there. **ShellFeed** replays
redirections on the collector's table of origins and on the kernel's descriptors.

**PiBridge**: an action is one turn of the event loop. **Deploy**: an action is one
command of `deploy.sh`; `BreaksOff` is a failing command or a signal that runs the traps,
`Kill` is SIGKILL. `LockImmutable` does nothing without the means (`script.chattr`) and may
fail without notice; `lapsed` remembers that.

## 4. Proofs

All theorems hold for every value of the constants that satisfies the named
assumptions; those in modules are evaluated by TLC in the runs, those in a theorem's
`ASSUME` are part of its statement.

`BgRegistryProofs`. `IInv` strengthens the safety invariants with `Lifecycle`, what
a job has gone through when it is at one place: a Wait goroutine past its start has
reaped its leader; a job is done because its channel is closed with the kernel's
exit code, or because a kill put -1; the timer is stored, off, or still local to
`runCmd`. `Inductive` gives `TypeCorrect`, `WaitCorrect`, `ExitCodeCorrect`,
`TimerCorrect` and `HandlesCorrect` without any assumption on `/proc`. `KillInv`
adds, for `ProcfsFails = {}`, that every call of `killBackground` past its first
look has a leader that is not alive any more, and that shutdown has every running
job on its list or in a call; it gives `DoneCorrect` and `ShutdownCorrect`.
`LiveBounded` counts the entries that are not done; with `DoneCorrect` it bounds
processes (`CapCorrect`). `RetentionInv` adds the two bounds of retention and the time
at which a settled entry ended: the entry that finishes last is the youngest, so
neither the prune nor the trim of the tombstones takes it (`RetentionCorrect`,
`EndIsConsumable`). `PidInv` adds that what a kill has looked at is still the process
of the job, and gives `StrayKillExcluded` under `PidsSettle`: start times are read at
registration, and the kernel does not recycle a pid between the look and the signal.
The second is the border of the finding `stray`, not a claim about Linux.

`FloodGuardProofs`. `Keeps(r, C)` says that the entries of ring r are, oldest first,
the newest calls of C, and that a call of the window is missing only when the ring
is full. Lemmas about one index, pruning and pushing make it inductive;
`AnswerExact` equates the code's answer with the policy's, because a full ring holds
`Capacity >= TotalLimit` calls of the window. It gives `PolicyImplemented`,
`PauseCorrect`, `WindowCountCorrect` and `RateCorrect`.

`KbFetchProofs`. `KbInv` has three parts: `FlightInv` (one flight at a time, and nobody
of it is cut short), `StoreInv` (the tables are not ahead of the page, and unless they
were set apart the documents are not older than the row), and `CallInv` (what a call at
one place has read or downloaded, compared with the tables as they are). The last is
needed because a hit indexes a row it read in an earlier step. Frame lemmas
(`FlightFrame`, `CallFrame`, `QuietFrame`) carry it over the steps of others. It gives
`TypeCorrect`, `SharedNotCancelled`, `RefusedStaysOut`, `RowMonotonic` and
`HitsAreBacked`.

`FileToolProofs`. For `RgSearch`, `CacheInv` (the entry of the dirty cache expires
within the lifetime of the moment at which its state was seen, and a search has seen
nothing before its own beginning but what the cache gave it) and `LabelInv` (a text that
the dedup map holds, or that was reported as indexed, is in the store, or the search
that found it first is yet to index it, or it was lost after the map's entry was made)
give `StateIsRecent` and `LabelsAreBacked`: `Promised` puts entries and reports on one
time line, so that a purge, which the map does not hear of, can only be younger than the
entry. Assumed (`Parameters`): both lifetimes are positive.

For `FileWalk`, `WalkInv` says what the file in hand may be: no directory and no
sensitive name from the moment it is taken; once it is checked, what was checked was a
plain file or a hard link that is no other name of a sensitive one, and what is there now
is that or whatever it was changed into since, of which the last look refuses links, large
and binary files (`StoredAlwaysFit`). It needs that the set of sensitive inodes stays
right while files change: another name of a sensitive file adds no inode.

`OmissionIsTold` speaks of a walk that is over, against the tree as it is; `OmitInv`
speaks of every moment between. `Ahead`: what is left is closed downwards, and the
directories above it, left behind, have let the walk in. `LayersFit`: the layers of
ignore rules are those of the directories on the way to what is left. From it follows
that what a layer says of an entry (the walk's question) is what the tree says of it
(`Shut`, the property's), although the walk asks about directories once, on the way
down, and the property about every entry. `Taken`: of what is behind the walk, the
candidates have been found once, or the answer says that there is more; `Counted` is
the same for `index`, with the file in hand. Both leave out what no walk can see
(`InView`, `PassedOver`): what is below a directory that cannot be read, or too deep for
an index run. Each tool's decision about one entry is
sound (`GlobSound` and its like, by `Sound`), pruning loses nothing but what is shut,
and at the end the candidates are what the tool owes (`OwedIs`). The ranking and its cut
of `resolve` and `related` come after the walk (`Finish`): they drop an entry only with
a note. Files may change during an index run; there the invariant names paths, not
contents. Assumed (`WalkParameters`): a file is of one of the listed kinds, and at
least one may be found. The tree has its five entries; their kinds, the rules, the
call and all limits are arbitrary.

For `RgCapture`, `CaptureInv` says that a buffer that has not overflowed holds every cell
rg has written, in order; so its lines are the lines rg wrote (`LinesAre`), the cut at
`FetchLimit` matches takes nothing away unless that many are there (`UpToAll`), and a
search by rg that ends without the truncation flag has kept all of its output. Then an
answer that does not say that there is more comes from everything rg found, and no match
is after its page (`AnswersAlwaysTell`). Assumed (`CaptureParameters`): the bounds are
numbers. An rg that failed half way and the Go engine are left out, as is the order of
the lines on the pages.

`PiBridgeProofs`. `PiInv` has, for every process, what its inbox, its work and its
answers may hold, and for the client which process it talks to and why each timer is
on. One lemma for each step of one process, one for each step of the client; the
theorems are `NoOrphanHolds` and `WorkHolds`. Assumed: processes are numbered from 1.

`HostProofs`. For `RunCmd`, `RunInv` says that no process of the group lives once the
group was killed (a dead parent cannot fork: `Fork` needs a parent that lives) and none
of the snapshot once it was swept (`NothingStays`); the transitive closure that finds
descendants stays opaque, the proof needs of it only that the snapshot is a set of
processes.

For `AuditLog`, `AuditInv` says which generation the file of an append is at each of its
steps, compared with the counter of rotations, in which file the line of an append that
is over stands, and what the reader of `ctx_stats` has summed (`RecordsSurvive`). Files
only grow (`SpoiledStays`), so what stands before a line, and with it whether the line can
be parsed, does not change. Assumed: lines belong to servers, and files are numbered from
1.

For `Deploy`, `Verified` (a file about to be renamed over the binary passed its
verification), `Stages` and `Relocks` (until the file is verified the binary is locked as
it was found, afterwards the traps are on) give `BinaryAlwaysWorks`. Assumed: the builds are
not called like the two marks for no file and an incomplete one.

`ToolProofs`. `StdinIsTracked` (`ShellFeed`) speaks of descriptor 0, but copies bring
any descriptor there: `FeedInv` says it of every descriptor the collector has seen, and
that one it has not seen delivers no text outside functions; each time but for what was
opened by name, a mark that copies carry along and the next redirection replaces.

For `ShellVars`, `CollInv` says what the collector knows: a variable with a value has one
write in the whole script, a top-level assignment that the walk has passed, and the value
is what this gives it (`Grounded`; a copy's source was assigned before, which the second
walk could spoil if it learnt anything new: `Noted` says that it does not); and every word
it has passed is with the guards as dynamic, by an assignment before it, or by each item
of its loop (`Handled`). `Running` says that the shell's variables agree with it from
their assignment on, also those a subshell will restore, that what is left to run comes
from the compound at hand or from the function, and that in an enumerated loop the
variable is one of the items. That no other write exists (`OneSet`, `LoopOnly`) carries
both over every step, since `preScanVarMutations` counts writes in branches, bodies and
functions too: `WordSeen` joins them. Assumed (`ScreenParameters`): scripts are what the
parser makes of them, and no literal is called like the two marks.

For `GitTool`, two prefixes of a path are comparable, so a root above the workspace is
at or above its parent, which is a ceiling that git does not pass (`FoundInside`); the
arithmetic of the two limits gives that an answer without a note is complete. Assumed:
`ShowLimit < KeepLimit`, workspaces are directories.

For `Dial`, `RangesBlocked` compares the tests of `checkIPv4` with each range of the
list, and `AllowedIsChecked` carries it to the embedded addresses; `DialInv` says that
idle connections, too, go to addresses that passed when they were opened, and that what
is dialled is what was checked (not what DNS answers later). Addresses whose form the
code does not decode pass as allowed and are left out of `Checked`. Assumed
(`DialParameters`): addresses are pairs of bytes, and no name is called `literal`.

For `Search`, `StoreInv` says that no index knows a document that is gone, and that the
first one has everything or nothing until the probe or the rebuilding is through, unless
a probe was taken in (`db.blind`); `AskInv` that the rankings name no document twice,
that a failed query is an empty ranking, and that a halved limit still leaves room for
two. The last is what the fallback rests on: fewer than two results then are all there
was, so one ranking can replace the fusion (`MergeAnswers`). Fairness of the fusion is
arithmetic: if one document is before another in both rankings, both of its shares are
larger (`SharesAdd`, `BothBefore`), and a cut of a list sorted by scores cannot separate
them the wrong way (`MergedIsFair`). Assumed (`SearchParameters`): the documents are
finitely many, and callers ask for at least four results (the tools ask for 5 and 20).

`CallProofs`. For `CtxRun`, `CommandOK` says what a command has at each place of its run
(exit code 0 means that its process succeeded or was left in the background; a refused
one has no process; what is stored has no secret), `CallOK` what the call has at each
stage. The aggregate of a batch is 0 only if all its exit codes are (`AggregateTells`);
`AuditAlwaysTells` and `SecretsStay` follow.

For `JobFiles`, `TempsFreed` is not inductive: a new server removes what is a day old,
so one needs that no source in use is old (`Fresh`), and a source must belong to the
launch it is named after (`Present`), also between leaving the registry and being
removed. Two lemmas carry the invariant over all steps: one launch goes on
(`LaunchGoesOn`), or several change and still claim what is there (`LaunchesGoOn`). Log
names are not claimed to be unique: two servers with one directory may share them
(section 6). Assumed (`CallParameters`, `LaunchParameters`): the bounds are numbers, and
each launch has its server.

For `RingLog`, `LogInv` says for every place of the ring which byte is there (`RingOK`):
linear until the file is full, then the newest at `pos` and the oldest behind it. So the
logical bytes are the newest ones from the first whole rune on (`Newest`), `compact`
saves and writes back just these, and a reader that measured the file before it was
settled is marked as unsure. Once a write has failed nothing is claimed of the bytes. The
larger half is what `trimBgLogTail` makes of a stretch of consecutive bytes. Each cut
yields a stretch again, and its lemma says where it begins: at the first whole rune
(`LeadingIs`), after the first end of a line (`NextLineIs`), at a window (`LastBytesIs`), at
the last lines (`LastLinesIs`); `TrailingIs` and `FinalIs` say where it ends. Lines are
counted as ends of lines in a stretch, by position on the code's side and by number on
the property's; a bijection equates the two (`CountIs`, from the theorems about finite
sets). `TailIs` puts the cuts together for any stretch, `LiveTail` and `FileTail` apply it
to the ring and to the end of the compacted file, where one has to see that a file that is
already cut at a rune and read from the middle is cut where the newest bytes would be.
Assumed (`LogParameters`): the limits are positive, the two bytes of a rune are no ends
of lines, and no rune begins with the second byte of another.

Only model-checked: the liveness properties (out of the prover's reach), and
`PagesPartition` as a whole: that the groups and the pages hold every kept line once,
what a rerun in another order has on its pages, and what the Go engine keeps, is computed
by folds over lines, so that a proof would be an induction over data. Of its promises, the
one about an answer that does not say that there is more is proved for searches by rg
(`AnswersAlwaysTell`). `MCTools` extends the modules that are proved about, so that TLC
checks the same definitions.

## 5. Not modelled

- The role guards (`role_guards.go`), the read-only allowlist and the rest of the
  parser's walk (`shell_ast.go`): some 15,000 lines of decisions over the flags of
  programs, without state or order. A model would be the table once more, and there
  is no shorter statement of what it should say. What they are given, the words and
  the standard input, is modelled. `ShellVars` has the statements that write a variable by
  assignment, `unset` and `for`. Builtins that write one otherwise are outside it: some
  are counted as writes by `preScanVarMutations` (`read`, `getopts`, `printf -v`), which
  is a table; `eval` and `mapfile` are not in the part of the shell that is modelled.
- The regular expressions for sensitive names and content, parsing of options,
  schemas, formatting of answers, HTML conversion, tokenizers, SQL and bm25: what
  they return is an arbitrary choice of the models.
- The choice of interpreters and the code wrapped around snippets (`executor.go`).
- `cli.go`, `doctor.go`, `install.sh`, the git hooks: they inspect or copy once.
- The dry run of purge (it changes nothing); several workspaces and ambiguous
  relative names in `toolStat`; directories that move during a call of ctx_git; two
  deployment scripts at a time; pid recycling in `RunCmd` (it is in `BgRegistry`).

## 6. Observations

Found while reading, outside the properties or at their border:

- `FTS5Health` probes with a token cut at eight characters, which the porter stemmer
  then changes: a healthy store whose first document begins with "information" is
  called unhealthy and rebuilt at every start (`store.go` 725-745). `COUNT(*)` on a
  table with external content reads the content table, so the comparison of counts
  cannot fail, and the trigram index is not probed.
- The fuzzy fallback of search needs an empty porter result and exactly one trigram
  hit, unlike its comment (`search.go` 296-299).
- `aggregateAuditLog` reads the current file only: ctx_stats undercounts after a
  rotation. `toolCtxRun` rejects some calls without an audit line (`router.go`
  56-66). Two servers that rotate twice in a row lose lines.
- With 64 entries in the dedup map the oldest is evicted also when the key is there
  already. A purge does not clear the map, and an entry stays when its indexing fails:
  for up to ten minutes the same search is then answered with a label that the store
  does not have (`fs_rg_summary.go` 123; `IndexedIsSearchable` bounds the time).
- rg: context lines before a file's first match are grouped with the file above; the
  first line of a cut buffer may be torn; an rg that fails after some output is
  returned as complete (`RgCapture` exempts it). Each page is a run of rg of its own,
  without `--sort` (`fs_tools.go` 1330-1403): pages of one search may repeat a match and
  miss another when rg prints the files in another order. A response is cut at 100 KB
  with a note (953-956), and what is cut off is on no later page.
- Walks: a pruned directory called `vendor` is not counted as an omission of the
  tool; `/foo` in `.gitignore` is not anchored; the Go engine skips files over 5 MB
  silently; the inode set cached at the start of a walk may go stale, and does not know
  sensitive files below directories that cannot be read. A directory deeper than
  `maxIndexDepth` is pruned without a note, unlike a file there (`main.go` 637). ls, glob,
  resolve, related and the Go engine pass over what they cannot read without a note
  (`fs_tools.go` 191, 402, 1776, 1847; `fs_resolve.go` 169).
- The inode of a file is checked by its path (`main.go` 1223-1241); the file that is then
  opened is refused only as a link (1252), and by its size and content. A file that is
  replaced in between by a hard link of a sensitive one is stored.
- A window that begins within a line is cut to the next line (`executor.go` 599), also
  when the text ends there: of a settled log whose last line is longer than the read
  nothing is shown. A failed write of a log, or of its compaction, is not reported; the
  tail may then be anything the file has (`RingLog` exempts it).
- The sources of a job are removed after `bgMu` is released (`executor.go` 366-370): a
  shutdown in between returns without them, and they stay until a start more than a day
  later.
- A failed write of an audit line (`audit.go` 428) may leave a part of it, to which the
  next line is glued; `ctx_stats` skips both (`stats.go` 201).
- `checkIP` decodes addresses of 64:ff9b:1::/48 only if bytes 6-11 are zero (`fetch.go`
  246); the comments at 199 and 244 speak of the whole prefix. The others pass.
- `feedThrough` takes every word of an input redirection for a file (`shell_ast.go`
  2071): `</dev/stdin`, `</dev/fd/N`, `</proc/self/fd/N` and `< <(...)` are not.
- Between the two critical sections of `finishBackground` and the end of `compact` a
  reader may find the ring file in file order (`executor.go` 531, 372). Log names
  have no pid: two servers may rename logs over each other (263), and start-up
  cleaning takes logs older than 24 h from a living server (1202-1232).
- After the cancellation of a concurrent batch the remaining commands are started
  and then killed.
- A forced fetch may join an older flight; a failed `SetCache` leaves the old row.
- A descendant that left the session *and* whose parent has exited before the
  snapshot is not found (`executor.go` 45 promises more).
- In `deploy.sh`, SIGKILL between unlock and relock leaves the binary unlocked, and so
  does a relock that is switched off or fails, without a message (126-133); in
  the bridge, a write after the `stdin.end()` of `stop()` has no 'error' listener.
- git diff keeps the newest 400 KB and shows the first 200 KB of those. With nested
  workspaces the ceilings make the second git fail for the outer repository.

## 7. Reading the modules

Operators whose name tells of a defect (`FinishUnwaited`, `StampMissing`,
`VerifiesAnything`, `NoCeilings`, `CopiedAsFile`, ...) are variants with a plausible
bug. No run uses them, except `RegisterAnyway`, a part of `Register`; `PROJECT.json`
names, for every property, the variant that must break it.
