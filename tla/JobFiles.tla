-------------------------------- MODULE JobFiles --------------------------------
(***************************************************************************)
(* The files of background jobs (executor.go): the source a language needs, *)
(* and the log, which is created under a random name and renamed after the *)
(* job's id.  Several servers may run on one host; ids are numbered by the *)
(* process, and the directory is os.TempDir().  A server may crash, or end *)
(* while a call is under way, and the next one clears away what is old.    *)
(* What happens to a job's process is BgRegistry.                          *)
(***************************************************************************)
EXTENDS Naturals, FiniteSets, Functions

CONSTANTS
  Hosts,      \* servers
  Jobs,       \* launches
  HostOf,     \* the server of a launch
  SharedTmp,  \* the servers have one os.TempDir()
  MaxLive,    \* maxBackgroundProcs
  MaxDone,    \* maxCompletedBackgroundJobs
  MaxEnds     \* bound: crashes and shutdowns

ASSUME LaunchParameters == HostOf \in [Jobs -> Hosts] /\ {MaxLive, MaxDone, MaxEnds} \subseteq Nat

VARIABLES
  host,  \* a server: up, ended or crashed, and its bgSeq
  job,   \* a launch: pc, its source, id and log, and what is still to be removed:
         \* temps by the end of its job, drop by the one that pruned it
  files, \* the directory: whose each file is
  aged,  \* files last written more than 24 hours ago
  ends   \* crashes and shutdowns so far

fileVars == <<host, job, files, aged, ends>>

Source(j) == <<"src", j>>

RawLog(j) == <<"log", j>>

FinalLog(h, id) == <<"bg", IF SharedTmp THEN "tmp" ELSE h, id>>

NoJob == [pc |-> "idle", source |-> {}, temps |-> {}, id |-> 0, log |-> {}, drop |-> {}]

FilesInit ==
  /\ host = [h \in Hosts |-> [state |-> "up", seq |-> 0]]
  /\ job = [j \in Jobs |-> NoJob]
  /\ files = <<>> /\ aged = {} /\ ends = 0

Up(j) == host[HostOf[j]].state = "up"

Is(j, pcs) == job[j].pc \in pcs

Sisters(j) == {i \in Jobs : HostOf[i] = HostOf[j]}

Without(S) == Restrict(files, DOMAIN files \ S)

With(f, p, j) == [q \in DOMAIN f \cup {p} |-> IF q = p THEN j ELSE f[q]]

-----------------------------------------------------------------------------
(* runCodeOpts: most languages get a source file; a shell command or an    *)
(* argv has none.  If it cannot be written it is removed again.            *)
WriteSource(j) ==
  /\ Is(j, {"idle"})
  /\ \/ /\ job' = [job EXCEPT ![j].pc = "written", ![j].source = {Source(j)}]
        /\ files' = With(files, Source(j), j)
     \/ job' = [job EXCEPT ![j].pc = "written"] /\ UNCHANGED files
     \/ job' = [job EXCEPT ![j].pc = "refused"] /\ UNCHANGED files
  /\ UNCHANGED host

(* runCmd: the first look at the cap, the log or the start of the process  *)
(* fails, and the launch is undone.                                        *)
RefusedKeepingSource(j) ==
  /\ Is(j, {"written"})
  /\ job' = [job EXCEPT ![j].pc = "refused"]
  /\ UNCHANGED <<host, files>>

LaunchRefused(j) ==
  /\ Is(j, {"written"})
  /\ job' = [job EXCEPT ![j].pc = "refused"]
  /\ files' = Without(job[j].source)
  /\ UNCHANGED host

Started(j) ==
  /\ Is(j, {"written"})
  /\ job' = [job EXCEPT ![j].pc = "started", ![j].log = {RawLog(j)}]
  /\ files' = With(files, RawLog(j), j)
  /\ UNCHANGED host

(* registerBackground under its lock: at the cap the process is killed,    *)
(* waited for and its files removed; otherwise the log is renamed, and     *)
(* keeps its name if it cannot be.                                         *)
Register(j) ==
  /\ Is(j, {"started"})
  /\ LET h == HostOf[j]
         id == host[h].seq + 1
         full == Cardinality({i \in Sisters(j) : Is(i, {"live", "taken"})}) >= MaxLive
     IN /\ host' = [host EXCEPT ![h].seq = id]
        /\ IF full
           THEN /\ job' = [job EXCEPT ![j].pc = "refused"]
                /\ files' = Without(job[j].source \cup job[j].log)
           ELSE \/ /\ job' = [job EXCEPT ![j].pc = "live", ![j].id = id, ![j].log = {FinalLog(h, id)}]
                   /\ files' = With(Without(job[j].log), FinalLog(h, id), j)
                \/ job' = [job EXCEPT ![j].pc = "live", ![j].id = id] /\ UNCHANGED files

(* finishBackground: the first critical section takes the sources and the  *)
(* handles.  A kill has marked the entry Done before, or not.              *)
FinishFirst(j) ==
  /\ Is(j, {"live"})
  /\ \E pc \in {"taken", "killed"} :
       job' = [job EXCEPT ![j].pc = pc, ![j].source = {}, ![j].temps = job[j].source]
  /\ UNCHANGED <<host, files>>

(* The sources are removed after the lock is released; the entry may have  *)
(* been pruned by then.                                                    *)
RemoveSource(j) ==
  /\ Is(j, {"taken", "killed", "gone"}) /\ job[j].temps # {}
  /\ files' = Without(job[j].temps)
  /\ job' = [job EXCEPT ![j].temps = {}]
  /\ UNCHANGED host

(* pruneCompletedBackgroundJobsLocked: all but the MaxDone newest of what  *)
(* is Done and has let go of its handles leaves the registry.              *)
Excess(j) ==
  LET done == {i \in Sisters(j) : Is(i, {"done", "killed"})} \cup {j}
  IN {i \in done : Cardinality({k \in done : job[k].id > job[i].id}) >= MaxDone}

(* The second critical section; the logs are removed after it.             *)
FinishSecond(j) ==
  /\ Is(j, {"taken", "killed"}) /\ job[j].temps = {}
  /\ job' = [i \in Jobs |-> IF i \in Excess(j) THEN [job[i] EXCEPT !.pc = "gone", !.drop = @ \cup job[i].log]
                            ELSE IF i = j THEN [job[i] EXCEPT !.pc = "done"] ELSE job[i]]
  /\ UNCHANGED <<host, files>>

RemoveLog(j) ==
  /\ Is(j, {"gone"}) /\ job[j].drop # {}
  /\ files' = Without(job[j].drop)
  /\ job' = [job EXCEPT ![j].drop = {}]
  /\ UNCHANGED host

JobStep(j) ==
  /\ Up(j) /\ UNCHANGED ends
  /\ \/ WriteSource(j) \/ LaunchRefused(j) \/ Started(j) \/ Register(j)
     \/ FinishFirst(j) \/ RemoveSource(j) \/ FinishSecond(j) \/ RemoveLog(j)
  /\ aged' = aged \cap DOMAIN files'

(* shutdownBackground removes what the registry has, and not what a        *)
(* finishBackground has taken out of it; main returns after it, whatever   *)
(* calls and ends of jobs are under way.                                   *)
Shutdown(h) ==
  /\ host[h].state = "up" /\ ends < MaxEnds /\ ends' = ends + 1
  /\ host' = [host EXCEPT ![h].state = "ended"]
  /\ LET entries == {j \in Jobs : HostOf[j] = h /\ Is(j, {"live", "taken", "killed", "done"})}
     IN /\ job' = [j \in Jobs |-> IF j \in entries THEN [job[j] EXCEPT !.pc = "gone"] ELSE job[j]]
        /\ files' = Without(UNION {job[j].source \cup job[j].log : j \in entries})
  /\ aged' = aged \cap DOMAIN files'

Crash(h) ==
  /\ host[h].state = "up" /\ ends < MaxEnds /\ ends' = ends + 1
  /\ host' = [host EXCEPT ![h].state = "crashed"]
  /\ UNCHANGED <<job, files, aged>>

(* A day passes.  No call and no job is allowed more than an hour.         *)
Running(j) == Up(j) /\ Is(j, {"started", "live"})

Busy(j) == Up(j) /\ Is(j, {"written", "started", "live", "taken", "killed"})

DayPasses ==
  /\ aged' = {p \in DOMAIN files : ~Busy(files[p])}
  /\ UNCHANGED <<host, job, files, ends>>

(* init: a new server clears away the old files of its directory; of the   *)
(* jobs of the one before nobody knows any more.                           *)
StartsAnew(h) ==
  /\ host[h].state # "up" /\ \E j \in Jobs : HostOf[j] = h /\ Is(j, {"idle"})
  /\ host' = [host EXCEPT ![h] = [state |-> "up", seq |-> 0]]
  /\ files' = Without({p \in aged : SharedTmp \/ HostOf[files[p]] = h})
  /\ job' = [j \in Jobs |-> IF HostOf[j] = h /\ ~Is(j, {"idle", "refused"})
                            THEN [job[j] EXCEPT !.pc = "lost"] ELSE job[j]]
  /\ aged' = aged \cap DOMAIN files'
  /\ UNCHANGED ends

FilesNext ==
  \/ \E j \in Jobs : JobStep(j)
  \/ \E h \in Hosts : Shutdown(h) \/ Crash(h) \/ StartsAnew(h)
  \/ DayPasses

FilesSpec == FilesInit /\ [][FilesNext]_fileVars

-----------------------------------------------------------------------------
(* The files a launch still has a use for, will remove itself, or could    *)
(* not help leaving: its server crashed, ended under the call, or ended    *)
(* between taking and removing its source (executor.go:366).               *)
Claims(j) ==
  CASE Is(j, {"written", "started", "live", "taken", "killed", "done", "lost"}) ->
         job[j].source \cup job[j].temps \cup job[j].log
    [] Is(j, {"gone"}) -> job[j].temps \cup job[j].drop
    [] OTHER           -> {}

(* Every file belongs to somebody: no way through a launch that fails, is  *)
(* refused at the cap, ends or is pruned leaves one behind, nor does a     *)
(* shutdown, but for the sources that the end of a job has just taken out  *)
(* of the registry; a later server finds those after a day.  And the       *)
(* source is there as long as the process runs.                            *)
TempsFreed ==
  /\ DOMAIN files \subseteq UNION {Claims(j) : j \in Jobs}
  /\ \A j \in Jobs : Running(j) => job[j].source \subseteq DOMAIN files
=============================================================================
