------------------------------ MODULE HostProofs ------------------------------
(***************************************************************************)
(* What the parts that touch the host never do: NothingLeftBehind of       *)
(* RunCmd for every number of processes, RecordSurvives of AuditLog for    *)
(* every number of appends, servers, files and faults, and BinaryWorks of  *)
(* Deploy for every set of builds and every number of scripts and stops.   *)
(***************************************************************************)
EXTENDS Deploy, RunCmd, AuditLog, SequenceTheorems, TLAPS

-----------------------------------------------------------------------------
(* A foreground command. *)

ProcRecords ==
  [life : {"none", "alive", "dead"}, parent : Pids \cup {"init"}, group : BOOLEAN,
   pipe : BOOLEAN, doomed : BOOLEAN]

CmdRecords ==
  [pc : {"waiting", "snapshot", "term", "grace", "kill", "drain", "sweep", "returned"}, done : BOOLEAN,
   why : {"none", "exit", "timeout", "cancel"}, escaped : SUBSET Kids, forced : BOOLEAN]

RunTypes == cmd \in CmdRecords /\ proc \in [Pids -> ProcRecords]

(* The snapshot has only processes that have been born, which no fork can  *)
(* bring to life again; what left the group does not fork into it.         *)
RunInv ==
  /\ RunTypes
  /\ \A p \in cmd.escaped : proc[p].life # "none"
  /\ cmd.forced = TRUE => \A p \in Pids : Lives(p) => proc[p].group = FALSE
  /\ cmd.pc = "returned" /\ cmd.why # "exit" => \A p \in cmd.escaped : ~Lives(p)

(* What a process does to itself, or its end to the others. *)
LEMMA MortalsKeep ==
  ASSUME RunInv, UNCHANGED cmd, proc' \in [Pids -> ProcRecords],
         \A q \in Pids : /\ proc'[q].life \in {proc[q].life, "dead"}
                         /\ proc'[q].life = "none" => proc[q].life = "none"
                         /\ proc'[q].life = "alive" => proc'[q].doomed = proc[q].doomed
                         /\ proc'[q].life = "alive" /\ proc'[q].group = TRUE => proc[q].group = TRUE
  PROVE  RunInv'
<1>1. cmd.escaped \subseteq Pids /\ cmd.forced \in BOOLEAN
  BY DEF RunInv, RunTypes, CmdRecords, Pids
<1>2. \A q \in Pids : Lives(q)' => Lives(q)
  BY DEF Lives
<1>3. \A q \in Pids : proc[q].group \in BOOLEAN /\ proc'[q].group \in BOOLEAN
  BY DEF RunInv, RunTypes, ProcRecords
<1>4. cmd.forced' = TRUE => \A q \in Pids : Lives(q)' => proc'[q].group = FALSE
  BY <1>2, <1>3 DEF RunInv, Lives
<1> QED BY <1>1, <1>2, <1>4 DEF RunInv, RunTypes, Lives

LEMMA ProcessStepKeeps ==
  ASSUME RunInv, ProcessStep
  PROVE  RunInv'
<1>0. UNCHANGED cmd /\ proc \in [Pids -> ProcRecords]
  BY DEF ProcessStep, Fork, Setsid, ClosePipe, ProcessExits, RunInv, RunTypes
<1>1. ASSUME NEW p \in Pids, NEW q \in Kids, Fork(p, q) PROVE RunInv'
  <2> DEFINE r == [proc[p] EXCEPT !.parent = p]
  <2>1. r \in ProcRecords /\ r.life = "alive" /\ r.group = proc[p].group /\ r.doomed = proc[p].doomed
    BY <1>0, <1>1 DEF Fork, Lives, ProcRecords
  <2>2. proc' = [proc EXCEPT ![q] = r] /\ proc[q].life = "none" /\ Lives(p) /\ q \in Pids
    BY <1>1 DEF Fork, Pids
  <2> HIDE DEF r
  <2>3. proc' \in [Pids -> ProcRecords] /\ proc'[q] = r /\ \A o \in Pids \ {q} : proc'[o] = proc[o]
    BY <1>0, <2>1, <2>2
  <2>4. q \notin cmd.escaped /\ cmd.escaped \subseteq Pids
    BY <2>2 DEF Pids, RunInv, RunTypes, CmdRecords
  <2>5. \A o \in Pids \ {q} : Lives(o)' => Lives(o)
    BY <2>3 DEF Lives
  <2>6. cmd.forced = TRUE => \A o \in Pids : Lives(o)' => proc'[o].group = FALSE
    BY <2>1, <2>2, <2>3, <2>5 DEF RunInv
  <2> QED BY <1>0, <2>3, <2>4, <2>5, <2>6 DEF RunInv, RunTypes
<1>2. ASSUME NEW p \in Pids, Setsid(p) PROVE RunInv'
  <2> DEFINE r == [proc[p] EXCEPT !.group = FALSE]
  <2>1. r \in ProcRecords /\ r.life = proc[p].life /\ r.group = FALSE /\ r.doomed = proc[p].doomed
    BY <1>0 DEF ProcRecords
  <2>2. proc' = [proc EXCEPT ![p] = r]
    BY <1>0, <1>2 DEF Setsid, ProcRecords
  <2> HIDE DEF r
  <2> QED BY <1>0, <2>1, <2>2, MortalsKeep
<1>3. ASSUME NEW p \in Pids, ClosePipe(p) PROVE RunInv'
  <2> DEFINE r == [proc[p] EXCEPT !.pipe = FALSE]
  <2>1. r \in ProcRecords /\ r.life = proc[p].life /\ r.group = proc[p].group /\ r.doomed = proc[p].doomed
    BY <1>0 DEF ProcRecords
  <2>2. proc' = [proc EXCEPT ![p] = r]
    BY <1>0, <1>3 DEF ClosePipe, ProcRecords
  <2> HIDE DEF r
  <2> QED BY <1>0, <2>1, <2>2, MortalsKeep
<1>4. ASSUME NEW p \in Pids, ProcessExits(p) PROVE RunInv'
  <2>1. [Unborn EXCEPT !.life = "dead"] \in ProcRecords /\ [Unborn EXCEPT !.life = "dead"].life = "dead"
    BY DEF Unborn, ProcRecords
  <2>2. ASSUME NEW q \in Pids \ {p}
        PROVE  /\ proc'[q] \in ProcRecords /\ proc'[q].life = proc[q].life
               /\ proc'[q].doomed = proc[q].doomed /\ proc'[q].group = proc[q].group
    <3>a. proc[q] \in ProcRecords
      BY <1>0
    <3>0. proc[q].parent \in Pids \cup {"init"}
      BY <3>a DEF ProcRecords
    <3>1. proc[q] \in ProcRecords /\ (IF proc[q].parent = p THEN "init" ELSE proc[q].parent) \in Pids \cup {"init"}
      BY <3>a, <3>0
    <3>2. proc'[q] = [proc[q] EXCEPT !.parent = IF @ = p THEN "init" ELSE @]
      BY <1>4 DEF ProcessExits
    <3> QED BY <3>1, <3>2 DEF ProcRecords
  <2>3. proc'[p] = [Unborn EXCEPT !.life = "dead"] /\ proc' = [q \in Pids |-> proc'[q]]
    BY <1>4 DEF ProcessExits
  <2>4. proc' \in [Pids -> ProcRecords] /\ proc'[p].life = "dead"
    BY <2>1, <2>2, <2>3
  <2> QED BY <1>0, <2>2, <2>4, MortalsKeep
<1> QED BY <1>1, <1>2, <1>3, <1>4 DEF ProcessStep

(* A signal to the processes of a set. *)
LEMMA SignalledFacts ==
  ASSUME RunInv, NEW T, Signalled(T)
  PROVE  /\ proc' \in [Pids -> ProcRecords]
         /\ \A p \in Pids : /\ proc'[p].life = proc[p].life /\ proc'[p].group = proc[p].group
                            /\ Lives(p)' => Lives(p) /\ p \notin T
<1> DEFINE d(p) == proc[p].doomed \/ (p \in T /\ proc[p].life = "alive")
<1>1. ASSUME NEW p \in Pids
      PROVE  /\ proc'[p] \in ProcRecords /\ proc'[p].life = proc[p].life /\ proc'[p].group = proc[p].group
             /\ proc'[p].doomed = d(p)
  <2>1. proc[p] \in ProcRecords /\ d(p) \in BOOLEAN
    BY DEF RunInv, RunTypes, ProcRecords
  <2>2. proc'[p] = [proc[p] EXCEPT !.doomed = d(p)]
    BY DEF Signalled
  <2> HIDE DEF d
  <2> QED BY <2>1, <2>2 DEF ProcRecords
<1>2. proc' = [p \in Pids |-> proc'[p]]
  BY DEF Signalled
<1>3. ASSUME NEW p \in Pids, Lives(p)' PROVE Lives(p) /\ p \notin T
  BY <1>1, <1>3 DEF Lives
<1> QED BY <1>1, <1>2, <1>3

(* The call goes on after a signal to T, or without one.                   *)
LEMMA SignalKeeps ==
  ASSUME RunInv, NEW T, Signalled(T), NEW c \in CmdRecords, cmd' = c, c.escaped = cmd.escaped,
         c.forced = cmd.forced \/ (\A p \in Pids : proc[p].group = TRUE => p \in T),
         c.pc # "returned" \/ cmd.escaped \subseteq T
  PROVE  RunInv'
<1>1. cmd.escaped \subseteq Pids /\ \A p \in Pids : proc'[p].group \in BOOLEAN
  BY SignalledFacts DEF RunInv, RunTypes, CmdRecords, Pids, ProcRecords
<1>2. c.forced = TRUE => \A p \in Pids : Lives(p)' => proc'[p].group = FALSE
  BY <1>1, SignalledFacts DEF RunInv
<1> QED BY <1>1, <1>2, SignalledFacts DEF RunInv, RunTypes

LEMMA CallKeeps ==
  ASSUME RunInv, WaitReturns \/ WaitEnds \/ Fires \/ Kills
  PROVE  RunInv'
<1>0. /\ cmd.escaped \subseteq Pids /\ Group \subseteq Pids /\ cmd \in CmdRecords
      /\ \A p \in Pids : proc[p].group = TRUE => p \in Group
  BY DEF Pids, Group, RunInv, RunTypes, CmdRecords
<1>1. CASE WaitReturns \/ WaitEnds \/ Fires \/ GraceEnough \/ Drain \/ Snapshot
  <2>1. UNCHANGED proc
    BY <1>1 DEF WaitReturns, WaitEnds, Fires, GraceEnough, Drain, Snapshot
  <2>2. Descendants \in SUBSET Kids /\ \A p \in Descendants : proc[p].life = "alive"
    BY DEF Descendants
  <2>3. /\ cmd' \in CmdRecords /\ cmd'.forced = cmd.forced
        /\ cmd'.escaped \in {cmd.escaped, Descendants}
        /\ cmd'.pc = "returned" => cmd'.why = "exit" \/ (cmd'.escaped = cmd.escaped /\ cmd.pc = "returned" /\ cmd.why = cmd'.why)
    BY <1>0, <1>1, <2>2 DEF WaitReturns, WaitEnds, Fires, GraceEnough, Drain, Snapshot, CmdRecords
  <2> QED BY <2>1, <2>2, <2>3 DEF RunInv, RunTypes, Lives
<1>3. CASE Term
  <2>1. PICK T \in SUBSET Group : Signalled(T)
    BY <1>3 DEF Term
  <2> DEFINE c == [cmd EXCEPT !.pc = "grace"]
  <2>2. cmd' = c /\ c \in CmdRecords /\ c.escaped = cmd.escaped /\ c.forced = cmd.forced /\ c.pc # "returned"
    BY <1>0, <1>3 DEF Term, CmdRecords
  <2> HIDE DEF c
  <2> QED BY <2>1, <2>2, SignalKeeps
<1>4. CASE KillGroup
  <2> DEFINE c == [cmd EXCEPT !.pc = "kill", !.forced = TRUE]
  <2>2. cmd' = c /\ c \in CmdRecords /\ c.escaped = cmd.escaped /\ c.pc # "returned" /\ Signalled(Group)
    BY <1>0, <1>4 DEF KillGroup, CmdRecords
  <2> HIDE DEF c
  <2> QED BY <1>0, <2>2, SignalKeeps
<1>5. CASE KillEscaped
  <2> DEFINE c == [cmd EXCEPT !.pc = "drain"]
  <2>2. /\ cmd' = c /\ c \in CmdRecords /\ c.escaped = cmd.escaped /\ c.forced = cmd.forced
        /\ c.pc # "returned" /\ Signalled(cmd.escaped)
    BY <1>0, <1>5 DEF KillEscaped, CmdRecords
  <2> HIDE DEF c
  <2> QED BY <2>2, SignalKeeps
<1>6. CASE Sweep
  <2> DEFINE c == [cmd EXCEPT !.pc = "returned"]
  <2>2. /\ cmd' = c /\ c \in CmdRecords /\ c.escaped = cmd.escaped /\ c.forced = cmd.forced
        /\ Signalled(cmd.escaped)
    BY <1>0, <1>6 DEF Sweep, CmdRecords
  <2> HIDE DEF c
  <2> QED BY <2>2, SignalKeeps
<1> QED BY <1>1, <1>3, <1>4, <1>5, <1>6 DEF Kills

(* RunInv holds of every behaviour. *)
THEOREM RunInductive == RunSpec => []RunInv
<1>1. RunInit => RunInv
  <2> SUFFICES ASSUME RunInit PROVE RunInv
    OBVIOUS
  <2>1. cmd \in CmdRecords /\ cmd.escaped = {} /\ cmd.forced = FALSE /\ cmd.pc = "waiting"
    BY DEF RunInit, NewCmd, CmdRecords
  <2>2. Unborn \in ProcRecords
    BY DEF Unborn, ProcRecords
  <2>3. [Unborn EXCEPT !.life = "alive", !.group = TRUE, !.pipe = TRUE] \in ProcRecords
    BY DEF Unborn, ProcRecords
  <2> HIDE DEF Unborn
  <2>4. proc \in [Pids -> ProcRecords]
    BY <2>2, <2>3 DEF RunInit
  <2> QED BY <2>1, <2>4 DEF RunInv, RunTypes
<1>2. RunInv /\ [RunNext]_runVars => RunInv'
  <2> SUFFICES ASSUME RunInv, [RunNext]_runVars PROVE RunInv'
    OBVIOUS
  <2>1. CASE UNCHANGED runVars
    BY <2>1 DEF runVars, RunInv, RunTypes, Lives
  <2> QED BY <2>1, ProcessStepKeeps, CallKeeps DEF RunNext
<1> QED BY <1>1, <1>2, PTL DEF RunSpec

(* What a command that is timed out or cancelled had for descendants when  *)
(* the kill began does not outlive the call, nor does its group once that  *)
(* had to be killed; however many processes it forks, and whatever leaves  *)
(* the group or ignores SIGTERM.                                           *)
THEOREM NothingStays == RunSpec => []NothingLeftBehind
<1>1. RunInv => NothingLeftBehind
  BY DEF RunInv, RunTypes, ProcRecords, NothingLeftBehind
<1> QED BY <1>1, RunInductive, PTL

-----------------------------------------------------------------------------
(* The audit trail. *)

UnderWay == {"stat", "rename", "reopen", "write"}

(* Its line, or a part of it, is in a file. *)
Landed == {"written", "torn", "bare"}

AppendRecords ==
  [pc : {"new", "failed"} \cup Landed \cup UnderWay, fd : Files \cup {0}, since : Nat, session : Nat]

StatsRecords ==
  [pc : {"none", "open", "read", "told", "unavailable"}, of : Servers \cup {"none"},
   calls : SUBSET Appends, fd : Files \cup {0}, lines : SUBSET Appends, since : Nat]

AuditTypes ==
  /\ names \in [path : Files \cup {0}, old : Files \cup {0}]
  /\ holds \in [Files -> Seq(Appends)] /\ append \in [Appends -> AppendRecords]
  /\ mutex \in [Servers -> Appends \cup {"nobody"}]
  /\ session \in [Servers -> Nat] /\ counted \in SUBSET Appends
  /\ stats \in StatsRecords /\ rotated \in Nat

(* The file that an append has open is under path until it is rotated, and *)
(* under path.1 until it is rotated again.                                 *)
Placed(nm, n, r) ==
  r.fd # 0 =>
    /\ r.since <= n
    /\ r.since = n => nm.path = r.fd
    /\ r.since + 1 = n => nm.old = r.fd

(* Lines are in the file that their append had open, and appended.         *)
Filed ==
  \A a \in Appends :
    /\ append[a].pc \in UnderWay \cup Landed => append[a].fd # 0
    /\ append[a].pc \in Landed =>
         \E i \in 1 .. Len(holds[append[a].fd]) : holds[append[a].fd][i] = a
    /\ \A f \in Files : \A i \in 1 .. Len(holds[f]) :
         holds[f][i] = a => append[a].pc \in Landed /\ append[a].fd = f

(* A mutex is held by an append of its server that is under way.           *)
Held ==
  \A s \in Servers : mutex[s] # "nobody" =>
    append[mutex[s]].pc \in UnderWay /\ ServerOf(mutex[s]) = s

(* What a server counts has returned in its present session.               *)
Counts(s, a) == ServerOf(a) = s /\ append[a].session = session[s] /\ Returned(a)

Counted ==
  /\ \A a \in counted : Counts(ServerOf(a), a)
  /\ stats.pc # "none" =>
       /\ stats.of \in Servers /\ \A a \in stats.calls : Counts(stats.of, a)
  /\ stats.pc = "read" => stats.fd # 0

(* What ctx_stats reads, and has read. *)
Summed ==
  /\ stats.pc = "read" => \A a \in stats.calls :
       append[a].pc = "written" /\ append[a].since = stats.since => append[a].fd = stats.fd
  /\ stats.pc = "told" =>
       /\ \A a \in stats.lines : append[a].pc \in {"written", "bare"} /\ a \in OfSession(stats.of)
       /\ \A a \in stats.calls :
            append[a].pc = "written" /\ append[a].since = stats.since => a \in stats.lines \/ Spoiled(a)

AuditInv ==
  /\ AuditTypes /\ (\A a \in Appends : Placed(names, rotated, append[a]))
  /\ Filed /\ Held /\ Counted /\ Summed

LEMMA AuditConstants ==
  /\ 0 \notin Files /\ 1 \in Files /\ Files \subseteq Nat /\ "nobody" \notin Appends /\ "none" \notin Servers
  /\ \A a \in Appends : ServerOf(a) \in Servers
  BY AuditParameters

(* What is in the files stays there, and so does what has spoiled a line.  *)
LEMMA SpoiledStays ==
  ASSUME AuditInv, NEW b, Spoiled(b),
         \A f \in Files : \A i \in 1 .. Len(holds[f]) :
           /\ i \in 1 .. Len(holds'[f]) /\ holds'[f][i] = holds[f][i]
           /\ append'[holds[f][i]].pc = append[holds[f][i]].pc
  PROVE  Spoiled(b)'
<1>1. PICK f \in Files : \E i \in 2 .. Len(holds[f]) :
        holds[f][i] = b /\ append[holds[f][i - 1]].pc # "written"
  BY DEF Spoiled
<1>2. PICK i \in 2 .. Len(holds[f]) : holds[f][i] = b /\ append[holds[f][i - 1]].pc # "written"
  BY <1>1
<1>3. Len(holds[f]) \in Nat
  BY DEF AuditInv, AuditTypes
<1>4. i \in 1 .. Len(holds[f]) /\ i - 1 \in 1 .. Len(holds[f])
  BY <1>2, <1>3
<1>5. /\ i \in 1 .. Len(holds'[f]) /\ holds'[f][i] = b
      /\ holds'[f][i - 1] = holds[f][i - 1] /\ append'[holds[f][i - 1]].pc # "written"
  BY <1>2, <1>4
<1>6. i \in 2 .. Len(holds'[f])
  BY <1>2, <1>5
<1> QED BY <1>5, <1>6 DEF Spoiled

(* A whole line can be read unless it is spoiled. *)
LEMMA ReadOrSpoiled ==
  ASSUME AuditInv, NEW a \in Appends, append[a].pc = "written"
  PROVE  append[a].fd \in Files /\ (a \in Records(holds[append[a].fd]) \/ Spoiled(a))
<1>1. append[a].fd \in Files
  BY DEF AuditInv, AuditTypes, AppendRecords, Filed, Landed
<1>2. PICK i \in 1 .. Len(holds[append[a].fd]) : holds[append[a].fd][i] = a
  BY DEF AuditInv, Filed, Landed
<1>3. Len(holds[append[a].fd]) \in Nat
  BY <1>1 DEF AuditInv, AuditTypes
<1>4. CASE Readable(holds[append[a].fd], i)
  BY <1>1, <1>2, <1>4 DEF Records
<1>5. CASE ~Readable(holds[append[a].fd], i)
  <2>1. i > 1 /\ append[holds[append[a].fd][i - 1]].pc # "written"
    BY <1>2, <1>5 DEF Readable
  <2>2. i \in 2 .. Len(holds[append[a].fd])
    BY <1>2, <1>3, <2>1
  <2> QED BY <1>1, <1>2, <2>1, <2>2 DEF Spoiled
<1> QED BY <1>1, <1>4, <1>5

(* Only what is in a file is read from it. *)
LEMMA RecordsAreThere ==
  ASSUME AuditInv, NEW f \in Files, NEW a \in Records(holds[f])
  PROVE  a \in Appends /\ append[a].pc \in {"written", "bare"}
<1>1. PICK i \in 1 .. Len(holds[f]) : Readable(holds[f], i) /\ holds[f][i] = a
  BY DEF Records
<1>2. holds[f] \in Seq(Appends)
  BY DEF AuditInv, AuditTypes
<1> QED BY <1>1, <1>2 DEF Readable

(* An append under way goes on: its file, and what it has written.         *)
LEMMA GoesOn ==
  ASSUME AuditInv, NEW a \in Appends, append[a].pc \in {"new"} \cup UnderWay,
         NEW r \in AppendRecords, append' = [append EXCEPT ![a] = r],
         r.pc \in UnderWay \cup {"failed"}, r.pc \in UnderWay => r.fd # 0,
         UNCHANGED <<holds, session, counted, stats>>,
         AuditTypes', \A b \in Appends : Placed(names', rotated', append'[b]), Held'
  PROVE  AuditInv'
<1>1. append'[a] = r /\ \A b \in Appends \ {a} : append'[b] = append[b]
  BY DEF AuditInv, AuditTypes
<1>2. \A f \in Files : \A i \in 1 .. Len(holds[f]) : holds[f][i] \in Appends \ {a}
  <2>1. \A f \in Files : holds[f] \in Seq(Appends)
    BY DEF AuditInv, AuditTypes
  <2> QED BY <2>1 DEF AuditInv, Filed, UnderWay, Landed
<1>3. Filed'
  BY <1>1, <1>2 DEF AuditInv, Filed, UnderWay, Landed
<1>4. ~Returned(a)
  BY DEF Returned, UnderWay
<1>8. ASSUME NEW b, Spoiled(b) PROVE Spoiled(b)'
  BY <1>1, <1>2, <1>8, SpoiledStays
<1>5. \A b \in Appends \ {a} : \A s : Counts(s, b) => Counts(s, b)'
  BY <1>1 DEF Counts, Returned
<1>6. Counted'
  BY <1>1, <1>4, <1>5, AuditConstants DEF AuditInv, Counted, Counts, AuditTypes, StatsRecords
<1>7. Summed'
  <2>1. stats.pc # "none" => \A b \in stats.calls : b # a
    BY <1>4 DEF AuditInv, Counted, Counts
  <2>2. stats.pc = "told" => \A b \in stats.lines : b # a
    BY DEF AuditInv, Summed, UnderWay
  <2>3. stats.calls \subseteq Appends /\ stats.lines \subseteq Appends
    BY DEF AuditInv, AuditTypes, StatsRecords
  <2> QED BY <1>1, <1>8, <2>1, <2>2, <2>3 DEF AuditInv, Summed, OfSession
<1> QED BY <1>3, <1>6, <1>7 DEF AuditInv

LEMMA OpenedFacts ==
  ASSUME AuditInv, CanOpen
  PROVE  /\ Opened \in Files /\ Opened # 0
         /\ names.path # 0 => Opened = names.path
<1>1. CASE names.path # 0
  BY <1>1 DEF Opened, AuditInv, AuditTypes
<1>2. CASE names.path = 0
  <2>1. Opened \in Unused
    BY <1>2 DEF Opened, CanOpen
  <2> QED BY <1>2, <2>1, AuditConstants DEF Unused
<1> QED BY <1>1, <1>2

(* Opening the file at path moves nothing. *)
LEMMA OpeningPlaces ==
  ASSUME AuditInv, CanOpen, NEW nm, nm = [names EXCEPT !.path = Opened]
  PROVE  /\ nm \in [path : Files \cup {0}, old : Files \cup {0}] /\ nm.path = Opened
         /\ \A b \in Appends : Placed(nm, rotated, append[b])
<1>1. nm \in [path : Files \cup {0}, old : Files \cup {0}] /\ nm.path = Opened /\ nm.old = names.old
  BY OpenedFacts DEF AuditInv, AuditTypes
<1> QED BY <1>1, OpenedFacts DEF AuditInv, Placed

(* The mutex while its append is under way. *)
LEMMA HeldWhile ==
  ASSUME AuditInv, NEW a \in Appends, NEW r, append' = [append EXCEPT ![a] = r],
         r.pc \in UnderWay, mutex' = mutex
  PROVE  Held'
  BY DEF AuditInv, Held, AuditTypes

(* A rotation: every file moves on. *)
LEMMA RenameKeeps ==
  ASSUME AuditInv, NEW a \in Appends, Rename(a),
         ~(append' = [append EXCEPT ![a].pc = "write"] /\ UNCHANGED <<names, rotated>>)
  PROVE  AuditInv'
<1> DEFINE r == [append[a] EXCEPT !.pc = "reopen"]
<1>0. append \in [Appends -> AppendRecords] /\ append[a] \in AppendRecords /\ rotated \in Nat /\ rotated + 1 \in Nat
  BY DEF AuditInv, AuditTypes
<1>1. /\ names.path # 0 /\ names' = [path |-> 0, old |-> names.path] /\ rotated' = rotated + 1
      /\ append' = [append EXCEPT ![a].pc = "reopen"] /\ append[a].pc = "rename"
      /\ UNCHANGED <<holds, mutex, session, counted, stats>>
  BY DEF Rename, Unread
<1>2. r \in AppendRecords /\ r.pc = "reopen" /\ r.fd = append[a].fd /\ r.since = append[a].since
      /\ r.session = append[a].session
  BY <1>0 DEF AppendRecords, UnderWay
<1>3. append' = [append EXCEPT ![a] = r]
  BY <1>0, <1>1 DEF AppendRecords
<1> HIDE DEF r
<1>4. append'[a] = r /\ (\A b \in Appends \ {a} : append'[b] = append[b]) /\ append' \in [Appends -> AppendRecords]
  BY <1>0, <1>2, <1>3
<1>5. \A b \in Appends : append[b].since \in Nat
  BY <1>0 DEF AppendRecords
<1>6. \A b \in Appends : Placed(names', rotated', append'[b])
  BY <1>0, <1>1, <1>2, <1>4, <1>5 DEF AuditInv, Placed
<1>7. AuditTypes'
  BY <1>0, <1>1, <1>4 DEF AuditInv, AuditTypes
<1>8. Held'
  BY <1>1, <1>2, <1>3, HeldWhile DEF UnderWay
<1>9. append[a].fd # 0
  BY <1>1 DEF AuditInv, Filed, UnderWay
<1> QED BY <1>1, <1>2, <1>3, <1>6, <1>7, <1>8, <1>9, GoesOn DEF UnderWay

LEMMA AppendSteps ==
  ASSUME AuditInv, NEW a \in Appends, Refused(a) \/ Open(a) \/ Stat(a) \/ Rename(a) \/ Reopen(a)
  PROVE  AuditInv'
<1> DEFINE F == Files \cup {0}
<1>0. /\ append \in [Appends -> AppendRecords] /\ append[a] \in AppendRecords /\ rotated \in Nat
      /\ mutex \in [Servers -> Appends \cup {"nobody"}] /\ session \in [Servers -> Nat]
      /\ ServerOf(a) \in Servers /\ Placed(names, rotated, append[a])
      /\ append[a].pc \in UnderWay => append[a].fd # 0
  BY AuditConstants DEF AuditInv, AuditTypes, Filed
<1>1. ASSUME Fault, Fails(a), append[a].pc = "new", UNCHANGED <<names, mutex, holds, session, counted, stats, rotated>>
      PROVE  AuditInv'
  <2> DEFINE r == [append[a] EXCEPT !.pc = "failed"]
  <2>1. r \in AppendRecords /\ r.pc = "failed" /\ r.fd = append[a].fd /\ r.since = append[a].since
    BY <1>0 DEF AppendRecords
  <2>2. append' = [append EXCEPT ![a] = r]
    BY <1>0, <1>1 DEF Fails, AppendRecords
  <2> HIDE DEF r
  <2>3. append'[a] = r /\ (\A b \in Appends \ {a} : append'[b] = append[b]) /\ append' \in [Appends -> AppendRecords]
    BY <1>0, <2>1, <2>2
  <2>4. \A b \in Appends : Placed(names', rotated, append'[b])
    BY <1>1, <2>1, <2>3 DEF AuditInv, Placed
  <2>5. Held'
    BY <1>1, <2>3, AuditConstants DEF AuditInv, Held, AuditTypes, UnderWay
  <2>6. AuditTypes'
    BY <1>1, <2>3 DEF AuditInv, AuditTypes
  <2> QED BY <1>1, <2>1, <2>2, <2>4, <2>5, <2>6, GoesOn DEF UnderWay
<1>2. CASE Refused(a)
  BY <1>1, <1>2 DEF Refused, Unread
<1>3. CASE Open(a)
  <2>1. CASE Fault /\ Fails(a) /\ UNCHANGED <<names, mutex>>
    BY <1>1, <1>3, <2>1 DEF Open, Unread
  <2>2. CASE ~(Fault /\ Fails(a) /\ UNCHANGED <<names, mutex>>)
    <3> DEFINE r == [pc |-> "stat", fd |-> Opened, since |-> rotated, session |-> session[ServerOf(a)]]
    <3>1. /\ CanOpen /\ append' = [append EXCEPT ![a] = r] /\ names' = [names EXCEPT !.path = Opened]
          /\ mutex' = [mutex EXCEPT ![ServerOf(a)] = a] /\ mutex[ServerOf(a)] = "nobody"
          /\ UNCHANGED <<holds, session, counted, stats, rotated>> /\ append[a].pc = "new"
      BY <1>3, <2>2 DEF Open, Unread, NoAppend
    <3>2. /\ r \in AppendRecords /\ r.pc = "stat" /\ r.fd = Opened /\ r.since = rotated
      BY <1>0, <3>1, OpenedFacts DEF AppendRecords, UnderWay
    <3> HIDE DEF r
    <3>3. append'[a] = r /\ (\A b \in Appends \ {a} : append'[b] = append[b]) /\ append' \in [Appends -> AppendRecords]
      BY <1>0, <3>1, <3>2
    <3>4. \A b \in Appends : Placed(names', rotated, append'[b])
      BY <1>0, <3>1, <3>2, <3>3, OpeningPlaces DEF Placed
    <3>5. AuditTypes'
      BY <1>0, <3>1, <3>3, OpeningPlaces DEF AuditInv, AuditTypes
    <3>6. Held'
      BY <1>0, <3>1, <3>2, <3>3 DEF AuditInv, Held, UnderWay
    <3> QED BY <3>1, <3>2, <3>4, <3>5, <3>6, OpenedFacts, GoesOn DEF UnderWay
  <2> QED BY <2>1, <2>2
<1>4. ASSUME append[a].pc \in UnderWay, NEW pc \in UnderWay, append' = [append EXCEPT ![a].pc = pc],
             UNCHANGED <<names, holds, session, counted, stats, rotated, mutex>>
      PROVE  AuditInv'
  <2> DEFINE r == [append[a] EXCEPT !.pc = pc]
  <2>1. r \in AppendRecords /\ r.pc = pc /\ r.fd = append[a].fd /\ r.since = append[a].since
    BY <1>0 DEF AppendRecords
  <2>2. append' = [append EXCEPT ![a] = r]
    BY <1>0, <1>4 DEF AppendRecords
  <2> HIDE DEF r
  <2>3. append'[a] = r /\ (\A b \in Appends \ {a} : append'[b] = append[b]) /\ append' \in [Appends -> AppendRecords]
    BY <1>0, <2>1, <2>2
  <2>4. \A b \in Appends : Placed(names', rotated, append'[b])
    BY <1>4, <2>1, <2>3 DEF AuditInv, Placed
  <2>5. Held'
    BY <1>4, <2>1, <2>2, HeldWhile
  <2>6. AuditTypes'
    BY <1>4, <2>3 DEF AuditInv, AuditTypes
  <2> QED BY <1>0, <1>4, <2>1, <2>2, <2>4, <2>5, <2>6, GoesOn
<1>5. CASE Stat(a)
  <2>1. PICK pc \in {"rename", "write"} : append' = [append EXCEPT ![a].pc = pc]
    BY <1>5 DEF Stat
  <2> QED BY <1>4, <1>5, <2>1 DEF Stat, Unread, UnderWay
<1>6. CASE Rename(a)
  <2>1. CASE append' = [append EXCEPT ![a].pc = "write"] /\ UNCHANGED <<names, rotated>>
    BY <1>4, <1>6, <2>1 DEF Rename, Unread, UnderWay
  <2>2. CASE ~(append' = [append EXCEPT ![a].pc = "write"] /\ UNCHANGED <<names, rotated>>)
    BY <1>6, <2>2, RenameKeeps
  <2> QED BY <2>1, <2>2
<1>7. CASE Reopen(a)
  <2>1. CASE ReopenFails(a) /\ UNCHANGED names
    BY <1>4, <1>7, <2>1 DEF Reopen, ReopenFails, Unread, UnderWay
  <2>2. CASE ~(ReopenFails(a) /\ UNCHANGED names)
    <3> DEFINE r == [append[a] EXCEPT !.pc = "write", !.fd = Opened, !.since = rotated]
    <3>1. /\ CanOpen /\ append' = [append EXCEPT ![a].pc = "write", ![a].fd = Opened, ![a].since = rotated]
          /\ names' = [names EXCEPT !.path = Opened] /\ append[a].pc = "reopen"
          /\ UNCHANGED <<mutex, holds, session, counted, stats, rotated>>
      BY <1>7, <2>2 DEF Reopen, Unread
    <3>2. append' = [append EXCEPT ![a] = r]
      BY <1>0, <3>1 DEF AppendRecords
    <3>3. /\ r \in AppendRecords /\ r.pc = "write" /\ r.fd = Opened /\ r.since = rotated
      BY <1>0, <3>1, OpenedFacts DEF AppendRecords, UnderWay
    <3> HIDE DEF r
    <3>4. append'[a] = r /\ (\A b \in Appends \ {a} : append'[b] = append[b]) /\ append' \in [Appends -> AppendRecords]
      BY <1>0, <3>2, <3>3
    <3>5. \A b \in Appends : Placed(names', rotated, append'[b])
      BY <1>0, <3>1, <3>3, <3>4, OpeningPlaces DEF Placed
    <3>6. AuditTypes'
      BY <1>0, <3>1, <3>4, OpeningPlaces DEF AuditInv, AuditTypes
    <3>7. Held'
      BY <3>1, <3>2, <3>3, HeldWhile DEF UnderWay
    <3> QED BY <3>1, <3>2, <3>3, <3>5, <3>6, <3>7, OpenedFacts, GoesOn DEF UnderWay
  <2> QED BY <2>1, <2>2
<1> QED BY <1>2, <1>3, <1>5, <1>6, <1>7

(* The line lands in the file that is open, or does not. *)
LEMMA WriteKeeps ==
  ASSUME AuditInv, NEW a \in Appends, Write(a)
  PROVE  AuditInv'
<1> DEFINE f == append[a].fd
<1>0. /\ append \in [Appends -> AppendRecords] /\ append[a] \in AppendRecords /\ append[a].pc = "write"
      /\ holds \in [Files -> Seq(Appends)] /\ f \in Files
      /\ mutex \in [Servers -> Appends \cup {"nobody"}] /\ ServerOf(a) \in Servers
  BY AuditConstants DEF AuditInv, AuditTypes, Write, Filed, UnderWay, AppendRecords
<1>1. PICK pc \in {"failed"} \cup Landed :
        /\ append' = [append EXCEPT ![a].pc = pc]
        /\ holds' = IF pc = "failed" THEN holds ELSE [holds EXCEPT ![f] = Append(@, a)]
        /\ mutex' = [mutex EXCEPT ![ServerOf(a)] = "nobody"]
        /\ UNCHANGED <<session, counted, stats, names, rotated>>
  BY DEF Write, UnlockMu, Unread, NoAppend, Landed
<1> DEFINE r == [append[a] EXCEPT !.pc = pc]
<1>2. r \in AppendRecords /\ r.pc = pc /\ r.fd = f /\ r.since = append[a].since
      /\ r.session = append[a].session
  BY <1>0 DEF AppendRecords
<1>3. append' = [append EXCEPT ![a] = r]
  BY <1>0, <1>1 DEF AppendRecords
<1> HIDE DEF r
<1>4. append'[a] = r /\ (\A b \in Appends \ {a} : append'[b] = append[b]) /\ append' \in [Appends -> AppendRecords]
  BY <1>0, <1>2, <1>3
<1> HIDE DEF f
<1>5. /\ holds' \in [Files -> Seq(Appends)]
      /\ \A g \in Files : \A i \in 1 .. Len(holds[g]) :
           i \in 1 .. Len(holds'[g]) /\ holds'[g][i] = holds[g][i]
      /\ \A g \in Files : \A i \in 1 .. Len(holds'[g]) :
           \/ i \in 1 .. Len(holds[g]) /\ holds'[g][i] = holds[g][i]
           \/ pc # "failed" /\ g = f /\ holds'[g][i] = a
      /\ pc # "failed" => \E i \in 1 .. Len(holds'[f]) : holds'[f][i] = a
  <2>1. CASE pc = "failed"
    BY <1>0, <1>1, <2>1
  <2>2. CASE pc # "failed"
    <3>1. holds' = [holds EXCEPT ![f] = Append(holds[f], a)]
      BY <1>1, <2>2
    <3>2. holds[f] \in Seq(Appends)
      BY <1>0
    <3>3. /\ Append(holds[f], a) \in Seq(Appends) /\ Len(Append(holds[f], a)) = Len(holds[f]) + 1
          /\ \A i \in 1 .. Len(holds[f]) : Append(holds[f], a)[i] = holds[f][i]
          /\ Append(holds[f], a)[Len(holds[f]) + 1] = a /\ Len(holds[f]) \in Nat
      BY <3>2, AppendProperties, LenProperties
    <3>4. holds' \in [Files -> Seq(Appends)] /\ holds'[f] = Append(holds[f], a) /\ \A g \in Files \ {f} : holds'[g] = holds[g]
      BY <1>0, <3>1, <3>3
    <3>5. Len(holds[f]) + 1 \in 1 .. Len(holds'[f]) /\ holds'[f][Len(holds[f]) + 1] = a
      BY <3>3, <3>4
    <3>6. \A i \in 1 .. Len(holds'[f]) : i \in 1 .. Len(holds[f]) \/ i = Len(holds[f]) + 1
      BY <3>3, <3>4
    <3>7. \A i \in 1 .. Len(holds[f]) : i \in 1 .. Len(holds'[f]) /\ holds'[f][i] = holds[f][i]
      BY <3>3, <3>4
    <3> QED BY <2>2, <3>3, <3>4, <3>5, <3>6, <3>7
  <2> QED BY <2>1, <2>2
<1>6. AuditTypes'
  BY <1>0, <1>1, <1>4, <1>5, AuditConstants DEF AuditInv, AuditTypes
<1>7. \A b \in Appends : Placed(names', rotated', append'[b])
  BY <1>1, <1>2, <1>4 DEF AuditInv, Placed, f
<1>14. \A g \in Files : \A i \in 1 .. Len(holds[g]) : holds[g][i] \in Appends \ {a}
  <2>1. \A g \in Files : holds[g] \in Seq(Appends)
    BY <1>0
  <2>2. append[a].pc \notin Landed
    BY <1>0 DEF Landed
  <2> QED BY <2>1, <2>2 DEF AuditInv, Filed
<1>8. Filed'
  <2>1. ASSUME NEW b \in Appends \ {a}, append'[b].pc \in Landed
        PROVE  \E i \in 1 .. Len(holds'[append'[b].fd]) : holds'[append'[b].fd][i] = b
    <3>1. append[b].fd \in Files /\ append'[b].fd = append[b].fd
      BY <1>0, <1>4, <2>1 DEF AuditInv, Filed, AppendRecords
    <3>2. PICK i \in 1 .. Len(holds[append[b].fd]) : holds[append[b].fd][i] = b
      BY <1>4, <2>1 DEF AuditInv, Filed
    <3> QED BY <1>5, <3>1, <3>2
  <2>2. ASSUME NEW b \in Appends, NEW g \in Files, NEW i \in 1 .. Len(holds'[g]), holds'[g][i] = b
        PROVE  append'[b].pc \in Landed /\ append'[b].fd = g
    <3>1. CASE i \in 1 .. Len(holds[g]) /\ holds'[g][i] = holds[g][i]
      BY <1>4, <1>14, <2>2, <3>1 DEF AuditInv, Filed
    <3>2. CASE pc # "failed" /\ g = f /\ holds'[g][i] = a
      BY <1>1, <1>2, <1>4, <2>2, <3>2
    <3> QED BY <1>5, <3>1, <3>2
  <2>3. f # 0 /\ append'[a].fd = f /\ append'[a].pc = pc
    BY <1>0, <1>2, <1>4, AuditConstants
  <2>4. \A b \in Appends \ {a} : append'[b].pc \in UnderWay \cup Landed => append'[b].fd # 0
    BY <1>4 DEF AuditInv, Filed
  <2>5. append'[a].pc \in Landed => \E i \in 1 .. Len(holds'[append'[a].fd]) : holds'[append'[a].fd][i] = a
    BY <1>5, <2>3 DEF Landed
  <2> QED BY <2>1, <2>2, <2>3, <2>4, <2>5 DEF Filed
<1>9. Held'
  BY <1>0, <1>1, <1>4 DEF AuditInv, Held
<1>10. ~Returned(a)
  BY <1>0 DEF Returned
<1>11. \A b \in Appends \ {a} : \A s : Counts(s, b) => Counts(s, b)'
  BY <1>1, <1>4 DEF Counts, Returned
<1>12. Counted'
  BY <1>1, <1>10, <1>11 DEF AuditInv, Counted, Counts, AuditTypes, StatsRecords
<1>13. Summed'
  <2>1. stats.pc # "none" => \A b \in stats.calls : b # a
    BY <1>10 DEF AuditInv, Counted, Counts
  <2>2. stats.pc = "told" => \A b \in stats.lines : b # a
    BY <1>0 DEF AuditInv, Summed
  <2>3. stats.calls \subseteq Appends /\ stats.lines \subseteq Appends
    BY DEF AuditInv, AuditTypes, StatsRecords
  <2>4. ASSUME NEW b, Spoiled(b) PROVE Spoiled(b)'
    BY <1>4, <1>5, <1>14, <2>4, SpoiledStays
  <2> QED BY <1>1, <1>4, <2>1, <2>2, <2>3, <2>4 DEF AuditInv, Summed, OfSession
<1> QED BY <1>6, <1>7, <1>8, <1>9, <1>12, <1>13 DEF AuditInv

LEMMA CountKeeps ==
  ASSUME AuditInv, NEW a \in Appends, Count(a)
  PROVE  AuditInv'
<1>1. /\ counted' = counted \cup {a} /\ Returned(a) /\ append[a].session = session[ServerOf(a)]
      /\ UNCHANGED <<names, holds, append, mutex, session, stats, rotated>>
  BY DEF Count
<1>2. AuditTypes' /\ Counted'
  BY <1>1 DEF AuditInv, AuditTypes, Counted, Counts, Returned
<1> QED BY <1>1, <1>2 DEF AuditInv, Filed, Held, Summed, OfSession, Spoiled

(* ctx_stats: what it counts, then the file, then its lines. *)
LEMMA StatsSteps ==
  ASSUME AuditInv, (\E s \in Servers : StatsBegin(s)) \/ StatsOpen \/ StatsRead
  PROVE  AuditInv'
<1>0. UNCHANGED <<names, holds, append, mutex, session, counted, rotated>>
  BY DEF StatsBegin, StatsOpen, StatsRead
<1>1. stats \in StatsRecords /\ holds \in [Files -> Seq(Appends)] /\ counted \subseteq Appends
      /\ names.path \in Files \cup {0} /\ rotated \in Nat
  BY DEF AuditInv, AuditTypes
<1>2. ASSUME stats' \in StatsRecords, Counted', Summed' PROVE AuditInv'
  BY <1>0, <1>2 DEF AuditInv, AuditTypes, Filed, Held
<1>3. ASSUME NEW s \in Servers, StatsBegin(s) PROVE AuditInv'
  <2> DEFINE C == {a \in counted : ServerOf(a) = s}
             r == [NoStats EXCEPT !.pc = "open", !.of = s, !.calls = C]
  <2>1. C \in SUBSET Appends
    BY <1>1
  <2>2. stats' = r
    BY <1>3 DEF StatsBegin
  <2>3. \A a \in C : Counts(s, a)
    BY DEF AuditInv, Counted, Counts
  <2> HIDE DEF C
  <2>4. r \in StatsRecords /\ r.pc = "open" /\ r.of = s /\ r.calls = C
    BY <2>1 DEF NoStats, StatsRecords
  <2> HIDE DEF r
  <2>5. Counted' /\ Summed'
    BY <1>0, <2>2, <2>3, <2>4 DEF AuditInv, Counted, Summed, Counts, Returned
  <2> QED BY <1>2, <2>2, <2>4, <2>5
<1>4. CASE StatsOpen
  <2>1. CASE names.path = 0
    <3>1. stats' = [stats EXCEPT !.pc = "unavailable"] /\ stats.pc = "open"
      BY <1>4, <2>1 DEF StatsOpen
    <3>2. stats' \in StatsRecords /\ stats'.pc = "unavailable" /\ stats'.of = stats.of /\ stats'.calls = stats.calls
      BY <1>1, <3>1 DEF StatsRecords
    <3>3. Counted' /\ Summed'
      BY <1>0, <3>1, <3>2 DEF AuditInv, Counted, Summed, Counts, Returned
    <3> QED BY <1>2, <3>2, <3>3
  <2>2. CASE names.path # 0
    <3>1. stats' = [stats EXCEPT !.pc = "read", !.fd = names.path, !.since = rotated] /\ stats.pc = "open"
      BY <1>4, <2>2 DEF StatsOpen
    <3>2. /\ stats' \in StatsRecords /\ stats'.pc = "read" /\ stats'.of = stats.of
          /\ stats'.calls = stats.calls /\ stats'.fd = names.path /\ stats'.since = rotated
      BY <1>1, <3>1 DEF StatsRecords
    <3>3. Counted'
      BY <1>0, <2>2, <3>1, <3>2 DEF AuditInv, Counted, Counts, Returned
    <3>4. \A a \in stats.calls : append[a].pc = "written" /\ append[a].since = rotated => append[a].fd = names.path
      BY <1>1 DEF AuditInv, Placed, Filed, StatsRecords, Landed
    <3>5. Summed'
      BY <1>0, <3>2, <3>4 DEF Summed
    <3> QED BY <1>2, <3>2, <3>3, <3>5
  <2> QED BY <2>1, <2>2
<1>5. CASE StatsRead
  <2> DEFINE L == Records(holds[stats.fd]) \cap OfSession(stats.of)
             r == [stats EXCEPT !.pc = "told", !.fd = 0, !.lines = L]
  <2>1. stats' = r /\ stats.pc = "read"
    BY <1>5 DEF StatsRead
  <2>2. stats.fd \in Files
    BY <1>1, <2>1 DEF AuditInv, Counted, StatsRecords
  <2>3. L \in SUBSET Appends
    BY <2>2, RecordsAreThere
  <2>4. \A a \in L : append[a].pc \in {"written", "bare"} /\ a \in OfSession(stats.of)
    BY <2>2, RecordsAreThere
  <2>5. \A a \in stats.calls :
          append[a].pc = "written" /\ append[a].since = stats.since => a \in L \/ Spoiled(a)
    <3> SUFFICES ASSUME NEW a \in stats.calls, append[a].pc = "written", append[a].since = stats.since
                 PROVE  a \in L \/ Spoiled(a)
      OBVIOUS
    <3>1. a \in Appends /\ append[a].fd = stats.fd
      BY <1>1, <2>1 DEF AuditInv, Summed, StatsRecords
    <3>2. a \in Records(holds[stats.fd]) \/ Spoiled(a)
      BY <3>1, ReadOrSpoiled
    <3>3. a \in OfSession(stats.of)
      BY <2>1, <3>1 DEF AuditInv, Counted, Counts, OfSession
    <3> QED BY <3>2, <3>3
  <2> HIDE DEF L
  <2>6. /\ r \in StatsRecords /\ r.pc = "told" /\ r.of = stats.of /\ r.calls = stats.calls
        /\ r.lines = L /\ r.since = stats.since
    BY <1>1, <2>3 DEF StatsRecords
  <2> HIDE DEF r
  <2>7. Counted'
    BY <1>0, <2>1, <2>6 DEF AuditInv, Counted, Counts, Returned
  <2>8. Summed'
    BY <1>0, <2>1, <2>4, <2>5, <2>6 DEF Summed, OfSession, Spoiled
  <2> QED BY <1>2, <2>1, <2>6, <2>7, <2>8
<1> QED BY <1>3, <1>4, <1>5

(* A server is killed in the middle of an append. *)
LEMMA KilledKeeps ==
  ASSUME AuditInv, NEW s \in Servers, Killed(s)
  PROVE  AuditInv'
<1> DEFINE a == mutex[s]
           r == [append[a] EXCEPT !.pc = "failed"]
<1>0. /\ a \in Appends /\ append \in [Appends -> AppendRecords] /\ append[a] \in AppendRecords
      /\ append[a].pc \in UnderWay /\ ServerOf(a) = s
      /\ mutex \in [Servers -> Appends \cup {"nobody"}] /\ session \in [Servers -> Nat]
      /\ counted \subseteq Appends /\ stats \in StatsRecords
  BY DEF AuditInv, AuditTypes, Held, Killed, NoAppend
<1>1. /\ append' = [append EXCEPT ![a].pc = "failed"] /\ mutex' = [mutex EXCEPT ![s] = "nobody"]
      /\ session' = [session EXCEPT ![s] = @ + 1] /\ counted' = {b \in counted : ServerOf(b) # s}
      /\ stats' = IF stats.of = s THEN NoStats ELSE stats
      /\ UNCHANGED <<names, holds, rotated>>
  BY <1>0 DEF Killed, UnlockMu, NoAppend
<1> HIDE DEF a
<1>2. r \in AppendRecords /\ r.pc = "failed" /\ r.fd = append[a].fd /\ r.since = append[a].since
  BY <1>0 DEF AppendRecords
<1>3. append' = [append EXCEPT ![a] = r]
  BY <1>0, <1>1 DEF AppendRecords
<1> HIDE DEF r
<1>4. append'[a] = r /\ (\A b \in Appends \ {a} : append'[b] = append[b]) /\ append' \in [Appends -> AppendRecords]
  BY <1>0, <1>2, <1>3
<1>5. /\ session' \in [Servers -> Nat] /\ (\A o \in Servers \ {s} : session'[o] = session[o])
      /\ mutex' \in [Servers -> Appends \cup {"nobody"}] /\ mutex'[s] = "nobody"
      /\ \A o \in Servers \ {s} : mutex'[o] = mutex[o]
  BY <1>0, <1>1
<1>6. NoStats \in StatsRecords /\ NoStats.pc = "none"
  BY DEF NoStats, StatsRecords
<1>7. AuditTypes'
  <2>1. stats' \in StatsRecords /\ counted' \in SUBSET Appends
    BY <1>0, <1>1, <1>6
  <2> QED BY <1>1, <1>4, <1>5, <2>1 DEF AuditInv, AuditTypes
<1>8. \A b \in Appends : Placed(names', rotated', append'[b])
  BY <1>0, <1>1, <1>2, <1>4 DEF AuditInv, Placed
<1>9. Filed'
  BY <1>0, <1>1, <1>2, <1>4 DEF AuditInv, Filed, UnderWay, Landed
<1>10. Held'
  <2>1. ASSUME NEW o \in Servers, mutex'[o] # "nobody"
        PROVE  append'[mutex'[o]].pc \in UnderWay /\ ServerOf(mutex'[o]) = o
    <3>1. o # s /\ mutex'[o] = mutex[o]
      BY <1>5, <2>1
    <3>2. append[mutex[o]].pc \in UnderWay /\ ServerOf(mutex[o]) = o /\ mutex[o] \in Appends
      BY <1>0, <2>1, <3>1 DEF AuditInv, Held
    <3> QED BY <1>0, <1>4, <3>1, <3>2
  <2> QED BY <2>1 DEF Held
<1>11. ~Returned(a)
  BY <1>0 DEF Returned, UnderWay
<1>12. ASSUME NEW b \in Appends, NEW o \in Servers \ {s}, Counts(o, b) PROVE Counts(o, b)' /\ b # a
  BY <1>0, <1>4, <1>5, <1>11, <1>12 DEF Counts, Returned
<1>13. Counted'
  <2>1. \A b \in counted' : Counts(ServerOf(b), b)'
    BY <1>0, <1>1, <1>12, AuditConstants DEF AuditInv, Counted
  <2>2. stats'.pc # "none" => stats' = stats /\ stats.of \in Servers \ {s}
    BY <1>1, <1>6 DEF AuditInv, Counted
  <2>3. stats.calls \subseteq Appends
    BY <1>0 DEF StatsRecords
  <2> QED BY <1>12, <2>1, <2>2, <2>3 DEF AuditInv, Counted
<1>14. Summed'
  <2>1. CASE stats.of = s
    BY <1>1, <1>6, <2>1 DEF Summed
  <2>2. CASE stats.of # s
    <3>1. stats' = stats /\ stats.calls \subseteq Appends /\ stats.lines \subseteq Appends
      BY <1>0, <1>1, <2>2 DEF StatsRecords
    <3>2. stats.pc # "none" => stats.of \in Servers \ {s} /\ \A b \in stats.calls : b # a
      BY <1>12, <2>2, <3>1 DEF AuditInv, Counted
    <3>3. stats.pc = "told" => \A b \in stats.lines : b # a
      BY <1>0 DEF AuditInv, Summed, UnderWay
    <3>4. \A f \in Files : \A i \in 1 .. Len(holds[f]) : holds[f][i] \in Appends \ {a}
      <4>1. \A f \in Files : holds[f] \in Seq(Appends)
        BY DEF AuditInv, AuditTypes
      <4> QED BY <1>0, <4>1 DEF AuditInv, Filed, UnderWay, Landed
    <3>5. ASSUME NEW b, Spoiled(b) PROVE Spoiled(b)'
      BY <1>1, <1>4, <3>4, <3>5, SpoiledStays
    <3> QED BY <1>4, <1>5, <3>1, <3>2, <3>3, <3>5 DEF AuditInv, Summed, OfSession
  <2> QED BY <2>1, <2>2
<1> QED BY <1>7, <1>8, <1>9, <1>10, <1>13, <1>14 DEF AuditInv

(* AuditInv holds of every behaviour. *)
THEOREM AuditInductive == AuditSpec => []AuditInv
<1>1. AuditInit => AuditInv
  BY AuditConstants DEF AuditInit, NewAppend, NoStats, NoAppend, AuditInv, AuditTypes, AppendRecords, StatsRecords,
     Placed, Filed, Held, Counted, Summed, UnderWay, Landed
<1>2. AuditInv /\ [AuditNext]_auditVars => AuditInv'
  <2> SUFFICES ASSUME AuditInv, [AuditNext]_auditVars PROVE AuditInv'
    OBVIOUS
  <2>1. CASE UNCHANGED auditVars
    BY <2>1 DEF auditVars, AuditInv, AuditTypes, Filed, Held, Counted, Counts, Returned, Summed, OfSession, Spoiled
  <2> QED BY <2>1, AppendSteps, WriteKeeps, CountKeeps, StatsSteps, KilledKeeps DEF AuditNext
<1> QED BY <1>1, <1>2, PTL DEF AuditSpec

(* A line that was appended can be read under path or path.1 until two     *)
(* rotations after its file was opened, and ctx_stats sums lines of its    *)
(* session, among them that of every call it counts whose file was not yet *)
(* rotated; but for a line right after the part that a failed write left.  *)
THEOREM RecordsSurvive == AuditSpec => []RecordSurvives
<1>1. AuditInv => RecordSurvives
  <2> SUFFICES ASSUME AuditInv PROVE RecordSurvives
    OBVIOUS
  <2>1. ASSUME NEW a \in Appends, append[a].pc = "written", rotated < append[a].since + 2 PROVE a \in Kept \/ Spoiled(a)
    <3>1. append[a] \in AppendRecords /\ rotated \in Nat /\ Placed(names, rotated, append[a])
      BY DEF AuditInv, AuditTypes
    <3>2. append[a].fd # 0 /\ (a \in Records(holds[append[a].fd]) \/ Spoiled(a))
      BY <2>1, ReadOrSpoiled, AuditConstants
    <3>3. append[a].since = rotated \/ append[a].since + 1 = rotated
      BY <2>1, <3>1, <3>2 DEF Placed, AppendRecords
    <3>4. append[a].fd \in {names.path, names.old} \ {0}
      BY <3>1, <3>2, <3>3 DEF Placed
    <3> QED BY <3>2, <3>4 DEF Kept
  <2> QED BY <2>1 DEF RecordSurvives, AuditInv, Summed
<1> QED BY <1>1, AuditInductive, PTL

-----------------------------------------------------------------------------
(* The deployment script. *)

(* What the steps of a script stand for. *)
Contents == {None, Partial} \cup Versions

Armed == {"copy", "backup", "cp", "cpEnds", "unlock", "mv", "lock"}

Types ==
  /\ disk \in [bin : {None} \cup Good, prev : Contents, tmp : Contents]
  /\ locked \in BOOLEAN /\ lapsed \in BOOLEAN /\ clean \in BOOLEAN
  /\ script \in [kind : {None, "deploy", "rollback"},
                 pc : {"idle", "build", "verify", "prev", "end"} \cup Armed, traps : BOOLEAN, chattr : BOOLEAN]

(* The file that is about to be renamed over the binary was verified.      *)
Verified ==
  /\ script.kind = "deploy" /\ script.pc \in {"backup", "cp", "cpEnds", "unlock", "mv"} =>
       disk.tmp \in Good
  /\ script.kind = "rollback" /\ script.pc \in {"unlock", "mv"} => disk.prev \in Good

(* Only deploy makes a backup. *)
Stages ==
  /\ script.pc \in {"copy", "verify", "backup", "cp", "cpEnds", "build"} => script.kind = "deploy"
  /\ script.pc = "prev" => script.kind = "rollback"
  /\ script.pc \in {"cp", "cpEnds"} => disk.bin # None

(* Until the new file is verified the binary has not been unlocked, and    *)
(* while the traps are off it was locked or an attempt has been made.      *)
Relocks ==
  /\ script.pc \in Armed => script.traps = TRUE
  /\ script.pc \notin Armed \cup {"end"} => script.traps = FALSE
  /\ (script.traps = FALSE \/ script.pc = "copy") /\ clean = TRUE /\ disk.bin # None =>
       locked = TRUE \/ lapsed = TRUE

DInv == Types /\ Verified /\ Stages /\ Relocks

Distinct == None \notin Good /\ Partial \notin Good

Works == disk'.bin \in Good \/ (disk.bin = None /\ disk'.bin = None)

(* A state of the invariant is locked at rest.                             *)
LEMMA AtRest == DInv => LockedAtRest
  BY DEF DInv, Types, Relocks, LockedAtRest, Idle

LEMMA InitHolds == DeployInit => DInv
<1> SUFFICES ASSUME DeployInit PROVE DInv
  OBVIOUS
<1>1. locked \in BOOLEAN /\ lapsed \in BOOLEAN /\ (disk.bin # None => locked = TRUE \/ lapsed = TRUE)
  BY DEF DeployInit
<1>2. disk \in [bin : {None} \cup Good, prev : Contents, tmp : Contents]
  BY DEF DeployInit, Contents
<1> QED
  BY <1>1, <1>2 DEF DeployInit, DInv, Types, Verified, Stages, Relocks, Idle, Armed, None

(* An attempt to lock the binary. *)
LEMMA Attempted ==
  ASSUME Types, LockImmutable
  PROVE  /\ locked' \in BOOLEAN /\ lapsed' \in BOOLEAN /\ (locked' = TRUE \/ lapsed' = TRUE)
<1>1. PICK done \in BOOLEAN : locked' = (locked \/ done)
  BY DEF LockImmutable
<1>2. locked' \in BOOLEAN
  BY <1>1 DEF Types
<1> QED BY <1>2 DEF LockImmutable

LEMMA CleanupAttempts ==
  ASSUME Types, CleanupLocks
  PROVE  /\ locked' \in BOOLEAN /\ lapsed' \in BOOLEAN
         /\ disk.bin # None => locked' = TRUE \/ lapsed' = TRUE
  BY Attempted DEF CleanupLocks, Types

(* A script that ends, by itself or not.                                   *)
LEMMA ExitKeeps ==
  ASSUME Distinct, DInv, Exit
  PROVE  DInv' /\ disk'.bin = disk.bin
<1>1. script' = Idle /\ clean' \in BOOLEAN
  BY DEF Exit, DInv, Types
<1>2. disk' \in [bin : {None} \cup Good, prev : Contents, tmp : Contents] /\ disk'.bin = disk.bin
  BY DEF Exit, DInv, Types, Contents
<1>3. locked' \in BOOLEAN /\ lapsed' \in BOOLEAN
  BY CleanupAttempts DEF Exit, DInv, Types
<1>4. clean' = TRUE /\ disk'.bin # None => locked' = TRUE \/ lapsed' = TRUE
  <2>1. CASE script.traps = TRUE
    BY <2>1, <1>2, CleanupAttempts DEF Exit, DInv
  <2>2. CASE script.traps = FALSE
    BY <2>2 DEF Exit, DInv, Relocks, Types
  <2> QED BY <2>1, <2>2 DEF DInv, Types
<1> QED
  BY <1>1, <1>2, <1>3, <1>4 DEF DInv, Types, Verified, Stages, Relocks, Idle, Armed, None

(* Every step keeps the invariant, and the binary or a verified one.       *)
LEMMA StepHolds ==
  ASSUME Distinct, DInv, [DeployNext]_deployVars
  PROVE  DInv' /\ (Works \/ UNCHANGED deployVars)
<1> USE DEF None, Partial
<1>1. ASSUME NEW kind \in {"deploy", "rollback"}, NEW pc,
             <<kind, pc>> \in {<<"deploy", "build">>, <<"rollback", "prev">>}, Runs(kind, pc)
      PROVE  DInv' /\ Works
  BY <1>1 DEF Runs, DInv, Types, Verified, Stages, Relocks, Idle, Armed, Works
<1>2. CASE Install
  BY <1>2 DEF Install, DInv, Types, Verified, Stages, Relocks, Armed, Contents, Works
<1>3. CASE Installed
  BY <1>3 DEF Installed, DInv, Types, Verified, Stages, Relocks, Armed, Contents, Works
<1>4. CASE Verify
  <2>1. CASE Verifies(disk.tmp) /\ UNCHANGED <<disk, locked, lapsed, clean>> /\ script'.traps = TRUE
    <3>1. /\ script' = [script EXCEPT !.pc = "backup", !.traps = TRUE]
          /\ disk.tmp \in Good /\ script.kind = "deploy"
      BY <1>4, <2>1 DEF Verify, Verifies, Idle, DInv, Types, Stages
    <3> QED
      BY <2>1, <3>1 DEF DInv, Types, Verified, Stages, Relocks, Armed, Works
  <2>2. CASE script' = Idle /\ clean' = TRUE
    <3>1. disk' \in [bin : {None} \cup Good, prev : Contents, tmp : Contents] /\ disk'.bin = disk.bin
      BY <1>4, <2>2 DEF Verify, Idle, DInv, Types, Contents
    <3>2. /\ locked' \in BOOLEAN /\ lapsed' \in BOOLEAN
          /\ disk'.bin # None => locked' = TRUE \/ lapsed' = TRUE
      <4>1. CleanupLocks
        BY <1>4, <2>2 DEF Verify, Idle, DInv, Types, Stages
      <4> QED BY <3>1, <4>1, CleanupAttempts DEF DInv
    <3> QED
      BY <2>2, <3>1, <3>2 DEF Idle, DInv, Types, Verified, Stages, Relocks, Armed, Works
  <2> QED
    BY <1>4, <2>1, <2>2 DEF Verify, DInv, Types
<1>5. CASE Backup
  BY <1>5 DEF Backup, Command, DInv, Types, Verified, Stages, Relocks, Armed, Contents, Works
<1>6. CASE CopyBegins
  BY <1>6 DEF CopyBegins, Command, DInv, Types, Verified, Stages, Relocks, Armed, Contents, Works
<1>7. CASE CopyEnds
  BY <1>7 DEF CopyEnds, DInv, Types, Verified, Stages, Relocks, Armed, Contents, Versions, Works
<1>8. CASE Unlock
  <2>1. locked' \in BOOLEAN /\ lapsed' \in BOOLEAN
    BY <1>8 DEF Unlock, DInv, Types
  <2> QED
    BY <1>8, <2>1 DEF Unlock, Command, DInv, Types, Verified, Stages, Relocks, Armed, Works
<1>9. CASE Swap
  BY <1>9 DEF Swap, Command, DInv, Types, Verified, Stages, Relocks, Armed, Contents, Works, Distinct
<1>10. CASE Lock
  <2>1. locked' \in BOOLEAN /\ lapsed' \in BOOLEAN /\ (locked' = TRUE \/ lapsed' = TRUE)
    BY <1>10, Attempted DEF Lock, DInv
  <2>2. script' = [script EXCEPT !.pc = "end", !.traps = (script.kind = "rollback")]
        /\ clean' = TRUE /\ UNCHANGED disk
    BY <1>10 DEF Lock
  <2>3. (script.kind = "rollback") \in BOOLEAN
    OBVIOUS
  <2> QED
    BY <2>1, <2>2, <2>3 DEF DInv, Types, Verified, Stages, Relocks, Armed, Works
<1>11. CASE End \/ NoBackup \/ BreaksOff \/ SwapFails
  BY <1>11, ExitKeeps DEF End, NoBackup, BreaksOff, SwapFails, Works, DInv, Types
<1>12. CASE VerifyPrev
  <2>1. CASE Verifies(disk.prev) /\ UNCHANGED <<disk, locked, lapsed, clean>> /\ script'.traps = TRUE
    <3>1. /\ script' = [script EXCEPT !.pc = "unlock", !.traps = TRUE]
          /\ disk.prev \in Good /\ script.kind = "rollback"
      BY <1>12, <2>1 DEF VerifyPrev, Verifies, Idle, DInv, Types, Stages
    <3> QED
      BY <2>1, <3>1 DEF DInv, Types, Verified, Stages, Relocks, Armed, Works
  <2>2. CASE script' = Idle /\ clean' = TRUE
    <3>1. disk' \in [bin : {None} \cup Good, prev : Contents, tmp : Contents] /\ disk'.bin = disk.bin
      BY <1>12, <2>2 DEF VerifyPrev, Idle, DInv, Types, Contents
    <3>2. /\ locked' \in BOOLEAN /\ lapsed' \in BOOLEAN
          /\ disk'.bin # None => locked' = TRUE \/ lapsed' = TRUE
      <4>1. CleanupLocks
        BY <1>12, <2>2 DEF VerifyPrev, Idle, DInv, Types, Stages
      <4> QED BY <3>1, <4>1, CleanupAttempts DEF DInv
    <3> QED
      BY <2>2, <3>1, <3>2 DEF Idle, DInv, Types, Verified, Stages, Relocks, Armed, Works
  <2> QED
    BY <1>12, <2>1, <2>2 DEF VerifyPrev, DInv, Types
<1>13. CASE SwapBack
  BY <1>13 DEF SwapBack, Command, DInv, Types, Verified, Stages, Relocks, Armed, Contents, Works, Distinct
<1>14. CASE Kill
  BY <1>14 DEF Kill, Idle, DInv, Types, Verified, Stages, Relocks, Armed, Contents, Works
<1>15. CASE UNCHANGED deployVars
  BY <1>15 DEF deployVars, DInv, Types, Verified, Stages, Relocks
<1> QED
  BY <1>1, <1>2, <1>3, <1>4, <1>5, <1>6, <1>7, <1>8, <1>9, <1>10, <1>11, <1>12, <1>13, <1>14, <1>15
     DEF DeployNext

(* Wherever scripts fail, are interrupted or killed, whatever the builds:  *)
(* a binary that is there stays one that passed its verification, and is   *)
(* locked when no script runs unless the last one was killed or the last   *)
(* attempt to lock it was in vain.                                         *)
THEOREM BinaryAlwaysWorks ==
  ASSUME Distinct
  PROVE  DeploySpec => BinaryWorks
<1>1. DInv /\ [DeployNext]_deployVars => DInv'
  BY StepHolds
<1>2. DInv' => LockedAtRest'
  BY AtRest, PTL
<1>3. DInv /\ [DeployNext]_deployVars /\ DInv' =>
        [/\ disk'.bin \in Good \/ (disk.bin = None /\ disk'.bin = None)
         /\ LockedAtRest']_deployVars
  BY <1>2, StepHolds DEF Works
<1> QED BY <1>1, <1>3, InitHolds, PTL DEF DeploySpec, BinaryWorks
=============================================================================
