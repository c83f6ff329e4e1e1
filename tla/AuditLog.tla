------------------------------- MODULE AuditLog -------------------------------
(***************************************************************************)
(* The audit trail (audit.go): every tool call appends a line to one file, *)
(* which is renamed to "<path>.1" when it has grown to auditRotateBytes.   *)
(* auditMu orders the appends of one server; several servers share the     *)
(* file, and one that fails or is killed in the middle leaves it as it is. *)
(* A write may fail with a part of the line in the file (the disk is full): *)
(* the next line is then glued to it, and no reader can parse the two.     *)
(* ctx_stats (stats.go) sums the lines of its own session in that file, next *)
(* to the calls that its server has counted in memory.                      *)
(***************************************************************************)
EXTENDS Naturals, Sequences

CONSTANTS
  Appends,     \* calls of appendAuditLine, each with its record
  Servers,     \* the processes
  ServerOf(_), \* which of them runs an append
  Cap,         \* auditRotateBytes, in records
  Files,       \* bound: files that can be made, numbered from 1
  MaxFaults    \* bound: system calls that fail and servers that are killed

(* No file is 0 and nobody is an append or a server: they stand for none.  *)
ASSUME AuditParameters ==
  /\ Files \subseteq Nat \ {0} /\ 1 \in Files /\ Cap \in Nat
  /\ "nobody" \notin Appends /\ "none" \notin Servers
  /\ \A a \in Appends : ServerOf(a) \in Servers

VARIABLES
  names,   \* which file has the name path, and which path.1; 0 for none
  holds,   \* whose lines, or parts of one, are in each file, in their order
  append,  \* what each append has reached
  mutex,   \* auditMu of each server: the append that holds it
  session, \* how often each server has been started anew
  counted, \* the calls that a server has counted, of its present session
  stats,   \* a call of ctx_stats
  rotated, \* renames so far
  faults

auditVars == <<names, holds, append, mutex, session, counted, stats, rotated, faults>>

NoAppend == "nobody"

(* since: rotated when the file of fd was opened. *)
NewAppend == [pc |-> "new", fd |-> 0, since |-> 0, session |-> 0]

(* A call of ctx_stats on server of: the calls it counts, the file it      *)
(* opens, the lines it sums, and rotated when it opened the file.          *)
NoStats == [pc |-> "none", of |-> "none", calls |-> {}, fd |-> 0, lines |-> {}, since |-> 0]

(* The file is there and empty. *)
AuditInit ==
  /\ names = [path |-> 1, old |-> 0]
  /\ holds = [f \in Files |-> <<>>]
  /\ append = [a \in Appends |-> NewAppend]
  /\ mutex = [s \in Servers |-> NoAppend]
  /\ session = [s \in Servers |-> 0] /\ counted = {} /\ stats = NoStats
  /\ rotated = 0 /\ faults = 0

-----------------------------------------------------------------------------
Fault == faults < MaxFaults /\ faults' = faults + 1

Fails(a) == append' = [append EXCEPT ![a].pc = "failed"]

UnlockMu(a) == mutex' = [mutex EXCEPT ![ServerOf(a)] = NoAppend]

Unused ==
  {f \in Files : /\ f # names.path /\ f # names.old /\ holds[f] = <<>> /\ stats.fd # f
                 /\ \A a \in Appends : append[a].fd # f}

(* The file that opening path gives, made if there is none.                *)
Opened == IF names.path = 0 THEN CHOOSE f \in Unused : TRUE ELSE names.path

CanOpen == names.path = 0 => Unused # {}

Unread == UNCHANGED <<session, counted, stats>>

(* auditTargetOK: something that is not our regular file is in the way.    *)
Refused(a) ==
  /\ append[a].pc = "new" /\ Fault /\ Fails(a)
  /\ Unread /\ UNCHANGED <<names, holds, mutex, rotated>>

Open(a) ==
  /\ append[a].pc = "new" /\ mutex[ServerOf(a)] = NoAppend
  /\ \/ /\ CanOpen
        /\ append' = [append EXCEPT ![a] = [pc |-> "stat", fd |-> Opened, since |-> rotated,
                                            session |-> session[ServerOf(a)]]]
        /\ names' = [names EXCEPT !.path = Opened]
        /\ mutex' = [mutex EXCEPT ![ServerOf(a)] = a]
        /\ UNCHANGED faults
     \/ Fault /\ Fails(a) /\ UNCHANGED <<names, mutex>>
  /\ Unread /\ UNCHANGED <<holds, rotated>>

(* Sizes that a file may have, in records: the part of one is smaller.     *)
Sizes(h) ==
  {n \in 0 .. Len(h) : n >= Len(SelectSeq(h, LAMBDA b : append[b].pc = "written"))}

Stat(a) ==
  /\ append[a].pc = "stat"
  /\ \E size \in Sizes(holds[append[a].fd]) :
       append' = [append EXCEPT ![a].pc = IF size >= Cap THEN "rename" ELSE "write"]
  /\ Unread /\ UNCHANGED <<names, holds, mutex, rotated, faults>>

(* Whatever file has the name by now is renamed.                           *)
Rename(a) ==
  /\ append[a].pc = "rename"
  /\ \/ /\ names.path # 0
        /\ names' = [path |-> 0, old |-> names.path] /\ rotated' = rotated + 1
        /\ append' = [append EXCEPT ![a].pc = "reopen"]
        /\ UNCHANGED faults
     \/ /\ IF names.path = 0 THEN UNCHANGED faults ELSE Fault
        /\ append' = [append EXCEPT ![a].pc = "write"]
        /\ UNCHANGED <<names, rotated>>
  /\ Unread /\ UNCHANGED <<holds, mutex>>

ReopenFailsDropping(a) == append' = [append EXCEPT ![a].pc = "written"]

(* A reopen that fails leaves the line to the file that was renamed.       *)
ReopenFails(a) == append' = [append EXCEPT ![a].pc = "write"]

Reopen(a) ==
  /\ append[a].pc = "reopen"
  /\ \/ /\ CanOpen
        /\ append' = [append EXCEPT ![a].pc = "write", ![a].fd = Opened, ![a].since = rotated]
        /\ names' = [names EXCEPT !.path = Opened]
        /\ UNCHANGED faults
     \/ Fault /\ ReopenFails(a) /\ UNCHANGED names
  /\ Unread /\ UNCHANGED <<holds, mutex, rotated>>

(* One Write of the whole line.  If it fails, nothing of it was written    *)
(* (failed), a part (torn), or all but the newline (bare).                 *)
Write(a) ==
  /\ append[a].pc = "write"
  /\ \E pc \in {"written", "failed", "torn", "bare"} :
       /\ IF pc = "written" THEN UNCHANGED faults ELSE Fault
       /\ append' = [append EXCEPT ![a].pc = pc]
       /\ holds' = IF pc = "failed" THEN holds ELSE [holds EXCEPT ![append[a].fd] = Append(@, a)]
  /\ UnlockMu(a) /\ Unread /\ UNCHANGED <<names, rotated>>

-----------------------------------------------------------------------------
(* counted, statRecordCall: the handler has returned, its line is written  *)
(* or not.                                                                 *)
Returned(a) == append[a].pc \in {"written", "failed", "torn", "bare"}

Count(a) ==
  /\ Returned(a) /\ a \notin counted /\ append[a].session = session[ServerOf(a)]
  /\ counted' = counted \cup {a}
  /\ UNCHANGED <<names, holds, append, mutex, session, stats, rotated, faults>>

(* toolCtxStats: the counters first, under statMu.                         *)
StatsBegin(s) ==
  /\ stats.pc = "none"
  /\ stats' = [NoStats EXCEPT !.pc = "open", !.of = s, !.calls = {a \in counted : ServerOf(a) = s}]
  /\ UNCHANGED <<names, holds, append, mutex, session, counted, rotated, faults>>

(* aggregateAuditLog: the file at path, and not the one before it; without *)
(* one the log is told to be unavailable.                                  *)
StatsOpen ==
  /\ stats.pc = "open"
  /\ stats' = IF names.path = 0 THEN [stats EXCEPT !.pc = "unavailable"]
              ELSE [stats EXCEPT !.pc = "read", !.fd = names.path, !.since = rotated]
  /\ UNCHANGED <<names, holds, append, mutex, session, counted, rotated, faults>>

OfSession(s) == {a \in Appends : ServerOf(a) = s /\ append[a].session = session[s]}

(* A reader's lines are what newlines bound: the record of piece i can be  *)
(* parsed if the piece before it ends in one, and so does it or the file.  *)
Readable(h, i) ==
  /\ i > 1 => append[h[i - 1]].pc = "written"
  /\ append[h[i]].pc = "written" \/ (append[h[i]].pc = "bare" /\ i = Len(h))

Records(h) == {h[i] : i \in {j \in 1 .. Len(h) : Readable(h, j)}}

StatsRead ==
  /\ stats.pc = "read"
  /\ stats' = [stats EXCEPT !.pc = "told", !.fd = 0, !.lines = Records(holds[stats.fd]) \cap OfSession(stats.of)]
  /\ UNCHANGED <<names, holds, append, mutex, session, counted, rotated, faults>>

-----------------------------------------------------------------------------
(* A server is killed; another takes its place. *)
Killed(s) ==
  LET a == mutex[s]
  IN /\ a # NoAppend /\ Fault
     /\ append' = [append EXCEPT ![a].pc = "failed"] /\ UnlockMu(a)
     /\ session' = [session EXCEPT ![s] = @ + 1]
     /\ counted' = {b \in counted : ServerOf(b) # s}
     /\ stats' = IF stats.of = s THEN NoStats ELSE stats
     /\ UNCHANGED <<names, holds, rotated>>

AuditNext ==
  \/ \E a \in Appends : Refused(a) \/ Open(a) \/ Stat(a) \/ Rename(a) \/ Reopen(a) \/ Write(a) \/ Count(a)
  \/ \E s \in Servers : Killed(s) \/ StatsBegin(s)
  \/ StatsOpen \/ StatsRead

AuditSpec == AuditInit /\ [][AuditNext]_auditVars

-----------------------------------------------------------------------------
Kept == UNION {Records(holds[f]) : f \in {names.path, names.old} \ {0}}

(* The line right after what a failed write has left: one for each failure. *)
Spoiled(a) ==
  \E f \in Files : \E i \in 2 .. Len(holds[f]) :
    holds[f][i] = a /\ append[holds[f][i - 1]].pc # "written"

(* A line that was appended can be read under one of the two names until   *)
(* the log has been rotated twice since its file was opened, whatever      *)
(* failed and whoever else rotates (audit.go:408: no path loses a record); *)
(* but for the one that comes right after the part that a failed write has *)
(* left.  What ctx_stats sums was appended in its session, and has, with   *)
(* the same exception, every call that it counts and that was audited in a *)
(* file that is not rotated away.                                          *)
RecordSurvives ==
  /\ \A a \in Appends :
       append[a].pc = "written" /\ rotated < append[a].since + 2 => a \in Kept \/ Spoiled(a)
  /\ stats.pc = "told" =>
       /\ \A a \in stats.lines : append[a].pc \in {"written", "bare"} /\ a \in OfSession(stats.of)
       /\ \A a \in stats.calls :
            append[a].pc = "written" /\ append[a].since = stats.since => a \in stats.lines \/ Spoiled(a)
=============================================================================
