-------------------------------- MODULE CtxRun --------------------------------
(***************************************************************************)
(* One call of ctx_run: execute, execute_file, run_task (main.go,          *)
(* run_task.go) or batch (batch.go), from the first check to the answer,   *)
(* the index and the one line of the audit trail (audit.go).  The calls of *)
(* a batch share a deadline and run one by one, or have their own and run  *)
(* Concurrency at a time.  What the screens decide and how a command is    *)
(* killed are other modules.                                               *)
(***************************************************************************)
EXTENDS Naturals, Integers, Sequences, SequencesExt, FiniteSets

CONSTANTS
  MaxCommands,  \* bound: commands of a batch
  Concurrency   \* slots of a concurrent batch

ASSUME CallParameters == MaxCommands \in Nat /\ Concurrency \in Nat

VARIABLES
  request,  \* the action, and whether it is to run in the background
  stage,    \* how far the call has come
  cmd,      \* its commands, one unless it is a batch
  expired,  \* the deadline of a serial batch has passed, or the caller has given up
  kb,       \* commands whose output is in the store
  answer,   \* what the caller is shown of the output
  file,     \* the file of execute_file, as others leave it on the disk
  fed,      \* what of it the code is given
  trail     \* the audit lines of the call

ctxVars == <<request, stage, cmd, expired, kb, answer, file, fed, trail>>

NotRun == -1  \* auditExitNotRun

(* screen, guard: the verdicts; proc: what became of the process; exit,    *)
(* error, indexed: the result; secret: checkSensitiveContent would refuse. *)
NewCommand ==
  [pc |-> "new", screen |-> "ok", guard |-> FALSE, proc |-> "none",
   exit |-> NotRun, error |-> FALSE, indexed |-> FALSE, secret |-> FALSE]

Batch == request.action \in {"serial", "concurrent"}

OfFile == request.action = "execute_file"

(* key: a private key under an unsuspicious name.  named: isSensitiveFile- *)
(* Path holds of its name.  alias: a hard link to such a file.  link: a    *)
(* symbolic link to it.  unfit: no regular file, too large, or binary.     *)
FileKinds == {"plain", "key", "named", "alias", "link", "unfit"}

CtxInit ==
  /\ \/ /\ request \in [action : {"execute"}, background : BOOLEAN]
                     \cup [action : {"execute_file", "run_task"}, background : {FALSE}]
        /\ cmd = <<NewCommand>>
     \/ /\ request \in [action : {"serial", "concurrent"}, background : {FALSE}]
        /\ cmd \in {[i \in 1 .. n |-> NewCommand] : n \in 1 .. MaxCommands}
  /\ stage = "new" /\ expired = FALSE /\ kb = {} /\ answer = "none" /\ trail = <<>>
  /\ file \in IF OfFile THEN FileKinds ELSE {"unfit"}
  /\ fed = "none"

Line(exit, error, verdict, indexed, commands) ==
  [exit |-> exit, error |-> error, verdict |-> verdict, indexed |-> indexed, commands |-> commands]

Emit(line) == stage' = "answered" /\ trail' = Append(trail, line)

-----------------------------------------------------------------------------
(* The checks of the request, the screen and the guards.                   *)
Verdict(c) == IF c.guard THEN "block" ELSE c.screen

(* The worst verdict of all commands, a guard's before a screen's.         *)
CallVerdict ==
  LET all == {Verdict(cmd[i]) : i \in DOMAIN cmd}
  IN IF "block" \in all THEN "block" ELSE IF "warn" \in all THEN "warn" ELSE "ok"

(* The call fails and nothing has run; a role that may only read is        *)
(* refused with the verdict of a block.                                    *)
Rejected ==
  /\ \E verdict \in {"", "block"} : Emit(Line(NotRun, TRUE, verdict, FALSE, <<>>))
  /\ UNCHANGED <<request, cmd, expired, kb, answer, file, fed>>

(* Before the screen of execute: the fields, the timeout, the cwd, the     *)
(* environment, the size of the input.                                     *)
Invalid == stage = "new" /\ request.action = "execute" /\ Rejected

(* Before that of run_task: also its kind and what the kind lets through   *)
(* as target and arguments.                                                *)
TaskInvalid == stage = "new" /\ request.action = "run_task" /\ Rejected

(* Before that of a batch: the number of commands, their labels, slots.    *)
BatchInvalid == stage = "new" /\ Batch /\ Rejected

(* execute_file asks twice: of the path before it opens the file, which    *)
(* may be another file then, and of what it has opened without following   *)
(* a link.                                                                 *)
FileInvalid == stage \in {"new", "found", "read"} /\ OfFile /\ Rejected

FileFound ==
  /\ stage = "new" /\ OfFile /\ file \in {"plain", "key"}
  /\ stage' = "found"
  /\ UNCHANGED <<request, cmd, expired, kb, answer, file, fed, trail>>

FileChanges ==
  /\ stage = "found" /\ fed = "none" /\ file \in {"plain", "key"}
  /\ file' \in FileKinds \ {file, "named"}
  /\ UNCHANGED <<request, stage, cmd, expired, kb, answer, fed, trail>>

OpenedUnchecked == file # "link"

OpenedFits == file \in {"plain", "key"}

FileRead ==
  /\ stage = "found" /\ OpenedFits
  /\ stage' = "read" /\ fed' = file
  /\ UNCHANGED <<request, cmd, expired, kb, answer, file, trail>>

Screened ==
  /\ stage = (IF OfFile THEN "read" ELSE "new") /\ stage' = "screened"
  /\ \E v \in [DOMAIN cmd -> {"ok", "warn", "block", "guard"}] :
       cmd' = [i \in DOMAIN cmd |-> [cmd[i] EXCEPT !.guard = v[i] = "guard",
                                                  !.screen = IF v[i] = "guard" THEN "ok" ELSE v[i]]]
  /\ UNCHANGED <<request, expired, kb, answer, file, fed, trail>>

(* execute_file leaves a block of the screen to the shell runner.          *)
Stops == IF OfFile THEN cmd[1].guard ELSE CallVerdict = "block"

(* A batch checks its queries only now; its commands are refused one by    *)
(* one.                                                                    *)
Refused ==
  /\ stage = "screened" /\ (Batch \/ Stops)
  /\ Emit(Line(NotRun, TRUE, CallVerdict, FALSE, <<>>))
  /\ UNCHANGED <<request, cmd, expired, kb, answer, file, fed>>

Admitted ==
  /\ stage = "screened" /\ stage' = "running"
  /\ Batch \/ ~Stops
  /\ UNCHANGED <<request, cmd, expired, kb, answer, file, fed, trail>>

-----------------------------------------------------------------------------
(* The commands. *)

Result(i, fields) == cmd' = [cmd EXCEPT ![i] = fields]

NotStarted(i) == [cmd[i] EXCEPT !.pc = "done", !.exit = -1, !.error = TRUE]

Holders == {i \in DOMAIN cmd : cmd[i].pc \in {"slot", "running", "output"}}

AllDone == \A i \in DOMAIN cmd : cmd[i].pc = "done"

(* A command that the guards block never asks for a slot.                  *)
GuardBlocked(i) ==
  /\ Batch /\ cmd[i].pc = "new" /\ cmd[i].guard
  /\ request.action = "serial" => \A j \in 1 .. i - 1 : cmd[j].pc = "done"
  /\ Result(i, NotStarted(i)) /\ UNCHANGED kb

(* In a serial batch, what is left when the deadline has passed.           *)
Skipped(i) ==
  /\ request.action = "serial" /\ cmd[i].pc = "new" /\ ~cmd[i].guard /\ expired
  /\ \A j \in 1 .. i - 1 : cmd[j].pc = "done"
  /\ Result(i, NotStarted(i)) /\ UNCHANGED kb

TakesSlot(i) ==
  /\ cmd[i].pc = "new" /\ ~cmd[i].guard
  /\ CASE request.action = "serial"     -> ~expired /\ \A j \in 1 .. i - 1 : cmd[j].pc = "done"
       [] request.action = "concurrent" -> Cardinality(Holders) < Concurrency
       [] OTHER                         -> TRUE
  /\ Result(i, [cmd[i] EXCEPT !.pc = "slot"]) /\ UNCHANGED kb

(* A block of the screen, no runtime, or no process.                       *)
SpawnFails(i) ==
  /\ cmd[i].pc = "slot"
  /\ Result(i, NotStarted(i)) /\ UNCHANGED kb

Spawns(i) ==
  /\ cmd[i].pc = "slot" /\ cmd[i].screen # "block"
  /\ IF request.background
     THEN Result(i, [cmd[i] EXCEPT !.pc = "output", !.proc = "job", !.exit = 0])
     ELSE Result(i, [cmd[i] EXCEPT !.pc = "running", !.proc = "running"])
  /\ UNCHANGED kb

(* The process ends, or is killed at its deadline; an end and a deadline   *)
(* that come together may be taken in either order.                        *)
Ends(i) ==
  /\ cmd[i].pc = "running" /\ UNCHANGED kb
  /\ \E secret \in BOOLEAN :
       \/ \E code \in {0, 1} :
            Result(i, [cmd[i] EXCEPT !.pc = "output", !.exit = code, !.secret = secret,
                                     !.proc = IF code = 0 THEN "succeeded" ELSE "failed"])
       \/ Result(i, [cmd[i] EXCEPT !.pc = "output", !.exit = -1, !.error = TRUE, !.secret = secret,
                                   !.proc = "killed"])

(* Indexing, when the output is large, or is not small and the call has an *)
(* intent: it is refused when there is a secret, and the store may fail.   *)
Index(i, ok) == IF ok /\ ~cmd[i].secret THEN kb \cup {i} ELSE kb

(* completeBatchResult: a large output is indexed, no other is kept.       *)
Completes(i) ==
  /\ Batch /\ cmd[i].pc = "output"
  /\ \E large, ok \in BOOLEAN :
       /\ kb' = Index(i, large /\ ok)
       /\ Result(i, [cmd[i] EXCEPT !.pc = "done", !.indexed = i \in kb'])

CommandStep(i) ==
  /\ stage = "running"
  /\ \/ GuardBlocked(i) \/ Skipped(i) \/ TakesSlot(i) \/ SpawnFails(i) \/ Spawns(i)
     \/ Ends(i) \/ Completes(i)
  /\ UNCHANGED <<request, stage, expired, answer, file, fed, trail>>

DeadlinePasses ==
  /\ stage = "running" /\ request.action = "serial" /\ ~expired /\ expired' = TRUE
  /\ UNCHANGED <<request, stage, cmd, kb, answer, file, fed, trail>>

-----------------------------------------------------------------------------
(* The end of a call that is no batch.  setResult: a background call has   *)
(* no exit code to report.                                                 *)
Recorded(c) == IF request.background THEN NotRun ELSE c.exit

NoProcess ==
  /\ stage = "running" /\ ~Batch /\ cmd[1].pc = "done"
  /\ Emit(Line(NotRun, TRUE, Verdict(cmd[1]), FALSE, <<>>))
  /\ UNCHANGED <<request, cmd, expired, kb, answer, file, fed>>

(* A large output, or one with an intent, is indexed and shown in part; a  *)
(* small one is shown.  Whatever is shown has passed checkSensitiveContent.*)
PreviewOf(c) == IF c.secret THEN "withheld" ELSE "preview"

Replies(kept) ==
  /\ stage = "running" /\ ~Batch /\ cmd[1].pc = "output"
  /\ \/ kb' = kept /\ answer' = PreviewOf(cmd[1])
     \/ kb' = kb /\ answer' = IF cmd[1].secret THEN "withheld" ELSE "output"
  /\ cmd' = [cmd EXCEPT ![1].pc = "done", ![1].indexed = 1 \in kb']
  /\ Emit(Line(Recorded(cmd[1]), FALSE, Verdict(cmd[1]), 1 \in kb', <<>>))
  /\ UNCHANGED <<request, expired, file, fed>>

Answers == request.action = "execute" /\ \E ok \in BOOLEAN : Replies(Index(1, ok))

TaskAnswers == request.action = "run_task" /\ \E ok \in BOOLEAN : Replies(Index(1, ok))

(* What code did with a private key is not indexed either.                 *)
FileAnswers == OfFile /\ \E ok \in BOOLEAN : Replies(Index(1, ok /\ fed # "key"))

(* The end of a batch: the first failure by position.                      *)
AggregateSentinel(s) ==
  FoldLeft(LAMBDA acc, code : IF acc \in {NotRun, 0} THEN code ELSE acc, NotRun, s)

Aggregate(s) ==
  IF \A i \in DOMAIN s : s[i] = 0 THEN 0
  ELSE s[CHOOSE i \in DOMAIN s : s[i] # 0 /\ \A j \in 1 .. i - 1 : s[j] = 0]

BatchEnds ==
  /\ stage = "running" /\ Batch /\ AllDone
  /\ Emit(Line(Aggregate([i \in DOMAIN cmd |-> cmd[i].exit]), FALSE, CallVerdict,
               \E i \in DOMAIN cmd : cmd[i].indexed,
               [i \in DOMAIN cmd |-> [exit |-> cmd[i].exit, verdict |-> Verdict(cmd[i]), indexed |-> cmd[i].indexed]]))
  /\ UNCHANGED <<request, cmd, expired, kb, answer, file, fed>>

CallEnded == stage = "answered" /\ UNCHANGED ctxVars

CtxNext ==
  \/ Invalid \/ TaskInvalid \/ BatchInvalid \/ FileInvalid \/ FileFound \/ FileChanges \/ FileRead
  \/ Screened \/ Refused \/ Admitted \/ DeadlinePasses
  \/ \E i \in DOMAIN cmd : CommandStep(i)
  \/ NoProcess \/ Answers \/ TaskAnswers \/ FileAnswers \/ BatchEnds \/ CallEnded

CtxSpec == CtxInit /\ [][CtxNext]_ctxVars

-----------------------------------------------------------------------------
(* The audit line of a call, and of every command of a batch, says what    *)
(* happened: 0 only if every process ran and succeeded, a block only if    *)
(* nothing was started, indexed only for what is in the store.             *)
TellsOf(i, exit, verdict, indexed) ==
  /\ exit = 0 => cmd[i].proc = "succeeded"
  /\ verdict = "block" => cmd[i].proc = "none"
  /\ indexed <=> i \in kb

AuditTells ==
  stage = "answered" =>
    /\ Len(trail) = 1
    /\ LET line == trail[1]
       IN IF line.commands = <<>>
          THEN \A i \in DOMAIN cmd : TellsOf(i, line.exit, line.verdict, line.indexed)
          ELSE /\ \A i \in DOMAIN cmd :
                    LET c == line.commands[i] IN TellsOf(i, c.exit, c.verdict, c.indexed)
               /\ line.exit = 0 <=> \A i \in DOMAIN cmd : cmd[i].proc = "succeeded"
               /\ line.indexed <=> kb # {}

(* An output that the sensitive-content check refuses is neither in the    *)
(* store nor shown, and neither is the content of a file that the checks   *)
(* of execute_file refuse given to the code, whenever the file is swapped, *)
(* nor what the code made of a private key stored.                         *)
SecretStays ==
  /\ \A i \in DOMAIN cmd : cmd[i].secret => i \notin kb /\ answer \notin {"preview", "output"}
  /\ fed \notin {"named", "alias", "link", "unfit"}
  /\ fed = "key" => kb = {}
=============================================================================
