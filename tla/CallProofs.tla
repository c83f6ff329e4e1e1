------------------------------ MODULE CallProofs ------------------------------
(***************************************************************************)
(* A call, its files and its log.  CtxRun: AuditTells and SecretStays for  *)
(* every number of commands in a batch and of slots.  JobFiles: TempsFreed *)
(* for every number of servers, on one directory or on several, of         *)
(* launches, and of crashes and shutdowns.  RingLog: TailIsNewest for      *)
(* every size of the log, every length of the output, and every place of   *)
(* the ends of lines and of the runes in it.                               *)
(***************************************************************************)
EXTENDS CtxRun, RingLog, JobFiles, SequenceTheorems, FiniteSetTheorems, WellFoundedInduction, TLAPS

Commands ==
  [pc : {"new", "slot", "running", "output", "done"}, screen : {"ok", "warn", "block"}, guard : BOOLEAN,
   proc : {"none", "running", "job", "succeeded", "failed", "killed"},
   exit : {-1, 0, 1}, error : BOOLEAN, indexed : BOOLEAN, secret : BOOLEAN]

Stages == {"new", "found", "read", "screened", "running", "answered"}

Actions == {"execute", "execute_file", "run_task", "serial", "concurrent"}

CtxTypes ==
  /\ request \in [action : Actions, background : BOOLEAN]
  /\ stage \in Stages /\ expired \in BOOLEAN
  /\ \E n \in Nat \ {0} : cmd \in [1 .. n -> Commands]
  /\ kb \subseteq DOMAIN cmd
  /\ answer \in {"none", "withheld", "preview", "output"}
  /\ fed \in {"none", "plain", "key"}

(* A command at one place of its run, and whether it is in the store.      *)
CommandOK(c, kept) ==
  /\ c.pc \in {"new", "slot"} => c.proc = "none"
  /\ c.pc = "running" => c.proc = "running"
  /\ c.pc = "output" => c.proc \in {"job", "succeeded", "failed", "killed"}
  /\ c.pc = "done" => c.proc # "running"
  /\ c.pc \in {"output", "done"} => /\ c.proc = "succeeded" => c.exit = 0
                                    /\ c.exit = 0 => c.proc \in {"succeeded", "job"}
  /\ c.proc = "job" => request.background = TRUE
  /\ Verdict(c) = "block" => c.proc = "none"
  /\ c.guard = TRUE => c.pc \in {"new", "done"}
  /\ kept => c.pc = "done" /\ c.secret = FALSE
  /\ c.indexed = TRUE <=> kept

CommandsOK == \A i \in DOMAIN cmd : CommandOK(cmd[i], i \in kb)

(* What a call has at its stages. *)
CallOK ==
  /\ Batch \/ DOMAIN cmd = {1}
  /\ request.background = TRUE => request.action = "execute"
  /\ stage \in {"found", "read"} => OfFile
  /\ stage \in {"new", "found", "read", "screened"} => kb = {} /\ \A i \in DOMAIN cmd : cmd[i].pc = "new"
  /\ stage # "answered" => trail = <<>> /\ answer = "none"
  /\ stage = "running" /\ ~Batch => kb = {} /\ (cmd[1].pc = "done" => cmd[1].proc = "none" /\ cmd[1].exit = -1)

(* What becomes of secrets and of files.                                   *)
SecretOK ==
  /\ fed # "none" => OfFile
  /\ fed = "key" => kb = {}
  /\ answer \in {"preview", "output"} => \A i \in DOMAIN cmd : cmd[i].secret = FALSE

CtxInv == CtxTypes /\ CommandsOK /\ CallOK /\ SecretOK /\ AuditTells

-----------------------------------------------------------------------------
(* The exit code of a batch is 0 only if all of its commands' are.         *)
LEMMA AggregateTells ==
  ASSUME NEW n \in Nat, NEW s \in [1 .. n -> {-1, 0, 1}]
  PROVE  Aggregate(s) = 0 <=> \A i \in 1 .. n : s[i] = 0
<1> DEFINE F == {i \in 1 .. n : s[i] # 0}
<1>1. CASE \A i \in DOMAIN s : s[i] = 0
  BY <1>1 DEF Aggregate
<1>2. CASE ~\A i \in DOMAIN s : s[i] = 0
  <2>1. F # {} /\ F \subseteq Nat
    BY <1>2
  <2>2. PICK x \in F : \A y \in F : ~(<<y, x>> \in OpToRel(<, Nat))
    BY <2>1, WFMin, NatLessThanWellFounded
  <2>3. x \in 1 .. n /\ s[x] # 0
    BY <2>2
  <2>4. \A j \in 1 .. x - 1 : s[j] = 0
    <3>1. ASSUME NEW j \in 1 .. x - 1, s[j] # 0 PROVE FALSE
      <4>1. j \in F /\ j < x /\ j \in Nat /\ x \in Nat
        BY <2>3, <3>1
      <4> QED BY <2>2, <4>1 DEF OpToRel
    <3> QED BY <3>1
  <2>5. \E i \in DOMAIN s : s[i] # 0 /\ \A j \in 1 .. i - 1 : s[j] = 0
    BY <2>3, <2>4
  <2>6. Aggregate(s) = s[CHOOSE i \in DOMAIN s : s[i] # 0 /\ \A j \in 1 .. i - 1 : s[j] = 0]
    BY <1>2 DEF Aggregate
  <2> QED BY <1>2, <2>5, <2>6
<1> QED BY <1>1, <1>2

LEMMA CtxInitHolds == CtxInit => CtxInv
<1> SUFFICES ASSUME CtxInit PROVE CtxInv
  OBVIOUS
<1>1. /\ request \in [action : Actions, background : BOOLEAN]
      /\ request.background = TRUE => request.action = "execute"
      /\ Batch \/ cmd = <<NewCommand>>
  BY DEF CtxInit, Actions, Batch
<1>2. PICK n \in Nat \ {0} : cmd = [i \in 1 .. n |-> NewCommand]
  <2>1. <<NewCommand>> = [i \in 1 .. 1 |-> NewCommand]
    OBVIOUS
  <2>2. \A n \in 1 .. MaxCommands : n \in Nat \ {0}
    BY CallParameters
  <2>3. cmd = <<NewCommand>> \/ \E n \in 1 .. MaxCommands : cmd = [i \in 1 .. n |-> NewCommand]
    BY DEF CtxInit
  <2>4. CASE cmd = <<NewCommand>>
    <3>1. cmd = [i \in 1 .. 1 |-> NewCommand] /\ 1 \in Nat \ {0}
      BY <2>1, <2>4
    <3> QED BY <3>1
  <2> QED BY <2>2, <2>3, <2>4
<1>3. NewCommand \in Commands /\ Verdict(NewCommand) # "block" /\ NewCommand.pc = "new"
      /\ NewCommand.proc = "none" /\ NewCommand.indexed = FALSE /\ NewCommand.secret = FALSE
  BY DEF NewCommand, Commands, Verdict, NotRun
<1>4. cmd \in [1 .. n -> Commands] /\ DOMAIN cmd = 1 .. n /\ \A i \in DOMAIN cmd : cmd[i] = NewCommand
  BY <1>2, <1>3
<1>5. stage = "new" /\ expired = FALSE /\ kb = {} /\ answer = "none" /\ trail = <<>> /\ fed = "none"
  BY DEF CtxInit
<1>6. CommandOK(NewCommand, FALSE)
  BY <1>3 DEF CommandOK
<1>7. CommandsOK
  <2>1. \A i \in DOMAIN cmd : (i \in kb) = FALSE
    BY <1>5
  <2> QED BY <1>4, <1>6, <2>1 DEF CommandsOK
<1>8. CtxTypes
  BY <1>1, <1>2, <1>4, <1>5 DEF CtxTypes, Stages
<1>9. Batch \/ DOMAIN cmd = {1}
  BY <1>1
<1> QED BY <1>1, <1>3, <1>4, <1>5, <1>7, <1>8, <1>9 DEF CtxInv, CallOK, SecretOK, AuditTells

-----------------------------------------------------------------------------
(* One command goes on. *)
LEMMA OneCommand ==
  ASSUME CtxInv, stage = "running", NEW i \in DOMAIN cmd, NEW r \in Commands, cmd' = [cmd EXCEPT ![i] = r],
         UNCHANGED <<request, stage, expired, answer, fed, trail>>,
         kb' = kb \/ kb' = kb \cup {i}, CommandOK(r, i \in kb'),
         Batch \/ (kb' = kb /\ (r.pc = "done" => r.proc = "none" /\ r.exit = -1))
  PROVE  CtxInv'
<1>1. PICK n \in Nat \ {0} : cmd \in [1 .. n -> Commands]
  BY DEF CtxInv, CtxTypes
<1>2. cmd' \in [1 .. n -> Commands] /\ DOMAIN cmd' = DOMAIN cmd /\ cmd'[i] = r
      /\ \A j \in DOMAIN cmd \ {i} : cmd'[j] = cmd[j]
  BY <1>1
<1>3. CtxTypes'
  BY <1>2 DEF CtxInv, CtxTypes
<1>4. CommandsOK'
  <2>1. ASSUME NEW j \in DOMAIN cmd \ {i} PROVE CommandOK(cmd[j], j \in kb) => CommandOK(cmd[j], j \in kb)'
    <3>1. (j \in kb') = (j \in kb)
      OBVIOUS
    <3>2. cmd'[j] = cmd[j] /\ request' = request
      BY <1>2
    <3> QED BY <3>1, <3>2 DEF CommandOK, Verdict
  <2>2. CommandOK(cmd[i], i \in kb)'
    BY <1>2 DEF CommandOK, Verdict
  <2> QED BY <1>2, <2>1, <2>2 DEF CtxInv, CommandsOK
<1>5. Batch' = Batch /\ OfFile' = OfFile
  BY DEF Batch, OfFile
<1>6. CallOK'
  BY <1>2, <1>5 DEF CtxInv, CallOK
<1>7. SecretOK'
  <2>1. OfFile => ~Batch
    BY DEF Batch, OfFile
  <2> QED BY <1>5, <2>1 DEF CtxInv, SecretOK, CallOK
<1>8. AuditTells'
  BY DEF AuditTells
<1> QED BY <1>3, <1>4, <1>6, <1>7, <1>8 DEF CtxInv

LEMMA CommandStepKeeps ==
  ASSUME CtxInv, NEW i \in DOMAIN cmd, CommandStep(i)
  PROVE  CtxInv'
<1>1. /\ stage = "running" /\ cmd[i] \in Commands /\ CommandOK(cmd[i], i \in kb)
      /\ UNCHANGED <<request, stage, expired, answer, fed, trail>>
  BY DEF CommandStep, CtxInv, CtxTypes, CommandsOK
<1>2. ASSUME cmd[i].pc = "new" \/ cmd[i].pc = "slot", Result(i, NotStarted(i)), UNCHANGED kb PROVE CtxInv'
  <2> DEFINE r == NotStarted(i)
  <2>1. r \in Commands /\ r.pc = "done" /\ r.exit = -1 /\ r.proc = "none" /\ r.indexed = cmd[i].indexed
        /\ r.secret = cmd[i].secret /\ r.guard = cmd[i].guard /\ r.screen = cmd[i].screen
    BY <1>1, <1>2 DEF NotStarted, Commands, CommandOK
  <2>2. cmd' = [cmd EXCEPT ![i] = r]
    BY <1>2 DEF Result
  <2> HIDE DEF r
  <2>3. CommandOK(r, i \in kb')
    BY <1>1, <1>2, <2>1 DEF CommandOK, Verdict
  <2> QED BY <1>1, <1>2, <2>1, <2>2, <2>3, OneCommand
<1>3. CASE GuardBlocked(i)
  BY <1>2, <1>3 DEF GuardBlocked
<1>4. CASE Skipped(i)
  BY <1>2, <1>4 DEF Skipped
<1>5. CASE SpawnFails(i)
  BY <1>2, <1>5 DEF SpawnFails
<1>6. CASE TakesSlot(i)
  <2> DEFINE r == [cmd[i] EXCEPT !.pc = "slot"]
  <2>1. r \in Commands /\ r.pc = "slot" /\ r.proc = "none" /\ r.indexed = cmd[i].indexed
        /\ r.secret = cmd[i].secret /\ r.guard = cmd[i].guard /\ r.screen = cmd[i].screen
    BY <1>1, <1>6 DEF TakesSlot, Commands, CommandOK
  <2>2. cmd' = [cmd EXCEPT ![i] = r] /\ kb' = kb /\ cmd[i].pc = "new" /\ cmd[i].guard = FALSE
    BY <1>1, <1>6 DEF TakesSlot, Result, Commands
  <2> HIDE DEF r
  <2>3. CommandOK(r, i \in kb')
    BY <1>1, <2>1, <2>2 DEF CommandOK, Verdict
  <2> QED BY <1>1, <2>1, <2>2, <2>3, OneCommand
<1>7. CASE Spawns(i)
  <2>0. cmd[i].pc = "slot" /\ cmd[i].screen # "block" /\ kb' = kb
    BY <1>7 DEF Spawns
  <2>1. PICK r \in Commands :
          /\ cmd' = [cmd EXCEPT ![i] = r] /\ r.indexed = cmd[i].indexed /\ r.secret = cmd[i].secret
          /\ \/ r.pc = "output" /\ r.proc = "job" /\ r.exit = 0 /\ request.background = TRUE
             \/ r.pc = "running" /\ r.proc = "running"
          /\ r.screen = cmd[i].screen /\ r.guard = cmd[i].guard
    <3>1. CASE request.background
      <4> DEFINE r == [cmd[i] EXCEPT !.pc = "output", !.proc = "job", !.exit = 0]
      <4>1. r \in Commands /\ r.pc = "output" /\ r.proc = "job" /\ r.exit = 0 /\ r.indexed = cmd[i].indexed
            /\ r.secret = cmd[i].secret /\ r.screen = cmd[i].screen /\ r.guard = cmd[i].guard
        BY <1>1 DEF Commands
      <4>2. cmd' = [cmd EXCEPT ![i] = r] /\ request.background = TRUE
        BY <1>7, <3>1 DEF Spawns, Result, CtxInv, CtxTypes
      <4> HIDE DEF r
      <4> QED BY <4>1, <4>2
    <3>2. CASE ~request.background
      <4> DEFINE r == [cmd[i] EXCEPT !.pc = "running", !.proc = "running"]
      <4>1. r \in Commands /\ r.pc = "running" /\ r.proc = "running" /\ r.indexed = cmd[i].indexed
            /\ r.secret = cmd[i].secret /\ r.screen = cmd[i].screen /\ r.guard = cmd[i].guard
        BY <1>1 DEF Commands
      <4>2. cmd' = [cmd EXCEPT ![i] = r]
        BY <1>7, <3>2 DEF Spawns, Result
      <4> HIDE DEF r
      <4> QED BY <4>1, <4>2
    <3> QED BY <3>1, <3>2
  <2>2. cmd[i].guard = FALSE
    BY <1>1, <2>0 DEF Commands, CommandOK
  <2>3. CommandOK(r, i \in kb')
    BY <1>1, <2>0, <2>1, <2>2 DEF CommandOK, Verdict
  <2> QED BY <1>1, <2>0, <2>1, <2>3, OneCommand
<1>8. CASE Ends(i)
  <2>0. cmd[i].pc = "running" /\ kb' = kb
    BY <1>8 DEF Ends
  <2>1. PICK secret \in BOOLEAN, code \in {0, 1, -1}, error \in BOOLEAN, proc \in {"succeeded", "failed", "killed"} :
          /\ cmd' = [cmd EXCEPT ![i] = [cmd[i] EXCEPT !.pc = "output", !.exit = code, !.error = error,
                                                    !.secret = secret, !.proc = proc]]
          /\ code = 0 <=> proc = "succeeded"
    <3>1. ASSUME NEW secret \in BOOLEAN, NEW code \in {0, 1},
                 Result(i, [cmd[i] EXCEPT !.pc = "output", !.exit = code, !.secret = secret,
                                         !.proc = IF code = 0 THEN "succeeded" ELSE "failed"])
          PROVE  \E error \in BOOLEAN, proc \in {"succeeded", "failed", "killed"} :
                   /\ cmd' = [cmd EXCEPT ![i] = [cmd[i] EXCEPT !.pc = "output", !.exit = code, !.error = error,
                                                             !.secret = secret, !.proc = proc]]
                   /\ code = 0 <=> proc = "succeeded"
      <4> DEFINE proc == IF code = 0 THEN "succeeded" ELSE "failed"
      <4>1. [cmd[i] EXCEPT !.pc = "output", !.exit = code, !.secret = secret, !.proc = proc]
              = [cmd[i] EXCEPT !.pc = "output", !.exit = code, !.error = cmd[i].error, !.secret = secret, !.proc = proc]
        BY <1>1 DEF Commands
      <4>2. proc \in {"succeeded", "failed", "killed"} /\ (code = 0 <=> proc = "succeeded") /\ cmd[i].error \in BOOLEAN
        BY <1>1, <3>1 DEF Commands
      <4>3. cmd' = [cmd EXCEPT ![i] = [cmd[i] EXCEPT !.pc = "output", !.exit = code, !.error = cmd[i].error,
                                                    !.secret = secret, !.proc = proc]]
        BY <3>1, <4>1 DEF Result
      <4> HIDE DEF proc
      <4> QED BY <4>2, <4>3
    <3>2. ASSUME NEW secret \in BOOLEAN,
                 Result(i, [cmd[i] EXCEPT !.pc = "output", !.exit = -1, !.error = TRUE, !.secret = secret, !.proc = "killed"])
          PROVE  cmd' = [cmd EXCEPT ![i] = [cmd[i] EXCEPT !.pc = "output", !.exit = -1, !.error = TRUE,
                                                        !.secret = secret, !.proc = "killed"]]
      BY <3>2 DEF Result
    <3>3. PICK secret \in BOOLEAN :
            \/ \E code \in {0, 1} :
                 Result(i, [cmd[i] EXCEPT !.pc = "output", !.exit = code, !.secret = secret,
                                         !.proc = IF code = 0 THEN "succeeded" ELSE "failed"])
            \/ Result(i, [cmd[i] EXCEPT !.pc = "output", !.exit = -1, !.error = TRUE, !.secret = secret, !.proc = "killed"])
      BY <1>8 DEF Ends
    <3>4. CASE \E code \in {0, 1} :
                 Result(i, [cmd[i] EXCEPT !.pc = "output", !.exit = code, !.secret = secret,
                                         !.proc = IF code = 0 THEN "succeeded" ELSE "failed"])
      BY <3>1, <3>4
    <3>5. CASE Result(i, [cmd[i] EXCEPT !.pc = "output", !.exit = -1, !.error = TRUE, !.secret = secret, !.proc = "killed"])
      <4> DEFINE code == -1
      <4>1. cmd' = [cmd EXCEPT ![i] = [cmd[i] EXCEPT !.pc = "output", !.exit = code, !.error = TRUE,
                                                    !.secret = secret, !.proc = "killed"]]
        BY <3>2, <3>5
      <4>2. code \in {0, 1, -1} /\ (code = 0 <=> "killed" = "succeeded")
        OBVIOUS
      <4> HIDE DEF code
      <4> QED BY <4>1, <4>2
    <3> QED BY <3>3, <3>4, <3>5
  <2> DEFINE r == [cmd[i] EXCEPT !.pc = "output", !.exit = code, !.error = error, !.secret = secret, !.proc = proc]
  <2>2. r \in Commands /\ r.pc = "output" /\ r.exit = code /\ r.proc = proc /\ r.indexed = cmd[i].indexed
        /\ r.guard = cmd[i].guard /\ r.screen = cmd[i].screen
    BY <1>1, <2>1 DEF Commands
  <2>3. cmd' = [cmd EXCEPT ![i] = r]
    BY <2>1
  <2> HIDE DEF r
  <2>4. Verdict(cmd[i]) # "block"
    BY <1>1, <2>0 DEF CommandOK
  <2>5. CommandOK(r, i \in kb')
    BY <1>1, <2>0, <2>1, <2>2, <2>4 DEF CommandOK, Verdict, Commands
  <2> QED BY <1>1, <2>0, <2>2, <2>3, <2>5, OneCommand
<1>9. CASE Completes(i)
  <2>0. Batch /\ cmd[i].pc = "output"
    BY <1>9 DEF Completes
  <2>1. PICK large \in BOOLEAN, ok \in BOOLEAN :
          /\ kb' = Index(i, large /\ ok)
          /\ cmd' = [cmd EXCEPT ![i] = [cmd[i] EXCEPT !.pc = "done", !.indexed = i \in kb']]
    BY <1>9 DEF Completes, Result
  <2> DEFINE k == i \in kb'
             r == [cmd[i] EXCEPT !.pc = "done", !.indexed = k]
  <2>a. k \in BOOLEAN /\ (k = TRUE <=> i \in kb') /\ cmd' = [cmd EXCEPT ![i] = r]
    BY <2>1
  <2> HIDE DEF k
  <2>2. r \in Commands /\ r.pc = "done" /\ r.exit = cmd[i].exit /\ r.proc = cmd[i].proc /\ r.secret = cmd[i].secret
        /\ r.guard = cmd[i].guard /\ r.screen = cmd[i].screen /\ (r.indexed = TRUE <=> i \in kb')
    BY <1>1, <2>a DEF Commands
  <2> HIDE DEF r
  <2>3. i \notin kb /\ (kb' = kb \/ (kb' = kb \cup {i} /\ cmd[i].secret = FALSE))
    BY <1>1, <2>0, <2>1 DEF Index, CommandOK, Commands
  <2>4. cmd' = [cmd EXCEPT ![i] = r]
    BY <2>a
  <2>5. CommandOK(r, i \in kb')
    BY <1>1, <2>0, <2>2, <2>3 DEF CommandOK, Verdict
  <2> QED BY <1>1, <2>0, <2>2, <2>3, <2>4, <2>5, OneCommand
<1> QED
  BY <1>3, <1>4, <1>5, <1>6, <1>7, <1>8, <1>9 DEF CommandStep

-----------------------------------------------------------------------------
(* The call as a whole. *)

(* The call gets to another stage, or its file is another one.             *)
LEMMA StageKeeps ==
  ASSUME CtxInv, stage # "answered", UNCHANGED <<request, cmd, kb, answer, trail>>,
         stage' \in {"new", "found", "read", "screened"}, stage \in {"new", "found", "read", "screened"},
         stage' \in {"found", "read"} => OfFile, expired' \in BOOLEAN, fed' = fed \/ (OfFile /\ fed' \in {"plain", "key"})
  PROVE  CtxInv'
<1>1. CtxTypes'
  BY DEF CtxInv, CtxTypes, Stages
<1>2. CommandsOK'
  BY DEF CtxInv, CommandsOK, CommandOK, Verdict
<1>3. CallOK'
  BY DEF CtxInv, CallOK, Batch, OfFile
<1>4. SecretOK'
  BY DEF CtxInv, CallOK, SecretOK, OfFile
<1>5. AuditTells'
  BY DEF AuditTells
<1> QED BY <1>1, <1>2, <1>3, <1>4, <1>5 DEF CtxInv

(* Emitting a line leaves the call answered, with that line.               *)
LEMMA Emitted ==
  ASSUME CtxInv, stage # "answered", NEW l, Emit(l)
  PROVE  stage' = "answered" /\ trail' = <<l>> /\ Len(trail') = 1 /\ trail'[1] = l
  BY DEF CtxInv, CallOK, Emit

(* A call that ends before anything has run. *)
LEMMA NothingRan ==
  ASSUME CtxInv, stage \in {"new", "found", "read", "screened"}, UNCHANGED <<request, cmd, expired, kb, answer, fed>>,
         NEW verdict, Emit(Line(NotRun, TRUE, verdict, FALSE, <<>>))
  PROVE  CtxInv'
<1> DEFINE l == Line(NotRun, TRUE, verdict, FALSE, <<>>)
<1>0. l.exit = -1 /\ l.indexed = FALSE /\ l.commands = <<>> /\ Emit(l)
  BY DEF Line, NotRun
<1> HIDE DEF l
<1>1. stage' = "answered" /\ Len(trail') = 1 /\ trail'[1] = l
  BY <1>0, Emitted
<1>2. CtxTypes'
  BY <1>1 DEF CtxInv, CtxTypes, Stages
<1>3. CommandsOK'
  BY DEF CtxInv, CommandsOK, CommandOK, Verdict
<1>4. CallOK'
  BY <1>1 DEF CtxInv, CallOK, Batch
<1>5. SecretOK'
  BY DEF CtxInv, SecretOK, OfFile
<1>6. AuditTells'
  <2>1. \A i \in DOMAIN cmd : cmd[i].proc = "none" /\ i \notin kb
    BY DEF CtxInv, CallOK, CommandsOK, CommandOK
  <2>2. Len(trail') = 1 /\ trail'[1].exit = -1 /\ trail'[1].commands = <<>> /\ trail'[1].indexed = FALSE
    BY <1>0, <1>1
  <2> QED BY <2>1, <2>2 DEF AuditTells, TellsOf
<1> QED BY <1>2, <1>3, <1>4, <1>5, <1>6 DEF CtxInv

LEMMA ScreenedKeeps ==
  ASSUME CtxInv, Screened
  PROVE  CtxInv'
<1>1. PICK v \in [DOMAIN cmd -> {"ok", "warn", "block", "guard"}] :
        cmd' = [i \in DOMAIN cmd |-> [cmd[i] EXCEPT !.guard = v[i] = "guard",
                                                    !.screen = IF v[i] = "guard" THEN "ok" ELSE v[i]]]
  BY DEF Screened
<1>2. PICK n \in Nat \ {0} : cmd \in [1 .. n -> Commands]
  BY DEF CtxInv, CtxTypes
<1>3. ASSUME NEW i \in DOMAIN cmd
      PROVE  /\ cmd'[i] \in Commands /\ cmd'[i].pc = cmd[i].pc /\ cmd'[i].proc = cmd[i].proc
             /\ cmd'[i].exit = cmd[i].exit /\ cmd'[i].secret = cmd[i].secret /\ cmd'[i].indexed = cmd[i].indexed
  <2> DEFINE g == v[i] = "guard"
             w == IF v[i] = "guard" THEN "ok" ELSE v[i]
  <2>1. g \in BOOLEAN /\ w \in {"ok", "warn", "block"}
    OBVIOUS
  <2>2. cmd'[i] = [cmd[i] EXCEPT !.guard = g, !.screen = w]
    BY <1>1
  <2> HIDE DEF g, w
  <2>3. cmd[i] \in Commands
    BY <1>2
  <2> QED BY <2>1, <2>2, <2>3 DEF Commands
<1>4. stage \in {"new", "read"} /\ stage' = "screened" /\ UNCHANGED <<request, expired, kb, answer, fed, trail>>
  BY DEF Screened
<1>5. DOMAIN cmd' = DOMAIN cmd /\ cmd' \in [1 .. n -> Commands]
  <2>1. cmd' = [i \in 1 .. n |-> cmd'[i]]
    BY <1>1, <1>2
  <2> QED BY <1>2, <1>3, <2>1
<1>6. CtxTypes'
  BY <1>2, <1>4, <1>5 DEF CtxInv, CtxTypes, Stages
<1>7. \A i \in DOMAIN cmd : cmd'[i].pc = "new" /\ cmd'[i].proc = "none" /\ i \notin kb /\ cmd'[i].indexed = FALSE
  <2>1. \A i \in DOMAIN cmd : cmd[i].pc = "new" /\ i \notin kb /\ CommandOK(cmd[i], i \in kb) /\ cmd[i] \in Commands
    BY <1>2, <1>4 DEF CtxInv, CallOK, CommandsOK
  <2> QED BY <1>3, <2>1 DEF CommandOK, Commands
<1>8. CommandsOK'
  BY <1>4, <1>5, <1>7 DEF CommandsOK, CommandOK
<1>9. CallOK'
  BY <1>4, <1>5, <1>7 DEF CtxInv, CallOK, Batch
<1>10. SecretOK'
  BY <1>4 DEF CtxInv, CallOK, SecretOK, OfFile
<1>11. AuditTells'
  BY <1>4 DEF AuditTells
<1> QED BY <1>6, <1>8, <1>9, <1>10, <1>11 DEF CtxInv

LEMMA NoProcessKeeps ==
  ASSUME CtxInv, NoProcess
  PROVE  CtxInv'
<1> DEFINE l == Line(NotRun, TRUE, Verdict(cmd[1]), FALSE, <<>>)
<1>1. /\ stage = "running" /\ ~Batch /\ cmd[1].pc = "done" /\ UNCHANGED <<request, cmd, expired, kb, answer, fed>>
      /\ Emit(l) /\ l.exit = -1 /\ l.indexed = FALSE /\ l.commands = <<>>
  BY DEF NoProcess, Line, NotRun
<1> HIDE DEF l
<1>2. stage' = "answered" /\ Len(trail') = 1 /\ trail'[1] = l
  BY <1>1, Emitted
<1>3. CtxTypes'
  BY <1>1, <1>2 DEF CtxInv, CtxTypes, Stages
<1>4. CommandsOK'
  BY <1>1 DEF CtxInv, CommandsOK, CommandOK, Verdict
<1>5. CallOK'
  BY <1>1, <1>2 DEF CtxInv, CallOK, Batch
<1>6. SecretOK'
  BY <1>1 DEF CtxInv, SecretOK, OfFile
<1>7. AuditTells'
  <2>1. \A i \in DOMAIN cmd : cmd[i].proc = "none" /\ i \notin kb
    BY <1>1 DEF CtxInv, CallOK
  <2> QED BY <1>1, <1>2, <2>1 DEF AuditTells, TellsOf
<1> QED BY <1>3, <1>4, <1>5, <1>6, <1>7 DEF CtxInv

(* The end of a call with one command. *)
LEMMA RepliesKeeps ==
  ASSUME CtxInv, NEW kept, kept \in {kb, Index(1, TRUE)}, fed = "key" => kept = kb, Replies(kept)
  PROVE  CtxInv'
<1>1. /\ stage = "running" /\ ~Batch /\ cmd[1].pc = "output" /\ DOMAIN cmd = {1} /\ kb = {}
      /\ UNCHANGED <<request, expired, fed>> /\ answer = "none"
  BY DEF Replies, CtxInv, CallOK
<1>2. PICK n \in Nat \ {0} : cmd \in [1 .. n -> Commands]
  BY DEF CtxInv, CtxTypes
<1>3. cmd[1] \in Commands /\ CommandOK(cmd[1], FALSE)
  <2>1. (1 \in kb) = FALSE
    BY <1>1
  <2> QED BY <1>1, <1>2, <2>1 DEF CtxInv, CommandsOK
<1>4. /\ kb' = {} \/ (kb' = {1} /\ cmd[1].secret = FALSE /\ fed # "key")
      /\ answer' \in {"preview", "output", "withheld"} /\ (cmd[1].secret = TRUE => answer' = "withheld")
  <2>1. kept = {} \/ (kept = {1} /\ cmd[1].secret = FALSE /\ fed # "key")
    BY <1>1, <1>3 DEF Index, Commands
  <2> QED BY <1>1, <1>3, <2>1 DEF Replies, PreviewOf, Commands
<1> DEFINE k == 1 \in kb'
           c == [cmd[1] EXCEPT !.pc = "done", !.indexed = k]
           l == Line(Recorded(cmd[1]), FALSE, Verdict(cmd[1]), k, <<>>)
<1>5. /\ k \in BOOLEAN /\ (k = TRUE <=> 1 \in kb') /\ Emit(l)
      /\ cmd' = [cmd EXCEPT ![1].pc = "done", ![1].indexed = k]
  <2>1. k \in BOOLEAN /\ (k = TRUE <=> 1 \in kb')
    OBVIOUS
  <2>2. Emit(l)
    BY DEF Replies
  <2>3. cmd' = [cmd EXCEPT ![1].pc = "done", ![1].indexed = k]
    BY DEF Replies
  <2> QED BY <2>1, <2>2, <2>3
<1> HIDE DEF k
<1>6. c \in Commands /\ c.pc = "done" /\ c.indexed = k /\ c.proc = cmd[1].proc /\ c.exit = cmd[1].exit
      /\ c.secret = cmd[1].secret /\ c.screen = cmd[1].screen /\ c.guard = cmd[1].guard
  BY <1>3, <1>5 DEF Commands
<1>7. cmd' \in [1 .. n -> Commands] /\ DOMAIN cmd' = {1} /\ cmd'[1] = c
  <2>1. cmd' = [cmd EXCEPT ![1] = c]
    BY <1>2, <1>5
  <2> HIDE DEF c
  <2> QED BY <1>1, <1>2, <1>6, <2>1
<1> HIDE DEF c
<1>8. /\ stage' = "answered" /\ Len(trail') = 1 /\ trail'[1] = l
      /\ l.exit = Recorded(cmd[1]) /\ l.verdict = Verdict(cmd[1]) /\ l.indexed = k /\ l.commands = <<>>
  <2>1. l.exit = Recorded(cmd[1]) /\ l.verdict = Verdict(cmd[1]) /\ l.indexed = k /\ l.commands = <<>>
    BY DEF Line
  <2> HIDE DEF l
  <2> QED BY <1>1, <1>5, <2>1, Emitted
<1>9. CtxTypes'
  BY <1>1, <1>2, <1>4, <1>7, <1>8 DEF CtxInv, CtxTypes, Stages
<1>10. CommandsOK'
  <2>1. CommandOK(cmd[1], 1 \in kb)'
    BY <1>1, <1>3, <1>4, <1>5, <1>6, <1>7 DEF CommandOK, Verdict
  <2> QED BY <1>7, <2>1 DEF CommandsOK
<1>11. CallOK'
  BY <1>1, <1>7, <1>8 DEF CtxInv, CallOK, Batch
<1>12. SecretOK'
  BY <1>1, <1>4, <1>6, <1>7, <1>3 DEF CtxInv, SecretOK, OfFile, Commands
<1>13. AuditTells'
  <2>1. Recorded(cmd[1]) = 0 => cmd[1].proc = "succeeded"
    BY <1>1, <1>3 DEF Recorded, CommandOK, NotRun, CtxInv, CtxTypes
  <2>2. Verdict(cmd[1]) # "block"
    BY <1>1, <1>3 DEF CommandOK
  <2>3. /\ trail'[1].exit = 0 => cmd'[1].proc = "succeeded"
        /\ trail'[1].verdict # "block" /\ (trail'[1].indexed <=> 1 \in kb') /\ trail'[1].commands = <<>>
    BY <1>5, <1>6, <1>7, <1>8, <2>1, <2>2
  <2> QED BY <1>7, <1>8, <2>3 DEF AuditTells, TellsOf
<1> QED BY <1>9, <1>10, <1>11, <1>12, <1>13 DEF CtxInv

(* The end of a batch. *)
LEMMA BatchEndsKeeps ==
  ASSUME CtxInv, BatchEnds
  PROVE  CtxInv'
<1>1. stage = "running" /\ Batch /\ AllDone /\ UNCHANGED <<request, cmd, expired, kb, answer, fed>>
  BY DEF BatchEnds
<1>2. PICK n \in Nat \ {0} : cmd \in [1 .. n -> Commands]
  BY DEF CtxInv, CtxTypes
<1> DEFINE s == [i \in DOMAIN cmd |-> cmd[i].exit]
           x == \E i \in DOMAIN cmd : cmd[i].indexed
           all == [i \in DOMAIN cmd |->
                     [exit |-> cmd[i].exit, verdict |-> Verdict(cmd[i]), indexed |-> cmd[i].indexed]]
           l == Line(Aggregate(s), FALSE, CallVerdict, x, all)
<1>3. l.exit = Aggregate(s) /\ l.indexed = x /\ l.commands = all /\ Emit(l)
  <2>1. l.exit = Aggregate(s) /\ l.indexed = x /\ l.commands = all
    BY DEF Line
  <2>2. Emit(l)
    BY DEF BatchEnds
  <2> QED BY <2>1, <2>2
<1>4. all # <<>>
  <2>1. 1 \in DOMAIN all
    BY <1>2
  <2> HIDE DEF all
  <2> QED BY <2>1
<1>5. \A i \in DOMAIN cmd : /\ all[i].exit = cmd[i].exit /\ all[i].verdict = Verdict(cmd[i])
                            /\ all[i].indexed = cmd[i].indexed
  OBVIOUS
<1>6. \A i \in DOMAIN cmd : cmd[i] \in Commands /\ cmd[i].pc = "done" /\ CommandOK(cmd[i], i \in kb)
  BY <1>1, <1>2 DEF AllDone, CtxInv, CommandsOK
<1>7. request.background # TRUE
  BY <1>1 DEF CtxInv, CallOK, Batch
<1>8. ASSUME NEW i \in DOMAIN cmd
      PROVE  /\ cmd[i].exit = 0 <=> cmd[i].proc = "succeeded"
             /\ Verdict(cmd[i]) = "block" => cmd[i].proc = "none"
             /\ cmd[i].indexed = TRUE <=> i \in kb
  BY <1>6, <1>7 DEF CommandOK
<1>9. Aggregate(s) = 0 <=> \A i \in DOMAIN cmd : cmd[i].proc = "succeeded"
  <2>1. s \in [1 .. n -> {-1, 0, 1}] /\ \A i \in 1 .. n : s[i] = cmd[i].exit
    BY <1>2, <1>6 DEF Commands
  <2> HIDE DEF s
  <2>2. Aggregate(s) = 0 <=> \A i \in 1 .. n : s[i] = 0
    BY <2>1, AggregateTells
  <2> QED BY <1>2, <1>8, <2>1, <2>2
<1>10. x <=> kb # {}
  <2>1. kb \subseteq DOMAIN cmd /\ \A i \in DOMAIN cmd : cmd[i].indexed \in BOOLEAN
    BY <1>6 DEF CtxInv, CtxTypes, Commands
  <2> QED BY <1>8, <2>1
<1> HIDE DEF s, x, all, l
<1>11. stage' = "answered" /\ Len(trail') = 1 /\ trail'[1] = l
  BY <1>1, <1>3, Emitted
<1>12. CtxTypes'
  BY <1>1, <1>11 DEF CtxInv, CtxTypes, Stages
<1>13. CommandsOK'
  BY <1>1 DEF CtxInv, CommandsOK, CommandOK, Verdict
<1>14. CallOK'
  BY <1>1, <1>11 DEF CtxInv, CallOK, Batch
<1>15. SecretOK'
  BY <1>1 DEF CtxInv, SecretOK, OfFile
<1>16. AuditTells'
  <2>1. trail'[1].commands = all /\ trail'[1].exit = Aggregate(s) /\ trail'[1].indexed = x /\ cmd' = cmd /\ kb' = kb
    BY <1>1, <1>3, <1>11
  <2>2. \A i \in DOMAIN cmd : cmd[i].indexed \in BOOLEAN
    BY <1>6 DEF Commands
  <2>3. \A i \in DOMAIN cmd : /\ all[i].exit = 0 => cmd[i].proc = "succeeded"
                              /\ all[i].verdict = "block" => cmd[i].proc = "none"
                              /\ all[i].indexed <=> i \in kb
    BY <1>5, <1>8, <2>2
  <2> QED BY <1>4, <1>9, <1>10, <1>11, <2>1, <2>3 DEF AuditTells, TellsOf
<1> QED BY <1>12, <1>13, <1>14, <1>15, <1>16 DEF CtxInv

LEMMA CtxStep ==
  ASSUME CtxInv, [CtxNext]_ctxVars
  PROVE  CtxInv'
<1>1. CASE Invalid \/ TaskInvalid \/ BatchInvalid \/ FileInvalid
  BY <1>1, NothingRan DEF Invalid, TaskInvalid, BatchInvalid, FileInvalid, Rejected
<1>2. CASE FileFound
  BY <1>2, StageKeeps DEF FileFound, CtxInv, CtxTypes
<1>3. CASE FileChanges
  BY <1>3, StageKeeps DEF FileChanges, CtxInv, CtxTypes, CallOK
<1>4. CASE FileRead
  <2>1. OfFile
    BY <1>4 DEF FileRead, CtxInv, CallOK, SecretOK, OfFile
  <2> QED BY <1>4, <2>1, StageKeeps DEF FileRead, OpenedFits, CtxInv, CtxTypes
<1>5. CASE Screened
  BY <1>5, ScreenedKeeps
<1>6. CASE Refused
  BY <1>6, NothingRan DEF Refused
<1>7. CASE Admitted
  <2>1. stage = "screened" /\ stage' = "running" /\ UNCHANGED <<request, cmd, expired, kb, answer, fed, trail>>
    BY <1>7 DEF Admitted
  <2>2. CommandsOK'
    BY <2>1 DEF CtxInv, CommandsOK, CommandOK, Verdict
  <2>3. CtxTypes' /\ CallOK'
    BY <2>1 DEF CtxInv, CtxTypes, CallOK, Batch, Stages
  <2>4. SecretOK' /\ AuditTells'
    BY <2>1 DEF CtxInv, SecretOK, OfFile, AuditTells
  <2> QED BY <2>2, <2>3, <2>4 DEF CtxInv
<1>8. CASE DeadlinePasses
  <2>1. stage = "running" /\ expired' = TRUE /\ UNCHANGED <<request, stage, cmd, kb, answer, fed, trail>>
    BY <1>8 DEF DeadlinePasses
  <2>2. CommandsOK'
    BY <2>1 DEF CtxInv, CommandsOK, CommandOK, Verdict
  <2>3. CtxTypes' /\ CallOK'
    BY <2>1 DEF CtxInv, CtxTypes, CallOK, Batch
  <2>4. SecretOK' /\ AuditTells'
    BY <2>1 DEF CtxInv, SecretOK, OfFile, AuditTells
  <2> QED BY <2>2, <2>3, <2>4 DEF CtxInv
<1>9. CASE \E i \in DOMAIN cmd : CommandStep(i)
  BY <1>9, CommandStepKeeps
<1>10. CASE NoProcess
  BY <1>10, NoProcessKeeps
<1>11. ASSUME NEW ok \in BOOLEAN, NEW b \in BOOLEAN, b => ok /\ fed # "key", Replies(Index(1, b)),
              OfFile \/ fed # "key"
       PROVE  CtxInv'
  <2>1. CASE fed = "key"
    BY <1>11, <2>1, RepliesKeeps DEF Index
  <2>2. CASE fed # "key"
    BY <1>11, <2>2, RepliesKeeps DEF Index
  <2> QED BY <2>1, <2>2
<1>12. CASE Answers \/ TaskAnswers
  <2>1. fed # "key"
    BY <1>12 DEF CtxInv, SecretOK, Answers, TaskAnswers, OfFile
  <2> QED BY <1>11, <1>12, <2>1 DEF Answers, TaskAnswers
<1>13. CASE FileAnswers
  BY <1>11, <1>13 DEF FileAnswers
<1>14. CASE BatchEnds
  BY <1>14, BatchEndsKeeps
<1>15. CASE CallEnded \/ UNCHANGED ctxVars
  <2>1. UNCHANGED ctxVars
    BY <1>15 DEF CallEnded
  <2>2. CommandsOK'
    BY <2>1 DEF CtxInv, CommandsOK, CommandOK, Verdict, ctxVars
  <2>3. CtxTypes' /\ CallOK'
    BY <2>1 DEF CtxInv, CtxTypes, CallOK, Batch, OfFile, ctxVars
  <2>4. SecretOK' /\ AuditTells'
    BY <2>1 DEF CtxInv, SecretOK, OfFile, AuditTells, TellsOf, ctxVars
  <2> QED BY <2>2, <2>3, <2>4 DEF CtxInv
<1> QED
  BY <1>1, <1>2, <1>3, <1>4, <1>5, <1>6, <1>7, <1>8, <1>9, <1>10, <1>12, <1>13, <1>14, <1>15 DEF CtxNext

(* CtxInv is an inductive invariant of a call, for any number of commands  *)
(* and slots.                                                              *)
THEOREM CtxInductive == CtxSpec => []CtxInv
  BY CtxInitHolds, CtxStep, PTL DEF CtxSpec

(* The audit line says what became of every command.                       *)
THEOREM AuditAlwaysTells == CtxSpec => []AuditTells
<1>1. CtxInv => AuditTells
  BY DEF CtxInv
<1> QED BY <1>1, CtxInductive, PTL

(* What the content check or the checks of the file refuse is neither      *)
(* stored nor shown.                                                       *)
THEOREM SecretsStay == CtxSpec => []SecretStays
<1>1. CtxInv => SecretStays
  BY DEF CtxInv, CtxTypes, CommandsOK, CommandOK, SecretOK, SecretStays
<1> QED BY <1>1, CtxInductive, PTL

-----------------------------------------------------------------------------

FileNames ==
  {Source(j) : j \in Jobs} \cup {RawLog(j) : j \in Jobs} \cup {FinalLog(h, id) : h \in Hosts, id \in Nat}

LaunchRecords ==
  [pc : {"idle", "written", "started", "live", "taken", "killed", "done", "gone", "lost", "refused"},
   source : SUBSET FileNames, temps : SUBSET FileNames, id : Nat, log : SUBSET FileNames, drop : SUBSET FileNames]

(* The source of a launch is its own; its logs are no sources.             *)
LaunchOK(j, r) ==
  /\ r.source \subseteq {Source(j)} /\ r.temps \subseteq {Source(j)}
  /\ \A i \in Jobs : Source(i) \notin r.log
  /\ r.drop \subseteq r.log
  /\ r.pc = "idle" => r.source = {}
  /\ r.pc \in {"idle", "written"} => r.log = {}
  /\ r.pc = "started" => r.drop = {}
  /\ r.pc \in {"idle", "written", "started", "live"} => r.temps = {}
  /\ r.pc \in {"taken", "killed", "done"} => r.source = {}

(* What a launch claims. *)
ClaimsOf(r) ==
  CASE r.pc \in {"written", "started", "live", "taken", "killed", "done", "lost"} ->
         r.source \cup r.temps \cup r.log
    [] r.pc = "gone" -> r.temps \cup r.drop
    [] OTHER         -> {}

FilesTypes ==
  /\ host \in [Hosts -> [state : {"up", "ended", "crashed"}, seq : Nat]]
  /\ job \in [Jobs -> LaunchRecords]
  /\ \A j \in Jobs : LaunchOK(j, job[j])

(* Every file is claimed. *)
Claimed == \A p \in DOMAIN files : \E j \in Jobs : p \in Claims(j)

(* The source of a launch is there until its job has ended, and is its own.*)
Present ==
  \A j \in Jobs :
    /\ Up(j) /\ job[j].pc \in {"written", "started", "live"} => job[j].source \subseteq DOMAIN files
    /\ Source(j) \in DOMAIN files => files[Source(j)] = j

(* No source that is in use is old.                                        *)
Fresh ==
  /\ aged \subseteq DOMAIN files
  /\ \A j \in Jobs : Source(j) \in aged => ~Busy(j)

FilesInv == FilesTypes /\ Claimed /\ Present /\ Fresh

-----------------------------------------------------------------------------
LEMMA NamesDiffer ==
  ASSUME NEW i \in Jobs, NEW j \in Jobs
  PROVE  /\ Source(i) = Source(j) => i = j
         /\ Source(i) # RawLog(j)
         /\ \A h, id : Source(i) # FinalLog(h, id)
  BY DEF Source, RawLog, FinalLog

LEMMA Servers == \A j \in Jobs : HostOf[j] \in Hosts
  BY LaunchParameters

LEMMA ClaimsAre ==
  ASSUME NEW j \in Jobs
  PROVE  Claims(j) = ClaimsOf(job[j])
  BY DEF Claims, ClaimsOf, Is

LEMMA ClaimsPrimed ==
  ASSUME NEW j \in Jobs
  PROVE  Claims(j)' = ClaimsOf(job'[j])
  BY DEF Claims, ClaimsOf, Is

LEMMA Kept ==
  ASSUME NEW S, files' = Without(S)
  PROVE  /\ DOMAIN files' = DOMAIN files \ S
         /\ \A p \in DOMAIN files' : files'[p] = files[p]
  BY DEF Without, Restrict

LEMMA Added ==
  ASSUME NEW f, NEW p, NEW j, files' = With(f, p, j)
  PROVE  /\ DOMAIN files' = DOMAIN f \cup {p} /\ files'[p] = j
         /\ \A q \in DOMAIN f \ {p} : files'[q] = f[q]
  BY DEF With

LEMMA FilesInitHolds == FilesInit => FilesInv
<1> SUFFICES ASSUME FilesInit PROVE FilesInv
  OBVIOUS
<1>1. NoJob \in LaunchRecords /\ NoJob.pc = "idle" /\ NoJob.source = {} /\ NoJob.temps = {} /\ NoJob.log = {} /\ NoJob.drop = {}
  BY DEF NoJob, LaunchRecords
<1>2. job \in [Jobs -> LaunchRecords] /\ \A j \in Jobs : job[j] = NoJob
  BY <1>1 DEF FilesInit
<1>3. DOMAIN files = {} /\ aged = {}
  BY DEF FilesInit
<1>4. host \in [Hosts -> [state : {"up", "ended", "crashed"}, seq : Nat]]
  BY DEF FilesInit
<1> QED BY <1>1, <1>2, <1>3, <1>4 DEF FilesInv, FilesTypes, LaunchOK, Claimed, Present, Fresh

-----------------------------------------------------------------------------
(* Only launch j goes on, to r, and what it leaves claimed no longer is    *)
(* not there any more.                                                     *)
LEMMA LaunchGoesOn ==
  ASSUME FilesInv, NEW j \in Jobs, Up(j), NEW r \in LaunchRecords, job' = [job EXCEPT ![j] = r], LaunchOK(j, r),
         host' \in [Hosts -> [state : {"up", "ended", "crashed"}, seq : Nat]],
         \A h \in Hosts : host'[h].state = host[h].state,
         aged' = aged \cap DOMAIN files',
         \A p \in DOMAIN files' : p \in ClaimsOf(r) \/ (p \in DOMAIN files /\ p \notin Claims(j)),
         \A i \in Jobs \ {j} : Source(i) \in DOMAIN files => Source(i) \in DOMAIN files',
         \A i \in Jobs : Source(i) \in DOMAIN files' =>
           files'[Source(i)] = i \/ (Source(i) \in DOMAIN files /\ files'[Source(i)] = files[Source(i)]),
         r.pc \in {"written", "started", "live"} => r.source \subseteq DOMAIN files',
         r.pc \in {"written", "started", "live", "taken", "killed"} =>
           job[j].pc \in {"idle", "written", "started", "live", "taken", "killed"}
  PROVE  FilesInv'
<1>1. job' \in [Jobs -> LaunchRecords] /\ job'[j] = r /\ \A i \in Jobs \ {j} : job'[i] = job[i]
  BY DEF FilesInv, FilesTypes
<1>2. \A i \in Jobs : Up(i)' = Up(i)
  BY Servers DEF Up
<1>3. FilesTypes'
  <2>1. \A i \in Jobs : LaunchOK(i, job'[i])
    BY <1>1 DEF FilesInv, FilesTypes
  <2> QED BY <1>1, <2>1 DEF FilesTypes, LaunchOK
<1>4. Claimed'
  <2>1. ASSUME NEW p \in DOMAIN files' PROVE \E i \in Jobs : p \in Claims(i)'
    <3>1. CASE p \in ClaimsOf(r)
      <4>1. Claims(j)' = ClaimsOf(r)
        BY <1>1, <1>2, ClaimsPrimed, Up(j) DEF ClaimsOf
      <4> QED BY <3>1, <4>1
    <3>2. CASE p \in DOMAIN files /\ p \notin Claims(j)
      <4>1. PICK i \in Jobs : p \in Claims(i)
        BY <3>2 DEF FilesInv, Claimed
      <4>2. i # j
        BY <3>2, <4>1
      <4>3. Claims(i)' = Claims(i)
        BY <1>1, <1>2, <4>2 DEF Claims, Is
      <4> QED BY <4>1, <4>3
    <3> QED BY <3>1, <3>2
  <2> QED BY <2>1 DEF Claimed
<1>5. Present'
  <2>1. ASSUME NEW i \in Jobs, Up(i)', job'[i].pc \in {"written", "started", "live"}
        PROVE  job'[i].source \subseteq DOMAIN files'
    <3>1. CASE i = j
      BY <1>1, <2>1, <3>1
    <3>2. CASE i # j
      <4>1. job[i].source \subseteq DOMAIN files /\ job[i].source \subseteq {Source(i)}
        BY <1>1, <1>2, <2>1, <3>2 DEF FilesInv, Present, FilesTypes, LaunchOK
      <4> QED BY <1>1, <3>2, <4>1
    <3> QED BY <3>1, <3>2
  <2>2. ASSUME NEW i \in Jobs, Source(i) \in DOMAIN files' PROVE files'[Source(i)] = i
    BY <2>2 DEF FilesInv, Present
  <2> QED BY <2>1, <2>2 DEF Present
<1>6. Fresh'
  <2>1. ASSUME NEW i \in Jobs, Source(i) \in aged' PROVE ~Busy(i)'
    <3>1. Source(i) \in aged /\ Source(i) \in DOMAIN files /\ ~Busy(i)
      BY <2>1 DEF FilesInv, Fresh
    <3>2. CASE i # j
      BY <1>1, <1>2, <3>1, <3>2 DEF Busy, Is
    <3>3. CASE i = j
      <4>1. PICK k \in Jobs : Source(j) \in Claims(k)
        BY <3>1, <3>3 DEF FilesInv, Claimed
      <4>2. Claims(k) \subseteq job[k].source \cup job[k].temps \cup job[k].log
        BY DEF FilesInv, FilesTypes, LaunchOK, Claims
      <4>3. Source(j) \in {Source(k)}
        BY <4>1, <4>2 DEF FilesInv, FilesTypes, LaunchOK
      <4>4. k = j
        BY <4>3, NamesDiffer
      <4>5. job[j].pc # "idle"
        BY <4>1, <4>4 DEF Claims, Is
      <4> QED BY <1>1, <3>1, <3>3, <4>5 DEF Busy, Is
    <3> QED BY <3>2, <3>3
  <2> QED BY <2>1 DEF Fresh
<1> QED BY <1>3, <1>4, <1>5, <1>6 DEF FilesInv

(* Many launches change, and what they claimed they still claim, as far as *)
(* it is there.                                                            *)
LEMMA LaunchesGoOn ==
  ASSUME FilesInv, job' \in [Jobs -> LaunchRecords], \A i \in Jobs : LaunchOK(i, job'[i]),
         host' \in [Hosts -> [state : {"up", "ended", "crashed"}, seq : Nat]],
         aged' = aged \cap DOMAIN files',
         DOMAIN files' \subseteq DOMAIN files, \A p \in DOMAIN files' : files'[p] = files[p],
         \A i \in Jobs : \A p \in DOMAIN files' : p \in Claims(i) => p \in Claims(i)',
         \A i \in Jobs : Up(i)' /\ job'[i].pc \in {"written", "started", "live"} =>
           /\ Up(i) /\ job[i].pc \in {"written", "started", "live"} /\ job'[i].source = job[i].source
           /\ Source(i) \in DOMAIN files => Source(i) \in DOMAIN files',
         \A i \in Jobs : Busy(i)' => Busy(i)
  PROVE  FilesInv'
<1>1. FilesTypes'
  BY DEF FilesTypes
<1>2. Claimed'
  BY DEF FilesInv, Claimed
<1>3. Present'
  <2>1. ASSUME NEW i \in Jobs, Up(i)', job'[i].pc \in {"written", "started", "live"}
        PROVE  job'[i].source \subseteq DOMAIN files'
    <3>1. /\ Up(i) /\ job[i].pc \in {"written", "started", "live"} /\ job'[i].source = job[i].source
          /\ Source(i) \in DOMAIN files => Source(i) \in DOMAIN files'
      BY <2>1
    <3>2. job[i].source \subseteq DOMAIN files /\ job[i].source \subseteq {Source(i)}
      BY <3>1 DEF FilesInv, Present, FilesTypes, LaunchOK
    <3> QED BY <3>1, <3>2
  <2>2. ASSUME NEW i \in Jobs, Source(i) \in DOMAIN files' PROVE files'[Source(i)] = i
    BY <2>2 DEF FilesInv, Present
  <2> QED BY <2>1, <2>2 DEF Present
<1>4. Fresh'
  BY DEF FilesInv, Fresh
<1> QED BY <1>1, <1>2, <1>3, <1>4 DEF FilesInv

LEMMA WriteSourceKeeps ==
  ASSUME FilesInv, NEW j \in Jobs, Up(j), WriteSource(j), aged' = aged \cap DOMAIN files'
  PROVE  FilesInv'
<1>1. /\ job[j] \in LaunchRecords /\ LaunchOK(j, job[j]) /\ job[j].pc = "idle"
      /\ host' = host /\ host \in [Hosts -> [state : {"up", "ended", "crashed"}, seq : Nat]]
  BY DEF FilesInv, FilesTypes, WriteSource, Is
<1>2. Claims(j) = {} /\ Source(j) \in FileNames
  BY <1>1 DEF Claims, Is, FileNames
<1>3. CASE /\ job' = [job EXCEPT ![j].pc = "written", ![j].source = {Source(j)}]
           /\ files' = With(files, Source(j), j)
  <2> DEFINE r == [job[j] EXCEPT !.pc = "written", !.source = {Source(j)}]
  <2>1. r \in LaunchRecords /\ r.pc = "written" /\ r.source = {Source(j)} /\ r.temps = {} /\ r.log = {} /\ LaunchOK(j, r)
    BY <1>1, <1>2 DEF LaunchRecords, LaunchOK
  <2>2. job' = [job EXCEPT ![j] = r]
    BY <1>3 DEF FilesInv, FilesTypes
  <2> HIDE DEF r
  <2>3. DOMAIN files' = DOMAIN files \cup {Source(j)} /\ files'[Source(j)] = j
        /\ \A q \in DOMAIN files \ {Source(j)} : files'[q] = files[q]
    BY <1>3, Added
  <2>4. ClaimsOf(r) = {Source(j)}
    BY <2>1 DEF ClaimsOf
  <2>5. \A i \in Jobs : Source(i) \in DOMAIN files' =>
           files'[Source(i)] = i \/ (Source(i) \in DOMAIN files /\ files'[Source(i)] = files[Source(i)])
    BY <2>3, NamesDiffer
  <2>6. \A p \in DOMAIN files' : p \in ClaimsOf(r) \/ (p \in DOMAIN files /\ p \notin Claims(j))
    BY <2>3, <2>4, <1>2
  <2>7. \A i \in Jobs \ {j} : Source(i) \in DOMAIN files => Source(i) \in DOMAIN files'
    BY <2>3
  <2>8. r.pc \in {"written", "started", "live"} => r.source \subseteq DOMAIN files'
    BY <2>1, <2>3
  <2> QED BY <1>1, <2>1, <2>2, <2>5, <2>6, <2>7, <2>8, LaunchGoesOn
<1>4. ASSUME NEW pc \in {"written", "refused"}, job' = [job EXCEPT ![j].pc = pc], UNCHANGED files PROVE FilesInv'
  <2> DEFINE r == [job[j] EXCEPT !.pc = pc]
  <2>1. r \in LaunchRecords /\ r.pc = pc /\ r.source = {} /\ r.temps = {} /\ r.log = {} /\ LaunchOK(j, r)
    BY <1>1, <1>4 DEF LaunchRecords, LaunchOK
  <2>2. job' = [job EXCEPT ![j] = r]
    BY <1>4 DEF FilesInv, FilesTypes
  <2> HIDE DEF r
  <2> QED BY <1>1, <1>2, <1>4, <2>1, <2>2, LaunchGoesOn
<1> QED BY <1>3, <1>4 DEF WriteSource

LEMMA LaunchRefusedKeeps ==
  ASSUME FilesInv, NEW j \in Jobs, Up(j), LaunchRefused(j), aged' = aged \cap DOMAIN files'
  PROVE  FilesInv'
<1>1. /\ job[j] \in LaunchRecords /\ LaunchOK(j, job[j]) /\ job[j].pc = "written"
      /\ host' = host /\ host \in [Hosts -> [state : {"up", "ended", "crashed"}, seq : Nat]]
  BY DEF FilesInv, FilesTypes, LaunchRefused, Is
<1>2. Claims(j) = job[j].source
  BY <1>1 DEF Claims, Is, LaunchOK
<1> DEFINE r == [job[j] EXCEPT !.pc = "refused"]
<1>3. r \in LaunchRecords /\ r.pc = "refused" /\ LaunchOK(j, r)
  BY <1>1 DEF LaunchRecords, LaunchOK
<1>4. job' = [job EXCEPT ![j] = r]
  BY DEF FilesInv, FilesTypes, LaunchRefused
<1> HIDE DEF r
<1>5. DOMAIN files' = DOMAIN files \ job[j].source /\ \A p \in DOMAIN files' : files'[p] = files[p]
  BY Kept DEF LaunchRefused
<1>6. \A i \in Jobs \ {j} : Source(i) \in DOMAIN files => Source(i) \in DOMAIN files'
  BY <1>1, <1>5, NamesDiffer DEF LaunchOK
<1> QED BY <1>1, <1>2, <1>3, <1>4, <1>5, <1>6, LaunchGoesOn

LEMMA StartedKeeps ==
  ASSUME FilesInv, NEW j \in Jobs, Up(j), Started(j), aged' = aged \cap DOMAIN files'
  PROVE  FilesInv'
<1>1. /\ job[j] \in LaunchRecords /\ LaunchOK(j, job[j]) /\ job[j].pc = "written"
      /\ host' = host /\ host \in [Hosts -> [state : {"up", "ended", "crashed"}, seq : Nat]]
  BY DEF FilesInv, FilesTypes, Started, Is
<1>2. Claims(j) = job[j].source /\ job[j].source \subseteq DOMAIN files /\ RawLog(j) \in FileNames
      /\ job[j].drop = {} /\ job[j].temps = {} /\ \A i \in Jobs : Source(i) # RawLog(j)
  BY <1>1 DEF Claims, Is, LaunchOK, FilesInv, Present, FileNames, Source, RawLog
<1> DEFINE r == [job[j] EXCEPT !.pc = "started", !.log = {RawLog(j)}]
<1>3. r \in LaunchRecords /\ r.pc = "started" /\ r.source = job[j].source /\ r.log = {RawLog(j)} /\ r.drop = {}
      /\ r.temps = {}
  BY <1>1, <1>2 DEF LaunchRecords
<1>4. job' = [job EXCEPT ![j] = r]
  BY DEF FilesInv, FilesTypes, Started
<1> HIDE DEF r
<1>5. LaunchOK(j, r)
  BY <1>1, <1>2, <1>3 DEF LaunchOK
<1>6. DOMAIN files' = DOMAIN files \cup {RawLog(j)} /\ \A q \in DOMAIN files \ {RawLog(j)} : files'[q] = files[q]
  BY Added DEF Started
<1>7. ClaimsOf(r) = job[j].source \cup {RawLog(j)}
  BY <1>3 DEF ClaimsOf
<1>8. \A p \in DOMAIN files' : p \in ClaimsOf(r) \/ (p \in DOMAIN files /\ p \notin Claims(j))
  BY <1>2, <1>6, <1>7
<1>9. \A i \in Jobs : Source(i) \in DOMAIN files' =>
        files'[Source(i)] = i \/ (Source(i) \in DOMAIN files /\ files'[Source(i)] = files[Source(i)])
  BY <1>2, <1>6
<1>10. r.source \subseteq DOMAIN files' /\ \A i \in Jobs \ {j} : Source(i) \in DOMAIN files => Source(i) \in DOMAIN files'
  BY <1>2, <1>3, <1>6
<1> QED BY <1>1, <1>3, <1>4, <1>5, <1>8, <1>9, <1>10, LaunchGoesOn

LEMMA RegisterKeeps ==
  ASSUME FilesInv, NEW j \in Jobs, Up(j), Register(j), aged' = aged \cap DOMAIN files'
  PROVE  FilesInv'
<1> DEFINE h == HostOf[j]
           id == host[h].seq + 1
           full == Cardinality({i \in Sisters(j) : Is(i, {"live", "taken"})}) >= MaxLive
<1>1. /\ job[j] \in LaunchRecords /\ LaunchOK(j, job[j]) /\ job[j].pc = "started"
      /\ host' = [host EXCEPT ![h].seq = id] /\ host \in [Hosts -> [state : {"up", "ended", "crashed"}, seq : Nat]]
      /\ job[j].drop = {} /\ job[j].temps = {}
  BY DEF FilesInv, FilesTypes, Register, Is, LaunchOK
<1>2. h \in Hosts /\ id \in Nat
  BY <1>1, Servers
<1>3. /\ host' \in [Hosts -> [state : {"up", "ended", "crashed"}, seq : Nat]]
      /\ \A g \in Hosts : host'[g].state = host[g].state
  BY <1>1, <1>2
<1>4. Claims(j) = job[j].source \cup job[j].log /\ job[j].source \subseteq DOMAIN files
  BY <1>1 DEF Claims, Is, FilesInv, Present
<1>5. \A i \in Jobs \ {j} : Source(i) \notin job[j].source
  BY <1>1, NamesDiffer DEF LaunchOK
<1>6. \A i \in Jobs : Source(i) \notin job[j].log
  BY <1>1 DEF LaunchOK
<1>7. CASE full
  <2> DEFINE r == [job[j] EXCEPT !.pc = "refused"]
  <2>1. r \in LaunchRecords /\ r.pc = "refused" /\ LaunchOK(j, r)
    BY <1>1 DEF LaunchRecords, LaunchOK
  <2>2. job' = [job EXCEPT ![j] = r] /\ files' = Without(job[j].source \cup job[j].log)
    BY <1>7 DEF FilesInv, FilesTypes, Register
  <2> HIDE DEF r
  <2>3. DOMAIN files' = DOMAIN files \ (job[j].source \cup job[j].log) /\ \A p \in DOMAIN files' : files'[p] = files[p]
    BY <2>2, Kept
  <2> QED BY <1>3, <1>4, <1>5, <1>6, <2>1, <2>2, <2>3, LaunchGoesOn
<1>8. CASE /\ job' = [job EXCEPT ![j].pc = "live", ![j].id = id, ![j].log = {FinalLog(h, id)}]
           /\ files' = With(Without(job[j].log), FinalLog(h, id), j)
  <2> DEFINE r == [job[j] EXCEPT !.pc = "live", !.id = id, !.log = {FinalLog(h, id)}]
             f == Without(job[j].log)
  <2>1. FinalLog(h, id) \in FileNames /\ \A i \in Jobs : Source(i) # FinalLog(h, id)
    BY <1>2, NamesDiffer DEF FileNames
  <2>2. r \in LaunchRecords /\ r.pc = "live" /\ r.source = job[j].source /\ r.log = {FinalLog(h, id)} /\ r.drop = {}
        /\ r.temps = {}
    BY <1>1, <1>2, <2>1 DEF LaunchRecords
  <2>3. job' = [job EXCEPT ![j] = r]
    BY <1>8 DEF FilesInv, FilesTypes
  <2> HIDE DEF r
  <2>4. LaunchOK(j, r)
    BY <1>1, <2>1, <2>2 DEF LaunchOK
  <2>5. DOMAIN f = DOMAIN files \ job[j].log /\ \A p \in DOMAIN f : f[p] = files[p]
    BY DEF Without, Restrict
  <2>6. DOMAIN files' = DOMAIN f \cup {FinalLog(h, id)} /\ \A q \in DOMAIN f \ {FinalLog(h, id)} : files'[q] = f[q]
    BY <1>8, Added
  <2> HIDE DEF f, id, h
  <2>7. ClaimsOf(r) = job[j].source \cup {FinalLog(h, id)}
    BY <2>2 DEF ClaimsOf
  <2>8. \A p \in DOMAIN files' : p \in ClaimsOf(r) \/ (p \in DOMAIN files /\ p \notin Claims(j))
    BY <1>4, <2>5, <2>6, <2>7
  <2>9. \A i \in Jobs : Source(i) \in DOMAIN files' =>
          files'[Source(i)] = i \/ (Source(i) \in DOMAIN files /\ files'[Source(i)] = files[Source(i)])
    BY <2>1, <2>5, <2>6
  <2>10. \A i \in Jobs : Source(i) \in DOMAIN files => Source(i) \in DOMAIN files'
    BY <1>6, <2>5, <2>6
  <2>11. r.source \subseteq DOMAIN files'
    BY <1>1, <1>4, <2>2, <2>10 DEF LaunchOK
  <2> QED BY <1>1, <1>3, <2>2, <2>3, <2>4, <2>8, <2>9, <2>10, <2>11, LaunchGoesOn
<1>9. CASE job' = [job EXCEPT ![j].pc = "live", ![j].id = id] /\ UNCHANGED files
  <2> DEFINE r == [job[j] EXCEPT !.pc = "live", !.id = id]
  <2>1. /\ r \in LaunchRecords /\ r.pc = "live" /\ r.source = job[j].source /\ r.log = job[j].log
        /\ r.temps = {} /\ r.drop = job[j].drop /\ LaunchOK(j, r)
    BY <1>1, <1>2 DEF LaunchRecords, LaunchOK
  <2>2. job' = [job EXCEPT ![j] = r]
    BY <1>9 DEF FilesInv, FilesTypes
  <2> HIDE DEF r, id, h
  <2>3. ClaimsOf(r) = Claims(j)
    BY <1>4, <2>1 DEF ClaimsOf
  <2> QED BY <1>1, <1>3, <1>4, <1>9, <2>1, <2>2, <2>3, LaunchGoesOn
<1> QED BY <1>7, <1>8, <1>9 DEF Register

LEMMA FinishFirstKeeps ==
  ASSUME FilesInv, NEW j \in Jobs, Up(j), FinishFirst(j), aged' = aged \cap DOMAIN files'
  PROVE  FilesInv'
<1>1. /\ job[j] \in LaunchRecords /\ LaunchOK(j, job[j]) /\ job[j].pc = "live" /\ files' = files
      /\ host' = host /\ host \in [Hosts -> [state : {"up", "ended", "crashed"}, seq : Nat]]
  BY DEF FilesInv, FilesTypes, FinishFirst, Is
<1>2. Claims(j) = job[j].source \cup job[j].log
  BY <1>1 DEF Claims, Is, LaunchOK
<1>3. PICK pc \in {"taken", "killed"} :
        job' = [job EXCEPT ![j].pc = pc, ![j].source = {}, ![j].temps = job[j].source]
  BY DEF FinishFirst
<1> DEFINE r == [job[j] EXCEPT !.pc = pc, !.source = {}, !.temps = job[j].source]
<1>4. /\ r \in LaunchRecords /\ r.pc = pc /\ r.source = {} /\ r.temps = job[j].source
      /\ r.log = job[j].log /\ r.drop = job[j].drop
  BY <1>1, <1>3 DEF LaunchRecords
<1>5. job' = [job EXCEPT ![j] = r]
  BY <1>3 DEF FilesInv, FilesTypes
<1> HIDE DEF r
<1>6. LaunchOK(j, r)
  BY <1>1, <1>3, <1>4 DEF LaunchOK
<1>7. ClaimsOf(r) = job[j].source \cup job[j].log
  BY <1>3, <1>4 DEF ClaimsOf
<1> QED BY <1>1, <1>2, <1>3, <1>4, <1>5, <1>6, <1>7, LaunchGoesOn

LEMMA RemoveSourceKeeps ==
  ASSUME FilesInv, NEW j \in Jobs, Up(j), RemoveSource(j), aged' = aged \cap DOMAIN files'
  PROVE  FilesInv'
<1>1. /\ job[j] \in LaunchRecords /\ LaunchOK(j, job[j]) /\ job[j].pc \in {"taken", "killed", "gone"}
      /\ host' = host /\ host \in [Hosts -> [state : {"up", "ended", "crashed"}, seq : Nat]]
  BY DEF FilesInv, FilesTypes, RemoveSource, Is
<1> DEFINE r == [job[j] EXCEPT !.temps = {}]
<1>2. /\ r \in LaunchRecords /\ r.pc = job[j].pc /\ r.source = job[j].source /\ r.temps = {}
      /\ r.log = job[j].log /\ r.drop = job[j].drop
  BY <1>1 DEF LaunchRecords
<1>3. job' = [job EXCEPT ![j] = r]
  BY DEF FilesInv, FilesTypes, RemoveSource
<1> HIDE DEF r
<1>4. LaunchOK(j, r)
  BY <1>1, <1>2 DEF LaunchOK
<1>5. Claims(j) \subseteq ClaimsOf(r) \cup job[j].temps
  BY <1>1, <1>2 DEF Claims, ClaimsOf, Is
<1>6. DOMAIN files' = DOMAIN files \ job[j].temps /\ \A p \in DOMAIN files' : files'[p] = files[p]
  BY Kept DEF RemoveSource
<1>7. \A i \in Jobs \ {j} : Source(i) \in DOMAIN files => Source(i) \in DOMAIN files'
  BY <1>1, <1>6, NamesDiffer DEF LaunchOK
<1> QED BY <1>1, <1>2, <1>3, <1>4, <1>5, <1>6, <1>7, LaunchGoesOn

LEMMA RemoveLogKeeps ==
  ASSUME FilesInv, NEW j \in Jobs, Up(j), RemoveLog(j), aged' = aged \cap DOMAIN files'
  PROVE  FilesInv'
<1>1. /\ job[j] \in LaunchRecords /\ LaunchOK(j, job[j]) /\ job[j].pc = "gone"
      /\ host' = host /\ host \in [Hosts -> [state : {"up", "ended", "crashed"}, seq : Nat]]
  BY DEF FilesInv, FilesTypes, RemoveLog, Is
<1>2. Claims(j) = job[j].temps \cup job[j].drop
  BY <1>1 DEF Claims, Is
<1> DEFINE r == [job[j] EXCEPT !.drop = {}]
<1>3. r \in LaunchRecords /\ r.pc = "gone" /\ r.temps = job[j].temps /\ r.drop = {} /\ LaunchOK(j, r)
  BY <1>1 DEF LaunchRecords, LaunchOK
<1>7. ClaimsOf(r) = job[j].temps
  BY <1>3 DEF ClaimsOf
<1>4. job' = [job EXCEPT ![j] = r]
  BY DEF FilesInv, FilesTypes, RemoveLog
<1> HIDE DEF r
<1>5. DOMAIN files' = DOMAIN files \ job[j].drop /\ \A p \in DOMAIN files' : files'[p] = files[p]
  BY Kept DEF RemoveLog
<1>6. \A i \in Jobs \ {j} : Source(i) \in DOMAIN files => Source(i) \in DOMAIN files'
  BY <1>1, <1>5 DEF LaunchOK
<1> QED BY <1>1, <1>2, <1>3, <1>4, <1>5, <1>6, <1>7, LaunchGoesOn

(* What leaves the registry lets go of its log, which it has claimed.      *)
LEMMA FinishSecondKeeps ==
  ASSUME FilesInv, NEW j \in Jobs, Up(j), FinishSecond(j), aged' = aged \cap DOMAIN files'
  PROVE  FilesInv'
<1>1. host' = host /\ files' = files /\ job[j].pc \in {"taken", "killed"} /\ \A i \in Jobs : Up(i)' = Up(i)
  BY DEF FinishSecond, Is, Up
<1>2. \A i \in Excess(j) : i \in Jobs /\ Up(i) /\ job[i].pc \in {"taken", "killed", "done"}
  BY <1>1 DEF Excess, Sisters, Is, Up
<1>3. ASSUME NEW i \in Jobs
      PROVE  /\ job'[i] \in LaunchRecords /\ LaunchOK(i, job'[i])
             /\ Claims(i) \subseteq ClaimsOf(job'[i])
             /\ job'[i].pc \in {"written", "started", "live", "taken", "killed"} => job'[i] = job[i]
  <2>1. job[i] \in LaunchRecords /\ LaunchOK(i, job[i]) /\ Claims(i) = ClaimsOf(job[i])
    BY ClaimsAre DEF FilesInv, FilesTypes
  <2>2. CASE i \in Excess(j)
    <3> DEFINE r == [job[i] EXCEPT !.pc = "gone", !.drop = @ \cup job[i].log]
    <3>1. job'[i] = r
      BY <2>2 DEF FinishSecond
    <3>2. /\ r \in LaunchRecords /\ r.pc = "gone" /\ r.drop = job[i].drop \cup job[i].log
          /\ r.source = job[i].source /\ r.temps = job[i].temps /\ r.log = job[i].log
      BY <2>1 DEF LaunchRecords
    <3> HIDE DEF r
    <3>3. LaunchOK(i, r)
      BY <2>1, <3>2 DEF LaunchOK
    <3>4. ClaimsOf(r) = job[i].temps \cup job[i].drop \cup job[i].log
      BY <3>2 DEF ClaimsOf
    <3>5. Claims(i) \subseteq job[i].temps \cup job[i].log
      BY <1>2, <2>1, <2>2 DEF Claims, Is, LaunchOK
    <3> QED BY <3>1, <3>2, <3>3, <3>4, <3>5
  <2>3. CASE i \notin Excess(j) /\ i = j
    <3> DEFINE r == [job[i] EXCEPT !.pc = "done"]
    <3>1. job'[i] = r
      BY <2>3 DEF FinishSecond
    <3>2. /\ r \in LaunchRecords /\ r.pc = "done" /\ r.source = job[i].source /\ r.temps = job[i].temps /\ r.log = job[i].log
          /\ r.drop = job[i].drop
      BY <2>1 DEF LaunchRecords
    <3> HIDE DEF r
    <3>3. LaunchOK(i, r)
      BY <1>1, <2>1, <2>3, <3>2 DEF LaunchOK
    <3>4. ClaimsOf(r) = ClaimsOf(job[i])
      BY <1>1, <2>3, <3>2 DEF ClaimsOf
    <3> QED BY <2>1, <3>1, <3>2, <3>3, <3>4
  <2>4. CASE i \notin Excess(j) /\ i # j
    BY <2>1, <2>4 DEF FinishSecond
  <2> QED BY <2>2, <2>3, <2>4
<1>4. job' \in [Jobs -> LaunchRecords]
  <2>1. DOMAIN job' = Jobs /\ job' = [i \in Jobs |-> job'[i]]
    BY DEF FinishSecond
  <2> QED BY <1>3, <2>1
<1>5. \A i \in Jobs : Claims(i) \subseteq Claims(i)'
  BY <1>1, <1>3, ClaimsPrimed
<1>6. \A i \in Jobs : Busy(i)' => Busy(i)
  BY <1>1, <1>3 DEF Busy, Is
<1>7. host' \in [Hosts -> [state : {"up", "ended", "crashed"}, seq : Nat]]
  BY <1>1 DEF FilesInv, FilesTypes
<1>8. \A i \in Jobs : Up(i)' /\ job'[i].pc \in {"written", "started", "live"} =>
        /\ Up(i) /\ job[i].pc \in {"written", "started", "live"} /\ job'[i].source = job[i].source
        /\ Source(i) \in DOMAIN files => Source(i) \in DOMAIN files'
  BY <1>1, <1>3
<1>9. \A i \in Jobs : LaunchOK(i, job'[i])
  BY <1>3
<1> QED BY <1>1, <1>4, <1>5, <1>6, <1>7, <1>8, <1>9, LaunchesGoOn

LEMMA JobStepKeeps ==
  ASSUME FilesInv, NEW j \in Jobs, JobStep(j)
  PROVE  FilesInv'
BY WriteSourceKeeps, LaunchRefusedKeeps, StartedKeeps, RegisterKeeps, FinishFirstKeeps, RemoveSourceKeeps, FinishSecondKeeps,
   RemoveLogKeeps DEF JobStep

(* A server that ends takes the files of its entries with it; a call that  *)
(* is under way keeps its source.                                          *)
LEMMA ShutdownKeeps ==
  ASSUME FilesInv, NEW h \in Hosts, Shutdown(h)
  PROVE  FilesInv'
<1> DEFINE entries == {j \in Jobs : HostOf[j] = h /\ Is(j, {"live", "taken", "killed", "done"})}
           S == UNION {job[j].source \cup job[j].log : j \in entries}
<1>1. /\ host' = [host EXCEPT ![h].state = "ended"] /\ aged' = aged \cap DOMAIN files' /\ files' = Without(S)
      /\ job' = [j \in Jobs |-> IF j \in entries THEN [job[j] EXCEPT !.pc = "gone"] ELSE job[j]]
  BY DEF Shutdown
<1>2. host' \in [Hosts -> [state : {"up", "ended", "crashed"}, seq : Nat]]
  BY <1>1 DEF FilesInv, FilesTypes
<1>3. \A i \in Jobs : /\ HostOf[i] # h => Up(i)' = Up(i)
                      /\ HostOf[i] = h => ~Up(i)'
  BY <1>1, Servers DEF Up, FilesInv, FilesTypes
<1>4. DOMAIN files' = DOMAIN files \ S /\ \A p \in DOMAIN files' : files'[p] = files[p]
  BY <1>1, Kept
<1>5. ASSUME NEW i \in Jobs
      PROVE  /\ job'[i] \in LaunchRecords /\ LaunchOK(i, job'[i])
             /\ i \notin entries => job'[i] = job[i]
             /\ i \in entries => job'[i].pc = "gone" /\ job'[i].temps = job[i].temps
  <2>1. job[i] \in LaunchRecords /\ LaunchOK(i, job[i])
    BY DEF FilesInv, FilesTypes
  <2>2. CASE i \in entries
    <3> DEFINE r == [job[i] EXCEPT !.pc = "gone"]
    <3>1. job'[i] = r
      BY <1>1, <2>2
    <3>2. /\ r \in LaunchRecords /\ r.pc = "gone" /\ r.source = job[i].source /\ r.temps = job[i].temps /\ r.log = job[i].log
          /\ r.drop = job[i].drop
      BY <2>1 DEF LaunchRecords
    <3> HIDE DEF r
    <3>3. LaunchOK(i, r)
      BY <2>1, <3>2 DEF LaunchOK
    <3> QED BY <2>2, <3>1, <3>2, <3>3
  <2>3. CASE i \notin entries
    BY <1>1, <2>1, <2>3
  <2> QED BY <2>2, <2>3
<1>6. job' \in [Jobs -> LaunchRecords]
  <2>1. DOMAIN job' = Jobs /\ job' = [i \in Jobs |-> job'[i]]
    BY <1>1
  <2> QED BY <1>5, <2>1
<1>7. ASSUME NEW i \in Jobs, NEW p \in DOMAIN files', p \in Claims(i) PROVE p \in Claims(i)'
  <2>1. CASE i \in entries
    <3>1. p \in job[i].source \cup job[i].temps \cup job[i].log
      BY <1>7, <2>1 DEF Claims, Is
    <3>2. p \in job[i].temps
      BY <1>4, <2>1, <3>1
    <3>3. job'[i].temps = job[i].temps /\ job'[i].pc = "gone"
      BY <1>5, <2>1
    <3> QED BY <3>2, <3>3 DEF Claims, Is
  <2>2. CASE i \notin entries /\ HostOf[i] = h
    BY <1>5, <1>7, <2>2 DEF Claims, Is
  <2>3. CASE i \notin entries /\ HostOf[i] # h
    BY <1>3, <1>5, <1>7, <2>3 DEF Claims, Is
  <2> QED BY <2>1, <2>2, <2>3
<1>8. \A i \in Jobs : Busy(i)' => Busy(i)
  BY <1>3, <1>5 DEF Busy, Is
<1>9. ASSUME NEW i \in Jobs, Up(i)', job'[i].pc \in {"written", "started", "live"}
      PROVE  /\ Up(i) /\ job[i].pc \in {"written", "started", "live"} /\ job'[i].source = job[i].source
             /\ Source(i) \in DOMAIN files => Source(i) \in DOMAIN files'
  <2>1. HostOf[i] # h /\ i \notin entries /\ job'[i] = job[i] /\ Up(i)
    BY <1>3, <1>5, <1>9
  <2>2. \A j \in entries : Source(i) \notin job[j].source \cup job[j].log
    BY <2>1, NamesDiffer DEF FilesInv, FilesTypes, LaunchOK
  <2> QED BY <1>4, <1>9, <2>1, <2>2
<1>10. \A i \in Jobs : LaunchOK(i, job'[i])
  BY <1>5
<1> QED BY <1>1, <1>2, <1>4, <1>6, <1>7, <1>8, <1>9, <1>10, LaunchesGoOn

LEMMA CrashKeeps ==
  ASSUME FilesInv, NEW h \in Hosts, Crash(h)
  PROVE  FilesInv'
<1>1. host' = [host EXCEPT ![h].state = "crashed"] /\ job' = job /\ files' = files /\ aged' = aged
  BY DEF Crash
<1>2. host' \in [Hosts -> [state : {"up", "ended", "crashed"}, seq : Nat]]
  BY <1>1 DEF FilesInv, FilesTypes
<1>3. \A i \in Jobs : Up(i)' => Up(i)
  BY <1>1, Servers DEF Up, FilesInv, FilesTypes
<1>4. \A i \in Jobs : Claims(i) \subseteq Claims(i)'
  BY <1>1, <1>3 DEF Claims, Is
<1>5. \A i \in Jobs : Busy(i)' => Busy(i)
  BY <1>1, <1>3 DEF Busy, Is
<1>6. aged' = aged \cap DOMAIN files'
  BY <1>1 DEF FilesInv, Fresh
<1>7. job' \in [Jobs -> LaunchRecords] /\ \A i \in Jobs : LaunchOK(i, job'[i])
  BY <1>1 DEF FilesInv, FilesTypes
<1> QED BY <1>1, <1>2, <1>3, <1>4, <1>5, <1>6, <1>7, LaunchesGoOn

(* No source in use is old; it is the others a new server removes.         *)
LEMMA StartsAnewKeeps ==
  ASSUME FilesInv, NEW h \in Hosts, StartsAnew(h)
  PROVE  FilesInv'
<1> DEFINE forgotten == {j \in Jobs : HostOf[j] = h /\ ~Is(j, {"idle", "refused"})}
           S == {p \in aged : SharedTmp \/ HostOf[files[p]] = h}
<1>1. /\ host' = [host EXCEPT ![h] = [state |-> "up", seq |-> 0]] /\ aged' = aged \cap DOMAIN files'
      /\ files' = Without(S) /\ host[h].state # "up"
      /\ job' = [j \in Jobs |-> IF j \in forgotten THEN [job[j] EXCEPT !.pc = "lost"] ELSE job[j]]
  BY DEF StartsAnew
<1>2. host' \in [Hosts -> [state : {"up", "ended", "crashed"}, seq : Nat]]
  BY <1>1 DEF FilesInv, FilesTypes
<1>3. \A i \in Jobs : HostOf[i] # h => Up(i)' = Up(i)
  BY <1>1, Servers DEF Up, FilesInv, FilesTypes
<1>4. DOMAIN files' = DOMAIN files \ S /\ \A p \in DOMAIN files' : files'[p] = files[p]
  BY <1>1, Kept
<1>5. ASSUME NEW i \in Jobs
      PROVE  /\ job'[i] \in LaunchRecords /\ LaunchOK(i, job'[i])
             /\ i \notin forgotten => job'[i] = job[i]
             /\ i \in forgotten => job'[i].pc = "lost" /\ Claims(i) \subseteq job'[i].source \cup job'[i].temps \cup job'[i].log
  <2>1. job[i] \in LaunchRecords /\ LaunchOK(i, job[i])
    BY DEF FilesInv, FilesTypes
  <2>2. CASE i \in forgotten
    <3> DEFINE r == [job[i] EXCEPT !.pc = "lost"]
    <3>1. job'[i] = r
      BY <1>1, <2>2
    <3>2. /\ r \in LaunchRecords /\ r.pc = "lost" /\ r.source = job[i].source /\ r.temps = job[i].temps /\ r.log = job[i].log
          /\ r.drop = job[i].drop
      BY <2>1 DEF LaunchRecords
    <3> HIDE DEF r
    <3>3. LaunchOK(i, r)
      BY <2>1, <3>2 DEF LaunchOK
    <3>4. Claims(i) \subseteq job[i].source \cup job[i].temps \cup job[i].log
      BY <2>1 DEF Claims, LaunchOK
    <3> QED BY <2>2, <3>1, <3>2, <3>3, <3>4
  <2>3. CASE i \notin forgotten
    BY <1>1, <2>1, <2>3
  <2> QED BY <2>2, <2>3
<1>6. job' \in [Jobs -> LaunchRecords]
  <2>1. DOMAIN job' = Jobs /\ job' = [i \in Jobs |-> job'[i]]
    BY <1>1
  <2> QED BY <1>5, <2>1
<1>7. \A i \in Jobs \ forgotten : HostOf[i] # h \/ job[i].pc \in {"idle", "refused"}
  BY DEF Is
<1>8. ASSUME NEW i \in Jobs PROVE Claims(i) \subseteq Claims(i)'
  <2>1. CASE i \in forgotten
    <3>1. Claims(i)' = job'[i].source \cup job'[i].temps \cup job'[i].log
      BY <1>5, <2>1 DEF Claims, Is
    <3> QED BY <1>5, <2>1, <3>1
  <2>2. CASE i \notin forgotten /\ HostOf[i] # h
    BY <1>3, <1>5, <2>2 DEF Claims, Is
  <2>3. CASE i \notin forgotten /\ job[i].pc \in {"idle", "refused"}
    BY <2>3 DEF Claims, Is
  <2> QED BY <1>7, <2>1, <2>2, <2>3
<1>9. \A i \in Jobs : Busy(i)' => Busy(i)
  BY <1>3, <1>5, <1>7 DEF Busy, Is
<1>10. ASSUME NEW i \in Jobs, Up(i)', job'[i].pc \in {"written", "started", "live"}
      PROVE  /\ Up(i) /\ job[i].pc \in {"written", "started", "live"} /\ job'[i].source = job[i].source
             /\ Source(i) \in DOMAIN files => Source(i) \in DOMAIN files'
  <2>1. i \notin forgotten /\ HostOf[i] # h /\ job'[i] = job[i] /\ Up(i)
    BY <1>3, <1>5, <1>7, <1>10
  <2>2. Source(i) \notin aged
    BY <1>10, <2>1 DEF FilesInv, Fresh, Busy, Is
  <2> QED BY <1>4, <1>10, <2>1, <2>2
<1>11. \A i \in Jobs : LaunchOK(i, job'[i])
  BY <1>5
<1> QED BY <1>1, <1>2, <1>4, <1>6, <1>8, <1>9, <1>10, <1>11, LaunchesGoOn

LEMMA DayPassesKeeps ==
  ASSUME FilesInv, DayPasses
  PROVE  FilesInv'
<1>1. aged' = {p \in DOMAIN files : ~Busy(files[p])} /\ host' = host /\ job' = job /\ files' = files
  BY DEF DayPasses
<1>2. \A i \in Jobs : Claims(i)' = Claims(i) /\ Busy(i)' = Busy(i) /\ Up(i)' = Up(i)
  BY <1>1 DEF Claims, Busy, Up, Is
<1>3. FilesTypes' /\ Claimed' /\ Present'
  BY <1>1, <1>2 DEF FilesInv, FilesTypes, Claimed, Present
<1>4. Fresh'
  BY <1>1, <1>2 DEF FilesInv, Fresh, Present
<1> QED BY <1>3, <1>4 DEF FilesInv

LEMMA FilesIdleKeeps ==
  ASSUME FilesInv, UNCHANGED fileVars
  PROVE  FilesInv'
<1>1. host' = host /\ job' = job /\ files' = files /\ aged' = aged
  BY DEF fileVars
<1>2. \A i \in Jobs : Claims(i)' = Claims(i) /\ Busy(i)' = Busy(i) /\ Up(i)' = Up(i)
  BY <1>1 DEF Claims, Busy, Up, Is
<1> QED BY <1>1, <1>2 DEF FilesInv, FilesTypes, Claimed, Present, Fresh

(* The inductive invariant of the directory holds throughout: every file   *)
(* is claimed, the sources in use are there, and none of them is old.      *)
THEOREM FilesInductive == FilesSpec => []FilesInv
<1>1. FilesInv /\ [FilesNext]_fileVars => FilesInv'
  BY JobStepKeeps, ShutdownKeeps, CrashKeeps, StartsAnewKeeps, DayPassesKeeps, FilesIdleKeeps DEF FilesNext
<1> QED BY <1>1, FilesInitHolds, PTL DEF FilesSpec

(* However launches of several servers are refused, end, are pruned, cut   *)
(* off by a shutdown or a crash and cleared away a day later: no file is   *)
(* left that belongs to nobody (a server that ends may leave the sources   *)
(* that the end of a job has taken and not yet removed), and no running    *)
(* process loses its source.                                               *)
THEOREM LaunchesLeaveNothing == FilesSpec => []TempsFreed
<1>1. FilesInv => TempsFreed
  BY DEF FilesInv, Claimed, Present, TempsFreed, Running, Is
<1> QED BY <1>1, FilesInductive, PTL

-----------------------------------------------------------------------------

Rings == [file : Seq(Nat), pos : Nat, filled : Nat, truncated : BOOLEAN, broken : BOOLEAN]

(* The ring after t bytes: the file is linear until it is full; then its   *)
(* newest byte is at pos, and the oldest behind it.                        *)
RingOK(r, t) ==
  /\ r \in Rings
  /\ t <= LogLimit => /\ r.pos = t /\ r.filled = t /\ r.truncated = FALSE
                      /\ Len(r.file) = t /\ \A k \in 1 .. t : r.file[k] = k
  /\ t > LogLimit => /\ r.pos \in 1 .. LogLimit /\ r.filled = LogLimit /\ r.truncated = TRUE
                     /\ Len(r.file) = LogLimit
                     /\ \A k \in 1 .. LogLimit :
                          r.file[k] = IF k <= r.pos THEN t - r.pos + k ELSE t - r.pos - LogLimit + k

(* What a log of LogLimit bytes keeps of t: the newest, in whole runes.    *)
Newest(t) == DropLeading(Bytes(IF t <= LogLimit THEN 1 ELSE t - LogLimit + 1, t))

(* The bytes of the log are the newest, in the ring, in compact's hands    *)
(* and in the file, unless a write has failed.                             *)
LogHoldsNewest ==
  ~ring.broken =>
    /\ end = "live" => RingOK(ring, total) /\ Logical(ring) = Newest(total)
    /\ end # "live" => saved = Newest(total)
    /\ end \in {"written", "settled"} => ring.file = Newest(total)

ReaderOK ==
  /\ reader = [pc |-> reader.pc, lines |-> reader.lines, bytes |-> reader.bytes, size |-> reader.size,
               upto |-> reader.upto, window |-> reader.window, live |-> reader.live, sure |-> reader.sure,
               torn |-> reader.torn, got |-> reader.got]
  /\ reader.pc = "stat" =>
       /\ reader.live = FALSE /\ reader.lines \in LineCounts /\ reader.bytes \in ByteCounts
       /\ reader.window = IF reader.bytes > 0 THEN reader.bytes ELSE MaxRead
       /\ reader.sure => end = "settled" /\ reader.size = Len(ring.file)
  /\ reader.pc = "read" => reader.upto \in Nat /\ reader.upto <= total

LogInv ==
  /\ total \in Nat /\ end \in {"live", "taken", "emptied", "written", "settled"}
  /\ ring = [file |-> ring.file, pos |-> ring.pos, filled |-> ring.filled, truncated |-> ring.truncated,
             broken |-> ring.broken]
  /\ LogHoldsNewest /\ ReaderOK /\ TailIsNewest

(* The lowest of a set of numbers, and the highest of a bounded one. *)
LEMMA Lowest ==
  ASSUME NEW S \in SUBSET Nat, S # {}
  PROVE  Min(S) \in S /\ \A n \in S : Min(S) <= n
<1>1. PICK m \in S : \A n \in Nat : <<n, m>> \in OpToRel(<, Nat) => n \notin S
  BY NatLessThanWellFounded, WFMin
<1>2. \A n \in S : ~(n < m)
  BY <1>1 DEF OpToRel
<1>3. \A n \in S : m <= n
  BY <1>2
<1> QED BY <1>3 DEF Min

LEMMA Highest ==
  ASSUME NEW S \in SUBSET Nat, S # {}, NEW b \in Nat, \A n \in S : n <= b
  PROVE  Max(S) \in S /\ \A n \in S : n <= Max(S)
<1> DEFINE T == {b - n : n \in S}
<1>1. T \in SUBSET Nat /\ T # {}
  <2>1. \A n \in S : b - n \in Nat
    OBVIOUS
  <2> QED BY <2>1
<1>2. Min(T) \in T /\ \A k \in T : Min(T) <= k
  <2> HIDE DEF T
  <2> QED BY <1>1, Lowest
<1>3. PICK m \in S : Min(T) = b - m
  BY <1>2
<1>4. ASSUME NEW n \in S PROVE m >= n
  <2>1. b - m <= b - n
    BY <1>2, <1>3
  <2> QED BY <2>1
<1> QED BY <1>3, <1>4 DEF Max

LEMMA Part ==
  ASSUME NEW s \in Seq(Nat), NEW m \in Nat \ {0}, NEW n \in Nat, n <= Len(s), m <= n + 1
  PROVE  /\ SubSeq(s, m, n) \in Seq(Nat) /\ Len(SubSeq(s, m, n)) = n - m + 1
         /\ \A i \in 1 .. n - m + 1 : SubSeq(s, m, n)[i] = s[m + i - 1]
<1>1. \A i \in m .. n : s[i] \in Nat
  OBVIOUS
<1> QED BY <1>1, SubSeqProperties

-----------------------------------------------------------------------------
(* Bytes in the order in which they were written, and parts of them. *)
LEMMA BytesAre ==
  ASSUME NEW a \in Nat \ {0}, NEW b \in Nat, a <= b + 1
  PROVE  /\ Bytes(a, b) \in Seq(Nat) /\ Len(Bytes(a, b)) = b + 1 - a /\ DOMAIN Bytes(a, b) = 1 .. b + 1 - a
         /\ \A i \in 1 .. b + 1 - a : Bytes(a, b)[i] = a + i - 1
<1>1. \A i \in 1 .. b + 1 - a : a + i - 1 \in Nat
  OBVIOUS
<1>2. b + 1 - a \in Nat
  OBVIOUS
<1> QED BY <1>1, <1>2 DEF Bytes

LEMMA IsBytes ==
  ASSUME NEW s \in Seq(Nat), NEW a \in Nat \ {0}, NEW b \in Nat, a <= b + 1, Len(s) = b + 1 - a,
         \A i \in 1 .. b + 1 - a : s[i] = a + i - 1
  PROVE  s = Bytes(a, b)
<1> DEFINE t == Bytes(a, b)
<1>1. t \in Seq(Nat) /\ Len(t) = b + 1 - a /\ \A i \in 1 .. b + 1 - a : t[i] = a + i - 1
  BY BytesAre
<1> HIDE DEF t
<1>2. s = t
  BY <1>1, SeqEqual
<1> QED BY <1>2 DEF t

LEMMA BytesPart ==
  ASSUME NEW a \in Nat \ {0}, NEW b \in Nat, a <= b + 1,
         NEW c \in Nat \ {0}, NEW d \in Nat, a <= c, c <= d + 1, d <= b
  PROVE  SubSeq(Bytes(a, b), c - a + 1, d - a + 1) = Bytes(c, d)
<1> DEFINE s == Bytes(a, b)
           m == c - a + 1
           n == d - a + 1
           t == SubSeq(s, m, n)
<1>1. s \in Seq(Nat) /\ Len(s) = b + 1 - a /\ \A i \in 1 .. b + 1 - a : s[i] = a + i - 1
  BY BytesAre
<1>2. m \in Nat \ {0} /\ n \in Nat /\ n <= b + 1 - a /\ m <= n + 1 /\ n - m + 1 = d + 1 - c
  OBVIOUS
<1> HIDE DEF s
<1>3. t \in Seq(Nat) /\ Len(t) = d + 1 - c /\ \A i \in 1 .. d + 1 - c : t[i] = s[m + i - 1]
  <2> HIDE DEF m, n
  <2>1. n <= Len(s)
    BY <1>1, <1>2
  <2>2. t \in Seq(Nat) /\ Len(t) = n - m + 1 /\ \A i \in 1 .. n - m + 1 : t[i] = s[m + i - 1]
    BY <1>1, <1>2, <2>1, Part
  <2> HIDE DEF t
  <2> QED BY <1>2, <2>2
<1> HIDE DEF t
<1>4. \A i \in 1 .. d + 1 - c : t[i] = c + i - 1
  <2> TAKE i \in 1 .. d + 1 - c
  <2>1. m + i - 1 \in 1 .. b + 1 - a /\ a + (m + i - 1) - 1 = c + i - 1
    OBVIOUS
  <2> QED BY <1>1, <1>3, <2>1
<1>5. t = Bytes(c, d)
  BY <1>3, <1>4, IsBytes
<1> QED BY <1>5 DEF t, s

LEMMA NoBytes == \A a \in Nat \ {0} : Bytes(a, a - 1) = <<>>
<1> TAKE a \in Nat \ {0}
<1> DEFINE s == Bytes(a, a - 1)
<1>1. a - 1 \in Nat /\ a <= (a - 1) + 1 /\ (a - 1) + 1 - a = 0
  OBVIOUS
<1>2. s \in Seq(Nat) /\ Len(s) = 0
  <2>1. s \in Seq(Nat) /\ Len(s) = (a - 1) + 1 - a
    BY <1>1, BytesAre
  <2> QED BY <1>1, <2>1
<1> HIDE DEF s
<1>3. s = <<>>
  BY <1>2
<1> QED BY <1>3 DEF s

LEMMA BreaksAre ==
  ASSUME NEW a \in Nat \ {0}, NEW b \in Nat, a <= b + 1
  PROVE  Breaks(Bytes(a, b)) = {i \in 1 .. b + 1 - a : a + i - 1 \in Newlines}
  BY BytesAre DEF Breaks

-----------------------------------------------------------------------------
(* The first and the last whole rune of bytes of which the first is a and  *)
(* the last is b.                                                          *)
First(a) == IF a \in Seconds THEN a + 1 ELSE a

LastWhole(b) == IF b + 1 \in Seconds THEN b - 1 ELSE b

LEMMA LeadingIs ==
  ASSUME NEW a \in Nat \ {0}, NEW b \in Nat, a <= b + 1
  PROVE  DropLeading(Bytes(a, b)) = IF First(a) <= LastWhole(b) THEN Bytes(First(a), b) ELSE <<>>
<1> DEFINE s == Bytes(a, b)
           starts == {i \in DOMAIN s : RuneBegins(s, i)}
<1>1. s \in Seq(Nat) /\ Len(s) = b + 1 - a /\ DOMAIN s = 1 .. b + 1 - a /\ \A i \in 1 .. b + 1 - a : s[i] = a + i - 1
  BY BytesAre
<1> HIDE DEF s
<1>2. ASSUME NEW i \in 1 .. b + 1 - a
      PROVE  RuneBegins(s, i) <=> a + i - 1 \notin Seconds /\ (a + i \in Seconds => i < b + 1 - a)
  <2>1. s[i] = a + i - 1 /\ (a + i - 1) + 1 = a + i
    BY <1>1
  <2>2. i < b + 1 - a => s[i + 1] = a + i
    <3> HAVE i < b + 1 - a
    <3>1. i + 1 \in 1 .. b + 1 - a /\ a + (i + 1) - 1 = a + i
      OBVIOUS
    <3> QED BY <1>1, <3>1
  <2> QED BY <1>1, <2>1, <2>2 DEF RuneBegins
<1>3. Seconds \subseteq Nat /\ \A k \in Seconds : k + 1 \notin Seconds
  BY LogParameters
<1> DEFINE j == First(a) - a + 1
<1>4. First(a) \in Nat \ {0} /\ a <= First(a) /\ j \in {1, 2} /\ a + j - 1 = First(a) /\ First(a) \notin Seconds
  BY <1>3 DEF First
<1>5. CASE First(a) <= LastWhole(b)
  <2>1. First(a) <= b /\ j \in 1 .. b + 1 - a
    BY <1>4, <1>5 DEF LastWhole
  <2>2. j \in starts
    <3>1. a + j \in Seconds => j < b + 1 - a
      <4> HAVE a + j \in Seconds
      <4>1. a + j = First(a) + 1
        BY <1>4
      <4>2. First(a) # b
        BY <1>4, <1>5, <4>1 DEF LastWhole
      <4> QED BY <1>4, <2>1, <4>2
    <3>2. a + j - 1 \notin Seconds
      BY <1>4
    <3>3. RuneBegins(s, j)
      BY <1>2, <2>1, <3>1, <3>2
    <3> QED BY <1>1, <2>1, <3>3
  <2>3. \A i \in starts : j <= i
    <3> TAKE i \in starts
    <3>1. i \in 1 .. b + 1 - a /\ a + i - 1 \notin Seconds
      BY <1>1, <1>2
    <3>2. i = 1 => a \notin Seconds
      BY <3>1
    <3>3. j = 2 => a \in Seconds
      BY DEF First
    <3> QED BY <1>4, <3>1, <3>2, <3>3
  <2>4. Min(starts) = j
    <3>1. starts \in SUBSET Nat /\ starts # {}
      BY <1>1, <2>2
    <3>2. Min(starts) \in starts /\ \A i \in starts : Min(starts) <= i
      <4> HIDE DEF starts
      <4> QED BY <3>1, Lowest
    <3> HIDE DEF starts, j
    <3>3. Min(starts) <= j /\ j <= Min(starts) /\ Min(starts) \in Nat /\ j \in Nat
      BY <1>4, <2>2, <2>3, <3>1, <3>2
    <3> QED BY <3>3
  <2>5. DropLeading(s) = SubSeq(s, j, b + 1 - a)
    BY <1>1, <2>2, <2>4 DEF DropLeading
  <2>6. SubSeq(s, First(a) - a + 1, b - a + 1) = Bytes(First(a), b)
    <3>1. SubSeq(Bytes(a, b), First(a) - a + 1, b - a + 1) = Bytes(First(a), b)
      <4>1. First(a) \in Nat \ {0} /\ a <= First(a) /\ First(a) <= b + 1 /\ b <= b
        BY <1>4, <2>1
      <4> QED BY <4>1, BytesPart
    <3> QED BY <3>1 DEF s
  <2>7. b - a + 1 = b + 1 - a
    OBVIOUS
  <2> QED BY <1>5, <2>5, <2>6, <2>7 DEF s
<1>6. CASE ~(First(a) <= LastWhole(b))
  <2>1. starts = {}
    <3> SUFFICES ASSUME NEW i \in starts PROVE FALSE
      OBVIOUS
    <3>1. i \in 1 .. b + 1 - a /\ a + i - 1 \notin Seconds /\ (a + i \in Seconds => i < b + 1 - a)
      BY <1>1, <1>2
    <3>2. First(a) <= a + i - 1
      <4>1. i = 1 => a \notin Seconds
        BY <3>1
      <4> QED BY <3>1, <4>1 DEF First
    <3>3. a + i - 1 <= LastWhole(b)
      <4>1. CASE b + 1 \in Seconds
        <5>1. i = b + 1 - a => a + i = b + 1
          OBVIOUS
        <5>2. i < b + 1 - a
          BY <3>1, <4>1, <5>1
        <5> QED BY <3>1, <4>1, <5>2 DEF LastWhole
      <4>2. CASE b + 1 \notin Seconds
        BY <3>1, <4>2 DEF LastWhole
      <4> QED BY <4>1, <4>2
    <3> HIDE DEF starts
    <3>4. LastWhole(b) \in Int
      BY DEF LastWhole
    <3> QED BY <1>4, <1>6, <3>1, <3>2, <3>3, <3>4
  <2> QED BY <1>6, <2>1 DEF DropLeading, s
<1> QED BY <1>5, <1>6

LEMMA TrailingIs ==
  ASSUME NEW a \in Nat \ {0}, NEW b \in Nat, a <= LastWhole(b), a \notin Seconds
  PROVE  DropTrailing(Bytes(a, b)) = Bytes(a, LastWhole(b))
<1> DEFINE s == Bytes(a, b)
           e == LastWhole(b)
           whole == {i \in DOMAIN s : RuneEnds(s, i)}
           j == e - a + 1
<1>0. Seconds \subseteq Nat \ {0, 1} /\ \A k \in Seconds : k + 1 \notin Seconds
  BY LogParameters
<1>1. e \in Nat \ {0} /\ e <= b /\ a <= e /\ e + 1 \notin Seconds /\ b <= e + 1 /\ (b = e + 1 => b + 1 \in Seconds) /\ a <= b + 1
  BY <1>0 DEF LastWhole
<1> HIDE DEF e
<1>2. s \in Seq(Nat) /\ Len(s) = b + 1 - a /\ DOMAIN s = 1 .. b + 1 - a /\ \A i \in 1 .. b + 1 - a : s[i] = a + i - 1
  BY <1>1, BytesAre
<1> HIDE DEF s
<1>3. ASSUME NEW i \in 1 .. b + 1 - a
      PROVE  RuneEnds(s, i) <=> a + i \notin Seconds
  <2>1. s[i] = a + i - 1 /\ (a + i - 1) + 1 = a + i
    BY <1>2
  <2>2. s[i] \in Seconds => i > 1
    BY <2>1
  <2>3. i > 1 => s[i - 1] = s[i] - 1
    <3> HAVE i > 1
    <3>1. i - 1 \in 1 .. b + 1 - a /\ a + (i - 1) - 1 = (a + i - 1) - 1
      OBVIOUS
    <3> QED BY <1>2, <2>1, <3>1
  <2> QED BY <2>1, <2>2, <2>3 DEF RuneEnds
<1>4. j \in 1 .. b + 1 - a /\ a + j = e + 1 /\ j - 1 + a = e
  BY <1>1
<1>5. j \in {0} \cup whole
  BY <1>1, <1>2, <1>3, <1>4
<1>6. \A i \in {0} \cup whole : i <= j
  <2> TAKE i \in {0} \cup whole
  <2>1. CASE i = 0
    BY <1>4, <2>1
  <2>2. CASE i \in whole
    <3>1. i \in 1 .. b + 1 - a /\ a + i \notin Seconds
      BY <1>2, <1>3, <2>2
    <3>2. a + i # b + 1 \/ b = e
      BY <1>1, <3>1
    <3> QED BY <1>1, <1>4, <3>1, <3>2
  <2> QED BY <2>1, <2>2
<1>7. Max({0} \cup whole) = j
  <2> DEFINE all == {0} \cup whole
  <2>1. all \in SUBSET Nat /\ all # {} /\ j \in Nat
    <3>1. whole \in SUBSET Nat
      BY <1>2
    <3>2. j \in Nat
      BY <1>4
    <3> QED BY <3>1, <3>2
  <2>2. j \in all /\ \A i \in all : i <= j
    BY <1>5, <1>6
  <2> HIDE DEF all
  <2>3. Max(all) \in all /\ \A i \in all : i <= Max(all)
    BY <2>1, <2>2, Highest
  <2> HIDE DEF j
  <2>4. Max(all) <= j /\ j <= Max(all) /\ Max(all) \in Nat
    BY <2>1, <2>2, <2>3
  <2> QED BY <2>1, <2>4 DEF all
<1>8. DropTrailing(s) = SubSeq(s, 1, j)
  BY <1>7 DEF DropTrailing
<1>9. SubSeq(s, 1, e - a + 1) = Bytes(a, e)
  <2>1. a - a + 1 = 1 /\ a <= a /\ a <= e + 1
    BY <1>1
  <2>2. SubSeq(Bytes(a, b), a - a + 1, e - a + 1) = Bytes(a, e)
    BY <1>1, <2>1, BytesPart
  <2> QED BY <2>1, <2>2 DEF s
<1> QED BY <1>8, <1>9 DEF s, e

-----------------------------------------------------------------------------
(* What trimBgLogTail leaves of bytes: they begin after the end of a line, *)
(* or where they began.                                                    *)
NoBreak(a, b) == \A k \in a .. b : k \notin Newlines

AfterBreak(f, a) == f - 1 \in Newlines /\ a <= f - 1 /\ NoBreak(a, f - 2)

Count(a, b) == Cardinality({k \in a .. b : k \in Newlines})

LEMMA FromIs ==
  ASSUME NEW a \in Nat \ {0}, NEW b \in Nat, a <= b + 1, NEW c \in Nat \ {0}, a <= c, c <= b + 1
  PROVE  From(Bytes(a, b), c - a + 1) = Bytes(c, b)
<1>1. Len(Bytes(a, b)) = b + 1 - a
  BY BytesAre
<1>2. b + 1 - a = b - a + 1
  OBVIOUS
<1>3. SubSeq(Bytes(a, b), c - a + 1, b - a + 1) = Bytes(c, b)
  BY BytesPart
<1> QED BY <1>1, <1>2, <1>3 DEF From

LEMMA NextLineIs ==
  ASSUME NEW a \in Nat \ {0}, NEW b \in Nat, a <= b + 1
  PROVE  \E f \in a .. b + 1 : /\ NextLine(Bytes(a, b)) = Bytes(f, b)
                               /\ (f = a /\ NoBreak(a, b)) \/ AfterBreak(f, a)
<1> DEFINE s == Bytes(a, b)
           breaks == {i \in 1 .. b + 1 - a : a + i - 1 \in Newlines}
<1>1. Breaks(s) = breaks
  BY BreaksAre
<1>2. CASE breaks = {}
  <2>1. NextLine(s) = s
    BY <1>1, <1>2 DEF NextLine
  <2>2. NoBreak(a, b)
    <3> SUFFICES ASSUME NEW k \in a .. b, k \in Newlines PROVE FALSE
      BY DEF NoBreak
    <3>1. k - a + 1 \in 1 .. b + 1 - a /\ a + (k - a + 1) - 1 = k
      OBVIOUS
    <3>2. k - a + 1 \in breaks
      BY <3>1
    <3> QED BY <1>2, <3>2
  <2>3. a \in a .. b + 1
    OBVIOUS
  <2> QED BY <2>1, <2>2, <2>3
<1>3. CASE breaks # {}
  <2> DEFINE m == Min(breaks)
             f == a + m
  <2>1. m \in breaks /\ \A i \in breaks : m <= i
    <3>1. breaks \in SUBSET Nat
      OBVIOUS
    <3> HIDE DEF breaks
    <3> QED BY <1>3, <3>1, Lowest
  <2>2. m \in 1 .. b + 1 - a /\ a + m - 1 \in Newlines
    BY <2>1
  <2>3. NextLine(s) = From(s, m + 1)
    BY <1>1, <1>3 DEF NextLine
  <2>4. NoBreak(a, f - 2)
    <3> SUFFICES ASSUME NEW k \in a .. f - 2, k \in Newlines PROVE FALSE
      BY DEF NoBreak
    <3>0. m \in Int /\ m <= b + 1 - a /\ k \in Int /\ a <= k /\ k <= a + m - 2
      BY <2>2
    <3> HIDE DEF m, f
    <3>1. k - a + 1 \in 1 .. b + 1 - a /\ a + (k - a + 1) - 1 = k /\ k - a + 1 < m
      BY <3>0
    <3>2. k - a + 1 \in breaks
      BY <3>1
    <3>3. m <= k - a + 1
      BY <2>1, <3>2
    <3> QED BY <3>0, <3>1, <3>3
  <2> HIDE DEF m
  <2>5. f \in Nat \ {0} /\ a <= f /\ f <= b + 1 /\ f - a + 1 = m + 1 /\ f \in a .. b + 1 /\ a <= f - 1 /\ f - 1 = a + m - 1
    BY <2>2
  <2>6. From(s, f - a + 1) = Bytes(f, b)
    <3> HIDE DEF f
    <3> QED BY <2>5, FromIs
  <2>7. AfterBreak(f, a)
    BY <2>2, <2>4, <2>5 DEF AfterBreak
  <2> HIDE DEF f
  <2> QED BY <2>3, <2>5, <2>6, <2>7
<1> QED BY <1>2, <1>3

(* Of a window of n bytes.                                                 *)
Cut(a, b, n) == IF n = 0 \/ b + 1 - a <= n THEN a ELSE b - n + 1

LEMMA LastBytesIs ==
  ASSUME NEW a \in Nat \ {0}, NEW b \in Nat, a <= b + 1, NEW n \in Nat
  PROVE  \E f \in Cut(a, b, n) .. b + 1 :
            /\ LastBytes(Bytes(a, b), n) = Bytes(f, b)
            /\ \/ f = Cut(a, b, n) /\ (f > a => NoBreak(f, b - 1))
               \/ AfterBreak(f, Cut(a, b, n)) /\ f <= b /\ Cut(a, b, n) > a
<1> DEFINE s == Bytes(a, b)
           w == Cut(a, b, n)
<1>1. Len(s) = b + 1 - a
  BY BytesAre
<1>2. CASE n = 0 \/ b + 1 - a <= n
  <2>1. w = a /\ LastBytes(s, n) = s
    BY <1>1, <1>2 DEF Cut, LastBytes
  <2>2. a \in w .. b + 1
    BY <2>1
  <2> QED BY <2>1, <2>2
<1>3. CASE ~(n = 0 \/ b + 1 - a <= n)
  <2> DEFINE t == From(s, Len(s) - n + 1)
  <2>1. w = b - n + 1 /\ w \in Nat \ {0} /\ a < w /\ w <= b /\ Len(s) - n + 1 = w - a + 1 /\ w <= b + 1
    BY <1>1, <1>3 DEF Cut
  <2> HIDE DEF w
  <2>2. t = Bytes(w, b)
    BY <2>1, FromIs
  <2>3. LastBytes(s, n) = IF Breaks(t) = {Len(t)} THEN t ELSE NextLine(t)
    BY <1>1, <1>3 DEF LastBytes
  <2>4. Len(t) = b + 1 - w /\ Breaks(t) = {i \in 1 .. b + 1 - w : w + i - 1 \in Newlines}
    <3>1. Len(Bytes(w, b)) = b + 1 - w
      BY <2>1, BytesAre
    <3>2. Breaks(Bytes(w, b)) = {i \in 1 .. b + 1 - w : w + i - 1 \in Newlines}
      BY <2>1, BreaksAre
    <3> HIDE DEF t
    <3> QED BY <2>2, <3>1, <3>2
  <2> HIDE DEF t, s
  <2>5. CASE Breaks(t) = {Len(t)}
    <3>1. NoBreak(w, b - 1)
      <4> SUFFICES ASSUME NEW k \in w .. b - 1, k \in Newlines PROVE FALSE
        BY DEF NoBreak
      <4>1. k - w + 1 \in 1 .. b + 1 - w /\ w + (k - w + 1) - 1 = k /\ k - w + 1 # b + 1 - w
        BY <2>1
      <4>2. k - w + 1 \in Breaks(t)
        BY <2>4, <4>1
      <4> QED BY <2>4, <2>5, <4>1, <4>2
    <3>2. w \in w .. b + 1
      BY <2>1
    <3> QED BY <2>2, <2>3, <2>5, <3>1, <3>2 DEF s, w
  <2>6. CASE Breaks(t) # {Len(t)}
    <3>1. PICK f \in w .. b + 1 : /\ NextLine(Bytes(w, b)) = Bytes(f, b)
                                  /\ (f = w /\ NoBreak(w, b)) \/ AfterBreak(f, w)
      BY <2>1, NextLineIs
    <3>2. NoBreak(w, b) => NoBreak(w, b - 1)
      BY <2>1 DEF NoBreak
    <3>3. AfterBreak(f, w) => f <= b
      <4> SUFFICES ASSUME AfterBreak(f, w), f = b + 1 PROVE FALSE
        BY <2>1, <3>1
      <4>1. b \in Newlines /\ NoBreak(w, b - 1)
        BY DEF AfterBreak
      <4>2. w + (b + 1 - w) - 1 = b /\ b + 1 - w \in 1 .. b + 1 - w
        BY <2>1
      <4>3. b + 1 - w \in Breaks(t)
        BY <2>4, <4>1, <4>2
      <4>4. ASSUME NEW i \in Breaks(t) PROVE i = b + 1 - w
        <5>1. i \in 1 .. b + 1 - w /\ w + i - 1 \in Newlines
          BY <2>4
        <5>2. w + i - 1 \notin w .. b - 1
          BY <4>1, <5>1 DEF NoBreak
        <5> QED BY <2>1, <5>1, <5>2
      <4> QED BY <2>4, <2>6, <4>3, <4>4
    <3>4. LastBytes(s, n) = Bytes(f, b)
      BY <2>2, <2>3, <2>6, <3>1
    <3>5. \/ f = w /\ (f > a => NoBreak(f, b - 1))
          \/ AfterBreak(f, w) /\ f <= b /\ w > a
      BY <2>1, <3>1, <3>2, <3>3
    <3> QED BY <3>1, <3>4, <3>5 DEF s, w
  <2> QED BY <2>5, <2>6
<1> QED BY <1>2, <1>3

(* And of a number of lines. *)
WithoutBreak(a, b) == IF a <= b /\ b \in Newlines THEN b - 1 ELSE b

LEMMA WithoutEndIs ==
  ASSUME NEW a \in Nat \ {0}, NEW b \in Nat, a <= b + 1
  PROVE  WithoutEnd(Bytes(a, b)) = Bytes(a, WithoutBreak(a, b))
<1> DEFINE s == Bytes(a, b)
<1>1. s \in Seq(Nat) /\ Len(s) = b + 1 - a /\ \A i \in 1 .. b + 1 - a : s[i] = a + i - 1
  BY BytesAre
<1> HIDE DEF s
<1>2. CASE a <= b
  <2>1. s # <<>> /\ s[Len(s)] = b
    <3>1. b + 1 - a \in 1 .. b + 1 - a /\ a + (b + 1 - a) - 1 = b
      BY <1>2
    <3>2. s[b + 1 - a] = b
      BY <1>1, <3>1
    <3> QED BY <1>1, <3>1, <3>2
  <2>2. SubSeq(Bytes(a, b), a - a + 1, (b - 1) - a + 1) = Bytes(a, b - 1)
    <3>1. b - 1 \in Nat /\ a <= (b - 1) + 1 /\ b - 1 <= b /\ a <= a
      BY <1>2
    <3> QED BY <3>1, BytesPart
  <2>3. a - a + 1 = 1 /\ (b - 1) - a + 1 = (b + 1 - a) - 1
    OBVIOUS
  <2> QED BY <1>1, <1>2, <2>1, <2>2, <2>3 DEF WithoutEnd, WithoutBreak, s
<1>3. CASE ~(a <= b)
  <2>1. s = <<>>
    BY <1>1, <1>3
  <2> QED BY <1>3, <2>1 DEF WithoutEnd, WithoutBreak, s
<1> QED BY <1>2, <1>3

LEMMA CountIs ==
  ASSUME NEW a \in Nat \ {0}, NEW b \in Nat, a <= b + 1, NEW c \in Nat, a <= c
  PROVE  Cardinality({i \in Breaks(Bytes(a, b)) : i >= c - a + 1}) = Count(c, b)
<1> DEFINE S == {i \in Breaks(Bytes(a, b)) : i >= c - a + 1}
           T == {k \in c .. b : k \in Newlines}
           move == [i \in S |-> a + i - 1]
<1>1. S = {i \in 1 .. b + 1 - a : a + i - 1 \in Newlines /\ i >= c - a + 1}
  BY BreaksAre
<1>2. IsFiniteSet(S)
  <2>1. IsFiniteSet(1 .. b + 1 - a)
    BY FS_Interval
  <2>2. S \in SUBSET (1 .. b + 1 - a)
    BY <1>1
  <2> QED BY <2>1, <2>2, FS_Subset
<1> HIDE DEF S
<1>3. move \in [S -> T]
  <2>1. \A i \in S : a + i - 1 \in c .. b /\ a + i - 1 \in Newlines
    BY <1>1
  <2> QED BY <2>1
<1>4. \A i, j \in S : move[i] = move[j] => i = j
  <2> TAKE i, j \in S
  <2>1. i \in Int /\ j \in Int
    BY <1>1
  <2> QED BY <2>1
<1>5. \A k \in T : \E i \in S : move[i] = k
  <2> TAKE k \in T
  <2>1. k - a + 1 \in 1 .. b + 1 - a /\ a + (k - a + 1) - 1 = k /\ k - a + 1 >= c - a + 1 /\ k \in Newlines
    OBVIOUS
  <2>2. k - a + 1 \in S
    BY <1>1, <2>1
  <2> QED BY <2>1, <2>2
<1> HIDE DEF move, T
<1>6. move \in Bijection(S, T)
  BY <1>3, <1>4, <1>5 DEF Bijection, Injection, Surjection, IsInjective
<1>7. ExistsBijection(S, T)
  BY <1>6 DEF ExistsBijection
<1>8. Cardinality(T) = Cardinality(S)
  BY <1>2, <1>7, FS_Bijection
<1> QED BY <1>8 DEF S, T, Count

(* One line more begins before the end of a line.                          *)
LEMMA CountMore ==
  ASSUME NEW p \in Nat, NEW k \in Nat, NEW b \in Nat, p <= k, k \in Newlines, k <= b, NoBreak(p, k - 1)
  PROVE  Count(p, b) = Count(k + 1, b) + 1 /\ Count(k + 1, b) \in Nat
<1> DEFINE T == {i \in k + 1 .. b : i \in Newlines}
<1>1. IsFiniteSet(T)
  <2>1. IsFiniteSet(k + 1 .. b)
    BY FS_Interval
  <2>2. T \in SUBSET (k + 1 .. b)
    OBVIOUS
  <2> HIDE DEF T
  <2> QED BY <2>1, <2>2, FS_Subset
<1>2. {i \in p .. b : i \in Newlines} = T \cup {k}
  BY DEF NoBreak
<1>3. k \notin T
  OBVIOUS
<1> HIDE DEF T
<1>4. Cardinality(T \cup {k}) = Cardinality(T) + 1 /\ Cardinality(T) \in Nat
  BY <1>1, <1>3, FS_AddElement, FS_CardinalityType
<1> QED BY <1>2, <1>4 DEF Count, T

LEMMA NoCount == \A a, b \in Int : NoBreak(a, b) => Count(a, b) = 0
<1> TAKE a, b \in Int
<1> HAVE NoBreak(a, b)
<1>1. {k \in a .. b : k \in Newlines} = {}
  BY DEF NoBreak
<1> QED BY <1>1, FS_EmptySet DEF Count

LEMMA LastLinesIs ==
  ASSUME NEW f \in Nat \ {0}, NEW b \in Nat, f <= b + 1, NEW n \in Nat \ {0}
  PROVE  \E g \in f .. WithoutBreak(f, b) + 1 :
            /\ LastLines(Bytes(f, b), n) = Bytes(g, WithoutBreak(f, b))
            /\ Count(g, WithoutBreak(f, b)) < n
            /\ \/ g = f
               \/ g - 1 \in Newlines /\ f <= g - 1 /\ Count(g, WithoutBreak(f, b)) = n - 1
<1> DEFINE c == WithoutBreak(f, b)
           t == Bytes(f, c)
           breaks == {i \in 1 .. c + 1 - f : f + i - 1 \in Newlines}
           later(i) == Cardinality({j \in breaks : j >= i})
           starts == {i \in 1 .. c + 2 - f : (i = 1 \/ i - 1 \in breaks) /\ later(i) < n}
           i0 == Min(starts)
           g == f + i0 - 1
<1>1. c \in Nat /\ f <= c + 1
  BY DEF WithoutBreak
<1>2. WithoutEnd(Bytes(f, b)) = t
  BY WithoutEndIs
<1> HIDE DEF c
<1>3. Len(t) = c + 1 - f /\ Breaks(t) = breaks
  BY <1>1, BytesAre, BreaksAre
<1>4. LastLines(Bytes(f, b), n) = From(t, i0)
  <2>1. Len(t) + 1 = c + 2 - f
    BY <1>1, <1>3
  <2> HIDE DEF t, breaks
  <2> QED BY <1>2, <1>3, <2>1 DEF LastLines
<1>5. ASSUME NEW i \in 1 .. c + 2 - f PROVE later(i) = Count(f + i - 1, c)
  <2>1. f + i - 1 \in Nat /\ f <= f + i - 1 /\ (f + i - 1) - f + 1 = i
    OBVIOUS
  <2>2. Cardinality({j \in Breaks(t) : j >= (f + i - 1) - f + 1}) = Count(f + i - 1, c)
    <3> HIDE DEF breaks
    <3> QED BY <1>1, <2>1, CountIs
  <2> HIDE DEF t, breaks
  <2> QED BY <1>3, <2>1, <2>2
<1> HIDE DEF later, t
<1>6. breaks \in SUBSET Nat /\ \A i \in breaks : i <= c /\ i \in 1 .. c + 1 - f
  BY <1>1
<1>7. starts # {}
  <2>1. CASE breaks = {}
    <3>1. 1 \in 1 .. c + 2 - f
      BY <1>1
    <3>2. NoBreak(f, c)
      <4> SUFFICES ASSUME NEW k \in f .. c, k \in Newlines PROVE FALSE
        BY DEF NoBreak
      <4>1. k - f + 1 \in 1 .. c + 1 - f /\ f + (k - f + 1) - 1 = k
        BY <1>1
      <4>2. k - f + 1 \in breaks
        BY <4>1
      <4> QED BY <2>1, <4>2
    <3>3. later(1) = 0
      <4>1. f + 1 - 1 = f
        OBVIOUS
      <4>2. Count(f, c) = 0
        BY <1>1, <3>2, NoCount
      <4> QED BY <1>5, <3>1, <4>1, <4>2
    <3> QED BY <3>1, <3>3
  <2>2. CASE breaks # {}
    <3> DEFINE m == Max(breaks)
    <3>1. m \in breaks /\ \A i \in breaks : i <= m
      <4> HIDE DEF breaks
      <4> QED BY <1>1, <1>6, <2>2, Highest
    <3>2. m \in 1 .. c + 1 - f /\ m + 1 \in 1 .. c + 2 - f /\ (m + 1) - 1 = m
      BY <1>1, <1>6, <3>1
    <3> HIDE DEF m
    <3>3. {j \in breaks : j >= m + 1} = {}
      <4> HIDE DEF breaks
      <4>1. \A j \in breaks : j \in Nat /\ j <= m
        BY <1>6, <3>1
      <4> QED BY <3>2, <4>1
    <3>4. later(m + 1) = 0
      BY <3>3, FS_EmptySet DEF later
    <3>5. m + 1 \in starts
      BY <3>1, <3>2, <3>4
    <3> QED BY <3>5
  <2> QED BY <2>1, <2>2
<1>8. i0 \in starts /\ \A i \in starts : i0 <= i
  <2>1. starts \in SUBSET Nat
    OBVIOUS
  <2> HIDE DEF starts
  <2> QED BY <1>7, <2>1, Lowest
<1>9. i0 \in 1 .. c + 2 - f /\ (i0 = 1 \/ i0 - 1 \in breaks) /\ later(i0) < n
  BY <1>8
<1>10. i0 = 1 \/ later(i0) = n - 1
  <2> SUFFICES ASSUME i0 # 1 PROVE later(i0) = n - 1
    OBVIOUS
  <2> HIDE DEF i0
  <2> DEFINE before == {i \in breaks : i < i0 - 1}
             p == IF before = {} THEN 1 ELSE Max(before) + 1
             k == f + i0 - 2
  <2>1. i0 - 1 \in 1 .. c + 1 - f /\ f + (i0 - 1) - 1 \in Newlines
    BY <1>9
  <2>2. p \in 1 .. i0 - 1 /\ (p = 1 \/ p - 1 \in breaks) /\ \A i \in breaks : i < i0 - 1 => i < p
    <3>1. CASE before = {}
      <4>1. \A i \in breaks : ~(i < i0 - 1)
        BY <3>1
      <4>2. p = 1
        BY <3>1
      <4>3. 1 \in 1 .. i0 - 1
        BY <2>1
      <4> HIDE DEF p, breaks
      <4> QED BY <4>1, <4>2, <4>3
    <3>2. CASE before # {}
      <4> DEFINE q == Max(before)
      <4>0. p = q + 1
        BY <3>2
      <4>1. before \in SUBSET Nat /\ \A i \in before : i <= c
        BY <1>6
      <4>2. q \in before /\ \A i \in before : i <= q
        <5> HIDE DEF before
        <5> QED BY <1>1, <3>2, <4>1, Highest
      <4>3. q \in breaks /\ q < i0 - 1 /\ q \in Nat /\ \A i \in breaks : i < i0 - 1 => i <= q
        BY <4>1, <4>2
      <4> HIDE DEF q, breaks, p, before
      <4>4. i0 - 1 \in Nat /\ \A i \in breaks : i \in Nat
        BY <1>6, <2>1
      <4> QED BY <4>0, <4>3, <4>4
    <3> QED BY <3>1, <3>2
  <2> HIDE DEF p, before
  <2>3. p \in 1 .. c + 2 - f /\ p \in Nat /\ p < i0 /\ i0 \in Nat
    BY <1>1, <1>9, <2>1, <2>2
  <2>4. p \notin starts
    <3> HIDE DEF starts
    <3> SUFFICES ASSUME p \in starts PROVE FALSE
      OBVIOUS
    <3>1. i0 <= p
      BY <1>8 DEF i0
    <3> QED BY <2>3, <3>1
  <2>5. ~(later(p) < n)
    BY <2>2, <2>3, <2>4
  <2>6. NoBreak(f + p - 1, k - 1)
    <3> SUFFICES ASSUME NEW x \in f + p - 1 .. k - 1, x \in Newlines PROVE FALSE
      BY DEF NoBreak
    <3>0. x \in Int /\ f + p - 1 <= x /\ x <= f + i0 - 3 /\ 1 <= p /\ i0 - 1 <= c + 1 - f
      BY <2>1, <2>3
    <3>1. x - f + 1 \in 1 .. c + 1 - f /\ f + (x - f + 1) - 1 = x /\ x - f + 1 < i0 - 1 /\ ~(x - f + 1 < p)
      BY <1>1, <2>3, <3>0
    <3>2. x - f + 1 \in breaks
      BY <3>1
    <3> QED BY <2>2, <3>1, <3>2
  <2>7. /\ k \in Nat /\ f + p - 1 \in Nat /\ f + p - 1 <= k /\ k <= c /\ k \in Newlines /\ k + 1 = f + i0 - 1
        /\ k = f + (i0 - 1) - 1
    BY <1>1, <2>1, <2>2, <2>3
  <2>8. Count(f + p - 1, c) = Count(k + 1, c) + 1 /\ Count(k + 1, c) \in Nat
    <3> HIDE DEF k
    <3> QED BY <1>1, <2>6, <2>7, CountMore
  <2>9. later(p) = Count(f + p - 1, c) /\ later(i0) = Count(k + 1, c)
    BY <1>5, <1>9, <2>3, <2>7
  <2>10. later(i0) \in Nat /\ later(p) = later(i0) + 1
    BY <2>8, <2>9
  <2> QED BY <1>9, <2>5, <2>10
<1>11. g \in f .. c + 1 /\ g \in Nat \ {0} /\ g - f + 1 = i0 /\ (i0 = 1 => g = f)
       /\ (i0 - 1 \in breaks => g - 1 \in Newlines /\ f <= g - 1)
  <2> HIDE DEF i0
  <2>1. i0 - 1 \in breaks => f + (i0 - 1) - 1 \in Newlines /\ 1 <= i0 - 1
    OBVIOUS
  <2>2. i0 \in Nat /\ 1 <= i0 /\ i0 <= c + 2 - f
    BY <1>9
  <2>3. f + (i0 - 1) - 1 = g - 1
    BY <2>2
  <2> QED BY <1>1, <2>1, <2>2, <2>3
<1>12. From(t, g - f + 1) = Bytes(g, c)
  <2> HIDE DEF g
  <2>1. g \in Nat \ {0} /\ f <= g /\ g <= c + 1
    BY <1>1, <1>11
  <2> QED BY <1>1, <2>1, FromIs DEF t
<1>13. later(i0) = Count(g, c)
  <2> HIDE DEF i0
  <2> QED BY <1>5, <1>9
<1> HIDE DEF g, i0, breaks, starts
<1> QED BY <1>4, <1>9, <1>10, <1>11, <1>12, <1>13 DEF c

-----------------------------------------------------------------------------
(* What TailIsNewest says of a reader.                                     *)
Starts(first, lo, torn) ==
  \/ first - 1 \in Newlines
  \/ (first = lo \/ (first = lo + 1 /\ lo \in Seconds)) /\ (torn => NoBreak(lo, Final))

IsTail(got, lo, lines, torn, live) ==
  \E first \in lo .. Final + 1 :
    /\ got = Bytes(first, Final)
    /\ Starts(first, lo, torn) \/ (first > Final /\ ((torn /\ ~live) \/ Final <= lo))
    /\ Count(first, Final) < lines
    /\ Count(first, Final) = lines - 1 \/ \A k \in lo + 1 .. Final : k - 1 \in Newlines => first <= k

LEMMA TailMeans ==
  TailIsNewest <=>
    (reader.pc = "read" /\ reader.sure /\ reader.upto = total /\ ~ring.broken =>
       IsTail(reader.got, Oldest(reader.window), reader.lines, reader.torn, reader.live))
  BY DEF TailIsNewest, IsTail, Starts, Begun, NoBreak, Count

LEMMA NothingTrimmed == DropTrailing(DropLeading(<<>>)) = <<>>
<1>1. DropLeading(<<>>) = <<>>
  BY DEF DropLeading
<1>2. {0} \cup {i \in DOMAIN <<>> : RuneEnds(<<>>, i)} = {0}
  OBVIOUS
<1>3. Max({0}) = 0
  <2>1. {0} \in SUBSET Nat /\ {0} # {} /\ \A n \in {0} : n <= 0
    OBVIOUS
  <2>2. Max({0}) \in {0}
    BY <2>1, Highest
  <2> QED BY <2>2
<1>4. DropTrailing(<<>>) = SubSeq(<<>>, 1, 0)
  BY <1>2, <1>3 DEF DropTrailing
<1>5. SubSeq(<<>>, 1, 0) = <<>>
  OBVIOUS
<1> QED BY <1>1, <1>4, <1>5

LEMMA FinalIs ==
  ASSUME total \in Nat
  PROVE  /\ Final \in Nat /\ Final <= total /\ total <= Final + 1
         /\ total \in Newlines => Final = total - 1 /\ total + 1 \notin Seconds
         /\ total + 1 \in Seconds => Final = total - 1
         /\ total \notin Newlines /\ total + 1 \notin Seconds => Final = total
<1>1. 0 \notin Newlines /\ 1 \notin Seconds /\ Seconds \subseteq Nat /\ \A k \in Seconds : k - 1 \notin Newlines
  BY LogParameters
<1>2. total = 0 => total \notin Newlines /\ total + 1 \notin Seconds
  BY <1>1
<1>3. total + 1 \in Seconds => (total + 1) - 1 \notin Newlines
  BY <1>1
<1>4. (total + 1) - 1 = total
  OBVIOUS
<1> QED BY <1>2, <1>3, <1>4 DEF Final

LEMMA SameCount ==
  ASSUME NEW a, NEW b, NEW c, NEW d, \A k \in Newlines : k \in a .. b <=> k \in c .. d
  PROVE  Count(a, b) = Count(c, d)
<1>1. {k \in a .. b : k \in Newlines} = {k \in c .. d : k \in Newlines}
  OBVIOUS
<1> QED BY <1>1 DEF Count

(* Where the trimmed window begins, with or without half a line.           *)
Reaches(f, lo, torn, live) ==
  \/ (f = lo \/ (f = lo + 1 /\ lo \in Seconds)) /\ f <= total /\ (torn => NoBreak(lo, Final))
  \/ AfterBreak(f, lo) /\ (f <= total \/ (torn /\ ~live))
  \/ f = total + 1 /\ Final <= lo

LEMMA TailIs ==
  ASSUME total \in Nat, NEW f \in Nat \ {0}, NEW lo \in Nat \ {0}, lo <= f, f <= total + 1, lo <= Final + 1,
         NEW lines \in Nat \ {0}, NEW torn \in BOOLEAN, NEW live \in BOOLEAN, Reaches(f, lo, torn, live)
  PROVE  IsTail(DropTrailing(DropLeading(LastLines(Bytes(f, total), lines))), lo, lines, torn, live)
<1> DEFINE c == WithoutBreak(f, total)
           got == DropTrailing(DropLeading(LastLines(Bytes(f, total), lines)))
<1>1. /\ Final \in Nat /\ Final <= total /\ total <= Final + 1
      /\ total \in Newlines => Final = total - 1 /\ total + 1 \notin Seconds
      /\ total + 1 \in Seconds => Final = total - 1
      /\ total \notin Newlines /\ total + 1 \notin Seconds => Final = total
  BY FinalIs
<1>0. /\ Newlines \subseteq Nat /\ Seconds \subseteq Nat
      /\ \A k \in Seconds : k \notin Newlines /\ k - 1 \notin Newlines /\ k + 1 \notin Seconds
  BY LogParameters
<1>2. PICK g \in f .. c + 1 :
        /\ LastLines(Bytes(f, total), lines) = Bytes(g, c)
        /\ Count(g, c) < lines
        /\ g = f \/ (g - 1 \in Newlines /\ f <= g - 1 /\ Count(g, c) = lines - 1)
  BY LastLinesIs
<1>10. Bytes(Final + 1, Final) = <<>>
  <2>1. Final + 1 \in Nat \ {0} /\ (Final + 1) - 1 = Final
    BY <1>1
  <2> HIDE DEF Final
  <2> QED BY <2>1, NoBytes
<1>11. Count(Final + 1, Final) = 0
  BY <1>1, NoCount DEF NoBreak
<1>12. Final + 1 \in lo .. Final + 1
  BY <1>1
<1>3. CASE f = total + 1
  <2>1. c = total /\ g = total + 1
    BY <1>2, <1>3 DEF WithoutBreak
  <2>2. Bytes(total + 1, total) = <<>>
    <3>1. total + 1 \in Nat \ {0} /\ (total + 1) - 1 = total
      OBVIOUS
    <3> QED BY <3>1, NoBytes
  <2>3. got = <<>>
    BY <1>2, <2>1, <2>2, NothingTrimmed
  <2>4. (torn /\ ~live) \/ Final <= lo
    BY <1>1, <1>3 DEF Reaches
  <2>5. \A k \in lo + 1 .. Final : k - 1 \in Newlines => Final + 1 <= k
    <3>1. CASE AfterBreak(f, lo)
      <4>1. NoBreak(lo, total - 1)
        BY <1>3, <3>1 DEF AfterBreak
      <4>2. \A k \in lo + 1 .. Final : k - 1 \in lo .. total - 1
        BY <1>1
      <4> QED BY <4>1, <4>2 DEF NoBreak
    <3>2. CASE Final <= lo
      BY <1>1, <3>2
    <3> QED BY <1>3, <3>1, <3>2 DEF Reaches
  <2>6. Final + 1 > Final /\ 0 < lines
    BY <1>1
  <2> HIDE DEF got, Final
  <2> QED BY <1>10, <1>11, <1>12, <2>3, <2>4, <2>5, <2>6 DEF IsTail, got
<1>4. CASE f <= total
  <2>1. /\ total \in Newlines => c = total - 1
        /\ total \notin Newlines => c = total
        /\ c \in Nat /\ Final <= c /\ c <= total /\ LastWhole(c) = Final
    <3>1. c = IF total \in Newlines THEN total - 1 ELSE total
      BY <1>4 DEF WithoutBreak
    <3>2. total \in Newlines => total \notin Seconds /\ total # 0
      BY <1>0, LogParameters
    <3> HIDE DEF c, Final
    <3>3. CASE total \in Newlines
      <4>1. c = total - 1 /\ c + 1 = total /\ c \in Nat
        BY <3>1, <3>2, <3>3
      <4> QED BY <1>1, <3>2, <3>3, <4>1 DEF LastWhole
    <3>4. CASE total \notin Newlines
      BY <1>1, <3>1, <3>4 DEF LastWhole
    <3> QED BY <3>3, <3>4
  <2> HIDE DEF c
  <2>2. g \in Nat \ {0} /\ f <= g /\ g <= c + 1
    BY <1>2, <2>1
  <2>3. DropLeading(Bytes(g, c)) = IF First(g) <= Final THEN Bytes(First(g), c) ELSE <<>>
    BY <2>1, <2>2, LeadingIs
  <2>4. First(g) \in Nat \ {0} /\ g <= First(g) /\ First(g) <= g + 1 /\ First(g) \notin Seconds
        /\ (First(g) = g \/ (g \in Seconds /\ First(g) = g + 1))
    BY <1>0, <2>2 DEF First
  <2>5. ASSUME NEW k \in Newlines PROVE k \in g .. c <=> k \in First(g) .. Final
    <3>1. k \in Nat /\ k \notin Seconds
      BY <1>0
    <3>2. k = g => First(g) = g
      BY <3>1 DEF First
    <3>3. k = c => Final = c
      <4>1. CASE total \in Newlines
        BY <1>1, <2>1, <4>1
      <4>2. CASE total \notin Newlines
        <5>1. k = c => total \in Newlines
          BY <2>1, <4>2
        <5> QED BY <4>2, <5>1
      <4> QED BY <4>1, <4>2
    <3>4. c <= Final + 1
      BY <1>1, <2>1
    <3> HIDE DEF Final
    <3> QED BY <1>1, <2>1, <2>2, <2>4, <3>1, <3>2, <3>3, <3>4
  <2>6. Count(g, c) = Count(First(g), Final)
    BY <2>5, SameCount
  <2>7. g - 1 \in Newlines => First(g) = g
    <3> HAVE g - 1 \in Newlines
    <3>1. g \notin Seconds
      BY <1>0
    <3> QED BY <3>1 DEF First
  <2>8. CASE First(g) <= Final
    <3>1. got = Bytes(First(g), Final)
      <4>1. DropTrailing(Bytes(First(g), c)) = Bytes(First(g), LastWhole(c))
        BY <2>1, <2>4, <2>8, TrailingIs
      <4> QED BY <1>2, <2>1, <2>3, <2>8, <4>1
    <3>2. First(g) \in lo .. Final + 1
      BY <1>1, <2>2, <2>4, <2>8
    <3>3. /\ Starts(First(g), lo, torn)
          /\ Count(g, c) = lines - 1 \/ \A k \in lo + 1 .. Final : k - 1 \in Newlines => First(g) <= k
      <4>1. CASE g # f
        <5>1. g - 1 \in Newlines /\ First(g) = g /\ Count(g, c) = lines - 1
          BY <1>2, <2>7, <4>1
        <5> QED BY <5>1 DEF Starts
      <4>2. CASE g = f /\ AfterBreak(f, lo)
        <5>1. First(g) = f /\ f - 1 \in Newlines /\ NoBreak(lo, f - 2)
          BY <2>7, <4>2 DEF AfterBreak
        <5>2. \A k \in lo + 1 .. Final : k - 1 \in Newlines => f <= k
          <6> TAKE k \in lo + 1 .. Final
          <6> HAVE k - 1 \in Newlines
          <6>1. k - 1 \notin lo .. f - 2
            BY <5>1 DEF NoBreak
          <6>2. k \in Int /\ lo + 1 <= k
            BY <1>1
          <6> QED BY <6>1, <6>2
        <5> QED BY <5>1, <5>2 DEF Starts
      <4>3. CASE g = f /\ (f = lo \/ (f = lo + 1 /\ lo \in Seconds)) /\ (torn => NoBreak(lo, Final))
        <5>1. First(g) = lo \/ (First(g) = lo + 1 /\ lo \in Seconds)
          <6>1. CASE f = lo
            BY <2>4, <4>3, <6>1
          <6>2. CASE f = lo + 1 /\ lo \in Seconds
            BY <1>0, <2>4, <4>3, <6>2
          <6> QED BY <4>3, <6>1, <6>2
        <5>2. \A k \in lo + 1 .. Final : First(g) <= k
          BY <1>1, <5>1
        <5> QED BY <4>3, <5>1, <5>2 DEF Starts
      <4>4. CASE f = total + 1
        BY <1>4, <4>4
      <4> QED BY <4>1, <4>2, <4>3, <4>4 DEF Reaches
    <3>4. Count(First(g), Final) < lines
      BY <1>2, <2>6
    <3> HIDE DEF got, Final
    <3> QED BY <2>6, <3>1, <3>2, <3>3, <3>4 DEF IsTail, got
  <2>9. CASE ~(First(g) <= Final)
    <3>1. got = Bytes(Final + 1, Final)
      <4>1. DropLeading(<<>>) = <<>>
        BY DEF DropLeading
      <4>2. got = DropTrailing(<<>>)
        BY <1>2, <2>3, <2>9
      <4>3. DropTrailing(<<>>) = <<>>
        BY <4>1, NothingTrimmed
      <4> QED BY <1>10, <4>2, <4>3
    <3>2. c <= Final + 1 /\ g <= Final + 2
      BY <1>1, <2>1, <2>2
    <3>3. CASE g # f
      <4>1. g - 1 \in Newlines /\ First(g) = g /\ Count(g, c) = lines - 1 /\ f <= g - 1
        BY <1>2, <2>7, <3>3
      <4>2. g = Final + 1
        <5> SUFFICES ASSUME g # Final + 1 PROVE FALSE
          OBVIOUS
        <5>1. g = Final + 2 /\ c = Final + 1
          <6> HIDE DEF Final
          <6> QED BY <1>1, <2>1, <2>2, <2>9, <3>2, <4>1
        <5>2. g - 1 = total
          BY <1>1, <2>1, <5>1
        <5> QED BY <1>1, <2>1, <4>1, <5>1, <5>2
      <4>3. Count(Final + 1, Final) = lines - 1
        BY <2>6, <4>1, <4>2
      <4>4. Starts(Final + 1, lo, torn)
        BY <4>1, <4>2 DEF Starts
      <4>5. Count(Final + 1, Final) < lines
        BY <1>11
      <4> HIDE DEF got, Final
      <4> QED BY <1>12, <3>1, <4>3, <4>4, <4>5 DEF IsTail, got
    <3>4. CASE g = f /\ AfterBreak(f, lo)
      <4>1. First(g) = f /\ f - 1 \in Newlines /\ NoBreak(lo, f - 2)
        BY <2>7, <3>4 DEF AfterBreak
      <4>2. f = Final + 1
        <5> HIDE DEF Final
        <5> QED BY <1>1, <1>4, <2>9, <4>1
      <4>3. \A k \in lo + 1 .. Final : k - 1 \in Newlines => Final + 1 <= k
        <5> TAKE k \in lo + 1 .. Final
        <5>1. k - 1 \in lo .. f - 2
          BY <1>1, <4>2
        <5> QED BY <4>1, <5>1 DEF NoBreak
      <4>4. Starts(Final + 1, lo, torn)
        BY <4>1, <4>2 DEF Starts
      <4>5. Count(Final + 1, Final) < lines
        BY <1>11
      <4> HIDE DEF got, Final
      <4> QED BY <1>12, <3>1, <4>3, <4>4, <4>5 DEF IsTail, got
    <3>5. CASE g = f /\ (f = lo \/ (f = lo + 1 /\ lo \in Seconds))
      <4>1. Final <= lo
        <5>1. First(g) = lo \/ First(g) = lo + 1
          <6>1. CASE f = lo
            BY <2>4, <3>5, <6>1
          <6>2. CASE f = lo + 1 /\ lo \in Seconds
            BY <1>0, <2>4, <3>5, <6>2
          <6> QED BY <3>5, <6>1, <6>2
        <5> HIDE DEF Final
        <5> QED BY <1>1, <2>9, <5>1
      <4>2. \A k \in lo + 1 .. Final : k - 1 \in Newlines => Final + 1 <= k
        BY <1>1, <4>1
      <4>3. Final + 1 > Final /\ Count(Final + 1, Final) < lines
        BY <1>1, <1>11
      <4> HIDE DEF got, Final
      <4> QED BY <1>12, <3>1, <4>1, <4>2, <4>3 DEF IsTail, got
    <3>6. CASE f = total + 1
      BY <1>4, <3>6
    <3> QED BY <3>3, <3>4, <3>5, <3>6 DEF Reaches
  <2> QED BY <1>1, <2>4, <2>8, <2>9
<1> QED BY <1>3, <1>4

-----------------------------------------------------------------------------
LEMMA OldestIs ==
  ASSUME total \in Nat, NEW n \in Nat \ {0}
  PROVE  /\ Oldest(n) \in Nat \ {0} /\ Oldest(n) <= Final + 1
         /\ Oldest(n) = IF total + 1 - Oldest(LogLimit) <= n THEN Oldest(LogLimit) ELSE total - n + 1
         /\ Oldest(LogLimit) = IF total <= LogLimit THEN 1 ELSE total - LogLimit + 1
         /\ Oldest(LogLimit) \in Nat \ {0} /\ Oldest(LogLimit) <= total + 1
<1>1. LogLimit \in Nat \ {0}
  BY LogParameters
<1>2. Final \in Nat /\ total <= Final + 1
  BY FinalIs
<1> HIDE DEF Final
<1>3. Oldest(LogLimit) = IF total <= LogLimit THEN 1 ELSE total - LogLimit + 1
  BY <1>1 DEF Oldest
<1>4. CASE n < LogLimit
  <2>1. Oldest(n) = IF total <= n THEN 1 ELSE total - n + 1
    BY <1>4 DEF Oldest
  <2> QED BY <1>1, <1>2, <1>3, <1>4, <2>1
<1>5. CASE ~(n < LogLimit)
  <2>1. Oldest(n) = Oldest(LogLimit)
    BY <1>1, <1>3, <1>5 DEF Oldest
  <2> QED BY <1>1, <1>2, <1>3, <1>5, <2>1
<1> QED BY <1>4, <1>5

(* What is kept begins with the oldest byte or the next, or is empty.      *)
KeptFrom(a) ==
  /\ Newest(total) = Bytes(a, total) /\ Oldest(LogLimit) <= a /\ a <= total + 1
  /\ \/ a <= total /\ (a = Oldest(LogLimit) \/ (a = Oldest(LogLimit) + 1 /\ Oldest(LogLimit) \in Seconds))
     \/ a = total + 1 /\ Final <= Oldest(LogLimit)

LEMMA KeptIs ==
  ASSUME total \in Nat
  PROVE  \E a \in Nat \ {0} : KeptFrom(a)
<1> DEFINE o == Oldest(LogLimit)
<1>1. o = (IF total <= LogLimit THEN 1 ELSE total - LogLimit + 1) /\ o \in Nat \ {0} /\ o <= total + 1
  BY LogParameters, OldestIs
<1>2. /\ Final \in Nat /\ Final <= total /\ total <= Final + 1
      /\ total \in Newlines => Final = total - 1 /\ total + 1 \notin Seconds
      /\ total + 1 \in Seconds => Final = total - 1
      /\ total \notin Newlines /\ total + 1 \notin Seconds => Final = total
  BY FinalIs
<1>3. Newest(total) = DropLeading(Bytes(o, total))
  BY <1>1 DEF Newest
<1> HIDE DEF o
<1>4. Newest(total) = IF First(o) <= LastWhole(total) THEN Bytes(First(o), total) ELSE <<>>
  BY <1>1, <1>3, LeadingIs
<1>5. First(o) \in Nat \ {0} /\ (First(o) = o \/ (First(o) = o + 1 /\ o \in Seconds)) /\ LastWhole(total) <= total
      /\ Final <= LastWhole(total) /\ LastWhole(total) \in Int
  BY <1>1, <1>2 DEF First, LastWhole
<1> HIDE DEF Final
<1>6. CASE First(o) <= LastWhole(total)
  <2>1. First(o) <= total /\ o <= First(o)
    BY <1>1, <1>5, <1>6
  <2>2. KeptFrom(First(o))
    BY <1>4, <1>5, <1>6, <2>1 DEF KeptFrom, o
  <2> QED BY <1>5, <2>2
<1>7. CASE ~(First(o) <= LastWhole(total))
  <2>1. Bytes(total + 1, total) = <<>>
    <3>1. total + 1 \in Nat \ {0} /\ (total + 1) - 1 = total
      OBVIOUS
    <3> QED BY <3>1, NoBytes
  <2>2. Final <= o
    BY <1>1, <1>2, <1>5, <1>7
  <2>3. KeptFrom(total + 1)
    BY <1>1, <1>4, <1>7, <2>1, <2>2 DEF KeptFrom, o
  <2> QED BY <2>3
<1> QED BY <1>6, <1>7

(* The window that a read of a log takes, of bytes or of the whole.        *)
LEMMA Uncut ==
  ASSUME total \in Nat, NEW a \in Nat \ {0}, KeptFrom(a), NEW n \in Nat \ {0}, total + 1 - a <= n, NEW live \in BOOLEAN
  PROVE  Oldest(n) <= a /\ Reaches(a, Oldest(n), FALSE, live)
<1> DEFINE o == Oldest(LogLimit)
           lo == Oldest(n)
<1>1. /\ lo \in Nat \ {0} /\ lo <= Final + 1 /\ lo = (IF total + 1 - o <= n THEN o ELSE total - n + 1)
      /\ o \in Nat \ {0} /\ o <= total + 1
  BY OldestIs
<1>2. Final \in Nat /\ Final <= total
  BY FinalIs
<1>3. /\ o <= a /\ a <= total + 1
      /\ \/ a <= total /\ (a = o \/ (a = o + 1 /\ o \in Seconds))
         \/ a = total + 1 /\ Final <= o
  BY DEF KeptFrom
<1> HIDE DEF o, lo, Final
<1>4. CASE a <= total /\ (a = o \/ (a = o + 1 /\ o \in Seconds))
  <2>1. lo <= a /\ (a = lo \/ (a = lo + 1 /\ lo \in Seconds))
    <3>1. CASE total + 1 - o <= n
      BY <1>1, <1>4, <3>1
    <3>2. CASE ~(total + 1 - o <= n)
      <4>1. a = o + 1 /\ lo = a
        BY <1>1, <1>4, <3>2
      <4> QED BY <1>1, <4>1
    <3> QED BY <3>1, <3>2
  <2> QED BY <1>4, <2>1 DEF Reaches, lo
<1>5. CASE a = total + 1 /\ Final <= o
  <2>1. o <= lo /\ lo <= a
    BY <1>1, <1>2, <1>5
  <2>2. Final <= lo
    BY <1>1, <1>2, <1>5, <2>1
  <2> QED BY <1>5, <2>1, <2>2 DEF Reaches, lo
<1> QED BY <1>3, <1>4, <1>5

LEMMA Window ==
  ASSUME total \in Nat, NEW a \in Nat \ {0}, KeptFrom(a), NEW n \in Nat \ {0}, ~(total + 1 - a <= n)
  PROVE  /\ Oldest(n) = total - n + 1 /\ Cut(a, total, n) = Oldest(n) /\ a < Oldest(n) /\ Oldest(n) <= total
         /\ NoBreak(Oldest(n), total - 1) => NoBreak(Oldest(n), Final)
<1> DEFINE o == Oldest(LogLimit)
           lo == Oldest(n)
<1>1. lo = (IF total + 1 - o <= n THEN o ELSE total - n + 1) /\ o \in Nat \ {0}
  BY OldestIs
<1>2. /\ Final \in Nat /\ Final <= total /\ (total \in Newlines => Final = total - 1)
  BY FinalIs
<1>3. o <= a /\ a <= total + 1
  BY DEF KeptFrom
<1> HIDE DEF o, lo
<1>4. lo = total - n + 1 /\ a < lo /\ lo <= total
  BY <1>1, <1>3
<1>5. Cut(a, total, n) = lo
  BY <1>4 DEF Cut
<1>6. NoBreak(lo, total - 1) => NoBreak(lo, Final)
  <2> HAVE NoBreak(lo, total - 1)
  <2> SUFFICES ASSUME NEW k \in lo .. Final, k \in Newlines PROVE FALSE
    BY DEF NoBreak
  <2>1. k # total
    BY <1>2, <1>4
  <2>2. k \in lo .. total - 1
    <3> HIDE DEF Final
    <3> QED BY <1>2, <1>4, <2>1
  <2> QED BY <2>2 DEF NoBreak
<1> QED BY <1>4, <1>5, <1>6 DEF lo

(* The bytes of a running job, which are trimmed to a number of bytes.     *)
LEMMA LiveTail ==
  ASSUME total \in Nat, NEW n \in Nat, NEW lines \in Nat \ {0}, NEW torn \in BOOLEAN,
         torn <=> (n > 0 /\ Len(Newest(total)) > n)
  PROVE  IsTail(TrimmedTail(Newest(total), lines, n, FALSE), Oldest(IF n > 0 THEN n ELSE LogLimit), lines, torn, TRUE)
<1> DEFINE w == IF n > 0 THEN n ELSE LogLimit
           lo == Oldest(w)
<1>1. PICK a \in Nat \ {0} : KeptFrom(a)
  BY KeptIs
<1>2. Newest(total) = Bytes(a, total) /\ a <= total + 1 /\ Oldest(LogLimit) <= a
  BY <1>1 DEF KeptFrom
<1>3. Len(Newest(total)) = total + 1 - a
  BY <1>2, BytesAre
<1>4. w \in Nat \ {0} /\ LogLimit \in Nat \ {0} /\ torn \in BOOLEAN
  BY LogParameters
<1>5. lo \in Nat \ {0} /\ lo <= Final + 1
  BY <1>4, OldestIs
<1>6. PICK f \in Cut(a, total, n) .. total + 1 :
        /\ LastBytes(Bytes(a, total), n) = Bytes(f, total)
        /\ \/ f = Cut(a, total, n) /\ (f > a => NoBreak(f, total - 1))
           \/ AfterBreak(f, Cut(a, total, n)) /\ f <= total /\ Cut(a, total, n) > a
  BY <1>2, LastBytesIs
<1>7. f \in Nat \ {0} /\ lo <= f /\ f <= total + 1 /\ Reaches(f, lo, torn, TRUE)
  <2>1. CASE torn
    <3>1. n \in Nat \ {0} /\ ~(total + 1 - a <= n) /\ w = n
      BY <1>3, <1>4, <2>1
    <3>2. /\ Oldest(n) = total - n + 1 /\ Cut(a, total, n) = Oldest(n) /\ a < Oldest(n) /\ Oldest(n) <= total
          /\ NoBreak(Oldest(n), total - 1) => NoBreak(Oldest(n), Final)
      BY <1>1, <3>1, Window
    <3>3. lo = Oldest(n)
      BY <3>1
    <3> HIDE DEF lo
    <3>4. f \in Nat \ {0} /\ lo <= f /\ f <= total + 1
      BY <1>5, <1>6, <3>2, <3>3
    <3>5. CASE f = lo /\ (f > a => NoBreak(f, total - 1))
      BY <2>1, <3>2, <3>3, <3>4, <3>5 DEF Reaches
    <3>6. CASE AfterBreak(f, lo) /\ f <= total
      BY <3>4, <3>6 DEF Reaches
    <3> QED BY <1>6, <3>2, <3>3, <3>5, <3>6
  <2>2. CASE ~torn
    <3>1. Cut(a, total, n) = a
      BY <1>2, <1>3, <2>2 DEF Cut
    <3>2. f = a
      BY <1>6, <3>1
    <3>3. total + 1 - a <= w
      <4>1. CASE n > 0
        BY <1>3, <2>2, <4>1
      <4>2. CASE ~(n > 0)
        <5>1. Oldest(LogLimit) = IF total <= LogLimit THEN 1 ELSE total - LogLimit + 1
          BY <1>4, OldestIs
        <5> QED BY <1>2, <1>4, <4>2, <5>1
      <4> QED BY <4>1, <4>2
    <3>4. Oldest(w) <= a /\ Reaches(a, Oldest(w), FALSE, TRUE)
      BY <1>1, <1>4, <3>3, Uncut
    <3>5. torn = FALSE
      BY <1>4, <2>2
    <3> QED BY <1>2, <3>2, <3>4, <3>5
  <2> QED BY <2>1, <2>2
<1>8. IsTail(DropTrailing(DropLeading(LastLines(Bytes(f, total), lines))), lo, lines, torn, TRUE)
  <2> HIDE DEF lo, w
  <2> QED BY <1>4, <1>5, <1>7, TailIs
<1> QED BY <1>2, <1>6, <1>8 DEF TrimmedTail

(* The end of the file of a job that is settled, of which the bytes up to  *)
(* the end of a line are left out.                                         *)
LEMMA FileTail ==
  ASSUME total \in Nat, NEW n \in Nat, NEW w \in Nat \ {0}, n \in {0, w}, NEW lines \in Nat \ {0},
         NEW at, at = Offset(Len(Newest(total)), w)
  PROVE  IsTail(TrimmedTail(SubSeq(Newest(total), at + 1, Len(Newest(total))), lines, n, at > 0),
                Oldest(w), lines, at > 0, FALSE)
<1> DEFINE lo == Oldest(w)
           torn == at > 0
<1>1. PICK a \in Nat \ {0} : KeptFrom(a)
  BY KeptIs
<1>2. Newest(total) = Bytes(a, total) /\ a <= total + 1
  BY <1>1 DEF KeptFrom
<1>3. Len(Newest(total)) = total + 1 - a
  BY <1>2, BytesAre
<1>4. lo \in Nat \ {0} /\ lo <= Final + 1
  BY OldestIs
<1> DEFINE v == Cut(a, total, w)
           data == SubSeq(Newest(total), at + 1, Len(Newest(total)))
<1>5. v \in Nat \ {0} /\ a <= v /\ v <= total + 1 /\ at + 1 = v - a + 1 /\ total + 1 - v <= w
      /\ torn = ~(total + 1 - a <= w) /\ torn \in BOOLEAN
  BY <1>2, <1>3 DEF Cut, Offset
<1> HIDE DEF v, torn
<1>6. data = Bytes(v, total)
  <2>1. From(Bytes(a, total), v - a + 1) = Bytes(v, total)
    BY <1>2, <1>5, FromIs
  <2> QED BY <1>2, <1>5, <2>1 DEF From
<1>7. PICK f \in v .. total + 1 :
        /\ (IF torn THEN NextLine(data) ELSE data) = Bytes(f, total)
        /\ ~torn => f = v
        /\ torn => (f = v /\ NoBreak(v, total)) \/ AfterBreak(f, v)
  <2>1. CASE torn
    <3>1. \E f \in v .. total + 1 : /\ NextLine(Bytes(v, total)) = Bytes(f, total)
                                    /\ (f = v /\ NoBreak(v, total)) \/ AfterBreak(f, v)
      BY <1>5, NextLineIs
    <3> QED BY <1>6, <2>1, <3>1
  <2>2. CASE ~torn
    <3>1. v \in v .. total + 1
      BY <1>5
    <3> QED BY <1>6, <2>2, <3>1
  <2> QED BY <2>1, <2>2
<1> HIDE DEF data
<1>8. LastBytes(Bytes(f, total), n) = Bytes(f, total)
  <2>1. Len(Bytes(f, total)) = total + 1 - f
    <3>1. f \in Nat \ {0} /\ f <= total + 1
      BY <1>5
    <3> QED BY <3>1, BytesAre
  <2>2. n = 0 \/ total + 1 - f <= n
    BY <1>5
  <2> QED BY <2>1, <2>2 DEF LastBytes
<1>9. f \in Nat \ {0} /\ lo <= f /\ f <= total + 1 /\ Reaches(f, lo, torn, FALSE)
  <2>1. CASE torn
    <3>1. ~(total + 1 - a <= w)
      BY <1>5, <2>1
    <3>2. /\ v = lo /\ lo <= total
          /\ NoBreak(lo, total - 1) => NoBreak(lo, Final)
      BY <1>1, <3>1, Window DEF v
    <3> HIDE DEF lo
    <3>3. f \in Nat \ {0} /\ lo <= f /\ f <= total + 1
      BY <1>4, <3>2
    <3>4. NoBreak(lo, total) => NoBreak(lo, total - 1)
      <4>1. \A k \in lo .. total - 1 : k \in lo .. total
        BY <1>4
      <4> QED BY <4>1 DEF NoBreak
    <3>5. CASE f = lo /\ NoBreak(lo, total)
      BY <3>2, <3>3, <3>4, <3>5 DEF Reaches
    <3>6. CASE AfterBreak(f, lo)
      BY <2>1, <3>3, <3>6 DEF Reaches
    <3> QED BY <1>7, <2>1, <3>2, <3>5, <3>6
  <2>2. CASE ~torn
    <3>1. total + 1 - a <= w /\ f = a
      <4>1. total + 1 - a <= w
        BY <1>5, <2>2
      <4>2. v = a
        BY <4>1 DEF v, Cut
      <4> QED BY <1>7, <2>2, <4>1, <4>2
    <3>2. Oldest(w) <= a /\ Reaches(a, Oldest(w), FALSE, FALSE)
      BY <1>1, <3>1, Uncut
    <3>3. torn = FALSE
      BY <1>5, <2>2
    <3> QED BY <1>2, <3>1, <3>2, <3>3
  <2> QED BY <2>1, <2>2
<1>10. IsTail(DropTrailing(DropLeading(LastLines(Bytes(f, total), lines))), lo, lines, torn, FALSE)
  <2> HIDE DEF lo
  <2> QED BY <1>4, <1>5, <1>9, TailIs
<1>11. TrimmedTail(data, lines, n, torn) = DropTrailing(DropLeading(LastLines(Bytes(f, total), lines)))
  BY <1>7, <1>8 DEF TrimmedTail
<1> QED BY <1>10, <1>11 DEF data, torn

-----------------------------------------------------------------------------
(* A file of l bytes that is written as a ring up to p, read from p on.    *)
Wrapped(f, l, p, t) == Len(f) = l /\ \A k \in 1 .. l : f[k] = IF k <= p THEN t - p + k ELSE t - p - l + k

LastOf(s, l, t) == s \in Seq(Nat) /\ Len(s) = l /\ \A k \in 1 .. l : s[k] = t - l + k

LEMMA Unrolled ==
  ASSUME NEW f \in Seq(Nat), NEW l \in Nat \ {0}, NEW p \in 1 .. l, NEW t \in Nat, Wrapped(f, l, p, t)
  PROVE  LastOf(SubSeq(f, p + 1, l) \o SubSeq(f, 1, p), l, t)
<1>0. Len(f) = l /\ \A k \in 1 .. l : f[k] = IF k <= p THEN t - p + k ELSE t - p - l + k
  BY DEF Wrapped
<1> DEFINE a == p + 1
           head == SubSeq(f, a, l)
           tail == SubSeq(f, 1, p)
<1>1. a \in Nat \ {0} /\ a <= l + 1 /\ l - a + 1 = l - p /\ p \in Nat
  BY <1>0
<1>2. head \in Seq(Nat) /\ Len(head) = l - p /\ \A k \in 1 .. l - p : head[k] = f[a + k - 1]
  <2> HIDE DEF a
  <2>1. /\ head \in Seq(Nat) /\ Len(head) = l - a + 1
        /\ \A k \in 1 .. l - a + 1 : head[k] = f[a + k - 1]
    BY <1>0, <1>1, Part
  <2> HIDE DEF head
  <2> QED BY <1>1, <2>1
<1>3. tail \in Seq(Nat) /\ Len(tail) = p /\ \A k \in 1 .. p : tail[k] = f[1 + k - 1]
  <2>1. 1 \in Nat \ {0} /\ 1 <= p + 1 /\ p - 1 + 1 = p /\ p <= Len(f)
    BY <1>0
  <2> QED BY <1>1, <2>1, Part
<1> HIDE DEF head, tail
<1>4. /\ head \o tail \in Seq(Nat) /\ Len(head \o tail) = l - p + p
      /\ \A k \in 1 .. l - p + p : (head \o tail)[k] = IF k <= l - p THEN head[k] ELSE tail[k - (l - p)]
  <2>1. /\ head \o tail \in Seq(Nat) /\ Len(head \o tail) = Len(head) + Len(tail)
        /\ \A k \in 1 .. Len(head) + Len(tail) :
             (head \o tail)[k] = IF k <= Len(head) THEN head[k] ELSE tail[k - Len(head)]
    BY <1>2, <1>3, ConcatProperties, Zenon
  <2>2. Len(head) = l - p /\ Len(tail) = p
    BY <1>2, <1>3
  <2> QED BY <2>1, <2>2, Zenon
<1>5. l - p + p = l
  OBVIOUS
<1> DEFINE both == head \o tail
<1> HIDE DEF both
<1>6. ASSUME NEW k \in 1 .. l PROVE both[k] = t - l + k
  <2>1. both[k] = IF k <= l - p THEN head[k] ELSE tail[k - (l - p)]
    BY <1>4, <1>5 DEF both
  <2>2. CASE k <= l - p
    <3>1. k \in 1 .. l - p /\ a + k - 1 \in 1 .. l /\ ~(a + k - 1 <= p) /\ t - p - l + (a + k - 1) = t - l + k
      BY <2>2
    <3>2. f[a + k - 1] = t - p - l + (a + k - 1)
      BY <1>0, <3>1
    <3> QED BY <1>2, <2>1, <2>2, <3>1, <3>2
  <2>3. CASE ~(k <= l - p)
    <3> DEFINE i == k - (l - p)
    <3>1. i \in 1 .. p /\ i \in 1 .. l /\ i <= p /\ 1 + i - 1 = i /\ t - p + i = t - l + k
      BY <2>3
    <3>2. f[i] = t - p + i
      BY <1>0, <3>1
    <3> QED BY <1>3, <2>1, <2>3, <3>1, <3>2
  <2> QED BY <2>2, <2>3
<1>7. LastOf(both, l, t)
  BY <1>4, <1>5, <1>6 DEF both, LastOf
<1> QED BY <1>7 DEF both, head, tail, a

(* logicalBytes unrolls the ring. *)
LEMMA LogicalIsKept ==
  ASSUME NEW r, NEW t \in Nat, RingOK(r, t)
  PROVE  Logical(r) = Newest(t)
<1>1. LogLimit \in Nat \ {0}
  BY LogParameters
<1> DEFINE f == r.file
           p == r.pos
<1>2. f \in Seq(Nat)
  BY DEF RingOK, Rings
<1>4. CASE t <= LogLimit
  <2>1. Len(f) = t /\ r.filled = t /\ r.truncated = FALSE /\ \A k \in 1 .. t : f[k] = k
    BY <1>4 DEF RingOK
  <2>2. Logical(r) = DropLeading(SubSeq(f, 1, t))
    BY <2>1 DEF Logical
  <2> HIDE DEF f, p
  <2>3. f = Bytes(1, t)
    <3>1. t + 1 - 1 = t /\ 1 <= t + 1 /\ \A k \in 1 .. t : 1 + k - 1 = k
      OBVIOUS
    <3> QED BY <1>2, <2>1, <3>1, IsBytes
  <2>4. SubSeq(f, 1, t) = f
    BY <1>2, <2>1
  <2> QED BY <1>4, <2>2, <2>3, <2>4 DEF Newest
<1>5. CASE t > LogLimit
  <2>1. /\ Len(f) = LogLimit /\ r.filled = LogLimit /\ r.truncated /\ p \in 1 .. LogLimit
        /\ \A k \in 1 .. LogLimit : f[k] = IF k <= p THEN t - p + k ELSE t - p - LogLimit + k
    BY <1>5 DEF RingOK
  <2> DEFINE turned == SubSeq(f, p + 1, LogLimit) \o SubSeq(f, 1, p)
             o == t - LogLimit + 1
  <2>2. Logical(r) = DropLeading(turned)
    BY <1>1, <2>1 DEF Logical
  <2> HIDE DEF f, p
  <2>3. Wrapped(f, LogLimit, p, t)
    BY <2>1 DEF Wrapped
  <2>4. LastOf(turned, LogLimit, t)
    BY <1>1, <1>2, <2>1, <2>3, Unrolled
  <2> HIDE DEF turned
  <2>5. turned \in Seq(Nat) /\ Len(turned) = LogLimit /\ \A k \in 1 .. LogLimit : turned[k] = t - LogLimit + k
    BY <2>4 DEF LastOf
  <2>6. o \in Nat \ {0} /\ o <= t + 1 /\ t + 1 - o = LogLimit /\ \A k \in 1 .. LogLimit : o + k - 1 = t - LogLimit + k
    BY <1>1, <1>5
  <2> HIDE DEF o
  <2>7. turned = Bytes(o, t)
    <3>1. Len(turned) = t + 1 - o
      BY <2>5, <2>6
    <3>2. \A k \in 1 .. t + 1 - o : turned[k] = o + k - 1
      BY <2>5, <2>6
    <3> QED BY <2>5, <2>6, <3>1, <3>2, IsBytes
  <2>8. Newest(t) = DropLeading(Bytes(o, t))
    BY <1>1, <1>5 DEF Newest, o
  <2> QED BY <2>2, <2>7, <2>8
<1> QED BY <1>1, <1>4, <1>5

LEMMA LogInitHolds == LogInit => LogInv
<1> SUFFICES ASSUME LogInit PROVE LogInv
  OBVIOUS
<1>1. ring = NewRing /\ total = 0 /\ end = "live" /\ reader = NoReader
  BY DEF LogInit
<1>2. NewRing \in Rings /\ Len(NewRing.file) = 0
  BY DEF NewRing, Rings
<1>3. RingOK(ring, total)
  BY <1>1, <1>2, LogParameters DEF RingOK, NewRing
<1>4. LogHoldsNewest
  BY <1>1, <1>3, LogicalIsKept DEF LogHoldsNewest
<1>5. ReaderOK /\ TailIsNewest
  BY <1>1 DEF ReaderOK, NoReader, TailIsNewest
<1>6. ring = [file |-> ring.file, pos |-> ring.pos, filled |-> ring.filled, truncated |-> ring.truncated,
             broken |-> ring.broken]
  BY <1>1 DEF NewRing
<1> QED BY <1>1, <1>4, <1>5, <1>6 DEF LogInv

(* A chunk of new bytes is written behind the newest. *)
Overwritten(f, at, n, t, size) == [k \in 1 .. size |-> IF k \in at + 1 .. at + n THEN t + k - at ELSE f[k]]

Covers(f, at, n, size) == size <= Len(f) \/ (at <= Len(f) /\ size <= at + n)

LEMMA OverwrittenIs ==
  ASSUME NEW f \in Seq(Nat), NEW at \in Nat, NEW n \in Nat, NEW t \in Nat, NEW size \in Nat, Covers(f, at, n, size)
  PROVE  Overwritten(f, at, n, t, size) \in Seq(Nat) /\ Len(Overwritten(f, at, n, t, size)) = size
<1>1. ASSUME NEW k \in 1 .. size PROVE (IF k \in at + 1 .. at + n THEN t + k - at ELSE f[k]) \in Nat
  <2>1. CASE k \in at + 1 .. at + n
    BY <2>1
  <2>2. CASE k \notin at + 1 .. at + n
    <3>1. k \in 1 .. Len(f)
      BY <2>2 DEF Covers
    <3> QED BY <2>2, <3>1
  <2> QED BY <2>1, <2>2
<1>2. Overwritten(f, at, n, t, size) \in [1 .. size -> Nat]
  BY <1>1 DEF Overwritten
<1> QED BY <1>2 DEF Overwritten

LEMMA ChunkFits ==
  ASSUME total \in Nat, RingOK(ring, total), NEW n \in 1 .. LogLimit - Start(ring)
  PROVE  RingOK(WithChunk(ring, n), total + n)
<1>1. LogLimit \in Nat \ {0}
  BY LogParameters
<1> DEFINE at == Start(ring)
           f == ring.file
           p == ring.pos
           full == ring.filled
           size == IF at + n > Len(f) THEN at + n ELSE Len(f)
           g == Overwritten(f, at, n, total, size)
           r == WithChunk(ring, n)
<1>2. f \in Seq(Nat) /\ Len(f) \in Nat /\ p \in Nat /\ full \in Nat /\ ring.truncated \in BOOLEAN
  BY DEF RingOK, Rings
<1>3. /\ total < LogLimit => at = total /\ Len(f) = total /\ full = total /\ ring.truncated = FALSE /\ p = total
      /\ total = LogLimit => at = 0 /\ Len(f) = LogLimit /\ full = LogLimit /\ p = LogLimit
      /\ total > LogLimit => /\ Len(f) = LogLimit /\ full = LogLimit /\ ring.truncated = TRUE
                             /\ p \in 1 .. LogLimit /\ at = IF p = LogLimit THEN 0 ELSE p
  BY <1>1 DEF RingOK, Start
<1>4. /\ total <= LogLimit => \A k \in 1 .. total : f[k] = k
      /\ total > LogLimit => \A k \in 1 .. LogLimit : f[k] = IF k <= p THEN total - p + k
                                                             ELSE total - p - LogLimit + k
  BY DEF RingOK
<1>5. /\ r.file = g /\ r.pos = at + n /\ r.filled = (IF full + n < LogLimit THEN full + n ELSE LogLimit)
      /\ r.truncated = (ring.truncated \/ p >= LogLimit \/ full = LogLimit)
  BY DEF WithChunk, Overwritten
<1>14. /\ r = [file |-> r.file, pos |-> r.pos, filled |-> r.filled, truncated |-> r.truncated, broken |-> r.broken]
       /\ r.broken \in BOOLEAN
  <2>1. ring.broken \in BOOLEAN
    BY DEF RingOK, Rings
  <2> QED BY <2>1 DEF WithChunk
<1>6. n \in 1 .. LogLimit - at
  OBVIOUS
<1> HIDE DEF r, at, f, p, full
<1>7. at \in 0 .. LogLimit - 1 /\ n \in Nat \ {0} /\ at + n <= LogLimit
  BY <1>1, <1>3, <1>6
<1>8. size \in Nat /\ Covers(f, at, n, size)
  <2>1. at <= Len(f)
    BY <1>1, <1>2, <1>3, <1>7
  <2> QED BY <1>2, <1>7, <2>1 DEF Covers
<1> HIDE DEF size
<1>9. g \in Seq(Nat) /\ Len(g) = size
  <2>1. at \in Nat /\ n \in Nat
    BY <1>7
  <2> QED BY <1>2, <1>8, <2>1, OverwrittenIs
<1>15. \A k \in 1 .. size : g[k] = IF k \in at + 1 .. at + n THEN total + k - at ELSE f[k]
  BY DEF Overwritten
<1> HIDE DEF g
<1>10. r.truncated \in BOOLEAN
  BY <1>5
<1>11. CASE total + n <= LogLimit
  <2>1. total < LogLimit /\ at = total /\ Len(f) = total /\ full = total /\ p = total /\ ring.truncated = FALSE
    BY <1>1, <1>3, <1>7, <1>11
  <2>2. size = total + n
    BY <1>7, <2>1 DEF size
  <2>3. ASSUME NEW k \in 1 .. total + n PROVE g[k] = k
    <3>1. g[k] = IF k \in total + 1 .. total + n THEN total + k - total ELSE f[k]
      BY <1>15, <2>1, <2>2
    <3>2. CASE k \in total + 1 .. total + n
      BY <3>1, <3>2
    <3>3. CASE k \notin total + 1 .. total + n
      <4>1. k \in 1 .. total
        BY <1>7, <3>3
      <4>2. f[k] = k
        BY <1>1, <1>4, <2>1, <4>1
      <4> QED BY <3>1, <3>3, <4>2
    <3> QED BY <3>2, <3>3
  <2>4. r.truncated = FALSE
    <3>1. ~(p >= LogLimit) /\ ~(full = LogLimit) /\ ring.truncated = FALSE
      BY <1>1, <2>1
    <3> QED BY <1>5, <3>1, Zenon
  <2>5. r.pos = total + n /\ r.filled = total + n
    BY <1>1, <1>5, <1>7, <1>11, <2>1
  <2>6. r \in Rings
    <3>1. r.file \in Seq(Nat) /\ r.pos \in Nat /\ r.filled \in Nat
      BY <1>5, <1>7, <1>9, <2>5
    <3> QED BY <1>10, <1>14, <3>1 DEF Rings
  <2>7. Len(r.file) = total + n /\ \A k \in 1 .. total + n : r.file[k] = k
    BY <1>5, <1>9, <2>2, <2>3
  <2> QED BY <1>1, <1>7, <1>11, <2>4, <2>5, <2>6, <2>7 DEF RingOK, r
<1>12. CASE total + n > LogLimit
  <2>1. total >= LogLimit
    BY <1>1, <1>3, <1>7, <1>12
  <2>2. Len(f) = LogLimit /\ full = LogLimit
    BY <1>1, <1>3, <2>1
  <2>3. size = LogLimit
    BY <1>1, <1>7, <2>2 DEF size
  <2>4. r.truncated = TRUE
    BY <1>5, <2>2
  <2>5. r.filled = LogLimit /\ r.pos = at + n /\ r.pos \in 1 .. LogLimit
    BY <1>1, <1>5, <1>7, <2>2
  <2>6. ASSUME NEW k \in 1 .. LogLimit
        PROVE  g[k] = IF k <= at + n THEN total + n - (at + n) + k ELSE total + n - (at + n) - LogLimit + k
    <3>1. g[k] = IF k \in at + 1 .. at + n THEN total + k - at ELSE f[k]
      BY <1>15, <2>3
    <3>2. CASE k \in at + 1 .. at + n
      BY <1>7, <3>1, <3>2
    <3>3. CASE k <= at
      <4>1. total > LogLimit /\ at = p
        BY <1>1, <1>3, <1>7, <2>1, <3>3
      <4>2. f[k] = total - p + k
        BY <1>4, <3>3, <4>1
      <4> QED BY <1>2, <1>7, <3>1, <3>3, <4>1, <4>2
    <3>4. CASE k > at + n
      <4>1. f[k] = total - at - LogLimit + k
        <5>1. CASE total = LogLimit
          BY <1>1, <1>3, <1>4, <5>1
        <5>2. CASE total > LogLimit /\ p = LogLimit
          BY <1>1, <1>3, <1>4, <5>2
        <5>3. CASE total > LogLimit /\ p # LogLimit
          <6>1. at = p /\ ~(k <= p)
            BY <1>1, <1>3, <1>7, <3>4, <5>3
          <6> QED BY <1>4, <5>3, <6>1
        <5> QED BY <1>1, <2>1, <5>1, <5>2, <5>3
      <4>2. g[k] = f[k]
        BY <1>7, <3>1, <3>4
      <4> QED BY <1>1, <1>7, <3>4, <4>1, <4>2
    <3> QED BY <1>7, <3>2, <3>3, <3>4
  <2>7. r \in Rings
    <3>1. r.file \in Seq(Nat) /\ r.pos \in Nat /\ r.filled \in Nat
      BY <1>1, <1>5, <1>9, <2>5
    <3> QED BY <1>10, <1>14, <3>1 DEF Rings
  <2>8. /\ Len(r.file) = LogLimit
        /\ \A k \in 1 .. LogLimit : r.file[k] = IF k <= r.pos THEN total + n - r.pos + k
                                                 ELSE total + n - r.pos - LogLimit + k
    BY <1>5, <1>9, <2>3, <2>5, <2>6
  <2>9. ~(total + n <= LogLimit)
    BY <1>1, <1>7, <1>12
  <2>10. RingOK(r, total + n)
    BY <2>4, <2>5, <2>7, <2>8, <2>9 DEF RingOK
  <2> QED BY <2>10 DEF r
<1>13. total + n \in Nat
  BY <1>7
<1> QED BY <1>1, <1>11, <1>12, <1>13

-----------------------------------------------------------------------------
(* Only Write makes newer bytes, and a reader keeps what it has read.      *)
LEMMA ReaderRests ==
  ASSUME LogInv, total' = total, reader' = reader, ~ring'.broken => ~ring.broken,
         end = "settled" => end' = end /\ ring' = ring
  PROVE  ReaderOK' /\ TailIsNewest'
<1>1. ReaderOK'
  BY DEF LogInv, ReaderOK
<1>2. TailIsNewest'
  BY DEF LogInv, TailIsNewest, Begun, Final, Oldest
<1> QED BY <1>1, <1>2

LEMMA HeldRests ==
  ASSUME LogHoldsNewest, ring' = ring, end' = end, saved' = saved, total' = total
  PROVE  LogHoldsNewest'
<1>1. Newest(total)' = Newest(total)
  BY DEF Newest, DropLeading, RuneBegins, Bytes
<1>2. Logical(ring)' = Logical(ring)
  BY DEF Logical, DropLeading, RuneBegins
<1>3. RingOK(ring, total)' = RingOK(ring, total)
  BY DEF RingOK, Rings
<1> QED BY <1>1, <1>2, <1>3 DEF LogHoldsNewest

LEMMA NewReader ==
  ASSUME total' = total, NEW got, NEW n, NEW lines, NEW torn, NEW live,
         reader'.got = got, reader'.window = n, reader'.lines = lines, reader'.torn = torn, reader'.live = live,
         IsTail(got, Oldest(n), lines, torn, live)
  PROVE  TailIsNewest'
<1>1. Oldest(n)' = Oldest(n) /\ Final' = Final
  BY DEF Oldest, Final
<1>2. Oldest(reader.window)' = Oldest(n)
  BY DEF Oldest
<1> QED BY <1>1, <1>2 DEF TailIsNewest, IsTail, Starts, Begun, NoBreak, Count

LEMMA WriteKeeps == LogInv /\ Write => LogInv'
<1> SUFFICES ASSUME LogInv, Write PROVE LogInv'
  OBVIOUS
<1>1. PICK n \in 1 .. LogLimit - Start(ring) : total' = total + n /\ ring' = WithChunk(ring, n)
  BY DEF Write
<1>2. /\ end = "live" /\ end' = end /\ saved' = saved /\ reader' = reader /\ total \in Nat /\ ~ring.broken
      /\ RingOK(ring, total)
  BY DEF Write, LogInv, LogHoldsNewest
<1>3. RingOK(WithChunk(ring, n), total + n)
  BY <1>2, ChunkFits
<1>4. RingOK(ring', total')
  BY <1>1, <1>3
<1>5. n \in Nat \ {0}
  BY <1>2, LogParameters DEF Start, RingOK, Rings
<1>6. total' \in Nat /\ total' > total
  BY <1>1, <1>2, <1>5
<1>7. ring' = [file |-> ring'.file, pos |-> ring'.pos, filled |-> ring'.filled, truncated |-> ring'.truncated,
               broken |-> ring'.broken]
  BY <1>4 DEF RingOK, Rings
<1>8. reader.pc = "read" => reader.upto \in Nat /\ reader.upto <= total' /\ reader.upto # total'
  <2>1. CASE reader.pc = "read"
    <3>1. reader.upto \in Nat /\ reader.upto <= total
      BY <2>1 DEF LogInv, ReaderOK
    <3> QED BY <1>2, <1>6, <3>1
  <2> QED BY <2>1
<1>9. TailIsNewest'
  BY <1>2, <1>8 DEF TailIsNewest
<1>10. ReaderOK'
  BY <1>2, <1>8 DEF LogInv, ReaderOK
<1>11. Logical(ring') = Newest(total')
  BY <1>4, <1>6, LogicalIsKept
<1>12. LogHoldsNewest'
  <2>1. Logical(ring)' = Logical(ring') /\ Newest(total)' = Newest(total')
    BY DEF Logical, Newest, DropLeading, RuneBegins, Bytes
  <2> QED BY <1>2, <1>4, <1>11, <2>1 DEF LogHoldsNewest, RingOK
<1> QED BY <1>2, <1>6, <1>7, <1>9, <1>10, <1>12 DEF LogInv

(* A step that breaks the log promises nothing of it any more.             *)
LEMMA BreakKeeps ==
  ASSUME LogInv, total' = total, reader' = reader, end # "settled",
         end' \in {"live", "taken", "emptied", "written", "settled"},
         NEW f, NEW p, NEW t, ring' = [ring EXCEPT !.file = f, !.pos = p, !.truncated = t, !.broken = TRUE]
  PROVE  LogInv'
<1>1. /\ ring' = [file |-> ring'.file, pos |-> ring'.pos, filled |-> ring'.filled, truncated |-> ring'.truncated,
                  broken |-> ring'.broken]
      /\ ring'.broken = TRUE
  BY DEF LogInv
<1>2. ReaderOK' /\ TailIsNewest'
  BY <1>1, ReaderRests
<1>3. LogHoldsNewest'
  BY <1>1 DEF LogHoldsNewest
<1> QED BY <1>1, <1>2, <1>3 DEF LogInv

LEMMA WriteFailsKeeps == LogInv /\ WriteFails => LogInv'
<1> SUFFICES ASSUME LogInv, WriteFails PROVE LogInv'
  OBVIOUS
<1>1. PICK n : ring' = [ring EXCEPT !.file = WithChunk(ring, n).file, !.pos = Start(ring),
                                    !.truncated = @ \/ ring.pos >= LogLimit, !.broken = TRUE]
  BY DEF WriteFails
<1>2. PICK f, p, t : f = WithChunk(ring, n).file /\ p = Start(ring) /\ t = (ring.truncated \/ ring.pos >= LogLimit)
  OBVIOUS
<1>3. end = "live" /\ end' = end /\ total' = total /\ reader' = reader
  BY DEF WriteFails
<1>4. ring' = [ring EXCEPT !.file = f, !.pos = p, !.truncated = t, !.broken = TRUE]
  BY <1>1, <1>2
<1> QED BY <1>3, <1>4, BreakKeeps

LEMMA CompactFailsKeeps == LogInv /\ CompactFails => LogInv'
<1> SUFFICES ASSUME LogInv, CompactFails PROVE LogInv'
  OBVIOUS
<1>1. /\ end = "taken" /\ end' = "written" /\ total' = total /\ reader' = reader
      /\ ring' = [ring EXCEPT !.broken = TRUE]
  BY DEF CompactFails
<1>2. PICK f, p, t : f = ring.file /\ p = ring.pos /\ t = ring.truncated
  OBVIOUS
<1>3. ring' = [ring EXCEPT !.file = f, !.pos = p, !.truncated = t, !.broken = TRUE]
  BY <1>1, <1>2 DEF LogInv
<1>4. end # "settled" /\ end' \in {"live", "taken", "emptied", "written", "settled"}
  BY <1>1
<1>5. total' = total /\ reader' = reader
  BY <1>1
<1> HIDE DEF LogInv
<1> QED BY <1>3, <1>4, <1>5, BreakKeeps, Zenon

(* And one that does not, keeps what compact has taken.                    *)
LEMMA EndKeeps ==
  ASSUME LogInv, total' = total, reader' = reader, end \in {"live", "taken", "emptied", "written"},
         end' \in {"taken", "emptied", "written", "settled"}, ring'.broken = ring.broken,
         ring' = [file |-> ring'.file, pos |-> ring'.pos, filled |-> ring'.filled, truncated |-> ring'.truncated,
                  broken |-> ring'.broken],
         ~ring.broken => saved' = Newest(total),
         ~ring.broken /\ end' \in {"written", "settled"} => ring'.file = Newest(total)
  PROVE  LogInv'
<1>1. ReaderOK' /\ TailIsNewest'
  BY ReaderRests
<1>2. Newest(total)' = Newest(total)
  BY DEF Newest, DropLeading, RuneBegins, Bytes
<1>3. LogHoldsNewest'
  BY <1>2 DEF LogHoldsNewest
<1> QED BY <1>1, <1>3 DEF LogInv

LEMMA EndStepKeeps == LogInv /\ (TakeHandles \/ Truncate \/ Settle) => LogInv'
<1>1. ASSUME LogInv, TakeHandles PROVE LogInv'
  <2>1. end = "live" /\ end' = "taken" /\ saved' = Logical(ring) /\ ring' = ring /\ total' = total /\ reader' = reader
    BY <1>1 DEF TakeHandles
  <2>2. ~ring.broken => saved' = Newest(total)
    BY <1>1, <2>1 DEF LogInv, LogHoldsNewest
  <2> QED BY <1>1, <2>1, <2>2, EndKeeps DEF LogInv
<1>2. ASSUME LogInv, Truncate PROVE LogInv'
  <2>1. /\ end = "taken" /\ end' = "emptied" /\ ring' = [ring EXCEPT !.file = <<>>]
        /\ saved' = saved /\ total' = total /\ reader' = reader
    BY <1>2 DEF Truncate
  <2>2. /\ ring' = [file |-> ring'.file, pos |-> ring'.pos, filled |-> ring'.filled, truncated |-> ring'.truncated,
                    broken |-> ring'.broken]
        /\ ring'.broken = ring.broken
    BY <1>2, <2>1 DEF LogInv
  <2>3. ~ring.broken => saved' = Newest(total)
    BY <1>2, <2>1 DEF LogInv, LogHoldsNewest
  <2> QED BY <1>2, <2>1, <2>2, <2>3, EndKeeps
<1>3. ASSUME LogInv, Settle PROVE LogInv'
  <2>1. end = "written" /\ end' = "settled" /\ ring' = ring /\ saved' = saved /\ total' = total /\ reader' = reader
    BY <1>3 DEF Settle
  <2>2. ~ring.broken => saved' = Newest(total) /\ ring'.file = Newest(total)
    BY <1>3, <2>1 DEF LogInv, LogHoldsNewest
  <2> QED BY <1>3, <2>1, <2>2, EndKeeps DEF LogInv
<1> QED BY <1>1, <1>2, <1>3

LEMMA WriteBackKeeps == LogInv /\ WriteBack => LogInv'
<1> SUFFICES ASSUME LogInv, WriteBack PROVE LogInv'
  OBVIOUS
<1>1. end = "emptied" /\ end' = "written" /\ saved' = saved /\ total' = total /\ reader' = reader
  BY DEF WriteBack
<1>2. CASE ring' = [ring EXCEPT !.file = saved, !.pos = Len(saved), !.filled = Len(saved)]
  <2>1. /\ ring' = [file |-> ring'.file, pos |-> ring'.pos, filled |-> ring'.filled, truncated |-> ring'.truncated,
                    broken |-> ring'.broken]
        /\ ring'.broken = ring.broken /\ ring'.file = saved
    BY <1>2 DEF LogInv
  <2>2. ~ring.broken => saved' = Newest(total) /\ ring'.file = Newest(total)
    BY <1>1, <2>1 DEF LogInv, LogHoldsNewest
  <2> QED BY <1>1, <2>1, <2>2, EndKeeps
<1>3. CASE \E n \in 0 .. Len(saved) : n < Len(saved) /\ ring' = [ring EXCEPT !.file = SubSeq(saved, 1, n), !.broken = TRUE]
  <2>1. PICK n : ring' = [ring EXCEPT !.file = SubSeq(saved, 1, n), !.broken = TRUE]
    BY <1>3
  <2>2. PICK f, p, t : f = SubSeq(saved, 1, n) /\ p = ring.pos /\ t = ring.truncated
    OBVIOUS
  <2>3. ring' = [ring EXCEPT !.file = f, !.pos = p, !.truncated = t, !.broken = TRUE]
    BY <2>1, <2>2 DEF LogInv
  <2> QED BY <1>1, <2>3, BreakKeeps
<1> QED BY <1>2, <1>3 DEF WriteBack

LEMMA ReadLiveKeeps == LogInv /\ ReadLive => LogInv'
<1> SUFFICES ASSUME LogInv, ReadLive PROVE LogInv'
  OBVIOUS
<1>1. end = "live" /\ ring' = ring /\ end' = end /\ saved' = saved /\ total' = total /\ total \in Nat
  BY DEF ReadLive, LogInv
<1>2. PICK lines \in LineCounts, n \in ByteCounts :
        reader' = [NoReader EXCEPT !.pc = "read", !.lines = lines, !.bytes = n, !.upto = total,
                    !.window = IF n > 0 THEN n ELSE LogLimit, !.live = TRUE, !.sure = TRUE,
                    !.torn = n > 0 /\ Len(Logical(ring)) > n,
                    !.got = TrimmedTail(Logical(ring), lines, n, FALSE)]
  BY DEF ReadLive
<1>3. PICK torn \in BOOLEAN : torn = (n > 0 /\ Len(Logical(ring)) > n)
  OBVIOUS
<1>4. PICK got : got = TrimmedTail(Logical(ring), lines, n, FALSE)
  OBVIOUS
<1>5. reader' = [pc |-> "read", lines |-> lines, bytes |-> n, size |-> 0, upto |-> total,
                 window |-> IF n > 0 THEN n ELSE LogLimit, live |-> TRUE, sure |-> TRUE, torn |-> torn, got |-> got]
  BY <1>2, <1>3, <1>4 DEF NoReader
<1>6. ReaderOK'
  BY <1>1, <1>5 DEF ReaderOK
<1>7. TailIsNewest'
  <2>1. CASE ring.broken
    BY <1>1, <2>1 DEF TailIsNewest
  <2>2. CASE ~ring.broken
    <3>1. Logical(ring) = Newest(total)
      BY <1>1, <2>2 DEF LogInv, LogHoldsNewest
    <3>2. n \in Nat /\ lines \in Nat \ {0}
      BY LogParameters
    <3>3. torn <=> (n > 0 /\ Len(Newest(total)) > n)
      BY <1>3, <3>1
    <3>4. IsTail(TrimmedTail(Newest(total), lines, n, FALSE), Oldest(IF n > 0 THEN n ELSE LogLimit), lines, torn, TRUE)
      BY <1>1, <3>2, <3>3, LiveTail
    <3>5. IsTail(got, Oldest(IF n > 0 THEN n ELSE LogLimit), lines, torn, TRUE)
      BY <1>4, <3>1, <3>4
    <3>6. /\ reader'.got = got /\ reader'.window = (IF n > 0 THEN n ELSE LogLimit) /\ reader'.lines = lines
          /\ reader'.torn = torn /\ reader'.live = TRUE
      BY <1>5
    <3> QED BY <1>1, <3>5, <3>6, NewReader
  <2> QED BY <2>1, <2>2
<1>8. LogHoldsNewest'
  BY <1>1, HeldRests DEF LogInv
<1> QED BY <1>1, <1>6, <1>7, <1>8 DEF LogInv

LEMMA MeasureKeeps == LogInv /\ Measure => LogInv'
<1> SUFFICES ASSUME LogInv, Measure PROVE LogInv'
  OBVIOUS
<1>1. ring' = ring /\ end' = end /\ saved' = saved /\ total' = total
  BY DEF Measure
<1>2. PICK lines \in LineCounts, n \in ByteCounts :
        reader' = [NoReader EXCEPT !.pc = "stat", !.lines = lines, !.bytes = n, !.size = Len(ring.file),
                     !.window = IF n > 0 THEN n ELSE MaxRead, !.sure = end = "settled"]
  BY DEF Measure
<1>3. PICK sure \in BOOLEAN : sure = (end = "settled")
  OBVIOUS
<1>4. reader' = [pc |-> "stat", lines |-> lines, bytes |-> n, size |-> Len(ring.file), upto |-> 0,
                 window |-> IF n > 0 THEN n ELSE MaxRead, live |-> FALSE, sure |-> sure, torn |-> FALSE, got |-> <<>>]
  BY <1>2, <1>3 DEF NoReader
<1>5. ReaderOK'
  BY <1>1, <1>3, <1>4 DEF ReaderOK
<1>6. TailIsNewest'
  BY <1>4 DEF TailIsNewest
<1>7. LogHoldsNewest'
  BY <1>1, HeldRests DEF LogInv
<1> QED BY <1>1, <1>5, <1>6, <1>7 DEF LogInv

LEMMA ReadFileKeeps == LogInv /\ ReadFile => LogInv'
<1> SUFFICES ASSUME LogInv, ReadFile PROVE LogInv'
  OBVIOUS
<1>1. reader.pc = "stat" /\ ring' = ring /\ end' = end /\ saved' = saved /\ total' = total /\ total \in Nat
  BY DEF ReadFile, LogInv
<1>2. /\ reader.live = FALSE /\ reader.lines \in LineCounts /\ reader.bytes \in ByteCounts
      /\ reader.window = (IF reader.bytes > 0 THEN reader.bytes ELSE MaxRead)
      /\ reader.sure => end = "settled" /\ reader.size = Len(ring.file)
  BY <1>1 DEF LogInv, ReaderOK
<1>3. PICK w, n, lines : w = reader.window /\ n = reader.bytes /\ lines = reader.lines
  OBVIOUS
<1> DEFINE at == Offset(reader.size, reader.window)
<1>10. at = Offset(reader.size, reader.window)
  OBVIOUS
<1> HIDE DEF at
<1>4. PICK got : got = TrimmedTail(SubSeq(ring.file, at + 1, IF reader.size < Len(ring.file) THEN reader.size
                                                             ELSE Len(ring.file)), lines, n, at > 0)
  OBVIOUS
<1>5. PICK torn \in BOOLEAN : torn = (at > 0)
  <2>1. (at > 0) \in BOOLEAN
    OBVIOUS
  <2> QED BY <2>1, Zenon
<1>6. reader' = [pc |-> "read", lines |-> lines, bytes |-> n, size |-> reader.size, upto |-> total,
                 window |-> w, live |-> FALSE, sure |-> reader.sure, torn |-> torn, got |-> got]
  BY <1>1, <1>2, <1>3, <1>4, <1>5, <1>10 DEF ReadFile, LogInv, ReaderOK
<1>7. ReaderOK'
  BY <1>1, <1>6 DEF ReaderOK
<1>8. TailIsNewest'
  <2>1. CASE ring.broken \/ ~reader.sure
    BY <1>1, <1>6, <2>1 DEF TailIsNewest
  <2>2. CASE ~ring.broken /\ reader.sure
    <3>1. ring.file = Newest(total) /\ reader.size = Len(ring.file)
      BY <1>2, <2>2 DEF LogInv, LogHoldsNewest
    <3>2. n \in Nat /\ lines \in Nat \ {0} /\ w \in Nat \ {0} /\ n \in {0, w}
      <4>1. ByteCounts \subseteq Nat /\ LineCounts \subseteq Nat \ {0} /\ MaxRead \in Nat \ {0}
        BY LogParameters
      <4>2. n \in ByteCounts /\ lines \in LineCounts /\ w = IF n > 0 THEN n ELSE MaxRead
        BY <1>2, <1>3
      <4> QED BY <4>1, <4>2
    <3>3. at = Offset(Len(Newest(total)), w)
      BY <1>3, <1>10, <3>1
    <3>4. IsTail(TrimmedTail(SubSeq(Newest(total), at + 1, Len(Newest(total))), lines, n, at > 0),
                 Oldest(w), lines, at > 0, FALSE)
      BY <1>1, <3>2, <3>3, FileTail
    <3>5. got = TrimmedTail(SubSeq(Newest(total), at + 1, Len(Newest(total))), lines, n, at > 0)
      BY <1>4, <3>1
    <3>6. IsTail(got, Oldest(w), lines, torn, FALSE)
      BY <1>5, <3>4, <3>5
    <3>7. reader'.got = got /\ reader'.window = w /\ reader'.lines = lines /\ reader'.torn = torn /\ reader'.live = FALSE
      BY <1>6
    <3> QED BY <1>1, <3>6, <3>7, NewReader
  <2> QED BY <2>1, <2>2
<1>9. LogHoldsNewest'
  BY <1>1, HeldRests DEF LogInv
<1> QED BY <1>1, <1>7, <1>8, <1>9 DEF LogInv

LEMMA LogRests == LogInv /\ UNCHANGED logVars => LogInv'
<1> SUFFICES ASSUME LogInv, UNCHANGED logVars PROVE LogInv'
  OBVIOUS
<1>1. ring' = ring /\ end' = end /\ saved' = saved /\ total' = total /\ reader' = reader
  BY DEF logVars
<1>2. ReaderOK' /\ TailIsNewest'
  BY <1>1, ReaderRests
<1>3. LogHoldsNewest'
  BY <1>1, HeldRests DEF LogInv
<1> QED BY <1>1, <1>2, <1>3 DEF LogInv

(* The inductive invariant of a job's log: unless a write has failed, the  *)
(* ring holds the newest bytes, what compact saves and writes again is     *)
(* what it held, and readers are shown no other.                           *)
THEOREM LogInductive == LogSpec => []LogInv
<1>1. LogInv /\ [LogNext]_logVars => LogInv'
  BY WriteKeeps, WriteFailsKeeps, EndStepKeeps, CompactFailsKeeps, WriteBackKeeps, ReadLiveKeeps, MeasureKeeps,
     ReadFileKeeps, LogRests DEF LogNext, LogEnded
<1> QED BY <1>1, LogInitHolds, PTL DEF LogSpec

(* Whoever reads the log of a job that runs or is settled is shown the     *)
(* newest bytes in whole lines and whole runes, whatever the size of the   *)
(* log, of the read and of the chunks, and wherever lines end and runes    *)
(* are cut, unless a write of the log has failed.                          *)
THEOREM TailAlwaysNewest == LogSpec => []TailIsNewest
<1>1. LogInv => TailIsNewest
  BY DEF LogInv
<1> QED BY <1>1, LogInductive, PTL
=============================================================================
