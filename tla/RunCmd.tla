-------------------------------- MODULE RunCmd --------------------------------
(***************************************************************************)
(* A foreground command: the end of runCmd (executor.go) and, with the     *)
(* cancellation alone, executeCommand (batch.go).  The command's leader    *)
(* runs in a process group of its own and may fork; a descendant may leave *)
(* the group with setsid or close the output pipe, and whoever loses its   *)
(* parent is adopted by init.  When the timer fires or the call is         *)
(* cancelled the descendants are noted, the group is told to end, and what *)
(* is left is killed.                                                      *)
(***************************************************************************)
EXTENDS Naturals, FiniteSets, Relation

CONSTANTS
  Leader,  \* the process that cmd.Start made
  Kids     \* bound: the processes that may be forked

VARIABLES cmd, proc

runVars == <<cmd, proc>>

Pids == {Leader} \cup Kids

(* done: cmd.Wait has returned; escaped: the snapshot of the descendants;  *)
(* why: what ended the wait; forced: SIGTERM was not enough.               *)
NewCmd == [pc |-> "waiting", done |-> FALSE, why |-> "none", escaped |-> {}, forced |-> FALSE]

(* doomed: a signal that ends the process is on its way to it.             *)
Unborn == [life |-> "none", parent |-> "init", group |-> FALSE, pipe |-> FALSE,
           doomed |-> FALSE]

RunInit ==
  /\ cmd = NewCmd
  /\ proc = [p \in Pids |->
       IF p = Leader THEN [Unborn EXCEPT !.life = "alive", !.group = TRUE, !.pipe = TRUE] ELSE Unborn]

-----------------------------------------------------------------------------
(* The processes, which promise nothing. *)

Lives(p) == proc[p].life = "alive" /\ ~proc[p].doomed

Fork(p, q) ==
  /\ Lives(p) /\ proc[q].life = "none"
  /\ proc' = [proc EXCEPT ![q] = [proc[p] EXCEPT !.parent = p]]
  /\ UNCHANGED cmd

(* setsid fails for the leader of a group. *)
Setsid(p) ==
  /\ Lives(p) /\ p # Leader /\ proc[p].group
  /\ proc' = [proc EXCEPT ![p].group = FALSE] /\ UNCHANGED cmd

ClosePipe(p) ==
  /\ Lives(p) /\ proc[p].pipe
  /\ proc' = [proc EXCEPT ![p].pipe = FALSE] /\ UNCHANGED cmd

ProcessExits(p) ==
  /\ proc[p].life = "alive"
  /\ proc' = [q \in Pids |->
       IF q = p THEN [Unborn EXCEPT !.life = "dead"]
       ELSE [proc[q] EXCEPT !.parent = IF @ = p THEN "init" ELSE @]]
  /\ UNCHANGED cmd

ProcessStep ==
  \E p \in Pids :
    \/ \E q \in Kids : Fork(p, q)
    \/ Setsid(p) \/ ClosePipe(p) \/ ProcessExits(p)

-----------------------------------------------------------------------------
(* The call. *)

(* The goroutine with cmd.Wait: the leader has exited and everybody has    *)
(* closed the pipe.                                                        *)
WaitReturns ==
  /\ ~cmd.done /\ proc[Leader].life = "dead"
  /\ \A p \in Pids : proc[p].life = "alive" => ~proc[p].pipe
  /\ cmd' = [cmd EXCEPT !.done = TRUE] /\ UNCHANGED proc

WaitEnds ==
  /\ cmd.pc = "waiting" /\ cmd.done
  /\ cmd' = [cmd EXCEPT !.pc = "returned", !.why = "exit"] /\ UNCHANGED proc

(* select picks any case that is ready, so this may win over an exit.      *)
Fires ==
  /\ cmd.pc = "waiting"
  /\ \E why \in {"timeout", "cancel"} : cmd' = [cmd EXCEPT !.pc = "snapshot", !.why = why]
  /\ UNCHANGED proc

(* collectDescendantPIDs: /proc as it is now, by parents.                  *)
Child == [p, q \in Pids |-> proc[q].life = "alive" /\ proc[q].parent = p]

Below == TransitiveClosure(Child, Pids)

Descendants == {p \in Kids : proc[p].life = "alive" /\ Below[Leader, p]}

Snapshot ==
  /\ cmd.pc = "snapshot"
  /\ cmd' = [cmd EXCEPT !.pc = "term", !.escaped = Descendants] /\ UNCHANGED proc

Signalled(targets) ==
  proc' = [p \in Pids |-> [proc[p] EXCEPT !.doomed = @ \/ (p \in targets /\ proc[p].life = "alive")]]

Group == {p \in Pids : proc[p].group}

(* A process may ignore SIGTERM. *)
Term ==
  /\ cmd.pc = "term"
  /\ \E obeying \in SUBSET Group : Signalled(obeying)
  /\ cmd' = [cmd EXCEPT !.pc = "grace"]

GraceEnough ==
  /\ cmd.pc = "grace" /\ cmd.done
  /\ cmd' = [cmd EXCEPT !.pc = "sweep"] /\ UNCHANGED proc

(* Three seconds are over. *)
KillGroup ==
  /\ cmd.pc = "grace"
  /\ Signalled(Group)
  /\ cmd' = [cmd EXCEPT !.pc = "kill", !.forced = TRUE]

KillEscaped ==
  /\ cmd.pc = "kill"
  /\ Signalled(cmd.escaped)
  /\ cmd' = [cmd EXCEPT !.pc = "drain"]

DrainUnbounded ==
  /\ cmd.pc = "drain" /\ cmd.done
  /\ cmd' = [cmd EXCEPT !.pc = "sweep"] /\ UNCHANGED proc

(* cmd.Wait returns or reapWaitBound is over. *)
Drain ==
  /\ cmd.pc = "drain"
  /\ cmd' = [cmd EXCEPT !.pc = "sweep"] /\ UNCHANGED proc

SweepNobody ==
  /\ cmd.pc = "sweep" /\ UNCHANGED proc
  /\ cmd' = [cmd EXCEPT !.pc = "returned"]

Sweep ==
  /\ cmd.pc = "sweep"
  /\ Signalled(cmd.escaped)
  /\ cmd' = [cmd EXCEPT !.pc = "returned"]

Kills == Snapshot \/ Term \/ GraceEnough \/ KillGroup \/ KillEscaped \/ Drain \/ Sweep

RunNext == ProcessStep \/ WaitReturns \/ WaitEnds \/ Fires \/ Kills

RunSpec == RunInit /\ [][RunNext]_runVars

-----------------------------------------------------------------------------
(* A command that is timed out or cancelled leaves behind only what was    *)
(* not among its descendants when the kill began; and once the group had   *)
(* to be killed, nobody of the group (executor.go:2798, batch.go:127).     *)
NothingLeftBehind ==
  cmd.pc = "returned" /\ cmd.why # "exit" =>
    \A p \in Pids : Lives(p) => p \notin cmd.escaped /\ ~(cmd.forced /\ proc[p].group)

(* The call returns once its time is over, whatever its processes do:      *)
(* ignore SIGTERM, escape, hold the pipe, or refuse to die.                *)
CommandReturns == (cmd.pc = "snapshot") ~> (cmd.pc = "returned")
=============================================================================
