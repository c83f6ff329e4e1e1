-------------------------------- MODULE MCHost --------------------------------
(***************************************************************************)
(* Instances of what touches the host: the Pi bridge, a foreground command, *)
(* the audit trail and the deployment script.  They share no state, so a   *)
(* behaviour is one of one of them.  Two tool calls meet one crash, one    *)
(* restart and a stop; the command may fork twice; two servers append      *)
(* three lines to a log that is full after one, and ctx_stats sums them;   *)
(* three deployments or rollbacks are interrupted twice.                   *)
(***************************************************************************)
EXTENDS PiBridge, Deploy, RunCmd, AuditLog

CONSTANTS a1, a2, s1, s2

VARIABLE part

HostServerOf(a) == IF a \in {a1, a2} THEN s1 ELSE s2

hostVars == <<part, piVars, runVars, auditVars, deployVars>>

HostInit ==
  /\ part \in {"pi", "run", "audit", "deploy"}
  /\ PiInit /\ RunInit /\ AuditInit
  /\ DeployInit /\ (part # "deploy" => disk.bin = "none")

PiPart(A) == part = "pi" /\ A /\ UNCHANGED <<part, runVars, auditVars, deployVars>>

CmdPart(A) == part = "run" /\ A /\ UNCHANGED <<part, piVars, auditVars, deployVars>>

AuditPart == part = "audit" /\ AuditNext /\ UNCHANGED <<part, piVars, runVars, deployVars>>

DeployPart == part = "deploy" /\ DeployNext /\ UNCHANGED <<part, piVars, runVars, auditVars>>

(* A command returns, a log is not written to, nobody deploys. *)
Rest == part # "pi" /\ UNCHANGED hostVars

HostNext == PiPart(PiNext) \/ CmdPart(RunNext) \/ AuditPart \/ DeployPart \/ Rest

(* Timers fire, the event loop runs every turn that is due, and a process  *)
(* that has been told or made to end ends; the server need not answer,     *)
(* and no child of a command need do anything.                             *)
PiFairness ==
  /\ WF_hostVars(PiPart(SessionStarts)) /\ WF_hostVars(PiPart(TimerFires))
  /\ \A c \in PiCalls : WF_hostVars(PiPart(CallStep(c)))
  /\ WF_hostVars(PiPart(\E id \in client.pending : TimesOut(id)))
  /\ \A p \in Procs : WF_hostVars(PiPart(Event(p))) /\ WF_hostVars(PiPart(Ends(p)))
  /\ \A w \in {"start", "stop"} : WF_hostVars(PiPart(CloseEnds(w)))

CmdFairness == WF_hostVars(CmdPart(Kills))

HostSpec == HostInit /\ [][HostNext]_hostVars /\ PiFairness /\ CmdFairness
=============================================================================
