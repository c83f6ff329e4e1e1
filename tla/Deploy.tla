-------------------------------- MODULE Deploy --------------------------------
(***************************************************************************)
(* deploy.sh: the installed binary is replaced by a new build, or by the   *)
(* backup of its predecessor (rollback).  A new file is verified before it *)
(* is renamed over the binary, which is kept immutable (chattr +i) in      *)
(* between, where a script can do that: not without root or chattr, and an *)
(* attempt that fails is passed over.  Scripts run one after the other;    *)
(* each may stop at a command that fails, on a signal that runs its traps, *)
(* or be killed outright.                                                  *)
(***************************************************************************)
EXTENDS Naturals

CONSTANTS
  Good, Bad,  \* what go build may produce: binaries that start, and that do not
  MaxScripts, \* bound: scripts that are run
  MaxStops    \* bound: commands that fail, signals and kills

None == "none"

Partial == "partial"

VARIABLES
  disk,   \* the content of the binary, of .prev, of the file in the making
  locked, \* the binary is immutable
  lapsed, \* history: the last attempt to lock it has left it as it was, unlocked
  script, \* the script that runs
  clean,  \* no script was killed since a trap or a script tried to lock the binary
  runs, stops

deployVars == <<disk, locked, lapsed, script, clean, runs, stops>>

Versions == Good \cup Bad

(* traps: cleanup_tmp, or cleanup_roll_err, is the handler of EXIT;        *)
(* chattr: IMMUTABLE_LOCK, the script may lock and unlock.                 *)
Idle == [kind |-> None, pc |-> "idle", traps |-> FALSE, chattr |-> FALSE]

DeployInit ==
  /\ disk \in [bin : {None} \cup Good, prev : {None}, tmp : {None}]
  /\ locked \in BOOLEAN /\ (locked => disk.bin # None)
  /\ lapsed = (disk.bin # None /\ ~locked)
  /\ script = Idle /\ clean = TRUE /\ runs = 0 /\ stops = 0

-----------------------------------------------------------------------------
(* lock_immutable: nothing without IMMUTABLE_LOCK, and chattr may fail.    *)
LockImmutable ==
  /\ \E done \in BOOLEAN : (done => script.chattr) /\ locked' = (locked \/ done)
  /\ lapsed' = ~locked'

(* The handler relocks the binary if there is one. *)
CleanupLocks == IF disk.bin = None THEN UNCHANGED <<locked, lapsed>> ELSE LockImmutable

Exit ==
  /\ script' = Idle /\ clean' = (clean \/ script.traps) /\ UNCHANGED runs
  /\ IF script.traps
     THEN /\ disk' = IF script.kind = "deploy" THEN [disk EXCEPT !.tmp = None] ELSE disk
          /\ CleanupLocks
     ELSE UNCHANGED <<disk, locked, lapsed>>

(* A command fails (set -e), or a signal comes that bash dies of after its *)
(* EXIT trap.                                                              *)
BreaksOff ==
  /\ script.kind # None /\ stops < MaxStops /\ stops' = stops + 1
  /\ Exit

(* SIGKILL, or the power goes. *)
Kill ==
  /\ script.kind # None /\ stops < MaxStops /\ stops' = stops + 1
  /\ script' = Idle /\ clean' = FALSE
  /\ UNCHANGED <<disk, locked, lapsed, runs>>

Command(from, to) ==
  /\ script.pc = from /\ script' = [script EXCEPT !.pc = to]
  /\ UNCHANGED <<clean, runs, stops>>

Runs(kind, pc) ==
  /\ script = Idle /\ runs < MaxScripts /\ runs' = runs + 1
  /\ \E chattr \in BOOLEAN :
       script' = [kind |-> kind, pc |-> pc, traps |-> FALSE, chattr |-> chattr]
  /\ UNCHANGED <<disk, locked, lapsed, clean, stops>>

-----------------------------------------------------------------------------
(* deploy.  The traps are off before go build is done and while the new    *)
(* file is verified.                                                       *)

(* install copies the build: the file is there before it is complete.      *)
Install ==
  /\ script.pc = "build" /\ script' = [script EXCEPT !.pc = "copy", !.traps = TRUE]
  /\ disk' = [disk EXCEPT !.tmp = Partial]
  /\ UNCHANGED <<locked, lapsed, clean, runs, stops>>

Installed ==
  /\ script.pc = "copy" /\ UNCHANGED <<locked, lapsed, clean, runs, stops>>
  /\ script' = [script EXCEPT !.pc = "verify", !.traps = FALSE]
  /\ \E v \in Versions : disk' = [disk EXCEPT !.tmp = v]

(* Three initialize attempts; a good binary may fail them (EOF race).      *)
VerifiesAnything(v) == TRUE

Verifies(v) == v \in Good

Verify ==
  \/ /\ script.pc = "verify" /\ Verifies(disk.tmp)
     /\ script' = [script EXCEPT !.pc = "backup", !.traps = TRUE]
     /\ UNCHANGED <<disk, locked, lapsed, clean, runs, stops>>
  \/ /\ script.pc = "verify" /\ UNCHANGED <<runs, stops>>
     /\ script' = Idle /\ clean' = TRUE
     /\ disk' = [disk EXCEPT !.tmp = None] /\ CleanupLocks

(* .prev is removed and copied anew; a copy that fails only warns.         *)
Backup ==
  /\ Command("backup", IF disk.bin = None THEN "unlock" ELSE "cp") /\ UNCHANGED <<locked, lapsed>>
  /\ disk' = IF disk.bin = None THEN disk ELSE [disk EXCEPT !.prev = None]

CopyBegins ==
  /\ Command("cp", "cpEnds") /\ UNCHANGED <<locked, lapsed>>
  /\ disk' = [disk EXCEPT !.prev = Partial]

CopyEnds ==
  /\ script.pc = "cpEnds"
  /\ script' = [script EXCEPT !.pc = "unlock"] /\ UNCHANGED <<locked, lapsed, clean, runs>>
  /\ \/ disk' = [disk EXCEPT !.prev = disk.bin] /\ UNCHANGED stops
     \/ stops < MaxStops /\ stops' = stops + 1 /\ UNCHANGED disk

(* unlock_immutable may do nothing, like lock_immutable.  From here on it  *)
(* takes an attempt to lock that comes later.                              *)
Unlock ==
  /\ Command("unlock", "mv") /\ UNCHANGED disk
  /\ lapsed' = FALSE
  /\ \E done \in BOOLEAN : (done => script.chattr) /\ locked' = (locked /\ ~done)

Swap ==
  /\ script.kind = "deploy" /\ Command("mv", "lock") /\ UNCHANGED <<locked, lapsed>>
  /\ ~locked /\ disk' = [disk EXCEPT !.bin = disk.tmp, !.tmp = None]

(* A binary that is still immutable is not replaced: EPERM, and set -e.    *)
SwapFails == script.pc = "mv" /\ locked /\ Exit /\ UNCHANGED stops

(* deploy resets its traps after this. *)
Lock ==
  /\ script.pc = "lock" /\ LockImmutable /\ clean' = TRUE
  /\ script' = [script EXCEPT !.pc = "end", !.traps = (script.kind = "rollback")]
  /\ UNCHANGED <<disk, runs, stops>>

(* rollback's trap runs once more. *)
End ==
  /\ script.pc = "end" /\ Exit /\ UNCHANGED stops

-----------------------------------------------------------------------------
(* rollback *)

NoBackup ==
  /\ script.pc = "prev" /\ disk.prev = None /\ Exit /\ UNCHANGED stops

VerifyPrev ==
  /\ script.pc = "prev" /\ disk.prev # None
  /\ \/ /\ Verifies(disk.prev)
        /\ script' = [script EXCEPT !.pc = "unlock", !.traps = TRUE]
        /\ UNCHANGED <<disk, locked, lapsed, clean, runs, stops>>
     \/ /\ script' = Idle /\ clean' = TRUE /\ CleanupLocks
        /\ UNCHANGED <<disk, runs, stops>>

SwapBack ==
  /\ script.kind = "rollback" /\ Command("mv", "lock") /\ UNCHANGED <<locked, lapsed>>
  /\ ~locked /\ disk' = [disk EXCEPT !.bin = disk.prev, !.prev = None]

DeployNext ==
  \/ Runs("deploy", "build") \/ Runs("rollback", "prev")
  \/ Install \/ Installed \/ Verify \/ Backup \/ CopyBegins \/ CopyEnds \/ Unlock \/ Swap \/ SwapFails
  \/ Lock \/ End \/ NoBackup \/ VerifyPrev \/ SwapBack
  \/ BreaksOff \/ Kill

DeploySpec == DeployInit /\ [][DeployNext]_deployVars

-----------------------------------------------------------------------------
(* When no script runs the binary is immutable, unless the last script was *)
(* killed before it could try to lock it again, or the last attempt was in *)
(* vain: no root, no chattr, or it failed, which the script passes over    *)
(* (deploy.sh:130).                                                        *)
LockedAtRest == script = Idle /\ clean /\ disk.bin # None => locked \/ lapsed

(* Once there is a binary there is one at every moment, and it is one that *)
(* passed its verification, wherever a script is stopped or killed         *)
(* (deploy.sh:112); and no way out of a script leaves it unlocked without  *)
(* an attempt to lock it, but SIGKILL (deploy.sh:144).                     *)
BinaryWorks ==
  [][/\ disk'.bin \in Good \/ (disk.bin = None /\ disk'.bin = None)
     /\ LockedAtRest']_deployVars
=============================================================================
