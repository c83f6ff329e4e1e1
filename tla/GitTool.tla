-------------------------------- MODULE GitTool --------------------------------
(***************************************************************************)
(* One call of ctx_git (git_tools.go): two runs of git, the first to find  *)
(* the root of the repository and refuse one outside the workspaces, the   *)
(* second to show something of it.  Repositories come and go under other   *)
(* processes in between; directories stay what they are.                   *)
(***************************************************************************)
EXTENDS Naturals, Sequences, SequencesExt, FiniteSets

CONSTANTS
  Dirs,        \* directories, each the sequence of names from the root
  Workdirs,    \* the workspaces among them
  MaxOut,      \* bound: lines that git writes
  ShowLimit,   \* gitDiffMaxBytes and gitDiffMaxLines, in lines
  KeepLimit    \* 2 * gitDiffMaxBytes: what the buffer keeps

VARIABLES
  repos,    \* the directories that hold a .git
  gitcall,  \* the action, its cwd and its pathspec
  step,     \* how far the call has come
  top,      \* what the first run of git has found
  shows     \* the answer

gitVars == <<repos, gitcall, step, top, shows>>

Nowhere == <<"nowhere">>

Within(d, e) == IsPrefix(e, d)

Inside(d) == \E w \in Workdirs : Within(d, w)

Parent(d) == Front(d)

NoAnswer == [repo |-> Nowhere, from |-> 1, lines |-> 0, all |-> 0, secret |-> 0, told |-> "nothing"]

GitInit ==
  /\ repos \in SUBSET Dirs
  /\ gitcall \in [action : {"status", "diff", "log"}, cwd : Dirs, path : Dirs \cup {Nowhere}]
  /\ gitcall.action = "status" => gitcall.path = Nowhere
  /\ step = "new" /\ top = Nowhere /\ shows = NoAnswer

GitFails ==
  /\ step' = "done" /\ shows' = [NoAnswer EXCEPT !.told = "error"]
  /\ UNCHANGED <<repos, gitcall, top>>

-----------------------------------------------------------------------------
(* resolveGitCwd and resolveGitPathspec: the path, if there is one, is in  *)
(* a workspace and at or below the cwd.                                    *)
PathFits == gitcall.path = Nowhere \/ (Inside(gitcall.path) /\ Within(gitcall.path, gitcall.cwd))

ArgumentsRefused == step = "new" /\ ~(Inside(gitcall.cwd) /\ PathFits) /\ GitFails

ArgumentsResolved ==
  /\ step = "new" /\ Inside(gitcall.cwd) /\ PathFits
  /\ step' = "resolved" /\ UNCHANGED <<repos, gitcall, top, shows>>

(* Git goes up from a directory to the nearest .git, never into a ceiling. *)
Found(d, ceilings) ==
  LET up == {e \in repos : Within(d, e) /\ ~\E c \in ceilings : Within(c, e) /\ Within(d, c) /\ c # d}
  IN IF up = {} THEN Nowhere ELSE CHOOSE e \in up : \A f \in up : Len(f) <= Len(e)

(* ensureGitToplevelInside runs git without ceilings, to tell a repository *)
(* that is outside from none.                                              *)
FindTop ==
  /\ step = "resolved" /\ Inside(Found(gitcall.cwd, {}))
  /\ step' = "checked" /\ top' = Found(gitcall.cwd, {})
  /\ UNCHANGED <<repos, gitcall, shows>>

TopRefused == step = "resolved" /\ ~Inside(Found(gitcall.cwd, {})) /\ GitFails

(* A git that does not run, fails or takes longer than gitTimeout, in      *)
(* either run.                                                             *)
GitBreaks == step \in {"resolved", "checked"} /\ GitFails

NoCeilings == {}

(* gitCeilingDirectories: the parent of every workspace. *)
Ceilings == {Parent(w) : w \in Workdirs \ {<<>>}}

-----------------------------------------------------------------------------
(* Of what git writes the buffer keeps the newest; the secret, if there is *)
(* one, is in one line.  truncateGitOutput cuts at the end.                *)
Kept(n) == IF n > KeepLimit THEN n - KeepLimit ELSE 0

Gated(n, secret) == gitcall.action # "status" /\ secret > Kept(n)

Cut(n) == n - Kept(n) > ShowLimit

RunGit ==
  /\ step = "checked"
  /\ LET repo == Found(gitcall.cwd, Ceilings)
     IN IF repo = Nowhere THEN GitFails
        ELSE \E n \in 0 .. MaxOut : \E secret \in 0 .. IF gitcall.action = "status" THEN 0 ELSE n :
               /\ shows' = IF secret > 0 /\ Gated(n, secret) THEN [NoAnswer EXCEPT !.told = "withheld"]
                           ELSE [repo |-> repo, from |-> Kept(n) + 1, all |-> n, secret |-> secret,
                                 lines |-> IF Cut(n) THEN ShowLimit ELSE n - Kept(n),
                                 told |-> IF Cut(n) THEN "truncated" ELSE "all"]
               /\ step' = "done" /\ UNCHANGED <<repos, gitcall, top>>

(* Another process makes or removes a repository. *)
ReposChange ==
  /\ step \in {"resolved", "checked"}
  /\ repos' \in SUBSET Dirs \ {repos}
  /\ UNCHANGED <<gitcall, step, top, shows>>

GitEnded == step = "done" /\ UNCHANGED gitVars

GitNext ==
  \/ ArgumentsRefused \/ ArgumentsResolved \/ FindTop \/ TopRefused \/ GitBreaks \/ RunGit
  \/ ReposChange \/ GitEnded

GitSpec == GitInit /\ [][GitNext]_gitVars

-----------------------------------------------------------------------------
(* What a call shows is of a repository whose root is in a workspace, also *)
(* when the one that was checked has been removed or another was made      *)
(* before the second git runs; an answer without a note is all that git    *)
(* has written, and no line of it is one that the content check refuses.   *)
GitStaysInside ==
  shows.told \in {"all", "truncated"} =>
    /\ Inside(shows.repo)
    /\ shows.told = "all" => shows.from = 1 /\ shows.lines = shows.all
    /\ shows.secret \notin shows.from .. shows.from + shows.lines - 1
=============================================================================
