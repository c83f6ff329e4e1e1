-------------------------------- MODULE MCTools --------------------------------
(***************************************************************************)
(* Instances of what a tool call goes through: the screen's bookkeeping of *)
(* variables and of standard input, the call itself, its job's log and     *)
(* files, one run of ripgrep, one search, one walk of a directory, one     *)
(* call of git and the downloads of pages.                                 *)
(* They share no state: a behaviour is one of one of them, the others rest.*)
(***************************************************************************)
EXTENDS ShellVars, ShellFeed, GitTool, CtxRun, RingLog, JobFiles, Search, FileWalk, Dial, FiniteSetsExt, TLC

CONSTANTS
  h1, h2, j1, j2, j3,
  RgFiles, MaxLines, BufCells, FetchLimit, Limit, MaxShown, MaxText, MaxFiles

VARIABLES
  part,
  output, sent, buf, cut, capture, text, ended, modified

rgPart == <<output, sent, buf, cut, capture, text, ended, modified>>

-----------------------------------------------------------------------------
(* Scripts of three statements over two variables: an assignment, a copy,  *)
(* an unset, a use as a command head or as an argument; one compound of    *)
(* each kind, with one or two of them in it; a function and its calls.     *)
Make(op, v, vals, from) ==
  [op |-> op, v |-> v, vals |-> vals, from |-> from, body |-> <<>>]

Call == Make("call", "none", <<>>, "none")

Changes == {Make("set", "x", <<"/a">>, "none"), Make("set", "x", <<"/b">>, "none"),
            Make("set", "y", <<>>, "x"), Make("unset", "x", <<>>, "none")}

Uses == {Make("head", "x", <<>>, "none"), Make("head", "y", <<>>, "none"), Make("word", "x", <<>>, "none")}

Bodies == {<<s>> : s \in Changes \cup Uses} \cup {<<s, t>> : s \in Changes, t \in Uses}
            \cup {<<t, s>> : s \in Changes, t \in {Make("head", "x", <<>>, "none")}}

Compounds ==
  {[Make(op, "none", <<>>, "none") EXCEPT !.body = b] : op \in {"sub", "block", "cond", "func"}, b \in Bodies}
    \cup {[Make("cond", "none", <<>>, "none") EXCEPT !.body = <<Call>>]}
    \cup {[Make("for", "x", vals, "none") EXCEPT !.body = b] :
            vals \in {<<"/a", "w">>, <<"/a", "dynamic">>}, b \in Bodies \cup {<<Call>>}}

MCScripts ==
  {<<>>} \cup {<<a, b, c>> : a \in Changes, b \in Compounds, c \in Uses \cup {Call}}
    \cup {<<[Make("func", "none", <<>>, "none") EXCEPT !.body = <<a>>], b, c>> :
            a \in Changes \cup Uses, b \in Compounds, c \in {Make("head", "x", <<>>, "none"), Call}}

MCHostOf == [j \in Jobs |-> IF j = j3 THEN h2 ELSE h1]

Capture == INSTANCE RgCapture WITH Limit <- Limit

-----------------------------------------------------------------------------
(* A workspace in a repository that is outside, with a directory of it a   *)
(* workspace of its own.                                                   *)
MCDirs == {<<>>, <<"w">>, <<"w", "s">>, <<"w", "n">>}

MCWorkdirs == {<<"w">>, <<"w", "n">>}

(* The ends of every range of the block list, and what is next to them.    *)
MCV4 ==
  {<<0, 255>>, <<1, 0>>, <<9, 255>>, <<10, 0>>, <<11, 0>>, <<100, 63>>, <<100, 64>>, <<100, 127>>, <<100, 128>>,
   <<126, 255>>, <<127, 0>>, <<128, 0>>, <<169, 253>>, <<169, 254>>, <<169, 255>>, <<172, 15>>, <<172, 16>>,
   <<172, 31>>, <<172, 32>>, <<192, 167>>, <<192, 168>>, <<192, 169>>, <<198, 17>>, <<198, 18>>, <<198, 19>>,
   <<198, 20>>, <<223, 255>>, <<224, 0>>, <<239, 255>>, <<240, 0>>, <<255, 255>>}

MCInner == {<<10, 0>>, <<11, 0>>}

(* What rests is in one of its initial states. *)
ToolsInit ==
  /\ part \in {"vars", "feed", "call", "log", "files", "rg", "search", "walk", "git", "dial"}
  /\ part = "vars" \/ (part # "vars" /\ script = <<>>)
  /\ part = "feed" \/ (part # "feed" /\ origins = 0 :> NoFeed)
  /\ part = "call" \/ (part # "call" /\ request = [action |-> "execute", background |-> FALSE])
  /\ part = "rg" \/ (part # "rg" /\ output = <<>> /\ modified = {})
  /\ part = "search" \/ (part # "search" /\ stored = {} /\ db = [tables |-> 0, pc |-> "file", blind |-> FALSE])
  /\ \/ part = "walk"
     \/ /\ part # "walk"
        /\ kind = [r |-> "dir", d |-> "dir", x |-> "plain", y |-> "plain", f |-> "plain"]
        /\ rules = NoRules
        /\ call = [tool |-> "ls", root |-> "r", depth |-> 2, hidden |-> TRUE, like |-> AllSame]
  /\ \/ part = "git"
     \/ part # "git" /\ repos = {} /\ gitcall = [action |-> "status", cwd |-> <<>>, path |-> Nowhere]
  /\ part = "dial" \/ (part # "dial" /\ url = [web |-> FALSE, server |-> [name |-> "literal", addr |-> Class("global")]])
  /\ ShellInit /\ FeedInit /\ CtxInit /\ LogInit /\ FilesInit
  /\ Capture!CaptureInit /\ SearchInit /\ WalkInit
  /\ GitInit /\ DialInit

ToolsNext ==
  \/ /\ part = "vars" /\ ShellNext
     /\ UNCHANGED <<part, feedVars, ctxVars, logVars, fileVars, rgPart, searchVars, walkVars, gitVars, dialVars>>
  \/ /\ part = "feed" /\ FeedNext
     /\ UNCHANGED <<part, shellVars, ctxVars, logVars, fileVars, rgPart, searchVars, walkVars, gitVars, dialVars>>
  \/ /\ part = "call" /\ CtxNext
     /\ UNCHANGED <<part, shellVars, feedVars, logVars, fileVars, rgPart, searchVars, walkVars, gitVars, dialVars>>
  \/ /\ part = "log" /\ LogNext
     /\ UNCHANGED <<part, shellVars, feedVars, ctxVars, fileVars, rgPart, searchVars, walkVars, gitVars, dialVars>>
  \/ /\ part = "files" /\ FilesNext
     /\ UNCHANGED <<part, shellVars, feedVars, ctxVars, logVars, rgPart, searchVars, walkVars, gitVars, dialVars>>
  \/ /\ part = "rg" /\ Capture!CaptureNext
     /\ UNCHANGED <<part, shellVars, feedVars, ctxVars, logVars, fileVars, searchVars, walkVars, gitVars, dialVars>>
  \/ /\ part = "search" /\ SearchNext
     /\ UNCHANGED <<part, shellVars, feedVars, ctxVars, logVars, fileVars, rgPart, walkVars, gitVars, dialVars>>
  \/ /\ part = "walk" /\ WalkNext
     /\ UNCHANGED <<part, shellVars, feedVars, ctxVars, logVars, fileVars, rgPart, searchVars, gitVars, dialVars>>
  \/ /\ part = "git" /\ GitNext
     /\ UNCHANGED <<part, shellVars, feedVars, ctxVars, logVars, fileVars, rgPart, searchVars, walkVars, dialVars>>
  \/ /\ part = "dial" /\ DialNext
     /\ UNCHANGED <<part, shellVars, feedVars, ctxVars, logVars, fileVars, rgPart, searchVars, walkVars, gitVars>>

ToolsSpec ==
  ToolsInit /\ [][ToolsNext]_<<part, shellVars, feedVars, ctxVars, logVars, fileVars, rgPart, searchVars, walkVars,
                              gitVars, dialVars>>

PagesPartition == Capture!PagesPartition
=============================================================================
