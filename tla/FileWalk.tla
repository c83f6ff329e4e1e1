-------------------------------- MODULE FileWalk --------------------------------
(***************************************************************************)
(* The tools that walk a directory (main.go: toolIndex; fs_tools.go: ls,   *)
(* glob and the search without ripgrep; fs_resolve.go: resolve and         *)
(* related, which rank what they have scanned): one entry after the other  *)
(* in lexical order, each behind the fence of the workspace and the rules  *)
(* of its tool, until a cap stops the walk.  A file that is indexed is     *)
(* looked at three times, and may have changed in between.                 *)
(*                                                                         *)
(* The workspace is a directory r with a directory d, its files x and y,   *)
(* and a file f beside it.                                                 *)
(***************************************************************************)
EXTENDS Naturals, Sequences, SequencesExt, FiniteSets

CONSTANTS
  FirstKinds, LastKinds, \* what x and f may be
  MaxFound,   \* the limit of ls and glob, the file caps of a scan and of index, the matches of rg
  MaxHits,    \* the limit of resolve and related
  ByteCap,    \* the byte cap of index
  MaxChanges  \* bound: changes of a file while it is indexed

LeafKinds ==
  {"plain", "big", "binary", "hidden", "secret", "alias", "fifo", "locked",
   "linky", "linksecret", "linkout", "linkdead"}

ASSUME WalkParameters ==
  /\ FirstKinds \cup LastKinds \subseteq LeafKinds
  /\ MaxFound \in Nat \ {0} /\ MaxHits \in Nat /\ ByteCap \in Nat

VARIABLES
  kind,    \* what each entry is
  rules,   \* the .gitignore of r and of d
  call,    \* the tool, its root, the depth of ls or maxIndexDepth, whether it lists what is
           \* hidden, and what a file has of the name that is asked for
  walk,    \* where the walk is: left, the entries to come; layers; inodes; the file in hand
  tally,   \* found, skipped, the bytes counted, and whether the answer says that there is more
  stock,   \* what has been read into the store: <<path, kind, kind when it was checked>>
  changes  \* changes so far

walkVars == <<kind, rules, call, walk, tally, stock, changes>>

Order == <<"r", "d", "x", "y", "f">>

Entries == Range(Order)

Above(p) == CASE p = "r" -> {"r"} [] p = "f" -> {"r", "f"} [] p = "d" -> {"r", "d"} [] OTHER -> {"r", "d", p}

Below(p) == {q \in Entries : p \in Above(q)}

(* A scan is of the whole workspace, also around the file of related.      *)
Scanning == call.tool \in {"resolve", "related"}

WalkRoot == IF Scanning THEN "r" ELSE call.root

DepthOf(p) == Cardinality(Above(p)) - Cardinality(Above(WalkRoot))

(* Directories: dir, hidden (a dot), bulk (node_modules and the like),     *)
(* locked (its names cannot be read).  Files: plain, big, binary, hidden,  *)
(* secret (a name that is sensitive), alias (a plain name for the file of  *)
(* that inode), fifo, locked (cannot be opened).  Links: to y, to a        *)
(* sensitive file, to the outside, to nothing.                             *)
Dir(p) == kind[p] \in {"dir", "hiddendir", "bulk", "lockeddir"}

LockedDir(p) == kind[p] = "lockeddir"

Bulk(p) == kind[p] = "bulk"

Link(p) == kind[p] \in {"linky", "linksecret", "linkout", "linkdead"}

Regular(p) == ~Dir(p) /\ ~Link(p) /\ kind[p] # "fifo"

Sensitive(p) == kind[p] = "secret"

Hidden(p) == kind[p] \in {"hiddendir", "hidden", "secret"}

Real(p) == IF kind[p] = "linky" THEN "y" ELSE p

(* ensureInsideWorkspaces: the path behind the links, which must be inside.*)
(* A link to nothing resolves to itself.                                   *)
Fenced(p) == kind[Real(p)] # "linkout"

LeadsToSecret(p) == Sensitive(p) \/ kind[Real(p)] = "linksecret"

(* A rule: the entry its pattern names, "all" for *, and whether it begins *)
(* with an exclamation mark.                                               *)
Rule(on, neg) == [on |-> on, neg |-> neg]

RuleSets == [r : {<<>>, <<Rule("d", FALSE)>>, <<Rule("x", FALSE)>>, <<Rule("all", FALSE), Rule("d", TRUE)>>},
             d : {<<>>, <<Rule("x", FALSE)>>, <<Rule("x", TRUE)>>}]

NoRules == [r |-> <<>>, d |-> <<>>]

Tools == {"ls", "glob", "resolve", "related", "rg", "index", "stat"}

(* Names: equal, with its part somewhere in the path, its letters far      *)
(* apart or close together; for related a test and what it tests, the same *)
(* stem, one stem the beginning of the other.                              *)
NamesFor(tool) ==
  IF tool = "resolve" THEN {"same", "part", "spread", "dense", "none"} ELSE {"same", "pair", "prefix", "none"}

AllSame == [p \in {"x", "y", "f"} |-> "same"]

NotIndexing == [path |-> "none", phase |-> "none", size |-> 0, was |-> "none"]

NothingYet == [found |-> <<>>, skipped |-> {}, bytes |-> 0, more |-> FALSE, failed |-> FALSE]

WalkInit ==
  /\ kind \in [r : {"dir"}, d : {"dir", "hiddendir", "bulk", "lockeddir"}, x : FirstKinds, y : {"plain"}, f : LastKinds]
  /\ call \in [tool : Tools, root : {"r", "d", "y", "f"}, depth : 0 .. 2, hidden : BOOLEAN,
                like : {AllSame} \cup UNION {[{"x", "y", "f"} -> NamesFor(tool)] : tool \in {"resolve", "related"}}]
  /\ call.depth > 0 \/ call.tool = "index"
  /\ call.tool # "ls" => (call.depth = 2 \/ call.tool = "index") /\ call.hidden
  /\ call.tool = "resolve" => call.root = "r"
  /\ rules \in IF call.tool \in {"ls", "index", "stat"} THEN {NoRules} ELSE RuleSets
  /\ \/ call.like = AllSame
     \/ /\ Scanning /\ call.like \in [{"x", "y", "f"} -> NamesFor(call.tool)]
        /\ rules = NoRules /\ kind.d = "dir" /\ kind.x = "plain" /\ kind.f \in {"plain", "secret"}
  /\ walk = [left |-> Below(WalkRoot),
             layers |-> IF rules[IF WalkRoot = "d" THEN "d" ELSE "r"] = <<>> THEN <<>> ELSE <<WalkRoot>>,
             inodes |-> "unknown", file |-> NotIndexing, pc |-> "new"]
  /\ tally = NothingYet /\ stock = {} /\ changes = 0

-----------------------------------------------------------------------------
(* resolvePath, the fence, and what the tool makes of a root that is not a *)
(* directory.  A search may have a file for its root, which ripgrep takes; *)
(* here the root of a search is a directory.                               *)
Fail == walk' = [walk EXCEPT !.pc = "done"] /\ tally' = [tally EXCEPT !.failed = TRUE]

RootRefused(p) ==
  \/ ~Fenced(p)
  \/ call.tool \in {"ls", "glob", "rg"} /\ ~Dir(p)
  \/ call.tool = "related" /\ (Dir(p) \/ kind[p] = "linkdead")
  \/ call.tool = "index" /\ ~Dir(p)
       /\ (LeadsToSecret(p) \/ kind[Real(p)] \in {"fifo", "linkdead", "big", "binary"})

(* toolStat keeps the last name of the path: it tells of a link, not of    *)
(* what it leads to, which may be outside or not exist.                    *)
Stat ==
  /\ walk.pc = "new" /\ call.tool = "stat" /\ UNCHANGED <<kind, rules, call, stock, changes>>
  /\ walk' = [walk EXCEPT !.pc = "done", !.left = {}]
  /\ tally' = [tally EXCEPT !.found = <<call.root>>]

Begin ==
  /\ walk.pc = "new" /\ call.tool # "stat" /\ UNCHANGED <<kind, rules, call, stock, changes>>
  /\ IF RootRefused(call.root) THEN Fail
     ELSE /\ UNCHANGED tally
          /\ walk' = IF Scanning \/ Dir(call.root) THEN [walk EXCEPT !.pc = "walk"]
                     ELSE [walk EXCEPT !.pc = "walk", !.left = {},
                                       !.file = [NotIndexing EXCEPT !.path = Real(call.root), !.phase = "check"]]

-----------------------------------------------------------------------------
(* gitignoreStack: layers that do not hold the entry are popped, except    *)
(* the last; a directory's own file is pushed before it is asked about the *)
(* directory, which it knows as ".".                                       *)
Popped(layers, p) ==
  IF layers = <<>> THEN <<>>
  ELSE SubSeq(layers, 1, Max({1} \cup {i \in DOMAIN layers : p \in Below(layers[i])}))

Layers(p) ==
  IF LockedDir(p) \/ (call.tool = "rg" /\ ~Dir(p)) THEN walk.layers
  ELSE LET rest == Popped(walk.layers, p)
       IN IF p = "d" /\ Dir(p) /\ p # WalkRoot /\ rules.d # <<>> THEN Append(rest, "d") ELSE rest

Matches(rule, p, base) == rule.on = "all" \/ (rule.on = p /\ p # base)

(* The last rule that matches decides, of the last layer that has one.     *)
RuleSays(base, p) ==
  LET hits == {i \in DOMAIN rules[base] : Matches(rules[base][i], p, base)}
  IN IF p \notin Below(base) \/ hits = {} THEN "none" ELSE IF rules[base][Max(hits)].neg THEN "in" ELSE "out"

Ignores(layers, p) ==
  LET told == {i \in DOMAIN layers : RuleSays(layers[i], p) # "none"}
  IN told # {} /\ RuleSays(layers[Max(told)], p) = "out"

-----------------------------------------------------------------------------
(* What the walk does with an entry: take it, count it as skipped, prune   *)
(* what is below, stop, say that there is more.                            *)
Go == [take |-> FALSE, skip |-> FALSE, prune |-> FALSE, stop |-> FALSE, more |-> FALSE]

Prune == [Go EXCEPT !.prune = TRUE]

Take == [Go EXCEPT !.take = TRUE]

AtCap == Len(tally.found) >= MaxFound

Ls(p) ==
  IF p = WalkRoot THEN Go
  ELSE IF ~Fenced(p) \/ DepthOf(p) > call.depth \/ (Hidden(p) /\ ~call.hidden) THEN Prune
  ELSE IF AtCap THEN [Prune EXCEPT !.more = TRUE]
  ELSE [Take EXCEPT !.prune = DepthOf(p) >= call.depth]

(* The pattern is **, which every entry matches. *)
GlobSilent(p) ==
  IF Bulk(p) \/ ~Fenced(p) THEN Prune
  ELSE IF Sensitive(p) THEN Go
  ELSE IF Ignores(Layers(p), p) \/ AtCap THEN Prune
  ELSE Take

Glob(p) ==
  IF Bulk(p) \/ ~Fenced(p) THEN Prune
  ELSE IF Sensitive(p) THEN Go
  ELSE IF Ignores(Layers(p), p) THEN Prune
  ELSE IF AtCap THEN [Prune EXCEPT !.more = TRUE]
  ELSE Take

Scan(p) ==
  IF AtCap THEN [Go EXCEPT !.stop = TRUE, !.more = TRUE]
  ELSE IF Bulk(p) \/ ~Fenced(p) THEN Prune
  ELSE IF Sensitive(p) THEN Go
  ELSE IF Ignores(Layers(p), p) THEN Prune
  ELSE [Go EXCEPT !.take = Regular(p)]

(* rgGoBudget: every file has one match. *)
Rg(p) ==
  IF Dir(p) THEN [Go EXCEPT !.prune = Bulk(p) \/ ~Fenced(p) \/ (p # WalkRoot /\ Ignores(Layers(p), p))]
  ELSE IF ~Regular(p) \/ ~Fenced(p) \/ Ignores(Layers(p), p) \/ kind[p] \in {"binary", "big", "secret", "locked"} THEN Go
  ELSE LET last == Len(tally.found) + 1 >= MaxFound IN [Take EXCEPT !.stop = last, !.more = last]

(* collectSensitiveInodes walks the whole workspace, as far as it can.     *)
Collected ==
  IF \E q \in Entries : Sensitive(q) /\ \A a \in Above(q) : ~Bulk(a) /\ ~LockedDir(a)
  THEN "secret" ELSE "nothing"

ManyNames(p) == kind[p] = "alias"

InodesBelow(p) ==
  IF walk.inodes = "unknown" /\ ManyNames(p)
  THEN IF \E q \in Below(call.root) : Sensitive(q) THEN "secret" ELSE "nothing"
  ELSE walk.inodes

InodesFor(p) == IF walk.inodes = "unknown" /\ ManyNames(p) THEN Collected ELSE walk.inodes

SecretAlias(p, inodes) == kind[p] = "alias" /\ inodes = "secret"

Unfit(p) == kind[p] \in {"big", "binary"}

Skip == [Go EXCEPT !.skip = TRUE]

(* A file of two names is two bytes long. *)
Size(p) == IF kind[p] = "alias" THEN 2 ELSE 1

(* The checks before a file is handed to indexFileWithSensitive, which     *)
(* here is taken.                                                          *)
Indexing(p) ==
  IF DepthOf(p) > call.depth THEN [Prune EXCEPT !.skip = ~Dir(p)]
  ELSE IF Dir(p) THEN [Go EXCEPT !.prune = Bulk(p)]
  ELSE IF AtCap THEN [Go EXCEPT !.stop = TRUE, !.more = TRUE]
  ELSE IF \/ ~Fenced(p) \/ kind[Real(p)] \in {"linkdead", "fifo"} \/ LeadsToSecret(p)
          \/ SecretAlias(Real(p), InodesFor(Real(p))) \/ Unfit(Real(p))
       THEN Skip
  ELSE IF tally.bytes + Size(Real(p)) > ByteCap THEN [Skip EXCEPT !.stop = TRUE, !.more = TRUE]
  ELSE Take

(* filepath.Walk asks once about a directory whose names it cannot read,   *)
(* with the error.  Only index makes a note of it.                         *)
WalkError(p) == LockedDir(p) /\ ~(Scanning /\ AtCap)

Decision(p) ==
  CASE WalkError(p)       -> [Prune EXCEPT !.skip = call.tool = "index"]
    [] ~WalkError(p) /\ call.tool = "ls"   -> Ls(p)
    [] ~WalkError(p) /\ call.tool = "glob" -> Glob(p)
    [] ~WalkError(p) /\ Scanning           -> Scan(p)
    [] ~WalkError(p) /\ call.tool = "rg"   -> Rg(p)
    [] OTHER              -> Indexing(p)

Place(p) == CHOOSE i \in DOMAIN Order : Order[i] = p

Visit ==
  /\ walk.pc = "walk" /\ walk.file = NotIndexing
  /\ \E p \in walk.left :
       LET do == Decision(p)
           rest == {q \in walk.left \ {p} : ~(do.prune /\ Dir(p) /\ q \in Below(p))}
       IN /\ \A q \in walk.left : Place(p) <= Place(q)
          /\ walk' = [walk EXCEPT
                !.left = IF do.stop THEN {} ELSE rest, !.layers = Layers(p),
                !.inodes = IF call.tool = "index" /\ ~Dir(p) /\ Fenced(p) THEN InodesFor(Real(p)) ELSE @,
                !.file = IF do.take /\ call.tool = "index" THEN [NotIndexing EXCEPT !.path = Real(p), !.phase = "check", !.size = Size(Real(p))] ELSE @]
          /\ tally' = [tally EXCEPT
                !.found = IF do.take /\ call.tool # "index" THEN Append(@, p) ELSE @,
                !.skipped = IF do.skip THEN @ \cup {p} ELSE @,
                !.more = @ \/ do.more]
  /\ UNCHANGED <<kind, rules, call, stock, changes>>

(* The time of a scan or of a search is over. *)
BudgetEnds ==
  /\ walk.pc = "walk" /\ (Scanning \/ call.tool = "rg")
  /\ walk' = [walk EXCEPT !.left = {}] /\ tally' = [tally EXCEPT !.more = TRUE]
  /\ UNCHANGED <<kind, rules, call, stock, changes>>

(* fuzzyScore: letters in order count more the more there are of them,     *)
(* without a bound.  The tiers of toolRelated: the file itself is left     *)
(* out, and a name of the same stem comes before a file beside it.         *)
FuzzyScore(name) ==
  CASE name = "same" -> 95 [] name = "part" -> 55 [] name = "spread" -> 1 [] name = "dense" -> 90 [] OTHER -> 0

Beside(p) == Above(p) \ {p} = Above(Real(call.root)) \ {Real(call.root)}

RelatedScore(p, name) ==
  IF p = Real(call.root) THEN 0
  ELSE CASE name = "pair"                    -> 100
         [] name = "same"                    -> 90
         [] name = "prefix" /\ ~Beside(p)    -> 30
         [] OTHER                            -> IF Beside(p) THEN 40 ELSE 0

Standing(p) == IF call.tool = "resolve" THEN FuzzyScore(call.like[p]) ELSE RelatedScore(p, call.like[p])

(* Neither sort settles every tie. *)
Ranked ==
  {r \in SetToSeqs({p \in Range(tally.found) : Standing(p) > 0}) :
     \A i, j \in DOMAIN r : i < j => Standing(r[i]) >= Standing(r[j])}

Finish ==
  /\ walk.pc = "walk" /\ walk.left = {} /\ walk.file = NotIndexing
  /\ walk' = [walk EXCEPT !.pc = "done"]
  /\ IF Scanning
     THEN \E r \in Ranked :
            LET shown == IF Len(r) > MaxHits THEN MaxHits ELSE Len(r)
            IN tally' = [tally EXCEPT !.found = SubSeq(r, 1, shown), !.more = @ \/ Len(r) > MaxHits]
     ELSE UNCHANGED tally
  /\ UNCHANGED <<kind, rules, call, stock, changes>>

-----------------------------------------------------------------------------
(* indexFileWithSensitive: all gates again, then an open that follows no   *)
(* link and a read that is cut off, and the checks of what was read.       *)
NotStored(p) ==
  /\ walk' = [walk EXCEPT !.file = NotIndexing]
  /\ tally' = IF Dir(call.root) THEN [tally EXCEPT !.skipped = @ \cup {p}] ELSE [tally EXCEPT !.failed = TRUE]
  /\ UNCHANGED stock

CheckFile ==
  LET p == walk.file.path
      q == Real(p)
      inodes == InodesFor(q)
  IN /\ walk.file.phase = "check" /\ UNCHANGED <<kind, rules, call, changes>>
     /\ IF \/ ~Fenced(p) \/ LeadsToSecret(p) \/ kind[q] \in {"fifo", "linkdead"}
           \/ SecretAlias(q, inodes) \/ Unfit(q)
        THEN NotStored(p)
        ELSE /\ walk' = [walk EXCEPT !.file = [@ EXCEPT !.path = q, !.phase = "read", !.was = kind[q]]]
             /\ UNCHANGED <<tally, stock>>

Stored(p) ==
  /\ stock' = stock \cup {<<p, kind[p], walk.file.was>>}
  /\ walk' = [walk EXCEPT !.file = NotIndexing]
  /\ tally' = [tally EXCEPT !.found = Append(@, p), !.bytes = @ + walk.file.size]

Opened(p, refuse) ==
  /\ walk.file.phase = "read" /\ UNCHANGED <<kind, rules, call, changes>>
  /\ IF refuse THEN NotStored(p) ELSE Stored(p)

(* No check but these is made of what was opened, of its inode or that it  *)
(* is a regular file.  A private key is refused as well, and the store may *)
(* fail.                                                                   *)
ReadEntry ==
  \E refuse \in BOOLEAN :
    /\ walk.file.phase = "read"
    /\ Link(walk.file.path) \/ Unfit(walk.file.path) \/ kind[walk.file.path] = "locked" => refuse
    /\ Opened(walk.file.path, refuse)

(* Somebody makes a file larger or binary, or puts a link, a pipe or a     *)
(* second name of another file in its place.                               *)
FileSwapped ==
  /\ walk.file # NotIndexing /\ changes < MaxChanges /\ changes' = changes + 1
  /\ Regular(walk.file.path)
  /\ \E k \in {"big", "binary", "alias", "fifo", "linksecret", "linkout", "linky"} :
       kind' = [kind EXCEPT ![walk.file.path] = k] /\ (k = "linky" => walk.file.path # "y")
  /\ UNCHANGED <<rules, call, walk, tally, stock>>

WalkEnded == walk.pc = "done" /\ UNCHANGED walkVars

WalkNext == Stat \/ Begin \/ Visit \/ BudgetEnds \/ Finish \/ CheckFile \/ ReadEntry \/ FileSwapped \/ WalkEnded

WalkSpec == WalkInit /\ [][WalkNext]_walkVars

-----------------------------------------------------------------------------
(* What a tool owes its caller, by the tree and not by the walk. *)
Shut(a) ==
  LET bases == {b \in Above(a) \cap Below(WalkRoot) : Dir(b)}
  IN \E b \in bases : /\ RuleSays(b, a) = "out"
                      /\ \A c \in bases \ {b} : RuleSays(c, a) = "none" \/ c \in Above(b)

Ignored(p) == \E a \in Above(p) \cap Below(WalkRoot) : Shut(a) /\ ~(call.tool = "rg" /\ a = WalkRoot)

Open(p) == \A a \in Above(p) \cap Below(WalkRoot) : ~Bulk(a)

(* No directory on the way to an entry, nor the entry itself, is locked.   *)
InView(p) == \A a \in Above(p) \cap Below(WalkRoot) : ~LockedDir(a)

Owed(p) ==
  /\ p \in Below(WalkRoot) /\ (call.tool # "stat" => Fenced(p) /\ InView(p))
  /\ CASE call.tool = "stat" -> p = WalkRoot
       [] call.tool = "ls" -> /\ p # WalkRoot /\ DepthOf(p) <= call.depth
                              /\ call.hidden \/ \A a \in Above(p) \cap Below(WalkRoot) : a = WalkRoot \/ ~Hidden(a)
       [] call.tool = "glob" -> Open(p) /\ ~Ignored(p) /\ ~Sensitive(p)
       [] Scanning -> Open(p) /\ ~Ignored(p) /\ Regular(p) /\ ~Sensitive(p) /\ Standing(p) > 0
       [] call.tool = "rg" -> Open(p) /\ ~Ignored(p) /\ Regular(p) /\ kind[p] \notin {"binary", "big", "secret", "locked"}
       [] OTHER -> FALSE

(* Files that index passes over without a note: below a directory that is  *)
(* bulky, or deeper than maxIndexDepth.                                    *)
PassedOver(p) == \E a \in Above(p) \cap Below(WalkRoot) : Bulk(a) \/ (Dir(a) /\ DepthOf(a) > call.depth)

(* A walk that is over has found exactly what the tool owes, each once, or *)
(* it says that there is more.  What cannot be read it does not owe: only  *)
(* index tells of a directory that it could not read, and no tool but      *)
(* index of a file (fs_tools.go:191, 402, 1776, 1847; fs_resolve.go:169).  *)
(* An index run has stored or counted every file there is, or a directory  *)
(* above it, save what lies too deep (main.go:637).                        *)
OmissionIsTold ==
  walk.pc = "done" /\ ~tally.failed =>
    /\ Len(tally.found) <= (IF Scanning THEN MaxHits ELSE MaxFound) /\ tally.bytes <= ByteCap
    /\ call.tool # "index" => /\ Range(tally.found) \subseteq {p \in Entries : Owed(p)}
                              /\ Cardinality(Range(tally.found)) = Len(tally.found)
    /\ ~tally.more =>
         IF call.tool # "index" THEN {p \in Entries : Owed(p)} \subseteq Range(tally.found)
         ELSE \A p \in Below(WalkRoot) :
                ~Dir(p) /\ ~PassedOver(p) => (Above(p) \cup {Real(p)}) \cap (Range(tally.found) \cup tally.skipped) # {}

(* Whatever happens to a file while it is indexed, what was checked last   *)
(* was a regular file that is inside, neither large nor binary, and no     *)
(* other name of a sensitive file of the workspace that the server can     *)
(* see, wherever the walk began and whatever it met first.  What is read   *)
(* into the store is that file, or what was put in its place between the   *)
(* check (main.go:1223) and the open (main.go:1252): any other that is     *)
(* neither a link, nor large, nor binary.                                  *)
StoredIsFit ==
  \A e \in stock :
    LET read == e[2]
        checked == e[3]
    IN /\ checked \in {"plain", "hidden", "locked", "alias"}
       /\ checked = "alias" => Collected = "nothing"
       /\ read \in {"alias", "fifo"} \/ (read = checked /\ read # "locked")
=============================================================================
