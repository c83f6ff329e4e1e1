------------------------------- MODULE ShellVars -------------------------------
(***************************************************************************)
(* What the shell screen knows about variables (shell_ast.go).  The screen *)
(* walks the parsed script and hands every command it finds to the guards, *)
(* with the variables in it replaced where their value is certain: bound    *)
(* once, at the top level, to a harmless literal, or bound by a for loop    *)
(* over literals.  A word that is not certain is handed over as dynamic.   *)
(*                                                                         *)
(* A script is a sequence of statements, its compounds hold simple ones.   *)
(* The second half of the module runs the script as a shell does.          *)
(***************************************************************************)
EXTENDS Naturals, Sequences, SequencesExt, FiniteSets

CONSTANTS
  Vars,      \* the variables of a script
  Abs,       \* safe absolute paths, which may become command heads
  Lits,      \* other safe literals
  Scripts    \* the scripts to look at

VARIABLES
  script,  \* the script
  coll,    \* the collector: what it knows of the variables,
  spot,    \* where it is in the script,
  emitted, \* and the set of what it has handed to the guards: <<site, value>>
  env,     \* the shell: its variables,
  place,   \* the top-level statement it is at,
  todo,    \* what is left to run of that,
  func,    \* the body of the function,
  last     \* and the word expanded last, and where

shellVars == <<script, coll, spot, emitted, env, place, todo, func, last>>

Dynamic == "dynamic"

None == "none"

Enclosing == {"sub", "block", "cond", "func", "for"}

Values == Abs \cup Lits \cup {Dynamic}

(* A statement: op, the variable, the value of an assignment or the items  *)
(* of a loop, the variable that is copied, the body of a compound.         *)
SimpleStmts ==
  [op : {"set", "unset", "head", "word", "call"}, v : Vars \cup {None}, vals : Seq(Values),
   from : Vars \cup {None}, body : {<<>>}]

Stmts ==
  SimpleStmts \cup [op : Enclosing, v : Vars \cup {None}, vals : Seq(Values), from : {None}, body : Seq(SimpleStmts)]

WellFormed(s) ==
  /\ s.op \in {"set", "unset", "head", "word", "for"} => s.v \in Vars
  /\ s.op = "set" /\ s.from = None => s.vals # <<>>

(* The statements of a script by their places: <<i, 0>> for statement i,   *)
(* <<i, j>> for statement j of its body.                                   *)
SitesOf(p) == UNION {{<<i, j>> : j \in 0 .. Len(p[i].body)} : i \in DOMAIN p}

StmtAt(p, site) == IF site[2] = 0 THEN p[site[1]] ELSE p[site[1]].body[site[2]]

ASSUME ScreenParameters ==
  /\ {Dynamic, None} \cap (Abs \cup Lits) = {} /\ None \notin Vars
  /\ \A p \in Scripts : p \in Seq(Stmts) /\ \A site \in SitesOf(p) : WellFormed(StmtAt(p, site))

-----------------------------------------------------------------------------
(* The collector. *)

WritesNoUnset(s) == s.op \in {"set", "for"}

Writes(s) == s.op \in {"set", "unset", "for"}

(* preScanVarMutations: a name that is written twice, wherever, is blocked.*)
SsaBlocked(p) ==
  {v \in Vars : \E a, b \in SitesOf(p) :
     a # b /\ \A c \in {a, b} : Writes(StmtAt(p, c)) /\ StmtAt(p, c).v = v}

(* known: staticVars and litVars, of which the first are those in Abs.     *)
NewCollector(p) == [known |-> [v \in Vars |-> None], tainted |-> SsaBlocked(p)]

(* The walk is at a statement, at one of its body, at an item of the loop. *)
Spot(again, stmt, item, next) == [again |-> again, stmt |-> stmt, item |-> item, next |-> next]

Walked == spot.stmt > Len(script)

Site == <<spot.stmt, spot.next>>

(* Nothing binds in a compound statement, not even in one that surely runs.*)
AllowBind == spot.next = 0

(* forEnumSubst: the body once for every item, or once without a binding.  *)
Enumerates(s) ==
  s.op = "for" /\ s.vals # <<>> /\ s.v \notin SsaBlocked(script) /\ Range(s.vals) \subseteq Abs \cup Lits

EnumVar(v) ==
  LET s == script[spot.stmt]
  IN IF ~AllowBind /\ Enumerates(s) /\ s.v = v THEN s.vals[spot.item] ELSE None

Taint(v) == [known |-> [coll.known EXCEPT ![v] = None], tainted |-> coll.tainted \cup {v}]

(* A bare $v: a binding for a command head must be an absolute path.       *)
Bare(v) == IF v \notin coll.tainted /\ coll.known[v] \in Abs THEN coll.known[v] ELSE Dynamic

(* $v within a word, or as what is assigned. *)
Payload(v, known) == IF EnumVar(v) # None THEN EnumVar(v) ELSE known

InWord(v) == Payload(v, IF v \in coll.tainted \/ coll.known[v] = None THEN Dynamic ELSE coll.known[v])

Value(s) == IF s.from # None THEN Payload(s.from, Bare(s.from)) ELSE s.vals[1]

(* noteStaticAssign *)
Note(v, val) ==
  IF ~AllowBind THEN Taint(v)
  ELSE IF v \in coll.tainted THEN coll
  ELSE IF val \notin Abs \cup Lits \/ coll.known[v] \notin {None, val} THEN Taint(v)
  ELSE [coll EXCEPT !.known[v] = val]

Onward ==
  LET s == script[spot.stmt]
  IN IF spot.next < Len(s.body) THEN Spot(spot.again, spot.stmt, spot.item, spot.next + 1)
     ELSE IF s.body # <<>> /\ Enumerates(s) /\ spot.item < Len(s.vals) THEN Spot(spot.again, spot.stmt, spot.item + 1, 1)
     ELSE Spot(spot.again, spot.stmt + 1, 1, 0)

(* walkStmt for what holds no statements, and for what does.               *)
WalkSimple ==
  LET s == StmtAt(script, Site)
  IN /\ ~Walked /\ s.op \notin Enclosing
     /\ coll' = IF s.op = "set" THEN Note(s.v, Value(s)) ELSE coll
     /\ emitted' = CASE s.op = "head" -> emitted \cup {<<Site, Payload(s.v, Bare(s.v))>>}
                      [] s.op = "word" -> emitted \cup {<<Site, InWord(s.v)>>}
                      [] OTHER         -> emitted
     /\ spot' = Onward
     /\ UNCHANGED <<script, env, place, todo, func, last>>

WalkInto ==
  LET s == StmtAt(script, Site)
  IN /\ ~Walked /\ s.op \in Enclosing
     /\ coll' = IF s.op = "for" THEN Taint(s.v) ELSE coll
     /\ spot' = Onward
     /\ UNCHANGED <<script, emitted, env, place, todo, func, last>>

(* The script is walked as the parser of the one shell read it and, if the *)
(* other parses it too, as that did, with one collector; the trees are the *)
(* same here.                                                              *)
WalkAgain ==
  /\ Walked /\ ~spot.again /\ place = 0
  /\ spot' = Spot(TRUE, 1, 1, 0)
  /\ UNCHANGED <<script, coll, emitted, env, place, todo, func, last>>

-----------------------------------------------------------------------------
(* The shell. *)

NoWord == [site |-> <<0, 0>>, val |-> None]

ShellInit ==
  /\ script \in Scripts
  /\ coll = NewCollector(script) /\ spot = Spot(FALSE, 1, 1, 0) /\ emitted = {}
  /\ env = [v \in Vars |-> "inherited"]
  /\ place = 0 /\ todo = <<>> /\ func = <<>> /\ last = NoWord

BodyOf(s, i) == [j \in DOMAIN s.body |-> [stmt |-> s.body[j], site |-> <<i, j>>]]

(* The end of a subshell, which forgets what it assigned. *)
Leave(saved) == [stmt |-> [op |-> "leave", vals |-> saved], site |-> <<0, 0>>]

(* What a compound, or a call of the function, makes the shell run: of a   *)
(* loop the body and then the loop over the items that remain.             *)
Unfolded(s, site) ==
  CASE s.op = "sub"   -> {BodyOf(s, site[1]) \o <<Leave(env)>>}
    [] s.op = "block" -> {BodyOf(s, site[1])}
    [] s.op = "cond"  -> {<<>>, BodyOf(s, site[1]), BodyOf(s, site[1]) \o BodyOf(s, site[1])}
    [] s.op = "for" /\ s.vals # <<>> ->
         {BodyOf(s, site[1]) \o <<[stmt |-> [s EXCEPT !.vals = Tail(@)], site |-> site]>>}
    [] s.op = "call"  -> {func}
    [] OTHER          -> {<<>>}

(* What a statement leaves in the variables e. *)
After(s, e) ==
  CASE s.op = "set"                  -> [e EXCEPT ![s.v] = IF s.from # None THEN e[s.from] ELSE s.vals[1]]
    [] s.op = "unset"                -> [e EXCEPT ![s.v] = "unset"]
    [] s.op = "for" /\ s.vals # <<>> -> [e EXCEPT ![s.v] = Head(s.vals)]
    [] s.op = "leave"                -> s.vals
    [] OTHER                         -> e

Runs(s, site, rest) ==
  /\ env' = After(s, env)
  /\ last' = IF s.op \in {"head", "word"} THEN [site |-> site, val |-> env[s.v]] ELSE last
  /\ func' = IF s.op = "func" THEN BodyOf(s, site[1]) ELSE func
  /\ \E more \in Unfolded(s, site) : todo' = more \o rest

RunStmt ==
  /\ Walked /\ UNCHANGED <<script, coll, spot, emitted>>
  /\ \/ todo = <<>> /\ place < Len(script) /\ place' = place + 1 /\ Runs(script[place'], <<place', 0>>, <<>>)
     \/ todo # <<>> /\ place' = place /\ Runs(Head(todo).stmt, Head(todo).site, Tail(todo))

ShellEnded == Walked /\ place = Len(script) /\ todo = <<>> /\ UNCHANGED shellVars

ShellNext == WalkSimple \/ WalkInto \/ WalkAgain \/ RunStmt \/ ShellEnded

ShellSpec == ShellInit /\ [][ShellNext]_shellVars

-----------------------------------------------------------------------------
(* Whenever the shell expands a word, the guards have seen the command     *)
(* with just that value, or with the word as dynamic.                      *)
EveryWordIsScreened ==
  last # NoWord => {<<last.site, last.val>>, <<last.site, Dynamic>>} \cap emitted # {}
=============================================================================
