------------------------------- MODULE RgSearch -------------------------------
(***************************************************************************)
(* Concurrent ctx_fs searches (toolRg) under one root and one pattern: the *)
(* cache of git's dirty state (fs_rg_rank.go) and the map that spares an    *)
(* identical result a second indexing (fs_rg_summary.go).                  *)
(*                                                                         *)
(* The working tree is a number, its version; what git or rg finds is a    *)
(* function of it.  A result has more matches than the limit (only those   *)
(* are indexed), and it may be cut off by a cap or the time budget.  A     *)
(* purge deletes what was indexed; the map does not hear of it.            *)
(***************************************************************************)
EXTENDS Integers, FiniteSets, FiniteSetsExt

CONSTANTS
  Searches,    \* callers of toolRg, each with one call after the other
  MaxTree,     \* bound: versions of the working tree
  MaxClock,    \* bound: units of time
  DirtyTTL,    \* gitDirtyTTL, in units
  ReuseTTL,    \* the 10 minutes of rgIndexDedup, in units
  MaxEntries,  \* the 64 entries of rgIndexDedupMap
  Breaks       \* what may go wrong: "git", "rg", "index"

VARIABLES
  clock, tree,
  dirty,       \* gitDirtyCache of the root
  dedup,       \* rgIndexDedupMap (cut is history: what was the result stored?)
  kb,          \* the texts that the knowledge base has under their label
  gone,        \* history: when each text was last purged, or not indexed after all
  search       \* what each search has reached

rgVars == <<clock, tree, dirty, dedup, kb, gone, search>>

Times == 0 .. MaxClock

Trees == 0 .. MaxTree

(* A git state: the version that was probed, or that there is none. *)
NotGit == [isGit |-> FALSE, tree |-> 0]

GitStates == {NotGit} \cup [isGit : {TRUE}, tree : Trees]

(* The text that is hashed: the matches with git's tags. *)
Texts == [tree : Trees, git : GitStates]

NoText == [tree |-> 0, git |-> NotGit]

(* A key: is the result cut off?  Its other parts are the search's, which   *)
(* is the same each time.                                                  *)
Keys == BOOLEAN

NoEntry == [text |-> NoText, created |-> -1, cut |-> FALSE]

NotCached == [state |-> NotGit, expires |-> 0, seen |-> 0]

New == [pc |-> "new", began |-> 0, git |-> NotGit, seen |-> 0,
        text |-> NoText, cut |-> FALSE, reused |-> FALSE]

(* What is left of a search that has returned: what it reports, and when.  *)
Ended(pc, t, when) == [New EXCEPT !.pc = pc, !.text = t, !.began = when]

Never == -1

SearchPlaces == {"new", "probe", "save", "rg", "dedup", "index", "few", "indexed", "failed"}

RgTypeOK ==
  /\ clock \in Times /\ tree \in Trees
  /\ dirty \in [state : GitStates, expires : 0 .. MaxClock + DirtyTTL, seen : Times]
  /\ dedup \in [Keys -> [text : Texts, created : Times \cup {-1}, cut : BOOLEAN]]
  /\ kb \subseteq Texts /\ gone \in [Texts -> Times \cup {Never}]
  /\ search \in [Searches -> [pc : SearchPlaces, began : Times, git : GitStates, seen : Times,
                              text : Texts, cut : BOOLEAN, reused : BOOLEAN]]

RgInit ==
  /\ clock = 0 /\ tree = 0 /\ dirty = NotCached
  /\ dedup = [k \in Keys |-> NoEntry]
  /\ kb = {} /\ gone = [t \in Texts |-> Never] /\ search = [s \in Searches |-> New]

-----------------------------------------------------------------------------
Is(s, pc) == search[s].pc = pc

Becomes(s, r) == search' = [search EXCEPT ![s] = r]

OnlySearch == UNCHANGED <<clock, tree, dirty, dedup, kb, gone>>

(* A call, up to the first unlock of gitDirtyState. *)
Look(s) ==
  /\ search[s].pc \in {"new", "few", "indexed", "failed"} /\ OnlySearch
  /\ IF clock < dirty.expires
     THEN Becomes(s, [New EXCEPT !.pc = "rg", !.began = clock,
                                 !.git = dirty.state, !.seen = dirty.seen])
     ELSE Becomes(s, [New EXCEPT !.pc = "probe", !.began = clock])

(* git status runs without the lock, for two seconds at most. *)
Probe(s) ==
  /\ Is(s, "probe") /\ OnlySearch
  /\ \E g \in {[isGit |-> TRUE, tree |-> tree]} \cup {NotGit : b \in Breaks \cap {"git"}} :
       Becomes(s, [search[s] EXCEPT !.pc = "save", !.git = g, !.seen = clock])

ExpiryFromNow(s) == clock + DirtyTTL

(* The time to live counts from the beginning of the call.                 *)
Expiry(s) == search[s].began + DirtyTTL

Save(s) ==
  /\ Is(s, "save")
  /\ dirty' = [state |-> search[s].git, expires |-> Expiry(s), seen |-> search[s].seen]
  /\ Becomes(s, [search[s] EXCEPT !.pc = "rg"])
  /\ UNCHANGED <<clock, tree, dedup, kb, gone>>

(* rgDedupKey: a result that was cut off has a key of its own.             *)
Key(cut) == cut

(* rg, or the Go engine when rg fails and there is budget left.  With few  *)
(* matches, none, sensitive ones or an error the call returns at once.     *)
RunRg(s) ==
  /\ Is(s, "rg") /\ OnlySearch
  /\ \/ \E cut \in BOOLEAN :
          /\ cut => "rg" \in Breaks
          /\ Becomes(s, [search[s] EXCEPT !.pc = "dedup", !.cut = cut,
                           !.text = [tree |-> tree, git |-> search[s].git]])
     \/ Becomes(s, Ended("few", NoText, 0))

ReusableForever(k, t) == dedup[k] # NoEntry /\ dedup[k].text = t

Reusable(k, t) ==
  /\ dedup[k] # NoEntry /\ clock - dedup[k].created < ReuseTTL
  /\ dedup[k].text = t

Used(d) == {k \in Keys : d[k] # NoEntry}

(* At MaxEntries the oldest entry goes (one of the oldest, in the map's     *)
(* random order), also if the key to be stored is in the map already.      *)
MadeRoom(d) ==
  IF Cardinality(Used(d)) < MaxEntries THEN {d}
  ELSE {[d EXCEPT ![k] = NoEntry] :
          k \in {o \in Used(d) : \A x \in Used(d) : d[o].created <= d[x].created}}

(* rgIndexDedup, one critical section of rgIndexMu.                        *)
Dedup(s) ==
  LET k == Key(search[s].cut)
      t == search[s].text
  IN /\ Is(s, "dedup")
     /\ IF Reusable(k, t)
        THEN /\ Becomes(s, [Ended("indexed", t, clock) EXCEPT !.reused = TRUE])
             /\ UNCHANGED dedup
        ELSE /\ \E d \in MadeRoom(dedup) : dedup' = 
                [d EXCEPT ![k] = [text |-> t, created |-> clock, cut |-> search[s].cut]]
             /\ Becomes(s, [search[s] EXCEPT !.pc = "index"])
     /\ UNCHANGED <<clock, tree, dirty, kb, gone>>

(* storeIndexLocked under server.mu.  A failure is reported, and the entry *)
(* of the map stays.                                                       *)
IndexResult(s) ==
  /\ Is(s, "index") /\ UNCHANGED <<clock, tree, dirty, dedup>>
  /\ \/ /\ kb' = kb \cup {search[s].text} /\ UNCHANGED gone
        /\ Becomes(s, Ended("indexed", search[s].text, clock))
     \/ /\ "index" \in Breaks
        /\ gone' = [gone EXCEPT ![search[s].text] = clock] /\ UNCHANGED kb
        /\ Becomes(s, Ended("failed", NoText, 0))

RgStep(s) ==
  Look(s) \/ Probe(s) \/ Save(s) \/ RunRg(s) \/ Dedup(s) \/ IndexResult(s)

(* ctx_kb purge of the session or of the project: PurgeSessionKeys and     *)
(* PurgeAll both delete every document with a label of the session, in one *)
(* transaction.  rgIndexDedupMap keeps its entries.                        *)
PurgeIndexed ==
  /\ kb # {} /\ kb' = {}
  /\ gone' = [t \in Texts |-> IF t \in kb THEN clock ELSE gone[t]]
  /\ UNCHANGED <<clock, tree, dirty, dedup, search>>

TimePasses ==
  /\ clock < MaxClock /\ clock' = clock + 1
  /\ UNCHANGED <<tree, dirty, dedup, kb, gone, search>>

TreeChanges ==
  /\ tree < MaxTree /\ tree' = tree + 1
  /\ UNCHANGED <<clock, dirty, dedup, kb, gone, search>>

RgNext == (\E s \in Searches : RgStep(s)) \/ PurgeIndexed \/ TimePasses \/ TreeChanges

RgSpec == RgInit /\ [][RgNext]_rgVars

-----------------------------------------------------------------------------
(* A search ranks and tags its groups by a git state that was observed     *)
(* within the time to live before it began, whoever observed it and in     *)
(* whichever order slow probes were stored (fs_rg_rank.go:161).            *)
DirtyStateIsRecent ==
  \A s \in Searches :
    search[s].pc \in {"save", "rg", "dedup", "index"} =>
      search[s].began - search[s].seen < DirtyTTL

(* A label that is reported as indexed leads to its text, or will once the *)
(* search that was the first to find the text has indexed it.  Otherwise   *)
(* the text was lost, to a purge or to an indexing that failed, and the    *)
(* label is reported for less than ReuseTTL after that: the map is not     *)
(* told (fs_rg_summary.go:123), but no entry of it outlives that time.     *)
IndexedIsSearchable ==
  \A s \in Searches :
    Is(s, "indexed") =>
      \/ search[s].text \in kb
      \/ \E o \in Searches : Is(o, "index") /\ search[o].text = search[s].text
      \/ /\ gone[search[s].text] # Never
         /\ search[s].began - gone[search[s].text] < ReuseTTL
=============================================================================
