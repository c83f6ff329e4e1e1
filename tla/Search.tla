-------------------------------- MODULE Search --------------------------------
(***************************************************************************)
(* A search of the knowledge base (search.go, store.go, toolSearch of      *)
(* main.go, the searches at the end of a batch): the opening of the store, *)
(* which may find the database of an earlier version or of a server that   *)
(* was killed, the verdict of the flood guard, one query of each full-text *)
(* index, the fusion of the two rankings and the answer.  The queries are  *)
(* two statements, and other tools write to the store in between.          *)
(***************************************************************************)
EXTENDS Naturals, Sequences, SequencesExt, FiniteSets, FiniteSetsExt

CONSTANTS
  Docs,       \* the documents
  Prefixed,   \* those under the prefix of the scope: rg results, or a batch run
  Limits,     \* how many results a caller asks for: 20, or 5 of a batch
  MaxWrites   \* bound: changes of the store

ASSUME SearchParameters ==
  IsFiniteSet(Docs) /\ Prefixed \subseteq Docs /\ Limits \subseteq Nat \ (0 .. 3) /\ MaxWrites \in Nat

VARIABLES
  db,       \* how many tables the database has, how far it is opened, what its probe has missed
  index,    \* the documents that each full-text index has
  stored,   \* the documents in the store
  matching, \* what each index finds in a document, apart from its being stored
  query,    \* the caller's scope and limit, and how many words it has
  found,    \* the two rankings, or that a query failed
  reply,    \* how far the search has come
  writes    \* changes so far

searchVars == <<db, index, stored, matching, query, found, reply, writes>>

Rankings(S) == SetToSeqs(S)

NotAsked == [ok |-> TRUE, docs |-> <<>>]

Failed == [ok |-> FALSE, docs |-> <<>>]

(* The tables in the order in which the versions have got them.            *)
Tables == <<"documents", "porter", "trigram">>

Indexes == {"porter", "trigram"}

Queries == [scope : {"", "rg", "batch"}, limit : Limits, words : {1, 2}]

NoQuery == [scope |-> "", limit |-> 0, words |-> 0]

(* A database of some version: what it has no index for, its triggers have *)
(* not filled.                                                             *)
SearchInit ==
  /\ stored \in {Docs, Prefixed, {}} /\ writes = 0
  /\ \E n \in 0 .. Len(Tables) :
       /\ n = 0 => stored = {}
       /\ db = [tables |-> n, pc |-> "file", blind |-> FALSE]
       /\ index = [i \in Indexes |-> IF \E k \in 1 .. n : Tables[k] = i THEN stored ELSE {}]
  /\ matching = [porter |-> {}, trigram |-> {}] /\ query = NoQuery
  /\ found = [porter |-> NotAsked, trigram |-> NotAsked]
  /\ reply = [pc |-> "idle", docs |-> <<>>, corrected |-> FALSE]

Becomes(pc, docs, corrected) == reply' = [pc |-> pc, docs |-> docs, corrected |-> corrected]

-----------------------------------------------------------------------------
(* NewStore: the tables that are missing, each by a statement of its own,  *)
(* the triggers, and a look at whether the indexes are sound.              *)
Opens(pc) == db' = [db EXCEPT !.pc = pc]

Opening == <<stored, matching, query, found, reply, writes>>

CreateTable ==
  /\ db.pc = "file" /\ UNCHANGED <<index, Opening>>
  /\ IF db.tables < Len(Tables) THEN db' = [db EXCEPT !.tables = @ + 1] ELSE Opens("health")

(* FTS5Health: the counts are those of the documents themselves, whatever  *)
(* an index has.  The probe asks one index for the first word of one       *)
(* document.  There may be none; another document may have it; and of a    *)
(* word that is cut at eight letters the index may know nothing.           *)
Words == {"none", "own", "shared", "cut"}

Sound(d, word) ==
  CASE word = "none"   -> TRUE
    [] word = "own"    -> d \in index.porter
    [] word = "shared" -> index.porter # {}
    [] OTHER           -> FALSE

CheckHealth ==
  /\ db.pc = "health" /\ UNCHANGED <<index, Opening>>
  /\ \/ stored = {} /\ Opens("secure")
     \/ \E d \in stored, word \in Words :
          IF Sound(d, word)
          THEN db' = [db EXCEPT !.pc = "secure", !.blind = @ \/ d \notin index.porter]
          ELSE Opens("porter")

(* Two statements. *)
Rebuild ==
  /\ db.pc \in Indexes /\ index' = [index EXCEPT ![db.pc] = stored] /\ UNCHANGED Opening
  /\ db' = [db EXCEPT !.pc = IF db.pc = "porter" THEN "trigram" ELSE "secure", !.blind = FALSE]

Secured == db.pc = "secure" /\ Opens("open") /\ UNCHANGED <<index, Opening>>

(* A step fails or the server is killed; the next start begins anew.       *)
OpenFails == db.pc # "open" /\ db.pc # "file" /\ Opens("file") /\ UNCHANGED <<index, Opening>>

(* The server is started again. *)
Reopen == db.pc = "open" /\ reply.pc = "idle" /\ Opens("file") /\ UNCHANGED <<index, Opening>>

-----------------------------------------------------------------------------
(* What is searched for, and what of it an index finds in a document.      *)
Ask ==
  /\ db.pc = "open" /\ reply.pc = "idle" /\ UNCHANGED <<db, index, stored, found, writes>>
  /\ Becomes("new", <<>>, FALSE) /\ query' \in Queries
  /\ matching' \in IF \A i \in Indexes : index[i] = stored THEN [Indexes -> SUBSET Docs] ELSE {[i \in Indexes |-> Docs]}

Halved(limit) == IF limit > 1 THEN Max({1, limit \div 2}) ELSE limit

(* The searches of a batch ask no guard.                                   *)
GuardVerdict ==
  /\ reply.pc = "new" /\ UNCHANGED <<db, index, stored, matching, found, writes>>
  /\ \/ Becomes("porter", <<>>, FALSE) /\ UNCHANGED query
     \/ /\ query.scope # "batch"
        /\ \/ Becomes("porter", <<>>, FALSE) /\ query' = [query EXCEPT !.limit = Halved(@)]
           \/ Becomes("blocked", <<>>, FALSE) /\ UNCHANGED query

(* What an index returns: the best, in its own order.  A query that cannot *)
(* be parsed is repeated with its words quoted one by one.                 *)
ExtraLimit == Max({30, 3 * query.limit})

InScope == IF query.scope = "" THEN Docs ELSE Prefixed

Results(i) ==
  {[ok |-> TRUE, docs |-> SubSeq(r, 1, Min({Len(r), ExtraLimit}))] :
     r \in Rankings(index[i] \cap matching[i] \cap InScope)} \cup {Failed}

SearchPorter ==
  /\ reply.pc = "porter" /\ Becomes("trigram", <<>>, FALSE)
  /\ \E r \in Results("porter") : found' = [found EXCEPT !.porter = r]
  /\ UNCHANGED <<db, index, stored, matching, query, writes>>

SearchTrigram ==
  /\ reply.pc = "trigram" /\ Becomes("merge", <<>>, FALSE)
  /\ \E r \in Results("trigram") : found' = [found EXCEPT !.trigram = r]
  /\ UNCHANGED <<db, index, stored, matching, query, writes>>

-----------------------------------------------------------------------------
(* Reciprocal rank fusion. *)

RankIn(s, d) == CHOOSE i \in DOMAIN s : s[i] = d

(* The sum of 1 / (60 + rank) over the rankings that have a document; as   *)
(* fractions, <<numerator, denominator>>.                                  *)
Share(s, d) == IF d \in Range(s) THEN <<1, 60 + RankIn(s, d)>> ELSE <<0, 1>>

Total(a, b) == <<a[1] * b[2] + b[1] * a[2], a[2] * b[2]>>

Score(p, t, d) == Total(Share(p, d), Share(t, d))

NotLess(a, b) == a[1] * b[2] >= b[1] * a[2]

(* The sort is not stable and the entries come out of a map: any order     *)
(* that agrees with the scores.                                            *)
Merged(p, t, limit) ==
  {SubSeq(r, 1, Min({Len(r), limit})) :
     r \in {o \in Rankings(Range(p) \cup Range(t)) :
              \A i, j \in DOMAIN o : i < j => NotLess(Score(p, t, o[i]), Score(p, t, o[j]))}}

TooFewPorter(results, p, t) == Len(p) < 2 /\ Len(t) > Len(p)

(* The fuzzy fallback: what was found by substrings only.                  *)
TooFew(results, p, t) == Len(results) < 2 /\ Len(t) > Len(p)

(* The density of the marks in a snippet may turn results around.          *)
Reranked(results) ==
  IF Len(results) > 1 /\ query.words > 1 THEN Rankings(Range(results)) ELSE {results}

NothingToSay(p, t) ==
  (~p.ok /\ ~t.ok) \/ (~p.ok /\ t.docs = <<>>) \/ (~t.ok /\ p.docs = <<>>)

Merge ==
  LET p == found.porter
      t == found.trigram
  IN /\ reply.pc = "merge" /\ UNCHANGED <<db, index, stored, matching, query, found, writes>>
     /\ IF NothingToSay(p, t) THEN Becomes("error", <<>>, FALSE)
        ELSE \E results \in Merged(p.docs, t.docs, query.limit) :
               LET corrected == TooFew(results, p.docs, t.docs)
                   first     == IF corrected THEN SubSeq(t.docs, 1, Min({Len(t.docs), query.limit})) ELSE results
               IN \E r \in Reranked(first) :
                    Becomes(IF r = <<>> THEN "nothing" ELSE "found", r, corrected)

(* Another tool indexes or purges; the triggers do the same to the indexes *)
(* in the same transaction.                                                *)
Written(S, old, new) == (S \ old) \cup new

StoreChanges ==
  /\ db.pc = "open" /\ writes < MaxWrites /\ writes' = writes + 1 /\ reply.pc \in {"idle", "porter", "trigram"}
  /\ \E d \in Docs : \E new \in {{}, {d}} :
       /\ stored' = Written(stored, {d}, new)
       /\ index' = [i \in Indexes |-> Written(index[i], {d}, new)]
  /\ UNCHANGED <<db, matching, query, found, reply>>

SearchEnded == reply.pc \in {"blocked", "error", "nothing", "found"} /\ UNCHANGED searchVars

SearchNext ==
  \/ CreateTable \/ CheckHealth \/ Rebuild \/ Secured \/ OpenFails \/ Reopen \/ Ask
  \/ GuardVerdict \/ SearchPorter \/ SearchTrigram \/ Merge \/ StoreChanges \/ SearchEnded

SearchSpec == SearchInit /\ [][SearchNext]_searchVars

-----------------------------------------------------------------------------
Before(s, d, e) == d \in Range(s) /\ (e \in Range(s) => RankIn(s, d) < RankIn(s, e))

(* No document that both indexes rank before another is left out for it,   *)
(* whatever is cut off or reranked; the fuzzy fallback, which replaces the *)
(* fusion by one ranking, loses nothing that was found; no document comes  *)
(* twice; and "no matches" is the answer only if both indexes said so      *)
(* (search.go:282: one side failing with an empty other side is not).      *)
(* The indexes know no document that is gone, and the first one knows all  *)
(* there are once the store is open, wherever an earlier opening ended,    *)
(* unless its probe has taken one document for another or had no word.     *)
SearchIsFair ==
  LET p == found.porter.docs
      t == found.trigram.docs
  IN /\ reply.pc = "found" =>
          /\ Cardinality(Range(reply.docs)) = Len(reply.docs) /\ Len(reply.docs) <= query.limit
          /\ \A d \in Docs \ Range(reply.docs), e \in Range(reply.docs) : ~(Before(p, d, e) /\ Before(t, d, e))
          /\ reply.corrected => Range(p) \cup Range(t) \subseteq Range(reply.docs)
     /\ reply.pc = "nothing" => found.porter = NotAsked /\ found.trigram = NotAsked
     /\ \A i \in Indexes : index[i] \subseteq stored
     /\ db.pc = "open" /\ ~db.blind => index.porter = stored
=============================================================================
