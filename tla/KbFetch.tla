------------------------------- MODULE KbFetch -------------------------------
(***************************************************************************)
(* Fetching one URL into the knowledge base (fetch.go, store.go, purge.go),*)
(* in one source and format: the documents under its path, its row in      *)
(* fetch_cache, the singleflight group that merges concurrent downloads,   *)
(* and the batches of calls that share a context and a semaphore.          *)
(*                                                                         *)
(* A page is a number, its version at the origin server; 0 is none.  An    *)
(* action is one statement of SQLite (database/sql has one connection),    *)
(* one critical section of server.mu or of the group, or one download.     *)
(* Chunks of a version are replaced in one transaction, so the documents   *)
(* are of one version.                                                     *)
(***************************************************************************)
EXTENDS Integers, FiniteSets

CONSTANTS
  Calls,        \* calls of fetchAndIndex
  BatchOf,      \* the ctx_kb call that each belongs to
  Slots,        \* maxConcurrency
  Kinds,        \* "normal", "force" (force:true), "direct" (ttl_ms:0)
  MaxVersion,   \* bound: versions of the page
  Secret,       \* versions that checkSensitiveContent refuses
  MaxPurges,    \* bound: purges
  Cancellable,  \* bound: the batches whose client gives up
  Failures      \* "net", "read", "tx", "secure", "row", "delete"

NoFlight == "nobody"

ASSUME FetchAssumption ==
  /\ DOMAIN BatchOf = Calls /\ IsFiniteSet(Calls) /\ NoFlight \notin Calls
  /\ Slots \in Nat \ {0} /\ MaxVersion \in Nat \ {0} /\ MaxPurges \in Nat
  /\ Kinds \subseteq {"normal", "force", "direct"}
  /\ Secret \subseteq 1 .. MaxVersion
  /\ Failures \subseteq {"net", "read", "tx", "secure", "row", "delete"}

Batches == {BatchOf[c] : c \in Calls}

None == 0

Versions == 0 .. MaxVersion

VARIABLES
  page,       \* what the origin server has
  docs,       \* the version that search finds
  row,        \* the version in the cache row
  leader,     \* who runs the function of fetchGroup.Do
  call,       \* what each call has reached
  kind,       \* the arguments of each batch
  cancelled,  \* the batches whose context has been cancelled
  purges,     \* purges so far
  apart       \* history: a purge, a direct fetch or a failed count went between the two tables

vars == <<page, docs, row, leader, call, kind, cancelled, purges, apart>>

Places == {"new", "queued", "look", "count", "backfill", "drop", "check", "join",
           "download", "index", "store", "end", "wait", "done"}

Call == [pc : Places, v : Versions, refused : BOOLEAN,
         cut : BOOLEAN]

NoCall == [pc |-> "new", v |-> None, refused |-> FALSE,
           cut |-> FALSE]

(* The calls that hold a slot of their batch's semaphore.                  *)
Holding(b) == {c \in Calls : BatchOf[c] = b /\ call[c].pc \notin {"new", "queued", "done"}}

TypeOK ==
  /\ page \in 1 .. MaxVersion /\ docs \in Versions
  /\ row \in Versions
  /\ leader \in Calls \cup {NoFlight}
  /\ call \in [Calls -> Call]
  /\ kind \in [Batches -> Kinds]
  /\ cancelled \subseteq Cancellable
  /\ purges \in 0 .. MaxPurges /\ apart \in BOOLEAN
  /\ \A b \in Batches : Cardinality(Holding(b)) <= Slots

(* The call returns: with a result, or (cut) because a context was         *)
(* cancelled.  Other errors are results like any other.                    *)
Finished(cut) == [NoCall EXCEPT !.pc = "done", !.cut = cut]

(* The store is that of an earlier session: the documents may have been    *)
(* purged, the row may be from before the content screen.  A batch may     *)
(* have fewer calls than Calls holds for it.                               *)
Init ==
  /\ page \in 1 .. MaxVersion
  /\ row \in 0 .. page
  /\ docs \in {None, row} \ Secret
  /\ leader = NoFlight
  /\ call \in [Calls -> {NoCall, Finished(FALSE)}]
  /\ kind \in [Batches -> Kinds]
  /\ cancelled = {} /\ purges = 0 /\ apart = (docs # row)

-----------------------------------------------------------------------------
Cancelled(c) == BatchOf[c] \in cancelled

Kind(c) == kind[BatchOf[c]]

At(c, pc) == call[c].pc = pc

Goes(c, pc) == call' = [call EXCEPT ![c].pc = pc]

Returns(c) == call' = [call EXCEPT ![c] = Finished(FALSE)]

IsCutShort(c) == call' = [call EXCEPT ![c] = Finished(TRUE)]

StoreUnchanged == UNCHANGED <<docs, row>>

WorldUnchanged == UNCHANGED <<page, kind, cancelled, purges>>

(* ReplaceExactAndChunks behind indexContentLocked: what it may leave      *)
(* behind for version v.  The last failure comes after the commit.         *)
Replaced(v) ==
  IF v \in Secret THEN {[docs |-> docs, err |-> TRUE]}
  ELSE {[docs |-> v, err |-> FALSE]}
         \cup {[docs |-> docs, err |-> TRUE] : f \in Failures \cap {"tx"}}
         \cup {[docs |-> v, err |-> TRUE] : f \in Failures \cap {"secure"}}

(* DeleteCached. *)
RowDropped == row' = None \/ ("delete" \in Failures /\ UNCHANGED row)

-----------------------------------------------------------------------------
(* batchFetchAndIndex: a goroutine for each URL, Slots of them at a time.  *)

StartBatch(b) ==
  /\ \E c \in Calls : BatchOf[c] = b /\ At(c, "new")
  /\ call' = [c \in Calls |-> IF BatchOf[c] = b /\ At(c, "new") THEN [call[c] EXCEPT !.pc = "queued"] ELSE call[c]]
  /\ StoreUnchanged /\ WorldUnchanged /\ UNCHANGED <<leader, apart>>

Begin(c) ==
  /\ At(c, "queued") /\ Cardinality(Holding(BatchOf[c])) < Slots
  /\ StoreUnchanged /\ WorldUnchanged /\ UNCHANGED <<leader, apart>>
  /\ IF Cancelled(c) THEN IsCutShort(c)
     ELSE Goes(c, IF Kind(c) = "normal" THEN "look" ELSE "check")

(* GetCached.  A failed read counts as no row, and so does a row that is    *)
(* older than the TTL this call has asked for.                             *)
ReadCache(c) ==
  /\ At(c, "look")
  /\ \/ row # None /\ call' = [call EXCEPT ![c].pc = "count", ![c].v = row]
     \/ Goes(c, "check")
  /\ StoreUnchanged /\ WorldUnchanged /\ UNCHANGED <<leader, apart>>

CountNothing(c) ==
  /\ At(c, "count")
  /\ StoreUnchanged /\ WorldUnchanged /\ UNCHANGED <<leader, apart>>
  /\ Returns(c)

(* CountExactAndChunks: the documents may be gone although the row is not. *)
Count(c) ==
  /\ At(c, "count")
  /\ StoreUnchanged /\ WorldUnchanged /\ UNCHANGED <<leader, apart>>
  /\ \/ docs # None /\ Returns(c)
     \/ (docs = None \/ "read" \in Failures) /\ Goes(c, "backfill")

(* The cache hit indexes the row that it read two statements ago, also over *)
(* documents that it could not count.                                      *)
Backfill(c) ==
  /\ At(c, "backfill")
  /\ \E o \in Replaced(call[c].v) :
       /\ docs' = o.docs
       /\ IF o.err THEN call' = [call EXCEPT ![c].pc = "drop"]
          ELSE Returns(c)
  /\ apart' = (apart \/ docs # None)
  /\ WorldUnchanged /\ UNCHANGED <<row, leader>>

DropRow(c) ==
  /\ At(c, "drop") /\ RowDropped
  /\ UNCHANGED docs /\ Returns(c)
  /\ WorldUnchanged /\ UNCHANGED <<leader, apart>>

(* validateURL and the context, before anything leaves the machine.        *)
Check(c) ==
  /\ At(c, "check")
  /\ StoreUnchanged /\ WorldUnchanged /\ UNCHANGED <<leader, apart>>
  /\ \/ Cancelled(c) /\ IsCutShort(c)
     \/ "net" \in Failures /\ Returns(c)
     \/ ~Cancelled(c) /\ Goes(c, IF Kind(c) = "direct" THEN "download" ELSE "join")

LeadAnyway(c) ==
  /\ At(c, "join") /\ leader' = (IF leader = NoFlight THEN c ELSE leader) /\ Goes(c, "download")
  /\ StoreUnchanged /\ WorldUnchanged /\ UNCHANGED apart

(* fetchGroup.Do: run the function, or wait for who runs it.               *)
JoinFlight(c) ==
  /\ At(c, "join")
  /\ \/ leader = NoFlight /\ leader' = c /\ Goes(c, "download")
     \/ leader # NoFlight /\ Goes(c, "wait") /\ UNCHANGED leader
  /\ StoreUnchanged /\ WorldUnchanged /\ UNCHANGED apart

InterruptibleAlways(c) == Cancelled(c)

(* A direct fetch runs under the caller's context, a flight does not       *)
(* (context.WithoutCancel).  An error page or a failed conversion is a     *)
(* failure, too.                                                           *)
Interruptible(c) == Kind(c) = "direct" /\ Cancelled(c)

Download(c) ==
  /\ At(c, "download")
  /\ StoreUnchanged /\ WorldUnchanged /\ UNCHANGED <<leader, apart>>
  /\ \/ call' = [call EXCEPT ![c].pc = "index", ![c].v = page]
     \/ /\ "net" \in Failures \/ Interruptible(c)
        /\ IF Kind(c) = "direct" THEN call' = [call EXCEPT ![c] = Finished(Interruptible(c))]
           ELSE call' = [call EXCEPT ![c].pc = "end", ![c].cut = Interruptible(c)]

(* indexContentLocked of what was downloaded. *)
Index(c) ==
  /\ At(c, "index")
  /\ \E o \in Replaced(call[c].v) :
       LET r == [call[c] EXCEPT !.refused = o.err]
       IN /\ docs' = o.docs
          /\ IF Kind(c) = "direct" THEN Returns(c)
             ELSE call' = [call EXCEPT ![c] = [r EXCEPT !.pc = "store"]]
  /\ apart' = (apart \/ Kind(c) = "direct")
  /\ WorldUnchanged /\ UNCHANGED <<row, leader>>

StoreRowAnyway(c) ==
  /\ At(c, "store") /\ row' = call[c].v /\ Goes(c, "end")
  /\ WorldUnchanged /\ UNCHANGED <<docs, leader, apart>>

(* The second critical section of a flight.  Its errors are only logged;   *)
(* SetCache that fails to secure the files has written the row.            *)
StoreRow(c) ==
  /\ At(c, "store") /\ Goes(c, "end")
  /\ IF call[c].refused THEN RowDropped
     ELSE row' = call[c].v \/ ("row" \in Failures /\ UNCHANGED row)
  /\ WorldUnchanged /\ UNCHANGED <<docs, leader, apart>>

AnsweredFirst(c) == {c}

(* The flight is over: all who wait for it get the same result.            *)
Answered(c) == {w \in Calls : w = c \/ At(w, "wait")}

FlightEnds(c) ==
  /\ At(c, "end") /\ leader' = NoFlight
  /\ call' = [w \in Calls |->
       IF w \notin Answered(c) THEN call[w]
       ELSE Finished(call[c].cut)]
  /\ StoreUnchanged /\ WorldUnchanged /\ UNCHANGED apart

Step(c) ==
  \/ Begin(c) \/ ReadCache(c) \/ Count(c) \/ Backfill(c) \/ DropRow(c) \/ Check(c)
  \/ JoinFlight(c) \/ Download(c) \/ Index(c) \/ StoreRow(c) \/ FlightEnds(c)

-----------------------------------------------------------------------------
(* Purges and the world. *)

Purge ==
  /\ purges < MaxPurges /\ purges' = purges + 1
  /\ docs' = None /\ apart' = TRUE
  /\ UNCHANGED <<page, leader, call, kind, cancelled>>

(* scope=project, confirmed by name: both tables in one transaction.  The  *)
(* vacuum after it, failing or not, changes neither.                       *)
PurgeProject == Purge /\ row' = None

(* scope=session: the documents under session:{id}: and no cache row.      *)
PurgeSession == Purge /\ UNCHANGED row

(* named: by the knowledge base's name, or with the id of the session.     *)
PurgeArgs == [dryRun : BOOLEAN, confirm : BOOLEAN, named : BOOLEAN,
              scope : {"project", "session", "neither"}]

Confirmed(a) == ~a.dryRun /\ a.confirm /\ a.named

(* Any other call of the tool is told why and changes nothing.             *)
ToolPurge ==
  \E a \in PurgeArgs :
    /\ Confirmed(a)
    /\ \/ a.scope = "project" /\ PurgeProject
       \/ a.scope = "session" /\ PurgeSession

PageChanges ==
  /\ page < MaxVersion /\ page' = page + 1
  /\ UNCHANGED <<docs, row, leader, call, kind, cancelled, purges, apart>>

(* PruneCache in a flight of another URL takes rows of seven days.         *)
RowPruned ==
  /\ row # None /\ row' = None
  /\ UNCHANGED <<page, docs, leader, call, kind, cancelled, purges, apart>>

CancelBatch(b) ==
  /\ b \in Cancellable \ cancelled /\ \E c \in Calls : BatchOf[c] = b /\ call[c].pc \notin {"new", "done"}
  /\ cancelled' = cancelled \cup {b}
  /\ UNCHANGED <<page, docs, row, leader, call, kind, purges, apart>>

AllDone == (\A c \in Calls : At(c, "done")) /\ UNCHANGED vars

Next ==
  \/ \E b \in Batches : StartBatch(b) \/ CancelBatch(b)
  \/ \E c \in Calls : Step(c)
  \/ ToolPurge \/ PageChanges \/ RowPruned
  \/ AllDone

Spec == Init /\ [][Next]_vars

(* Goroutines run; a download ends by its timeout at the latest.           *)
FairSpec == Spec /\ \A c \in Calls : WF_vars(Step(c))

-----------------------------------------------------------------------------
(* What the content screen refuses enters neither table, by whatever path: *)
(* a row of an older program is not copied into the documents by a cache   *)
(* hit, and a refused download is not cached (fetch.go:829).               *)
RefusedNotStored ==
  [][docs' \notin Secret /\ (row' \in Secret => row' = row)]_vars

(* Downloads of one URL do not overtake each other on their way to the     *)
(* cache: the row never goes back to an older version of the page.         *)
RowNeverGoesBack == [][row # None /\ row' # None => row' >= row]_vars

(* A caller that shares a download is not cancelled with the one who       *)
(* happened to start it (fetch.go:800).                                    *)
NotCancelledByOthers == \A c \in Calls : call[c].cut => Cancelled(c)

(* A cache hit returns without an IndexError. *)
HitReturns(c) == call[c].pc \in {"count", "backfill"} /\ call'[c].pc = "done"

(* A cache hit whose documents were purged before it brings them back: a   *)
(* search right after it finds the URL.  As long as only cached fetches    *)
(* write, what it finds is not older than the version that the hit has     *)
(* just reported.                                                          *)
HitIsBacked ==
  [][\A c \in Calls : HitReturns(c) => docs' # None /\ (~apart => docs' >= call[c].v)]_vars

(* Every call of a batch gets a result, also those that wait for the       *)
(* flight of another batch or for a slot.                                  *)
AllReturn == \A c \in Calls : At(c, "queued") ~> At(c, "done")
=============================================================================
