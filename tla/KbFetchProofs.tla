---------------------------- MODULE KbFetchProofs ----------------------------
(* Theorems about KbFetch, for any number of calls and batches, any number *)
(* of versions of the page and any set of failures.                        *)
EXTENDS KbFetch, FiniteSetTheorems, TLAPS

(* TypeOK without its bound on the slots. *)
Types ==
  /\ page \in 1 .. MaxVersion /\ docs \in Versions
  /\ row \in Versions
  /\ leader \in Calls \cup {NoFlight}
  /\ call \in [Calls -> Call]
  /\ kind \in [Batches -> Kinds]
  /\ cancelled \subseteq Cancellable
  /\ purges \in 0 .. MaxPurges /\ apart \in BOOLEAN

LEMMA Constants ==
  /\ \A c \in Calls : BatchOf[c] \in Batches
  /\ MaxVersion \in Nat \ {0} /\ MaxPurges \in Nat /\ Slots \in Nat \ {0}
  /\ None \in Versions /\ None \notin Secret
  /\ \A v \in Versions : v \in Nat
BY FetchAssumption DEF Batches, None, Versions

(* What replacing the documents leaves: the old ones, or those of the new  *)
(* version, which the screen has let through.                              *)
LEMMA ReplacedShape ==
  ASSUME NEW v, NEW o \in Replaced(v)
  PROVE  /\ o.docs = docs \/ (o.docs = v /\ v \notin Secret)
         /\ ~o.err => o.docs = v /\ v \notin Secret
         /\ o.err \in BOOLEAN
<1>1. o = [docs |-> docs, err |-> TRUE] \/ (v \notin Secret /\ \E e \in BOOLEAN : o = [docs |-> v, err |-> e])
  <2>1. CASE v \in Secret
    BY <2>1, Zenon DEF Replaced
  <2>2. CASE v \notin Secret
    BY <2>2, Zenon DEF Replaced
  <2> QED
    BY <2>1, <2>2
<1>2. CASE o = [docs |-> docs, err |-> TRUE]
  BY <1>2
<1>3. CASE v \notin Secret /\ o = [docs |-> v, err |-> TRUE]
  BY <1>3
<1>4. CASE v \notin Secret /\ o = [docs |-> v, err |-> FALSE]
  BY <1>4
<1> QED
  BY <1>1, <1>2, <1>3, <1>4

LEMMA CallTypes == NoCall \in Call /\ Finished(TRUE) \in Call /\ Finished(FALSE) \in Call
BY Constants DEF Call, NoCall, Finished, Places

LEMMA TypesInit == Init => Types
<1> SUFFICES ASSUME Init PROVE Types
  OBVIOUS
<1>1. page \in 1 .. MaxVersion /\ row \in Versions /\ docs \in Versions
  BY Constants DEF Init, Versions, None
<1>2. call \in [Calls -> Call]
  <2>1. {NoCall, Finished(FALSE)} \subseteq Call
    BY CallTypes
  <2> QED
    BY <2>1 DEF Init
<1>3. purges \in 0 .. MaxPurges /\ apart \in BOOLEAN
  BY Constants DEF Init
<1> QED
  BY <1>1, <1>2, <1>3 DEF Init, Types

LEMMA TypesStep ==
  ASSUME Types, NEW c \in Calls, Step(c)
  PROVE  Types'
<1> USE DEF Types, StoreUnchanged, WorldUnchanged, Goes, Returns, IsCutShort
<1>0. call[c] \in Call /\ NoCall \in Call /\ Finished(TRUE) \in Call /\ Finished(FALSE) \in Call
  BY CallTypes
<1>1. ASSUME NEW p \in Places, call' = [call EXCEPT ![c].pc = p] PROVE call' \in [Calls -> Call]
  BY <1>1 DEF Call
<1>2. ASSUME NEW r \in Call, call' = [call EXCEPT ![c] = r] PROVE call' \in [Calls -> Call]
  BY <1>2
<1>3. CASE Begin(c)
  BY <1>3, <1>0, <1>1, <1>2 DEF Begin, Places
<1>4. CASE ReadCache(c)
  <2>1. CASE call' = [call EXCEPT ![c].pc = "count", ![c].v = row]
    BY <1>4, <2>1 DEF ReadCache, Call, Places
  <2>2. CASE Goes(c, "check")
    BY <1>4, <2>2, <1>1 DEF ReadCache, Places
  <2> QED
    BY <1>4, <2>1, <2>2 DEF ReadCache
<1>5. CASE Count(c)
  BY <1>5, <1>0, <1>1, <1>2 DEF Count, Places
<1>6. CASE Backfill(c)
  <2>1. PICK o \in Replaced(call[c].v) :
          /\ docs' = o.docs
          /\ IF o.err THEN call' = [call EXCEPT ![c].pc = "drop"] ELSE Returns(c)
    BY <1>6 DEF Backfill
  <2>2. docs' \in Versions
    BY <2>1, <1>0, ReplacedShape DEF Call
  <2>3. call' \in [Calls -> Call]
    BY <2>1, <1>0, <1>1, <1>2 DEF Places
  <2> QED
    BY <1>6, <2>2, <2>3 DEF Backfill
<1>7. CASE DropRow(c)
  BY <1>7, <1>0, <1>2, Constants DEF DropRow, RowDropped
<1>8. CASE Check(c)
  BY <1>8, <1>0, <1>1, <1>2 DEF Check, Places
<1>9. CASE JoinFlight(c)
  BY <1>9, <1>1 DEF JoinFlight, Places
<1>10. CASE Download(c)
  <2>0. UNCHANGED <<page, docs, row, leader, kind, cancelled, purges, apart>>
    BY <1>10 DEF Download
  <2>1. CASE call' = [call EXCEPT ![c].pc = "index", ![c].v = page]
    <3>1. page \in Versions
      BY Constants DEF Versions
    <3>2. [call[c] EXCEPT !.pc = "index", !.v = page] \in Call
      BY <1>0, <3>1 DEF Call, Places
    <3> QED
      BY <2>0, <2>1, <3>2
  <2>2. CASE call' = [call EXCEPT ![c] = Finished(Interruptible(c))]
    <3>1. Interruptible(c) = TRUE \/ Interruptible(c) = FALSE
      BY DEF Interruptible
    <3> QED
      BY <2>0, <2>2, <3>1, <1>0
  <2>3. CASE call' = [call EXCEPT ![c].pc = "end", ![c].cut = Interruptible(c)]
    <3>1. Interruptible(c) \in BOOLEAN
      BY DEF Interruptible
    <3>2. [call[c] EXCEPT !.pc = "end", !.cut = Interruptible(c)] \in Call
      BY <1>0, <3>1 DEF Call, Places
    <3> QED
      BY <2>0, <2>3, <3>2
  <2> QED
    BY <1>10, <2>1, <2>2, <2>3 DEF Download
<1>11. CASE Index(c)
  <2>1. PICK o \in Replaced(call[c].v) :
          /\ docs' = o.docs
          /\ IF Kind(c) = "direct" THEN Returns(c)
             ELSE call' = [call EXCEPT ![c] = [[call[c] EXCEPT !.refused = o.err] EXCEPT !.pc = "store"]]
    BY <1>11 DEF Index
  <2>2. docs' \in Versions
    BY <2>1, <1>0, ReplacedShape DEF Call
  <2>3. [[call[c] EXCEPT !.refused = o.err] EXCEPT !.pc = "store"] \in Call
    BY <1>0, <2>1, ReplacedShape DEF Call, Places
  <2>4. call' \in [Calls -> Call]
    BY <2>1, <2>3, <1>0, <1>2
  <2> QED
    BY <1>11, <2>2, <2>4 DEF Index
<1>12. CASE StoreRow(c)
  BY <1>12, <1>0, <1>1, Constants DEF StoreRow, RowDropped, Call, Places
<1>13. CASE FlightEnds(c)
  <2>1. Finished(call[c].cut) \in Call
    BY <1>0 DEF Call, Finished, NoCall, Places, Versions, None
  <2> QED
    BY <1>13, <2>1 DEF FlightEnds
<1> QED
  BY <1>3, <1>4, <1>5, <1>6, <1>7, <1>8, <1>9, <1>10, <1>11, <1>12, <1>13 DEF Step

LEMMA TypesNext == Types /\ [Next]_vars => Types'
<1> SUFFICES ASSUME Types, [Next]_vars PROVE Types'
  OBVIOUS
<1> USE DEF Types
<1>1. ASSUME NEW b \in Batches, StartBatch(b) PROVE Types'
  <2>1. \A c \in Calls : call[c] \in Call /\ [call[c] EXCEPT !.pc = "queued"] \in Call
    BY DEF Call, Places
  <2> QED
    BY <1>1, <2>1 DEF StartBatch, StoreUnchanged, WorldUnchanged
<1>2. ASSUME NEW b \in Batches, CancelBatch(b) PROVE Types'
  BY <1>2 DEF CancelBatch
<1>3. ASSUME NEW c \in Calls, Step(c) PROVE Types'
  BY <1>3, TypesStep
<1>4. CASE Purge /\ row' \in Versions
  BY <1>4, Constants DEF Purge
<1>5. CASE ToolPurge
  BY <1>4, <1>5, Constants DEF ToolPurge, PurgeProject, PurgeSession
<1>6. CASE PageChanges
  BY <1>6, Constants DEF PageChanges
<1>7. CASE RowPruned
  BY <1>7, Constants DEF RowPruned
<1>8. CASE UNCHANGED vars
  BY <1>8 DEF vars
<1> QED
  BY <1>1, <1>2, <1>3, <1>5, <1>6, <1>7, <1>8 DEF Next, AllDone

-----------------------------------------------------------------------------
(* Every step but Begin is taken by a call that already holds its slot, or *)
(* lets calls go.                                                          *)
LEMMA StepShape ==
  ASSUME Types, NEW c \in Calls, Step(c), ~Begin(c), NEW d \in Calls
  PROVE  /\ call[c].pc \notin {"new", "queued", "done"}
         /\ d # c => call'[d] = call[d] \/ call'[d].pc = "done"
<1> USE DEF Types, At, Goes, Returns, IsCutShort
<1>1. CASE ReadCache(c) \/ Count(c)
  BY <1>1 DEF ReadCache, Count
<1>2. CASE Backfill(c) \/ DropRow(c)
  BY <1>2 DEF Backfill, DropRow
<1>3. CASE Check(c) \/ JoinFlight(c)
  BY <1>3 DEF Check, JoinFlight
<1>4. CASE Download(c)
  BY <1>4 DEF Download
<1>5. CASE Index(c)
  BY <1>5 DEF Index
<1>6. CASE StoreRow(c)
  BY <1>6 DEF StoreRow
<1>7. CASE FlightEnds(c)
  BY <1>7 DEF FlightEnds, Finished, NoCall
<1> QED
  BY <1>1, <1>2, <1>3, <1>4, <1>5, <1>6, <1>7 DEF Step

SlotsKept == \A b \in Batches : Cardinality(Holding(b)) <= Slots

LEMMA HoldingFinite ==
  ASSUME NEW b
  PROVE  IsFiniteSet(Holding(b)) /\ Cardinality(Holding(b)) \in Nat
BY FetchAssumption, FS_Subset, FS_CardinalityType DEF Holding

LEMMA SlotsInit == Init => SlotsKept
<1> SUFFICES ASSUME Init, NEW b \in Batches PROVE Cardinality(Holding(b)) <= Slots
  BY DEF SlotsKept
<1>1. Holding(b) = {}
  <2>1. \A c \in Calls : call[c] = NoCall \/ call[c] = Finished(FALSE)
    BY DEF Init
  <2>2. NoCall.pc = "new" /\ Finished(FALSE).pc = "done"
    BY DEF NoCall, Finished
  <2> QED
    BY <2>1, <2>2 DEF Holding
<1> QED
  BY <1>1, FS_EmptySet, Constants

LEMMA SlotsNext == Types /\ SlotsKept /\ [Next]_vars => SlotsKept'
<1> SUFFICES ASSUME Types, SlotsKept, [Next]_vars, NEW b \in Batches
             PROVE  Cardinality(Holding(b)') <= Slots
  BY DEF SlotsKept
<1>0. Cardinality(Holding(b)) <= Slots /\ Slots \in Nat
  BY Constants DEF SlotsKept
<1>1. ASSUME Holding(b)' \subseteq Holding(b) PROVE Cardinality(Holding(b)') <= Slots
  <2>1. Cardinality(Holding(b)') <= Cardinality(Holding(b))
    BY <1>1, HoldingFinite, FS_Subset
  <2>2. Cardinality(Holding(b)') \in Nat
    BY <1>1, HoldingFinite, FS_Subset, FS_CardinalityType
  <2> QED
    BY <1>0, <2>1, <2>2, HoldingFinite
<1>2. ASSUME NEW c \in Calls, Begin(c) PROVE Cardinality(Holding(b)') <= Slots
  <2>1. Holding(b)' \subseteq IF b = BatchOf[c] THEN Holding(b) \cup {c} ELSE Holding(b)
    BY <1>2 DEF Begin, Holding, At, Goes, IsCutShort, Finished, NoCall, Types
  <2>2. CASE b # BatchOf[c]
    BY <2>1, <2>2, <1>1
  <2>3. CASE b = BatchOf[c]
    <3>1. Cardinality(Holding(b)) < Slots
      BY <1>2, <2>3 DEF Begin
    <3>2. IsFiniteSet(Holding(b) \cup {c}) /\ Cardinality(Holding(b) \cup {c}) <= Cardinality(Holding(b)) + 1
      <4>1. IsFiniteSet(Holding(b)) /\ Cardinality(Holding(b)) \in Nat
        BY HoldingFinite
      <4>2. /\ IsFiniteSet(Holding(b) \cup {c})
            /\ Cardinality(Holding(b) \cup {c}) = IF c \in Holding(b) THEN Cardinality(Holding(b)) ELSE Cardinality(Holding(b)) + 1
        BY <4>1, FS_AddElement
      <4> QED
        BY <4>1, <4>2
    <3>3. /\ Cardinality(Holding(b)') <= Cardinality(Holding(b) \cup {c})
          /\ Cardinality(Holding(b)') \in Nat /\ Cardinality(Holding(b) \cup {c}) \in Nat
      BY <2>1, <2>3, <3>2, FS_Subset, FS_CardinalityType
    <3> QED
      BY <3>1, <3>2, <3>3, <1>0, HoldingFinite
  <2> QED
    BY <2>2, <2>3
<1>3. ASSUME NEW c \in Calls, Step(c), ~Begin(c) PROVE Holding(b)' \subseteq Holding(b)
  <2>1. ASSUME NEW d \in Calls, call'[d].pc \notin {"new", "queued", "done"}
        PROVE  call[d].pc \notin {"new", "queued", "done"}
    <3>1. CASE d = c
      BY <1>3, <3>1, StepShape
    <3>2. CASE d # c
      BY <1>3, <2>1, <3>2, StepShape
    <3> QED
      BY <3>1, <3>2
  <2> QED
    BY <2>1 DEF Holding
<1>4. ASSUME NEW e \in Batches, StartBatch(e) PROVE Holding(b)' \subseteq Holding(b)
  BY <1>4 DEF StartBatch, Holding, At, Types
<1>5. ASSUME Purge PROVE Holding(b)' \subseteq Holding(b)
  BY <1>5 DEF Purge, Holding
<1>6. ASSUME call' = call PROVE Holding(b)' \subseteq Holding(b)
  BY <1>6 DEF Holding
<1> QED
  BY <1>1, <1>2, <1>3, <1>4, <1>5, <1>6
     DEF Next, AllDone, CancelBatch, ToolPurge, PurgeProject, PurgeSession, PageChanges, RowPruned, vars

(* Every variable keeps its type, and a batch never holds more slots than  *)
(* its semaphore has (fetch.go:885).                                       *)
THEOREM TypeCorrect == Spec => []TypeOK
<1>1. Init => Types /\ SlotsKept
  BY TypesInit, SlotsInit
<1>2. Types /\ SlotsKept /\ [Next]_vars => (Types /\ SlotsKept)'
  BY TypesNext, SlotsNext
<1>3. Types /\ SlotsKept => TypeOK
  BY DEF Types, SlotsKept, TypeOK
<1> QED
  BY <1>1, <1>2, <1>3, PTL DEF Spec

-----------------------------------------------------------------------------
(* The calls that may be in the middle of a flight. *)
Flies(c) == Kind(c) # "direct" /\ call[c].pc \in {"download", "index", "store", "end"}

(* One flight at a time, and nobody of it is cut short on the way. *)
FlightInv ==
  \A c \in Calls :
    /\ call[c].pc \in {"join", "store", "end", "wait"} => Kind(c) # "direct"
    /\ Flies(c) => leader = c
    /\ call[c].cut => call[c].pc = "done" /\ Cancelled(c)

(* Neither table is ahead of the page.  As long as only cached fetches     *)
(* write, the documents are not behind the row.                            *)
StoreInv ==
  /\ docs \notin Secret /\ docs <= page /\ row <= page
  /\ ~apart => row <= docs

(* A hit has read a row, and the documents are not behind it; a flight has *)
(* a version that the row is not ahead of; and what is about to become the *)
(* row is what the documents are.                                          *)
CallInv ==
  \A c \in Calls :
    /\ call[c].v <= page
    /\ call[c].pc \in {"count", "backfill"} => call[c].v # None /\ (~apart => call[c].v <= docs)
    /\ Flies(c) /\ call[c].pc \in {"index", "store"} => row <= call[c].v
    /\ Flies(c) /\ call[c].pc = "index" /\ ~apart => docs <= call[c].v
    /\ call[c].pc = "store" /\ ~call[c].refused => call[c].v \notin Secret /\ (~apart => docs = call[c].v)

KbInv == FlightInv /\ StoreInv /\ CallInv

(* Results are not in flight, and cut short only if they say so. *)
LEMMA Results ==
  \A b \in BOOLEAN : Finished(b) \in Call /\ Finished(b).pc = "done" /\ Finished(b).cut = b
                     /\ Finished(b).v = 0 /\ Finished(b).refused = FALSE
BY Constants DEF Finished, NoCall, Call, Places, None

LEMMA KbInvInit == Init => KbInv
<1> SUFFICES ASSUME Init PROVE KbInv
  OBVIOUS
<1>1. \A c \in Calls : call[c].pc \in {"new", "done"} /\ call[c].cut = FALSE /\ call[c].v = 0
  <2>1. \A c \in Calls : call[c] = NoCall \/ call[c] = Finished(FALSE)
    BY DEF Init
  <2>2. NoCall.pc = "new" /\ NoCall.cut = FALSE /\ NoCall.v = 0
    BY DEF NoCall, None
  <2> QED
    BY <2>1, <2>2, Results
<1>2. page \in Nat /\ row \in Nat /\ row <= page /\ docs \in {0, row} /\ docs \notin Secret
  BY Constants DEF Init, None
<1>3. FlightInv
  BY <1>1 DEF FlightInv, Flies
<1>4. StoreInv
  <2>1. ~apart => docs = row
    BY Zenon DEF Init
  <2> QED
    BY <1>2, <2>1 DEF StoreInv
<1>5. CallInv
  BY <1>1, <1>2 DEF CallInv
<1> QED
  BY <1>3, <1>4, <1>5 DEF KbInv

(* Numbers that the provers need again and again. *)
LEMMA Numbers ==
  ASSUME Types
  PROVE  /\ page \in Nat /\ docs \in Nat /\ row \in Nat
         /\ \A c \in Calls : call[c] \in Call /\ call[c].v \in Nat
BY Constants DEF Types, Call, Versions

(* A step of one call keeps the flights apart if what the call becomes fits. *)
LEMMA FlightFrame ==
  ASSUME Types, FlightInv, NEW c \in Calls, NEW r,
         call' = [call EXCEPT ![c] = r], UNCHANGED <<kind, cancelled>>, leader' = leader \/ leader = NoFlight,
         r.pc \in {"join", "store", "end", "wait"} => Kind(c) # "direct",
         Kind(c) # "direct" /\ r.pc \in {"download", "index", "store", "end"} => leader' = c,
         r.cut => r.pc = "done" /\ Cancelled(c)
  PROVE  FlightInv'
<1> SUFFICES ASSUME NEW d \in Calls
             PROVE  /\ call'[d].pc \in {"join", "store", "end", "wait"} => Kind(d) # "direct"
                    /\ Kind(d) # "direct" /\ call'[d].pc \in {"download", "index", "store", "end"} => leader' = d
                    /\ call'[d].cut => call'[d].pc = "done" /\ Cancelled(d)
  BY DEF FlightInv, Flies, Kind, Cancelled
<1>1. CASE d = c
  BY <1>1 DEF Types
<1>2. CASE d # c
  <2>1. call'[d] = call[d]
    BY <1>2 DEF Types
  <2>2. /\ call[d].pc \in {"join", "store", "end", "wait"} => Kind(d) # "direct"
        /\ Kind(d) # "direct" /\ call[d].pc \in {"download", "index", "store", "end"} => leader = d
        /\ call[d].cut => call[d].pc = "done" /\ Cancelled(d)
    BY DEF FlightInv, Flies
  <2> QED
    BY <2>1, <2>2, FetchAssumption
<1> QED
  BY <1>1, <1>2

LEMMA FlightStep ==
  ASSUME Types, FlightInv, NEW c \in Calls, Step(c)
  PROVE  FlightInv'
<1>0. /\ call[c] \in Call /\ call \in [Calls -> Call]
      /\ call[c].pc \in {"join", "store", "end", "wait"} => Kind(c) # "direct"
      /\ Kind(c) # "direct" /\ call[c].pc \in {"download", "index", "store", "end"} => leader = c
      /\ call[c].cut => call[c].pc = "done" /\ Cancelled(c)
  BY DEF FlightInv, Flies, Types
<1>1. ASSUME NEW p, call' = [call EXCEPT ![c].pc = p], UNCHANGED <<kind, cancelled>>,
             call[c].pc # "done",
             leader' = leader \/ leader = NoFlight,
             p \in {"join", "store", "end", "wait"} => Kind(c) # "direct",
             Kind(c) # "direct" /\ p \in {"download", "index", "store", "end"} => leader' = c
      PROVE  FlightInv'
  <2> DEFINE q == [call[c] EXCEPT !.pc = p]
  <2>1. call' = [call EXCEPT ![c] = q] /\ q.pc = p /\ q.cut = call[c].cut
    BY <1>0, <1>1 DEF Call
  <2> HIDE DEF q
  <2> QED
    BY <2>1, <1>0, <1>1, FlightFrame
<1>2. ASSUME NEW b \in BOOLEAN, call' = [call EXCEPT ![c] = Finished(b)], b => Cancelled(c),
             UNCHANGED <<kind, cancelled, leader>>
      PROVE  FlightInv'
  BY <1>2, Results, FlightFrame
<1> USE DEF StoreUnchanged, WorldUnchanged, Goes, Returns, IsCutShort, At
<1>3. CASE Begin(c)
  BY <1>3, <1>0, <1>1, <1>2 DEF Begin
<1>4. CASE ReadCache(c)
  <2>1. CASE call' = [call EXCEPT ![c].pc = "count", ![c].v = row]
    <3> DEFINE q == [call[c] EXCEPT !.pc = "count", !.v = row]
    <3>1. call' = [call EXCEPT ![c] = q] /\ q.pc = "count" /\ q.cut = call[c].cut
      BY <2>1, <1>0 DEF Call
    <3>2. UNCHANGED <<kind, cancelled, leader>> /\ call[c].pc = "look"
      BY <1>4 DEF ReadCache
    <3> HIDE DEF q
    <3> QED
      BY <3>1, <3>2, <1>0, FlightFrame
  <2> QED
    BY <1>4, <2>1, <1>1 DEF ReadCache
<1>5. CASE Count(c)
  BY <1>5, <1>1, <1>2 DEF Count
<1>6. CASE Backfill(c)
  <2>1. /\ call[c].pc = "backfill" /\ UNCHANGED <<kind, cancelled, leader>>
        /\ call' = [call EXCEPT ![c].pc = "drop"] \/ Returns(c)
    BY <1>6 DEF Backfill
  <2> QED
    BY <2>1, <1>1, <1>2
<1>7. CASE DropRow(c)
  BY <1>7, <1>2 DEF DropRow
<1>8. CASE Check(c)
  <2>1. UNCHANGED <<kind, cancelled, leader>> /\ call[c].pc = "check"
    BY <1>8 DEF Check
  <2>2. \/ Cancelled(c) /\ IsCutShort(c)
        \/ Returns(c)
        \/ call' = [call EXCEPT ![c].pc = "download"] /\ Kind(c) = "direct"
        \/ call' = [call EXCEPT ![c].pc = "join"] /\ Kind(c) # "direct"
    BY <1>8 DEF Check
  <2> QED
    BY <2>1, <2>2, <1>1, <1>2
<1>9. CASE JoinFlight(c)
  <2>1. UNCHANGED <<kind, cancelled>> /\ call[c].pc = "join" /\ Kind(c) # "direct"
    BY <1>9, <1>0 DEF JoinFlight
  <2>2. \/ leader = NoFlight /\ leader' = c /\ call' = [call EXCEPT ![c].pc = "download"]
        \/ leader' = leader /\ call' = [call EXCEPT ![c].pc = "wait"]
    BY <1>9 DEF JoinFlight
  <2> QED
    BY <2>1, <2>2, <1>1
<1>10. CASE Download(c)
  <2>0. UNCHANGED <<kind, cancelled, leader>> /\ call[c].pc = "download" /\ call[c].cut = FALSE
    BY <1>10, <1>0 DEF Download, Call
  <2>1. CASE call' = [call EXCEPT ![c].pc = "index", ![c].v = page]
    <3> DEFINE q == [call[c] EXCEPT !.pc = "index", !.v = page]
    <3>1. call' = [call EXCEPT ![c] = q] /\ q.pc = "index" /\ q.cut = FALSE
      BY <2>0, <2>1, <1>0 DEF Call
    <3> HIDE DEF q
    <3> QED
      BY <3>1, <2>0, <1>0, FlightFrame
  <2>2. CASE Kind(c) = "direct" /\ call' = [call EXCEPT ![c] = Finished(Interruptible(c))]
    <3>1. Interruptible(c) \in BOOLEAN /\ (Interruptible(c) => Cancelled(c))
      BY DEF Interruptible
    <3> QED
      BY <2>0, <2>2, <3>1, <1>2
  <2>3. CASE Kind(c) # "direct" /\ call' = [call EXCEPT ![c].pc = "end", ![c].cut = Interruptible(c)]
    <3>1. Interruptible(c) = FALSE
      BY <2>3 DEF Interruptible
    <3> DEFINE q == [call[c] EXCEPT !.pc = "end", !.cut = FALSE]
    <3>2. call' = [call EXCEPT ![c] = q] /\ q.pc = "end" /\ q.cut = FALSE
      BY <2>3, <3>1, <1>0 DEF Call
    <3> HIDE DEF q
    <3> QED
      BY <3>2, <2>0, <2>3, <1>0, FlightFrame
  <2> QED
    BY <1>10, <2>1, <2>2, <2>3 DEF Download
<1>11. CASE Index(c)
  <2>1. PICK o \in Replaced(call[c].v) :
          IF Kind(c) = "direct" THEN Returns(c)
          ELSE call' = [call EXCEPT ![c] = [[call[c] EXCEPT !.refused = o.err] EXCEPT !.pc = "store"]]
    BY <1>11 DEF Index
  <2>2. UNCHANGED <<kind, cancelled, leader>> /\ call[c].pc = "index"
    BY <1>11 DEF Index
  <2>3. CASE Kind(c) # "direct"
    <3> DEFINE q == [[call[c] EXCEPT !.refused = o.err] EXCEPT !.pc = "store"]
    <3>1. call' = [call EXCEPT ![c] = q] /\ q.pc = "store" /\ q.cut = call[c].cut
      BY <2>1, <2>3, <1>0 DEF Call
    <3> HIDE DEF q
    <3> QED
      BY <3>1, <2>2, <2>3, <1>0, FlightFrame
  <2> QED
    BY <2>1, <2>2, <2>3, <1>2
<1>12. CASE StoreRow(c)
  <2>1. UNCHANGED <<kind, cancelled, leader>> /\ call[c].pc = "store" /\ call' = [call EXCEPT ![c].pc = "end"]
    BY <1>12 DEF StoreRow
  <2> QED
    BY <2>1, <1>0, <1>1
<1>13. CASE FlightEnds(c)
  <2>1. /\ call[c].pc = "end" /\ call[c].cut = FALSE /\ leader = c /\ leader' = NoFlight
        /\ kind' = kind /\ cancelled' = cancelled
    BY <1>13, <1>0 DEF FlightEnds, Call
  <2> SUFFICES ASSUME NEW d \in Calls
               PROVE  /\ call'[d].pc \in {"join", "store", "end", "wait"} => kind'[BatchOf[d]] # "direct"
                      /\ ~(kind'[BatchOf[d]] # "direct" /\ call'[d].pc \in {"download", "index", "store", "end"})
                      /\ call'[d].cut => call'[d].pc = "done" /\ BatchOf[d] \in cancelled'
    BY DEF FlightInv, Flies, Kind, Cancelled
  <2>2. (call'[d] = call[d] /\ d # c) \/ call'[d] = Finished(FALSE)
    BY <1>13, <2>1 DEF FlightEnds, Answered
  <2>3. CASE call'[d] = Finished(FALSE)
    BY <2>3, Results
  <2>4. CASE call'[d] = call[d] /\ d # c
    BY <2>1, <2>4 DEF FlightInv, Flies, Kind, Cancelled
  <2> QED
    BY <2>2, <2>3, <2>4
<1> QED
  BY <1>3, <1>4, <1>5, <1>6, <1>7, <1>8, <1>9, <1>10, <1>11, <1>12, <1>13 DEF Step

(* A step of one call keeps the others fit if it does not undo what they    *)
(* rely on, or if it is the flight's, of which there is no other.          *)
LEMMA CallFrame ==
  ASSUME Types, FlightInv, CallInv, NEW c \in Calls, NEW r,
         call' = [call EXCEPT ![c] = r], kind' = kind, page' = page, row' \in Nat, docs' \in Nat,
         ~apart' => ~apart /\ docs <= docs',
         Flies(c) \/ (row' <= row /\ (~apart' => docs' = docs)),
         r.v <= page,
         r.pc \in {"count", "backfill"} => r.v # None /\ (~apart' => r.v <= docs'),
         Kind(c) # "direct" /\ r.pc \in {"index", "store"} => row' <= r.v,
         Kind(c) # "direct" /\ r.pc = "index" /\ ~apart' => docs' <= r.v,
         r.pc = "store" /\ ~r.refused => r.v \notin Secret /\ (~apart' => docs' = r.v)
  PROVE  CallInv'
<1> SUFFICES ASSUME NEW d \in Calls
             PROVE  /\ call'[d].v <= page
                    /\ call'[d].pc \in {"count", "backfill"} => call'[d].v # None /\ (~apart' => call'[d].v <= docs')
                    /\ Kind(d) # "direct" /\ call'[d].pc \in {"index", "store"} => row' <= call'[d].v
                    /\ Kind(d) # "direct" /\ call'[d].pc = "index" /\ ~apart' => docs' <= call'[d].v
                    /\ call'[d].pc = "store" /\ ~call'[d].refused
                         => call'[d].v \notin Secret /\ (~apart' => docs' = call'[d].v)
  BY DEF CallInv, Flies, Kind
<1>1. CASE d = c
  BY <1>1 DEF Types
<1>2. CASE d # c
  <2>0. /\ call'[d] = call[d] /\ call[d].v \in Nat /\ row \in Nat /\ docs \in Nat
        /\ call[d].pc = "store" => Kind(d) # "direct"
    BY <1>2, Numbers DEF Types, FlightInv
  <2>1. /\ call[d].v <= page
        /\ call[d].pc \in {"count", "backfill"} => call[d].v # None /\ (~apart => call[d].v <= docs)
        /\ Kind(d) # "direct" /\ call[d].pc \in {"index", "store"} => row <= call[d].v
        /\ Kind(d) # "direct" /\ call[d].pc = "index" /\ ~apart => docs <= call[d].v
        /\ call[d].pc = "store" /\ ~call[d].refused => call[d].v \notin Secret /\ (~apart => docs = call[d].v)
    BY DEF CallInv, Flies
  <2>2. CASE Flies(c)
    <3>1. ~(Kind(d) # "direct" /\ call[d].pc \in {"index", "store"})
      BY <1>2, <2>2 DEF FlightInv, Flies
    <3> QED
      BY <2>0, <2>1, <3>1
  <2>3. CASE row' <= row /\ (~apart' => docs' = docs)
    BY <2>0, <2>1, <2>3
  <2> QED
    BY <2>2, <2>3
<1> QED
  BY <1>1, <1>2

(* The same for a step that touches neither table. *)
LEMMA QuietFrame ==
  ASSUME Types, KbInv, NEW c \in Calls, NEW r,
         call' = [call EXCEPT ![c] = r], kind' = kind, page' = page, row' = row, docs' = docs, apart' = apart,
         r.v <= page,
         r.pc \in {"count", "backfill"} => r.v # None /\ (~apart => r.v <= docs),
         Kind(c) # "direct" /\ r.pc \in {"index", "store"} => row <= r.v,
         Kind(c) # "direct" /\ r.pc = "index" /\ ~apart => docs <= r.v,
         r.pc # "store"
  PROVE  StoreInv' /\ CallInv'
<1>1. StoreInv'
  BY DEF KbInv, StoreInv
<1>2. /\ row' \in Nat /\ docs' \in Nat /\ row' <= row /\ docs <= docs'
      /\ ~apart' => ~apart
  BY Numbers
<1>3. /\ r.pc \in {"count", "backfill"} => r.v # None /\ (~apart' => r.v <= docs')
      /\ Kind(c) # "direct" /\ r.pc \in {"index", "store"} => row' <= r.v
      /\ Kind(c) # "direct" /\ r.pc = "index" /\ ~apart' => docs' <= r.v
      /\ r.pc = "store" /\ ~r.refused => r.v \notin Secret /\ (~apart' => docs' = r.v)
  OBVIOUS
<1>4. CallInv'
  BY <1>2, <1>3, CallFrame DEF KbInv
<1> QED
  BY <1>1, <1>4

LEMMA StoreStep ==
  ASSUME Types, Types', KbInv, NEW c \in Calls, Step(c)
  PROVE  StoreInv' /\ CallInv'
<1> USE DEF KbInv
<1>0. /\ call[c] \in Call /\ call \in [Calls -> Call] /\ page \in Nat /\ docs \in Nat /\ row \in Nat
      /\ page' \in Nat /\ docs' \in Nat /\ row' \in Nat /\ call[c].v \in Nat /\ call[c].v <= page
      /\ apart \in BOOLEAN
  BY Numbers, Constants DEF CallInv, Types, Versions
<1>20. kind' = kind /\ page' = page
  BY DEF Step, Begin, ReadCache, Count, Backfill, DropRow, Check, JoinFlight, Download, Index, StoreRow, FlightEnds,
         WorldUnchanged
<1>21. UNCHANGED <<docs, row, apart>> => StoreInv'
  BY <1>20 DEF StoreInv
<1>22. Finished(FALSE).pc = "done" /\ Finished(FALSE).v <= page
  <2>1. Finished(FALSE).pc = "done" /\ Finished(FALSE).v = 0
    BY Results
  <2>2. 0 <= page
    BY <1>0
  <2> QED
    BY <2>1, <2>2
<1>1. ASSUME NEW p \in Places \ {"count", "backfill", "index", "store"}, call' = [call EXCEPT ![c].pc = p],
             UNCHANGED <<docs, row, apart>>
      PROVE  StoreInv' /\ CallInv'
  <2> DEFINE q == [call[c] EXCEPT !.pc = p]
  <2>1. call' = [call EXCEPT ![c] = q] /\ q.pc = p /\ q.v = call[c].v
    BY <1>0, <1>1 DEF Call
  <2> HIDE DEF q
  <2> QED
    BY <2>1, <1>0, <1>20, <1>1, QuietFrame
<1>2. ASSUME NEW b \in BOOLEAN, call' = [call EXCEPT ![c] = Finished(b)], UNCHANGED <<docs, row, apart>>
      PROVE  StoreInv' /\ CallInv'
  <2> DEFINE q == Finished(b)
  <2>1. call' = [call EXCEPT ![c] = q] /\ q.pc = "done" /\ q.v <= page
    BY <1>0, <1>2, Results
  <2> HIDE DEF q
  <2> QED
    BY <2>1, <1>20, <1>2, QuietFrame
<1> USE DEF StoreUnchanged, Goes, Returns, IsCutShort, At
<1>3. CASE Begin(c) \/ Check(c) \/ JoinFlight(c)
  BY <1>1, <1>2, <1>3 DEF Begin, Check, JoinFlight, Places
<1>4. CASE ReadCache(c)
  <2>1. CASE row # None /\ call' = [call EXCEPT ![c].pc = "count", ![c].v = row]
    <3> DEFINE q == [call[c] EXCEPT !.pc = "count", !.v = row]
    <3>1. call' = [call EXCEPT ![c] = q] /\ q.pc = "count" /\ q.v = row
      BY <2>1, <1>0 DEF Call
    <3>2. UNCHANGED <<docs, row, apart>> /\ row <= page /\ (~apart => row <= docs)
      BY <1>4 DEF ReadCache, StoreInv
    <3> HIDE DEF q
    <3> QED
      BY <2>1, <3>1, <3>2, <1>0, <1>20, QuietFrame
  <2> QED
    BY <1>1, <1>4, <2>1 DEF ReadCache, Places
<1>5. CASE Count(c)
  <2>1. UNCHANGED <<docs, row, apart>> /\ call[c].v # None /\ (~apart => call[c].v <= docs)
    BY <1>5 DEF Count, CallInv
  <2>2. CASE call' = [call EXCEPT ![c].pc = "backfill"]
    <3> DEFINE q == [call[c] EXCEPT !.pc = "backfill"]
    <3>1. call' = [call EXCEPT ![c] = q] /\ q.pc = "backfill" /\ q.v = call[c].v
      BY <2>2, <1>0 DEF Call
    <3> HIDE DEF q
    <3> QED
      BY <2>1, <3>1, <1>0, <1>20, QuietFrame
  <2> QED
    BY <1>2, <1>5, <2>1, <2>2 DEF Count
<1>6. CASE Backfill(c)
  <2>1. PICK o \in Replaced(call[c].v) :
          /\ docs' = o.docs
          /\ IF o.err THEN call' = [call EXCEPT ![c].pc = "drop"] ELSE Returns(c)
    BY <1>6 DEF Backfill
  <2>2. /\ call[c].pc = "backfill" /\ row' = row /\ call[c].v # None /\ (~apart => call[c].v <= docs)
        /\ ~apart' => ~apart /\ docs = None
    BY <1>6, Zenon DEF Backfill, CallInv
  <2>3. apart'
    BY <2>2, <1>0 DEF None
  <2>4. docs' = docs \/ (docs' = call[c].v /\ call[c].v \notin Secret)
    BY <2>1, ReplacedShape
  <2>5. StoreInv'
    BY <2>2, <2>3, <2>4, <1>0, <1>20 DEF StoreInv
  <2>8. /\ kind' = kind /\ page' = page /\ row' \in Nat /\ docs' \in Nat /\ row' <= row
        /\ ~apart' => ~apart /\ docs <= docs'
        /\ ~apart' => docs' = docs
    BY <2>2, <2>3, <1>0, <1>20
  <2>6. CASE call' = [call EXCEPT ![c].pc = "drop"]
    <3> DEFINE q == [call[c] EXCEPT !.pc = "drop"]
    <3>1. call' = [call EXCEPT ![c] = q] /\ q.pc = "drop" /\ q.v <= page
      BY <2>6, <1>0 DEF Call
    <3> HIDE DEF q
    <3> QED
      BY <2>5, <2>8, <3>1, CallFrame
  <2>7. CASE Returns(c)
    <3> DEFINE q == Finished(FALSE)
    <3>1. call' = [call EXCEPT ![c] = q] /\ q.pc = "done" /\ q.v <= page
      BY <2>7, <1>22
    <3> HIDE DEF q
    <3> QED
      BY <2>5, <2>8, <3>1, CallFrame
  <2> QED
    BY <2>1, <2>6, <2>7
<1>7. CASE DropRow(c)
  <2>1. docs' = docs /\ apart' = apart /\ (row' = None \/ row' = row) /\ Returns(c)
    BY <1>7 DEF DropRow, RowDropped
  <2>2. row' <= row
    BY <2>1, <1>0 DEF None
  <2>3. StoreInv'
    BY <2>1, <2>2, <1>0, <1>20 DEF StoreInv
  <2> QED
    <3> DEFINE q == Finished(FALSE)
    <3>1. call' = [call EXCEPT ![c] = q] /\ q.pc = "done" /\ q.v <= page
      BY <2>1, <1>22
    <3>2. /\ kind' = kind /\ page' = page /\ row' \in Nat /\ docs' \in Nat /\ row' <= row
          /\ ~apart' => ~apart /\ docs <= docs'
          /\ ~apart' => docs' = docs
      BY <2>1, <2>2, <1>0, <1>20
    <3> HIDE DEF q
    <3> QED
      BY <2>3, <3>1, <3>2, CallFrame
<1>8. CASE Download(c)
  <2>0. UNCHANGED <<docs, row, apart>> /\ row <= page /\ docs <= page
    BY <1>8 DEF Download, StoreInv
  <2>1. CASE call' = [call EXCEPT ![c].pc = "index", ![c].v = page]
    <3> DEFINE q == [call[c] EXCEPT !.pc = "index", !.v = page]
    <3>1. call' = [call EXCEPT ![c] = q] /\ q.pc = "index" /\ q.v = page
      BY <2>1, <1>0 DEF Call
    <3>2. q.v <= page /\ row <= q.v /\ docs <= q.v
      BY <2>0, <3>1, <1>0
    <3> HIDE DEF q
    <3> QED
      BY <2>0, <3>1, <3>2, <1>20, QuietFrame
  <2>2. CASE call' = [call EXCEPT ![c] = Finished(Interruptible(c))]
    <3>1. Interruptible(c) \in BOOLEAN
      BY DEF Interruptible
    <3> QED
      BY <2>0, <2>2, <3>1, <1>2
  <2>3. CASE call' = [call EXCEPT ![c].pc = "end", ![c].cut = Interruptible(c)]
    <3> DEFINE q == [call[c] EXCEPT !.pc = "end", !.cut = Interruptible(c)]
    <3>1. call' = [call EXCEPT ![c] = q] /\ q.pc = "end" /\ q.v <= page
      BY <2>3, <1>0 DEF Call
    <3> HIDE DEF q
    <3> QED
      BY <2>0, <3>1, <1>20, QuietFrame
  <2> QED
    BY <1>8, <2>1, <2>2, <2>3 DEF Download
<1>9. CASE Index(c)
  <2>1. PICK o \in Replaced(call[c].v) :
          /\ docs' = o.docs
          /\ IF Kind(c) = "direct" THEN Returns(c)
             ELSE call' = [call EXCEPT ![c] = [[call[c] EXCEPT !.refused = o.err] EXCEPT !.pc = "store"]]
    BY <1>9 DEF Index
  <2>2. /\ call[c].pc = "index" /\ row' = row
        /\ ~apart' => ~apart /\ Kind(c) # "direct"
    BY <1>9, Zenon DEF Index
  <2>3. /\ docs' = docs \/ (docs' = call[c].v /\ call[c].v \notin Secret)
        /\ ~o.err => docs' = call[c].v /\ call[c].v \notin Secret
        /\ o.err \in BOOLEAN
    BY <2>1, ReplacedShape
  <2>4. Kind(c) # "direct" => row <= call[c].v /\ (~apart => docs <= call[c].v)
    BY <2>2 DEF CallInv, Flies
  <2>5. ~apart' => ~apart /\ docs <= docs'
    BY <2>2, <2>3, <2>4, <1>0
  <2>6. StoreInv'
    BY <2>2, <2>3, <2>5, <1>0, <1>20 DEF StoreInv
  <2>7. CASE Kind(c) = "direct"
    <3> DEFINE q == Finished(FALSE)
    <3>1. call' = [call EXCEPT ![c] = q] /\ q.pc = "done" /\ q.v <= page
      BY <2>1, <2>7, <1>22
    <3>2. row' \in Nat /\ docs' \in Nat /\ row' <= row /\ apart'
      BY <2>2, <2>7, <1>0
    <3> HIDE DEF q
    <3> QED
      BY <2>6, <3>1, <3>2, <1>20, CallFrame
  <2>8. CASE Kind(c) # "direct"
    <3> DEFINE q == [[call[c] EXCEPT !.refused = o.err] EXCEPT !.pc = "store"]
    <3>1. call' = [call EXCEPT ![c] = q] /\ q.pc = "store" /\ q.v = call[c].v /\ q.refused = o.err
      BY <2>1, <2>8, <1>0 DEF Call
    <3>2. Flies(c)
      BY <2>2, <2>8 DEF Flies
    <3> HIDE DEF q
    <3> QED
      BY <2>2, <2>3, <2>4, <2>5, <2>6, <2>8, <3>1, <3>2, <1>0, <1>20, CallFrame
  <2> QED
    BY <2>7, <2>8
<1>10. CASE StoreRow(c)
  <2>1. /\ call[c].pc = "store" /\ docs' = docs /\ apart' = apart /\ call' = [call EXCEPT ![c].pc = "end"]
        /\ row' = None \/ row' = row \/ (row' = call[c].v /\ ~call[c].refused)
    BY <1>10 DEF StoreRow, RowDropped
  <2>2. Flies(c) /\ (~call[c].refused /\ ~apart => docs = call[c].v)
    BY <2>1 DEF CallInv, FlightInv, Flies
  <2>3. StoreInv'
    BY <2>1, <2>2, <1>0, <1>20 DEF StoreInv, None
  <2> DEFINE q == [call[c] EXCEPT !.pc = "end"]
  <2>4. call' = [call EXCEPT ![c] = q] /\ q.pc = "end" /\ q.v = call[c].v
    BY <2>1, <1>0 DEF Call
  <2> HIDE DEF q
  <2> QED
    <3>1. /\ q.v <= page /\ row' \in Nat /\ docs' \in Nat
          /\ ~apart' => ~apart /\ docs <= docs'
      BY <2>1, <2>4, <1>0
    <3> QED
      BY <2>2, <2>3, <2>4, <3>1, <1>20, CallFrame
<1>11. CASE FlightEnds(c)
  <2>1. UNCHANGED <<docs, row, apart>> /\ call[c].cut \in BOOLEAN
    BY <1>11, <1>0 DEF FlightEnds, Call
  <2> SUFFICES ASSUME NEW d \in Calls
               PROVE  /\ call'[d].v <= page
                      /\ call'[d].pc \in {"count", "backfill"} => call'[d].v # None /\ (~apart => call'[d].v <= docs)
                      /\ kind[BatchOf[d]] # "direct" /\ call'[d].pc \in {"index", "store"} => row <= call'[d].v
                      /\ kind[BatchOf[d]] # "direct" /\ call'[d].pc = "index" /\ ~apart => docs <= call'[d].v
                      /\ call'[d].pc = "store" /\ ~call'[d].refused
                           => call'[d].v \notin Secret /\ (~apart => docs = call'[d].v)
    BY <1>20, <1>21, <2>1 DEF CallInv, Flies, Kind
  <2>2. call'[d] = call[d] \/ call'[d] = Finished(call[c].cut)
    BY <1>11 DEF FlightEnds
  <2>3. CASE call'[d] = Finished(call[c].cut)
    BY <2>1, <2>3, <1>0, Results
  <2>4. CASE call'[d] = call[d]
    BY <2>4 DEF CallInv, Flies, Kind
  <2> QED
    BY <2>2, <2>3, <2>4
<1> QED
  BY <1>3, <1>4, <1>5, <1>6, <1>7, <1>8, <1>9, <1>10, <1>11 DEF Step

LEMMA KbInvNext == Types /\ KbInv /\ [Next]_vars => KbInv'
<1> SUFFICES ASSUME Types, KbInv, [Next]_vars PROVE KbInv'
  OBVIOUS
<1>0. Types'
  BY TypesNext
<1> USE DEF KbInv
<1>1. ASSUME NEW c \in Calls, Step(c) PROVE KbInv'
  BY <1>0, <1>1, FlightStep, StoreStep
<1>2. ASSUME NEW b \in Batches, StartBatch(b) PROVE KbInv'
  <2>1. /\ UNCHANGED <<docs, row, apart, leader, page, kind, cancelled>>
        /\ \A c \in Calls : \/ call'[c] = call[c]
                            \/ call'[c].pc = "queued" /\ call'[c].v = call[c].v /\ call'[c].cut = call[c].cut
                                 /\ call[c].pc = "new"
    BY <1>2 DEF StartBatch, StoreUnchanged, WorldUnchanged, At, Types, Call
  <2>2. FlightInv'
    BY <2>1 DEF FlightInv, Flies, Kind, Cancelled
  <2>3. StoreInv'
    BY <2>1 DEF StoreInv
  <2>4. CallInv'
    BY <2>1 DEF CallInv, Flies, Kind
  <2> QED
    BY <2>2, <2>3, <2>4
<1>3. ASSUME NEW b \in Batches, CancelBatch(b) PROVE KbInv'
  <2>1. UNCHANGED <<docs, row, apart, leader, page, kind, call>> /\ cancelled' = cancelled \cup {b}
    BY <1>3 DEF CancelBatch
  <2>2. FlightInv'
    BY <2>1 DEF FlightInv, Flies, Kind, Cancelled
  <2> QED
    BY <2>1, <2>2 DEF StoreInv, CallInv, Flies, Kind
<1>4. CASE Purge /\ row' \in {None, row}
  <2>1. /\ UNCHANGED <<leader, page, kind, cancelled>> /\ docs' = None /\ apart'
        /\ call' = call
    BY <1>4 DEF Purge
  <2>2. FlightInv'
    BY <2>1 DEF FlightInv, Flies, Kind, Cancelled
  <2>3. StoreInv'
    BY <1>4, <2>1, Numbers, Constants DEF StoreInv, None
  <2>4. CallInv'
    BY <1>4, <2>1, Numbers DEF CallInv, Flies, Kind, None
  <2> QED
    BY <2>2, <2>3, <2>4
<1>5. CASE ToolPurge
  BY <1>4, <1>5 DEF ToolPurge, PurgeProject, PurgeSession
<1>6. CASE PageChanges
  <2>1. UNCHANGED <<docs, row, apart, leader, kind, cancelled, call>> /\ page' = page + 1
    BY <1>6 DEF PageChanges
  <2>2. FlightInv'
    BY <2>1 DEF FlightInv, Flies, Kind, Cancelled
  <2>3. StoreInv'
    BY <2>1, Numbers DEF StoreInv
  <2>4. CallInv'
    BY <2>1, Numbers DEF CallInv, Flies, Kind
  <2> QED
    BY <2>2, <2>3, <2>4
<1>7. CASE RowPruned
  <2>1. UNCHANGED <<docs, apart, leader, page, kind, cancelled, call>> /\ row' = None
    BY <1>7 DEF RowPruned
  <2>2. FlightInv'
    BY <2>1 DEF FlightInv, Flies, Kind, Cancelled
  <2>3. StoreInv'
    BY <2>1, Numbers DEF StoreInv, None
  <2>4. CallInv'
    BY <2>1, Numbers DEF CallInv, Flies, Kind, None
  <2> QED
    BY <2>2, <2>3, <2>4
<1>8. CASE UNCHANGED vars
  BY <1>8 DEF vars, FlightInv, StoreInv, CallInv, Flies, Kind, Cancelled
<1> QED
  BY <1>1, <1>2, <1>3, <1>5, <1>6, <1>7, <1>8 DEF Next, AllDone

LEMMA Invariants == Spec => [](Types /\ KbInv)
<1>1. Init => Types /\ KbInv
  BY TypesInit, KbInvInit
<1>2. Types /\ KbInv /\ [Next]_vars => (Types /\ KbInv)'
  BY TypesNext, KbInvNext
<1> QED
  BY <1>1, <1>2, PTL DEF Spec

(* A call that shares a download is cancelled only with its own batch      *)
(* (fetch.go:800), however many share it and whoever started it.           *)
THEOREM SharedNotCancelled == Spec => []NotCancelledByOthers
<1>1. KbInv => NotCancelledByOthers
  BY DEF KbInv, FlightInv, NotCancelledByOthers
<1> QED
  BY <1>1, Invariants, PTL

(* What a step may do to the cache row: drop it, or replace it by what the *)
(* screen has let through and is not older.                                *)
LEMMA RowStep ==
  ASSUME Types, KbInv, [Next]_vars
  PROVE  row' = row \/ row' = None \/ (row' \notin Secret /\ row' >= row)
<1>1. ASSUME NEW c \in Calls, StoreRow(c)
      PROVE  row' = row \/ row' = None \/ (row' \notin Secret /\ row' >= row)
  <2>1. row' = row \/ row' = None \/ (row' = call[c].v /\ ~call[c].refused /\ call[c].pc = "store")
    BY <1>1 DEF StoreRow, RowDropped, At
  <2>2. call[c].pc = "store" /\ ~call[c].refused => row <= call[c].v /\ call[c].v \notin Secret
    BY DEF KbInv, FlightInv, CallInv, Flies
  <2>3. row \in Nat /\ call[c].v \in Nat
    BY Numbers
  <2> QED
    BY <2>1, <2>2, <2>3
<1>2. ASSUME NEW c \in Calls, Step(c), ~StoreRow(c) PROVE row' = row \/ row' = None
  BY <1>2 DEF Step, Begin, ReadCache, Count, Backfill, DropRow, RowDropped, Check, JoinFlight, Download, Index,
              FlightEnds, StoreUnchanged
<1>3. ASSUME \A c \in Calls : ~Step(c) PROVE row' = row \/ row' = None
  BY <1>3 DEF Next, AllDone, StartBatch, CancelBatch, ToolPurge, PurgeProject, PurgeSession, PageChanges, RowPruned,
              StoreUnchanged, vars
<1> QED
  BY <1>1, <1>2, <1>3

(* What the content screen refuses enters neither table (fetch.go:829).    *)
THEOREM RefusedStaysOut == Spec => RefusedNotStored
<1>1. Types /\ KbInv /\ (Types /\ KbInv)' /\ [Next]_vars
        => docs' \notin Secret /\ (row' \in Secret => row' = row)
  <2> SUFFICES ASSUME Types, KbInv, KbInv', [Next]_vars PROVE docs' \notin Secret /\ (row' \in Secret => row' = row)
    OBVIOUS
  <2>1. docs' \notin Secret
    BY DEF KbInv, StoreInv
  <2> QED
    BY <2>1, RowStep, Constants
<1> QED
  BY <1>1, Invariants, PTL DEF Spec, RefusedNotStored

(* Downloads of one URL do not overtake each other on their way to the     *)
(* cache (fetch.go:768): there is one flight at a time, and it has the     *)
(* page as of after the flight before.                                     *)
THEOREM RowMonotonic == Spec => RowNeverGoesBack
<1>1. Types /\ KbInv /\ [Next]_vars => (row # None /\ row' # None => row' >= row)
  BY RowStep, Numbers
<1> QED
  BY <1>1, Invariants, PTL DEF Spec, RowNeverGoesBack

LEMMA HitStep ==
  ASSUME Types, KbInv, [Next]_vars, NEW c \in Calls, HitReturns(c)
  PROVE  docs' # None /\ (~apart => docs' >= call[c].v)
<1>0. docs \in Nat /\ call[c].v \in Nat /\ call[c] \in Call /\ call \in [Calls -> Call]
  BY Numbers DEF Types
<1>1. /\ call[c].pc \in {"count", "backfill"} /\ call'[c].pc = "done"
      /\ call[c].v # None /\ (~apart => call[c].v <= docs)
  BY DEF HitReturns, KbInv, CallInv
<1>2. CASE Count(c)
  <2>1. docs' = docs /\ docs # None
    BY <1>0, <1>1, <1>2 DEF Count, Goes, Returns, StoreUnchanged, Call
  <2> QED
    BY <1>0, <1>1, <2>1
<1>3. CASE Backfill(c)
  <2>1. PICK o \in Replaced(call[c].v) :
          /\ docs' = o.docs
          /\ IF o.err THEN call' = [call EXCEPT ![c].pc = "drop"] ELSE Returns(c)
    BY <1>3 DEF Backfill
  <2>2. ~o.err
    BY <2>1, <1>0, <1>1 DEF Call
  <2>3. docs' = call[c].v
    BY <2>1, <2>2, ReplacedShape
  <2> QED
    BY <2>3, <1>0, <1>1
<1>4. ASSUME ~Count(c), ~Backfill(c) PROVE FALSE
  <2>1. ASSUME NEW d \in Calls, Step(d) PROVE FALSE
    <3>1. CASE d = c
      BY <1>1, <1>4, <2>1, <3>1
         DEF Step, Begin, ReadCache, DropRow, Check, JoinFlight, Download, Index, StoreRow, FlightEnds, At
    <3>2. CASE d # c
      <4>1. CASE FlightEnds(d)
        BY <1>0, <1>1, <3>2, <4>1 DEF FlightEnds, Answered, At
      <4>2. CASE ~FlightEnds(d)
        <5>1. call'[c] = call[c]
          BY <1>0, <2>1, <3>2, <4>2
             DEF Step, Begin, ReadCache, Count, Backfill, DropRow, Check, JoinFlight, Download, Index, StoreRow,
                 Goes, Returns, IsCutShort
        <5> QED
          BY <1>1, <5>1
      <4> QED
        BY <4>1, <4>2
    <3> QED
      BY <3>1, <3>2
  <2>2. ASSUME \A d \in Calls : ~Step(d) PROVE FALSE
    <3>1. call'[c].pc = call[c].pc
      <4>1. CASE Purge
        BY <4>1 DEF Purge
      <4>2. ASSUME NEW b \in Batches, StartBatch(b) PROVE call'[c].pc = call[c].pc
        BY <1>0, <1>1, <4>2 DEF StartBatch, At
      <4>3. CASE call' = call
        BY <4>3
      <4> QED
        BY <2>2, <4>1, <4>2, <4>3 DEF Next, AllDone, CancelBatch, ToolPurge, PurgeProject, PurgeSession, PageChanges,
                                      RowPruned, vars
    <3> QED
      BY <1>1, <3>1
  <2> QED
    BY <2>1, <2>2
<1> QED
  BY <1>2, <1>3, <1>4

(* A cache hit leaves the documents searchable, purged in between or not,  *)
(* and not older than what it reports (fetch.go:733).                      *)
THEOREM HitsAreBacked == Spec => HitIsBacked
<1>1. Types /\ KbInv /\ [Next]_vars =>
        \A c \in Calls : HitReturns(c) => docs' # None /\ (~apart => docs' >= call[c].v)
  BY HitStep
<1> QED
  BY <1>1, Invariants, PTL DEF Spec, HitIsBacked
=============================================================================
