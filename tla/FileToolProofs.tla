---------------------------- MODULE FileToolProofs ----------------------------
(***************************************************************************)
(* The tools that look at files.  RgSearch: DirtyStateIsRecent and         *)
(* IndexedIsSearchable for any number of concurrent searches, any          *)
(* lifetimes and any bound on the entries.  FileWalk: StoredIsFit and      *)
(* OmissionIsTold for whatever the entries are and however often they      *)
(* change, for every limit on the answers, on the hits and on the bytes.   *)
(* RgCapture: AnswersTell for whatever rg prints, however its output is    *)
(* cut, and for every bound on the buffer and on the page.                 *)
(***************************************************************************)
EXTENDS RgSearch, FileWalk, RgCapture, SequenceTheorems, FiniteSetTheorems,
        WellFoundedInduction, TLAPS

Records == [pc : SearchPlaces, began : Nat, git : GitStates, seen : Nat,
            text : Texts, cut : BOOLEAN, reused : BOOLEAN]

(* RgTypeOK without the bounds on time. *)
Types ==
  /\ clock \in Nat /\ tree \in Trees
  /\ dirty \in [state : GitStates, expires : Nat, seen : Nat]
  /\ dedup \in [Keys -> [text : Texts, created : Nat \cup {-1}, cut : BOOLEAN]]
  /\ kb \subseteq Texts
  /\ search \in [Searches -> Records]

(* The cache expires within the lifetime of what was seen; a search that   *)
(* is to probe or has probed sees nothing older than its beginning.        *)
Recent(r) ==
  /\ r.pc = "probe" => r.began <= clock
  /\ r.pc = "save" => r.began <= r.seen
  /\ r.pc \in {"save", "rg", "dedup", "index"} => r.began - r.seen < DirtyTTL

CacheInv ==
  /\ dirty.expires <= dirty.seen + DirtyTTL
  /\ \A s \in Searches : Recent(search[s])

(* What IndexedIsSearchable says of a text: if it is not there, it was     *)
(* lost at this time or later.                                             *)
Backed(t, since) ==
  \/ t \in kb
  \/ \E o \in Searches : Is(o, "index") /\ search[o].text = t
  \/ gone[t] # Never /\ gone[t] >= since

(* A text that the map holds, or that was reported as indexed, and since   *)
(* when it should have been there.                                         *)
Promised(t, since) ==
  \/ \E k \in Keys : dedup[k] # NoEntry /\ dedup[k].text = t /\ dedup[k].created = since
  \/ \E s \in Searches : Is(s, "indexed") /\ search[s].text = t /\ search[s].began - ReuseTTL + 1 = since

LabelInv ==
  /\ gone \in [Texts -> Nat \cup {-1}] /\ \A t \in Texts : gone[t] <= clock
  /\ \A t \in Texts : \A since \in Int : Promised(t, since) => since <= clock /\ Backed(t, since)

RgInv == Types /\ CacheInv /\ LabelInv

Parameters ==
  /\ DirtyTTL \in Nat /\ DirtyTTL > 0
  /\ ReuseTTL \in Nat /\ ReuseTTL > 0
  /\ MaxTree \in Nat

-----------------------------------------------------------------------------
LEMMA Constants ==
  ASSUME Parameters
  PROVE  /\ NotGit \in GitStates /\ NoText \in Texts /\ 0 \in Trees
         /\ New \in Records /\ NoEntry \in [text : Texts, created : Nat \cup {-1}, cut : BOOLEAN]
         /\ \A t \in Trees : [isGit |-> TRUE, tree |-> t] \in GitStates
  BY DEF Parameters, NotGit, GitStates, NoText, Texts, Trees, New, Records, NoEntry, SearchPlaces

LEMMA InitHolds == Parameters /\ RgInit => RgInv
<1> SUFFICES ASSUME Parameters, RgInit PROVE RgInv
  OBVIOUS
<1>1. Types
  BY Constants DEF RgInit, Types, NotCached, Keys
<1>2. CacheInv
  BY DEF RgInit, CacheInv, Recent, NotCached, New, Parameters
<1>3. LabelInv
  BY DEF RgInit, LabelInv, Promised, Is, New, Keys, Never
<1> QED BY <1>1, <1>2, <1>3 DEF RgInv

(* A step replaces the record of one search.                               *)
LEMMA OneSearch ==
  ASSUME Types, NEW s \in Searches, NEW r \in Records, Becomes(s, r)
  PROVE  /\ search' \in [Searches -> Records] /\ search'[s] = r
         /\ \A o \in Searches \ {s} : search'[o] = search[o]
  BY DEF Types, Becomes

(* Neither the cache nor the clock changes, and the new record is recent.  *)
LEMMA RecentKeeps ==
  ASSUME Types, CacheInv, NEW s \in Searches, NEW r \in Records, Becomes(s, r), Recent(r),
         UNCHANGED <<clock, dirty>>
  PROVE  CacheInv'
  BY OneSearch DEF CacheInv, Recent

(* What was backed remains so if what is lost is lost now, and the one who *)
(* was to index a text indexes it or loses it.                             *)
LEMMA BackedKeeps ==
  ASSUME Types, LabelInv, NEW s \in Searches, NEW r \in Records, Becomes(s, r),
         \A u \in Texts : \/ gone'[u] = gone[u] /\ (u \in kb => u \in kb')
                         \/ gone'[u] = clock,
         Is(s, "index") => search[s].text \in kb' \/ gone'[search[s].text] = clock,
         NEW t \in Texts, NEW since \in Int, since <= clock, Backed(t, since)
  PROVE  Backed(t, since)'
<1>1. clock \in Nat /\ clock # Never
  BY DEF Types, Never
<1>2. CASE gone'[t] = clock
  BY <1>1, <1>2 DEF Backed
<1>3. CASE gone'[t] = gone[t] /\ (t \in kb => t \in kb')
  BY <1>1, <1>3, OneSearch DEF Backed, Is
<1> QED BY <1>2, <1>3

(* The steps that leave the map and the store alone. *)
LEMMA QuietStep ==
  ASSUME Types, LabelInv, NEW s \in Searches, NEW r \in Records, Becomes(s, r),
         UNCHANGED <<clock, dedup, kb, gone>>, ~Is(s, "index"), r.pc # "indexed"
  PROVE  LabelInv'
<1>1. ASSUME NEW t \in Texts, NEW since \in Int, since <= clock, Backed(t, since) PROVE Backed(t, since)'
  BY <1>1, BackedKeeps
<1>2. ASSUME NEW t \in Texts, NEW since \in Int, Promised(t, since)' PROVE Promised(t, since)
  BY <1>2, OneSearch DEF Promised, Is
<1> QED BY <1>1, <1>2 DEF LabelInv

-----------------------------------------------------------------------------
LEMMA LookHolds ==
  ASSUME Parameters, RgInv, NEW s \in Searches, Look(s) PROVE RgInv'
<1> DEFINE cached == [New EXCEPT !.pc = "rg", !.began = clock, !.git = dirty.state, !.seen = dirty.seen]
           fresh  == [New EXCEPT !.pc = "probe", !.began = clock]
<1>1. /\ cached \in Records /\ fresh \in Records
      /\ cached.pc = "rg" /\ cached.began = clock /\ cached.seen = dirty.seen
      /\ fresh.pc = "probe" /\ fresh.began = clock
  BY Constants DEF RgInv, Types, Records, New, SearchPlaces
<1> HIDE DEF cached, fresh
<1>2. PICK r \in {cached, fresh} : Becomes(s, r) /\ Recent(r)
  <2>1. CASE clock < dirty.expires
    <3>1. Becomes(s, cached)
      BY <2>1 DEF Look, cached
    <3>2. Recent(cached)
      BY <1>1, <2>1 DEF Recent, RgInv, CacheInv, Types, Parameters
    <3> QED BY <3>1, <3>2
  <2>2. CASE ~(clock < dirty.expires)
    <3>1. Becomes(s, fresh)
      BY <2>2 DEF Look, fresh
    <3>2. Recent(fresh)
      BY <1>1 DEF Recent, RgInv, Types
    <3> QED BY <3>1, <3>2
  <2> QED BY <2>1, <2>2
<1>4. r \in Records /\ UNCHANGED <<clock, tree, dirty, dedup, kb, gone>> /\ ~Is(s, "index") /\ r.pc # "indexed"
  BY <1>1, <1>2 DEF Look, OnlySearch, Is
<1>5. Types'
  BY <1>2, <1>4, OneSearch DEF Types, RgInv
<1> QED BY <1>2, <1>4, <1>5, RecentKeeps, QuietStep DEF RgInv

LEMMA ProbeHolds ==
  ASSUME Parameters, RgInv, NEW s \in Searches, Probe(s) PROVE RgInv'
<1>1. PICK g \in GitStates : Becomes(s, [search[s] EXCEPT !.pc = "save", !.git = g, !.seen = clock])
  BY Constants DEF Probe, RgInv, Types
<1> DEFINE r == [search[s] EXCEPT !.pc = "save", !.git = g, !.seen = clock]
<1>2. r \in Records /\ r.pc = "save" /\ r.began = search[s].began /\ r.seen = clock
  BY DEF RgInv, Types, Records, SearchPlaces
<1> HIDE DEF r
<1>3. Becomes(s, r)
  BY <1>1 DEF r
<1>4. search[s].began <= clock /\ search[s].began \in Nat /\ clock \in Nat
  BY DEF Probe, Is, RgInv, CacheInv, Recent, Types, Records
<1>5. Recent(r)
  BY <1>2, <1>4 DEF Recent, Parameters
<1>6. UNCHANGED <<clock, tree, dirty, dedup, kb, gone>> /\ ~Is(s, "index")
  BY DEF Probe, OnlySearch, Is
<1>7. Types'
  BY <1>2, <1>3, <1>6, OneSearch DEF Types, RgInv
<1> QED BY <1>2, <1>3, <1>5, <1>6, <1>7, RecentKeeps, QuietStep DEF RgInv

(* The one action that fills the cache. *)
LEMMA SaveHolds ==
  ASSUME Parameters, RgInv, NEW s \in Searches, Save(s) PROVE RgInv'
<1> DEFINE r == [search[s] EXCEPT !.pc = "rg"]
<1>1. /\ r \in Records /\ r.pc = "rg" /\ r.began = search[s].began /\ r.seen = search[s].seen
      /\ search[s].began \in Nat /\ search[s].seen \in Nat /\ search[s].git \in GitStates
  BY DEF RgInv, Types, Records, SearchPlaces
<1> HIDE DEF r
<1>2. Becomes(s, r)
  BY DEF Save, r
<1>3. search[s].began <= search[s].seen /\ ~Is(s, "index")
  BY DEF Save, Is, RgInv, CacheInv, Recent
<1>4. /\ dirty' = [state |-> search[s].git, expires |-> search[s].began + DirtyTTL, seen |-> search[s].seen]
      /\ UNCHANGED <<clock, tree, dedup, kb, gone>>
  BY DEF Save, Expiry
<1>5. dirty' \in [state : GitStates, expires : Nat, seen : Nat] /\ dirty'.expires <= dirty'.seen + DirtyTTL
  BY <1>1, <1>3, <1>4 DEF Parameters
<1>6. Types'
  BY <1>1, <1>2, <1>4, <1>5, OneSearch DEF Types, RgInv
<1>7. CacheInv'
  <2>1. Recent(r)
    BY <1>1, <1>3 DEF Recent, Parameters
  <2> QED BY <1>1, <1>2, <1>4, <1>5, <2>1, OneSearch DEF CacheInv, Recent, RgInv
<1> QED BY <1>1, <1>2, <1>3, <1>4, <1>6, <1>7, QuietStep DEF RgInv

LEMMA RunRgHolds ==
  ASSUME Parameters, RgInv, NEW s \in Searches, RunRg(s) PROVE RgInv'
<1>1. /\ UNCHANGED <<clock, tree, dirty, dedup, kb, gone>> /\ ~Is(s, "index")
      /\ search[s] \in Records /\ search[s].pc = "rg" /\ Recent(search[s])
  BY DEF RunRg, OnlySearch, Is, RgInv, Types, CacheInv
<1>2. PICK r \in Records : Becomes(s, r) /\ r.pc \in {"dedup", "few"} /\ Recent(r)
  <2>1. ASSUME NEW half \in BOOLEAN,
               Becomes(s, [search[s] EXCEPT !.pc = "dedup", !.cut = half,
                                            !.text = [tree |-> tree, git |-> search[s].git]])
        PROVE  \E r \in Records : Becomes(s, r) /\ r.pc \in {"dedup", "few"} /\ Recent(r)
    <3> DEFINE q == [search[s] EXCEPT !.pc = "dedup", !.cut = half,
                                      !.text = [tree |-> tree, git |-> search[s].git]]
    <3>1. [tree |-> tree, git |-> search[s].git] \in Texts
      BY <1>1 DEF RgInv, Types, Texts, Records
    <3>2. q \in Records /\ q.pc = "dedup" /\ q.began = search[s].began /\ q.seen = search[s].seen
      BY <1>1, <2>1, <3>1 DEF Records, SearchPlaces
    <3> HIDE DEF q
    <3>3. Recent(q)
      BY <1>1, <3>2 DEF Recent
    <3> QED BY <2>1, <3>2, <3>3 DEF q
  <2>2. ASSUME Becomes(s, Ended("few", NoText, 0))
        PROVE  \E r \in Records : Becomes(s, r) /\ r.pc \in {"dedup", "few"} /\ Recent(r)
    <3>1. Ended("few", NoText, 0) \in Records /\ Ended("few", NoText, 0).pc = "few"
      BY Constants DEF Ended, New, Records, SearchPlaces
    <3> QED BY <2>2, <3>1 DEF Recent
  <2> QED BY <2>1, <2>2 DEF RunRg
<1>3. Types'
  BY <1>1, <1>2, OneSearch DEF Types, RgInv
<1> QED BY <1>1, <1>2, <1>3, RecentKeeps, QuietStep DEF RgInv

(* The map: an entry is made by the one who will index its text, or is     *)
(* what an earlier one has left.                                           *)
LEMMA DedupHolds ==
  ASSUME Parameters, RgInv, NEW s \in Searches, Dedup(s) PROVE RgInv'
<1> DEFINE k == Key(search[s].cut)
           t == search[s].text
           q == [search[s] EXCEPT !.pc = "index"]
           e == [Ended("indexed", t, clock) EXCEPT !.reused = TRUE]
           entry == [text |-> t, created |-> clock, cut |-> search[s].cut]
<1>1. /\ search[s] \in Records /\ t \in Texts /\ k \in Keys
      /\ search[s].pc = "dedup" /\ Recent(search[s]) /\ ~Is(s, "index")
      /\ UNCHANGED <<clock, tree, dirty, kb, gone>>
  BY DEF Dedup, Is, RgInv, Types, CacheInv, Records, Key, Keys
<1>2. /\ q \in Records /\ q.pc = "index" /\ q.began = search[s].began /\ q.seen = search[s].seen
      /\ q.text = t
  BY <1>1 DEF Records, SearchPlaces
<1>3. e \in Records /\ e.pc = "indexed" /\ e.text = t /\ e.began = clock /\ clock \in Nat
  BY <1>1, Constants DEF Ended, New, Records, SearchPlaces, RgInv, Types
<1>4. /\ entry \in [text : Texts, created : Nat \cup {-1}, cut : BOOLEAN]
      /\ entry.text = t /\ entry.created = clock
  BY <1>1 DEF RgInv, Types, Records
<1>5. CASE Reusable(k, t)
  <2>1. Becomes(s, e) /\ UNCHANGED dedup
    BY <1>5 DEF Dedup
  <2>2. PICK made \in Int : Promised(t, made) /\ clock - made < ReuseTTL
    <3>1. dedup[k].created \in Int /\ clock - dedup[k].created < ReuseTTL /\ Promised(t, dedup[k].created)
      BY <1>1, <1>5 DEF Reusable, Promised, RgInv, Types
    <3> QED BY <3>1
  <2> HIDE DEF k, t, q, e, entry
  <2>3. ASSUME NEW u \in Texts, NEW since \in Int, since <= clock, Backed(u, since) PROVE Backed(u, since)'
    BY <1>1, <1>3, <2>1, <2>3, BackedKeeps DEF RgInv
  <2>9. Backed(t, made)
    BY <1>1, <2>2 DEF RgInv, LabelInv
  <2>10. Backed(t, clock - ReuseTTL + 1)
    <3>1. gone[t] \in Int /\ made >= clock - ReuseTTL + 1
      BY <1>1, <1>3, <2>2 DEF RgInv, LabelInv, Parameters
    <3> QED BY <1>3, <2>9, <3>1 DEF Backed, Parameters
  <2>4. \A o \in Searches \ {s} : search'[o] = search[o]
    BY <1>3, <2>1, OneSearch DEF RgInv
  <2>5. search'[s] = e
    BY <1>3, <2>1, OneSearch DEF RgInv
  <2>6. LabelInv'
    <3>1. ASSUME NEW u \in Texts, NEW since \in Int, Promised(u, since)'
          PROVE  Promised(u, since) \/ (u = t /\ since = clock - ReuseTTL + 1)
      BY <3>1, <1>3, <2>1, <2>4, <2>5 DEF Promised, Is
    <3>2. ASSUME NEW u \in Texts, NEW since \in Int, Promised(u, since)' PROVE since <= clock /\ Backed(u, since)
      <4>1. CASE Promised(u, since)
        BY <4>1 DEF RgInv, LabelInv
      <4>2. CASE u = t /\ since = clock - ReuseTTL + 1
        BY <1>3, <2>10, <4>2 DEF Parameters
      <4> QED BY <3>1, <3>2, <4>1, <4>2
    <3> QED BY <1>1, <2>3, <3>2 DEF LabelInv, RgInv
  <2>7. Types'
    BY <1>1, <1>3, <2>1, OneSearch DEF Types, RgInv
  <2>8. CacheInv'
    BY <1>1, <1>3, <2>1, RecentKeeps DEF RgInv, Recent
  <2> QED BY <2>6, <2>7, <2>8 DEF RgInv
<1>6. CASE ~Reusable(k, t)
  <2>1. Becomes(s, q)
    BY <1>6 DEF Dedup
  <2>2. PICK d \in MadeRoom(dedup) : dedup' = [d EXCEPT ![k] = entry]
    BY <1>6 DEF Dedup
  <2> HIDE DEF k, t, q, e, entry
  <2>3. /\ d \in [Keys -> [text : Texts, created : Nat \cup {-1}, cut : BOOLEAN]]
        /\ \A x \in Keys : d[x] = dedup[x] \/ d[x] = NoEntry
    BY <2>2, Constants DEF MadeRoom, Used, RgInv, Types
  <2>4. /\ dedup' \in [Keys -> [text : Texts, created : Nat \cup {-1}, cut : BOOLEAN]]
        /\ dedup'[k] = entry
        /\ \A x \in Keys \ {k} : dedup'[x] = dedup[x] \/ dedup'[x] = NoEntry
    BY <1>1, <1>4, <2>2, <2>3
  <2>5. ASSUME NEW u \in Texts, NEW since \in Int, since <= clock, Backed(u, since) PROVE Backed(u, since)'
    BY <1>1, <1>2, <2>1, <2>5, BackedKeeps DEF RgInv
  <2>6. search'[s] = q /\ \A o \in Searches \ {s} : search'[o] = search[o]
    BY <1>2, <2>1, OneSearch DEF RgInv
  <2>7. \A u \in Texts : u = t => \A since \in Int : Backed(u, since)'
    BY <1>2, <2>6 DEF Backed, Is
  <2>8. LabelInv'
    <3>1. ASSUME NEW u \in Texts, NEW since \in Int, Promised(u, since)'
          PROVE  Promised(u, since) \/ (u = t /\ since = clock)
      BY <3>1, <1>2, <1>4, <2>4, <2>6 DEF Promised, Is
    <3>2. ASSUME NEW u \in Texts, NEW since \in Int, Promised(u, since)' PROVE since <= clock /\ Backed(u, since)'
      <4>1. CASE Promised(u, since)
        BY <2>5, <4>1 DEF RgInv, LabelInv
      <4>2. CASE u = t /\ since = clock
        BY <1>3, <2>7, <4>2
      <4> QED BY <3>1, <3>2, <4>1, <4>2
    <3> QED BY <1>1, <3>2 DEF LabelInv, RgInv
  <2>9. Types'
    BY <1>1, <1>2, <2>1, <2>4, OneSearch DEF Types, RgInv
  <2>10. CacheInv'
    BY <1>1, <1>2, <2>1, RecentKeeps DEF RgInv, Recent
  <2> QED BY <2>8, <2>9, <2>10 DEF RgInv
<1> QED BY <1>5, <1>6

LEMMA IndexHolds ==
  ASSUME Parameters, RgInv, NEW s \in Searches, IndexResult(s) PROVE RgInv'
<1> DEFINE t == search[s].text
<1>1. search[s] \in Records /\ t \in Texts /\ UNCHANGED <<clock, tree, dirty, dedup>> /\ clock \in Nat
  BY DEF IndexResult, RgInv, Types, Records
<1>2. PICK r \in Records :
        /\ Becomes(s, r) /\ r.pc \in {"indexed", "failed"}
        /\ \/ r.text = t /\ r.began = clock /\ kb' = kb \cup {t} /\ UNCHANGED gone
           \/ r.pc = "failed" /\ gone' = [gone EXCEPT ![t] = clock] /\ UNCHANGED kb
  <2>1. /\ Ended("indexed", t, clock) \in Records /\ Ended("indexed", t, clock).pc = "indexed"
        /\ Ended("indexed", t, clock).text = t /\ Ended("indexed", t, clock).began = clock
        /\ Ended("failed", NoText, 0) \in Records /\ Ended("failed", NoText, 0).pc = "failed"
    BY <1>1, Constants DEF Ended, New, Records, SearchPlaces
  <2> QED BY <2>1 DEF IndexResult
<1> HIDE DEF t
<1>9. /\ gone' \in [Texts -> Nat \cup {-1}] /\ \A u \in Texts : gone'[u] <= clock
      /\ \A u \in Texts : gone'[u] = gone[u] \/ gone'[u] = clock
      /\ kb \subseteq kb' /\ (t \in kb' \/ gone'[t] = clock)
  BY <1>1, <1>2 DEF RgInv, LabelInv
<1>3. ASSUME NEW u \in Texts, NEW since \in Int, since <= clock, Backed(u, since) PROVE Backed(u, since)'
  BY <1>1, <1>2, <1>3, <1>9, BackedKeeps DEF RgInv, t
<1>5. search'[s] = r /\ \A o \in Searches \ {s} : search'[o] = search[o]
  BY <1>2, OneSearch DEF RgInv
<1>6. LabelInv'
  <2>1. ASSUME NEW u \in Texts, NEW since \in Int, Promised(u, since)'
        PROVE  Promised(u, since) \/ (u = t /\ t \in kb' /\ since = clock - ReuseTTL + 1)
    BY <2>1, <1>1, <1>2, <1>5 DEF Promised, Is
  <2>2. ASSUME NEW u \in Texts, NEW since \in Int, Promised(u, since)' PROVE since <= clock /\ Backed(u, since)'
    <3>1. CASE Promised(u, since)
      BY <1>3, <3>1 DEF RgInv, LabelInv
    <3>2. CASE u = t /\ t \in kb' /\ since = clock - ReuseTTL + 1
      BY <1>1, <3>2 DEF Backed, Parameters
    <3> QED BY <2>1, <2>2, <3>1, <3>2
  <2> QED BY <1>1, <1>9, <2>2 DEF LabelInv
<1>7. Types'
  BY <1>1, <1>2, OneSearch DEF Types, RgInv
<1>8. CacheInv'
  BY <1>1, <1>2, RecentKeeps DEF RgInv, Recent
<1> QED BY <1>6, <1>7, <1>8 DEF RgInv

(* What is purged is lost now. *)
LEMMA PurgeHolds == ASSUME RgInv, PurgeIndexed PROVE RgInv'
<1>1. clock \in Nat /\ UNCHANGED <<clock, tree, dirty, dedup, search>> /\ kb' \subseteq Texts
  BY DEF PurgeIndexed, RgInv, Types
<1>2. \A u \in Texts : gone'[u] = IF u \in kb THEN clock ELSE gone[u]
  BY DEF PurgeIndexed
<1>3. gone' \in [Texts -> Nat \cup {-1}] /\ \A u \in Texts : gone'[u] <= clock
  BY <1>1 DEF PurgeIndexed, RgInv, LabelInv
<1>4. ASSUME NEW u \in Texts, NEW since \in Int, since <= clock, Backed(u, since) PROVE Backed(u, since)'
  BY <1>1, <1>2, <1>4 DEF Backed, Is, Never
<1>5. \A u \in Texts : \A since \in Int : Promised(u, since)' => Promised(u, since)
  BY <1>1 DEF Promised, Is
<1>6. LabelInv'
  BY <1>1, <1>3, <1>4, <1>5 DEF RgInv, LabelInv
<1>7. Types' /\ CacheInv'
  BY <1>1 DEF RgInv, Types, CacheInv, Recent
<1> QED BY <1>6, <1>7 DEF RgInv

LEMMA TimeHolds == ASSUME RgInv, TimePasses PROVE RgInv'
<1>1. clock \in Nat /\ clock' = clock + 1 /\ UNCHANGED <<tree, dirty, dedup, kb, gone, search>>
  BY DEF TimePasses, RgInv, Types
<1>2. \A u \in Texts : \A since \in Int :
        /\ Promised(u, since)' <=> Promised(u, since)
        /\ Backed(u, since)' <=> Backed(u, since)
  BY <1>1 DEF Promised, Backed, Is
<1>3. LabelInv'
  BY <1>1, <1>2 DEF RgInv, LabelInv
<1>4. Types' /\ CacheInv'
  BY <1>1 DEF RgInv, Types, CacheInv, Recent, Records
<1> QED BY <1>3, <1>4 DEF RgInv

(* Every step keeps the invariant. *)
LEMMA StepHolds ==
  ASSUME Parameters, RgInv, [RgNext]_rgVars PROVE RgInv'
<1>1. ASSUME NEW s \in Searches, RgStep(s) PROVE RgInv'
  BY <1>1, LookHolds, ProbeHolds, SaveHolds, RunRgHolds, DedupHolds, IndexHolds DEF RgStep
<1>2. CASE TreeChanges
  BY <1>2 DEF TreeChanges, RgInv, Types, CacheInv, Recent, LabelInv, Promised, Backed, Is, Trees, Parameters
<1>3. CASE UNCHANGED rgVars
  BY <1>3 DEF rgVars, RgInv, Types, CacheInv, Recent, LabelInv, Promised, Backed, Is
<1> QED BY <1>1, <1>2, <1>3, PurgeHolds, TimeHolds DEF RgNext

(* The invariant of the two caches.                                        *)
THEOREM RgInductive == ASSUME Parameters PROVE RgSpec => []RgInv
<1>1. RgInit => RgInv
  BY InitHolds
<1>2. RgInv /\ [RgNext]_rgVars => RgInv'
  BY StepHolds
<1> QED BY <1>1, <1>2, PTL DEF RgSpec

(* No search ranks by a git state older than the lifetime, however many    *)
(* probes overlap and in whatever order they are stored.                   *)
THEOREM StateIsRecent == ASSUME Parameters PROVE RgSpec => []DirtyStateIsRecent
<1>1. RgInv => DirtyStateIsRecent
  BY DEF RgInv, CacheInv, Recent, DirtyStateIsRecent
<1> QED BY <1>1, RgInductive, PTL

(* A label is reported as indexed only when a search finds the text under  *)
(* it, or will once the first of those who found it has indexed it, or     *)
(* less than the lifetime of a map entry after the text was lost.          *)
THEOREM LabelsAreBacked == ASSUME Parameters PROVE RgSpec => []IndexedIsSearchable
<1>1. ASSUME Parameters, RgInv PROVE IndexedIsSearchable
  <2>1. ASSUME NEW s \in Searches, Is(s, "indexed")
        PROVE  Backed(search[s].text, search[s].began - ReuseTTL + 1)
    <3>1. search[s].text \in Texts /\ search[s].began - ReuseTTL + 1 \in Int
      BY <1>1 DEF RgInv, Types, Records, Parameters
    <3> QED BY <1>1, <2>1, <3>1 DEF RgInv, LabelInv, Promised
  <2>2. \A s \in Searches : search[s].began \in Nat /\ gone[search[s].text] \in Int
    BY <1>1 DEF RgInv, Types, Records, LabelInv
  <2> QED BY <1>1, <2>1, <2>2 DEF Backed, IndexedIsSearchable, Parameters
<1> QED BY <1>1, RgInductive, PTL

-----------------------------------------------------------------------------
(* A file may become one of these under the eyes of the indexer.           *)
Swapped == {"big", "binary", "alias", "fifo", "linksecret", "linkout", "linky"}

DirKinds == {"dir", "hiddendir", "bulk", "lockeddir"}

(* What passes the check, unless it is an alias of what is sensitive.      *)
GoodKinds == {"plain", "hidden", "locked", "alias"}

LEMMA EntriesAre == Entries = {"r", "d", "x", "y", "f"}
BY DEF Entries, Range, Order

(* The kinds: nobody makes a directory, and y is no sensitive file.        *)
Tree(k) ==
  /\ k \in [{"r", "d", "x", "y", "f"} -> DirKinds \cup LeafKinds]
  /\ k["y"] \in {"plain"} \cup (Swapped \ {"linky"})

(* What is in hand is a file or a link and not sensitive; once it has been *)
(* checked it is what it was then, or has been changed since.              *)
InHand(f) ==
  /\ f.phase # "none" => f.path \in Entries /\ kind[f.path] \notin DirKinds \cup {"secret"}
  /\ f.phase = "read" =>
       /\ f.was \in GoodKinds /\ (f.was = "alias" => Collected = "nothing")
       /\ kind[f.path] = f.was \/ kind[f.path] \in Swapped

HandRecords ==
  [path : Entries, phase : {"check", "read"}, size : Nat, was : {"none"} \cup LeafKinds]

(* Of the layers of ignore rules nothing is needed here.                   *)
Walks(w) ==
  /\ w = [left |-> w.left, layers |-> w.layers, inodes |-> w.inodes, file |-> w.file, pc |-> w.pc]
  /\ w.left \subseteq Entries /\ w.inodes \in {"unknown", Collected} /\ w.pc \in {"new", "walk", "done"}
  /\ w.file \in {NotIndexing} \cup HandRecords

WalkInv ==
  /\ Tree(kind) /\ call.tool \in Tools /\ call.root \in Entries
  /\ Walks(walk) /\ InHand(walk.file) /\ StoredIsFit

LEMMA TreeStarts == WalkInit => Tree(kind)
<1> SUFFICES ASSUME WalkInit PROVE Tree(kind)
  OBVIOUS
<1>1. kind \in [r : {"dir"}, d : {"dir", "hiddendir", "bulk", "lockeddir"}, x : FirstKinds, y : {"plain"}, f : LastKinds]
  BY DEF WalkInit
<1>2. FirstKinds \subseteq LeafKinds /\ LastKinds \subseteq LeafKinds
  BY WalkParameters
<1>3. /\ kind["r"] = "dir" /\ kind["d"] \in DirKinds /\ kind["x"] \in LeafKinds
      /\ kind["y"] = "plain" /\ kind["f"] \in LeafKinds
  BY <1>1, <1>2 DEF DirKinds
<1>4. kind = [p \in {"r", "d", "x", "y", "f"} |-> kind[p]]
  BY <1>1
<1> QED BY <1>3, <1>4 DEF Tree, DirKinds, LeafKinds

LEMMA WalkInitHolds == WalkInit => WalkInv
<1> SUFFICES ASSUME WalkInit PROVE WalkInv
  OBVIOUS
<1>1. Tree(kind)
  BY TreeStarts
<1> DEFINE l == IF rules[IF WalkRoot = "d" THEN "d" ELSE "r"] = <<>> THEN <<>> ELSE <<WalkRoot>>
<1>2. walk = [left |-> Below(WalkRoot), layers |-> l, inodes |-> "unknown",
              file |-> NotIndexing, pc |-> "new"] /\ stock = {}
  BY DEF WalkInit
<1> HIDE DEF l
<1>3. Below(WalkRoot) \subseteq Entries
  BY DEF Below
<1>4. InHand(walk.file) /\ Walks(walk)
  BY <1>2, <1>3 DEF InHand, Walks, NotIndexing
<1>5. StoredIsFit
  BY <1>2 DEF StoredIsFit
<1>6. call.tool \in Tools /\ call.root \in Entries
  BY EntriesAre DEF WalkInit
<1> QED BY <1>1, <1>4, <1>5, <1>6 DEF WalkInv

-----------------------------------------------------------------------------
LEMMA RealIs ==
  ASSUME Tree(kind), NEW p \in Entries, ~LeadsToSecret(p), kind[p] \notin DirKinds
  PROVE  Real(p) \in Entries /\ kind[Real(p)] \notin DirKinds \cup {"secret"}
<1>1. "y" \in Entries
  BY EntriesAre
<1>2. kind["y"] \notin DirKinds \cup {"secret"}
  BY DEF Tree, DirKinds, Swapped
<1>3. kind[p] # "secret"
  BY DEF LeadsToSecret, Sensitive
<1> QED BY <1>1, <1>2, <1>3 DEF Real

(* What indexing takes is no directory and no sensitive name.              *)
LEMMA IndexingTakes ==
  ASSUME NEW p, Indexing(p).take
  PROVE  ~Dir(p) /\ ~LeadsToSecret(p)
<1>1. Prune.take = FALSE /\ Go.take = FALSE /\ Skip.take = FALSE
  BY DEF Prune, Go, Skip
<1>2. [Go EXCEPT !.stop = TRUE, !.more = TRUE].take = FALSE /\ [Skip EXCEPT !.stop = TRUE, !.more = TRUE].take = FALSE
  BY DEF Go, Skip
<1> QED BY <1>1, <1>2 DEF Indexing

(* What the walk does with an entry that can be read, and with one that    *)
(* cannot.                                                                 *)
LEMMA DecidesBy ==
  ASSUME NEW p
  PROVE  /\ WalkError(p) => Decision(p) = [Prune EXCEPT !.skip = call.tool = "index"] /\ Decision(p).take = FALSE
         /\ ~WalkError(p) =>
              /\ call.tool = "ls" => Decision(p) = Ls(p)
              /\ call.tool = "glob" => Decision(p) = Glob(p)
              /\ Scanning => Decision(p) = Scan(p)
              /\ call.tool = "rg" => Decision(p) = Rg(p)
              /\ call.tool \notin {"ls", "glob", "rg"} /\ ~Scanning => Decision(p) = Indexing(p)
<1>1. CASE WalkError(p)
  <2>1. Decision(p) = [Prune EXCEPT !.skip = call.tool = "index"]
    BY <1>1 DEF Decision
  <2>2. [Prune EXCEPT !.skip = (call.tool = "index")].take = FALSE
    BY DEF Prune, Go
  <2> QED BY <1>1, <2>1, <2>2
<1>2. CASE ~WalkError(p)
  BY <1>2 DEF Decision, Scanning
<1> QED BY <1>1, <1>2

(* The set of sensitive inodes, if it is known, is the whole one.          *)
LEMMA InodesAre ==
  ASSUME walk.inodes \in {"unknown", Collected}, NEW p
  PROVE  InodesFor(p) \in {"unknown", Collected}
BY DEF InodesFor

LEMMA NotAliased ==
  ASSUME walk.inodes \in {"unknown", Collected}, NEW p, kind[p] = "alias", ~SecretAlias(p, InodesFor(p))
  PROVE  Collected = "nothing"
<1>1. InodesFor(p) = Collected
  BY DEF InodesFor, ManyNames
<1>2. Collected # "secret"
  BY <1>1 DEF SecretAlias
<1> QED BY <1>2 DEF Collected

-----------------------------------------------------------------------------
LEMMA KindsRest ==
  ASSUME WalkInv, kind' = kind
  PROVE  Tree(kind)' /\ Collected' = Collected
<1>1. Tree(kind)'
  BY DEF WalkInv, Tree
<1>2. Collected' = Collected
  BY DEF Collected, Sensitive, Bulk, LockedDir, Above, Entries
<1> QED BY <1>1, <1>2

(* What StoredIsFit says of one that is stored. *)
Fit(e) ==
  /\ e[3] \in GoodKinds /\ (e[3] = "alias" => Collected = "nothing")
  /\ e[2] \in {"alias", "fifo"} \/ (e[2] = e[3] /\ e[2] # "locked")

LEMMA FitIs == StoredIsFit <=> \A e \in stock : Fit(e)
  BY DEF StoredIsFit, Fit, GoodKinds

(* A step that changes no file: where it leaves the walk decides.          *)
LEMMA WalkStep ==
  ASSUME WalkInv, kind' = kind, call' = call, Walks(walk'), InHand(walk'.file),
         \A e \in stock' : e \in stock \/ Fit(e)
  PROVE  WalkInv'
<1>1. Tree(kind)' /\ Collected' = Collected /\ Entries' = Entries
  BY KindsRest DEF Entries
<1>2. StoredIsFit'
  <2>1. \A e \in stock' : Fit(e)
    BY FitIs DEF WalkInv
  <2>2. \A e \in stock' : /\ e[3] \in GoodKinds /\ (e[3] = "alias" => Collected' = "nothing")
                          /\ e[2] \in {"alias", "fifo"} \/ (e[2] = e[3] /\ e[2] # "locked")
    BY <1>1, <2>1 DEF Fit
  <2> QED BY <2>2 DEF StoredIsFit, GoodKinds
<1>3. InHand(walk.file)'
  BY <1>1 DEF InHand
<1>4. Walks(walk)'
  BY <1>1 DEF Walks
<1>5. call'.tool \in Tools /\ call'.root \in Entries'
  BY <1>1 DEF WalkInv
<1> QED BY <1>1, <1>2, <1>3, <1>4, <1>5 DEF WalkInv

LEMMA StartingHolds ==
  ASSUME WalkInv, Stat \/ Begin
  PROVE  WalkInv'
<1>1. kind' = kind /\ stock' = stock /\ call' = call /\ walk.pc = "new"
  BY DEF Stat, Begin
<1>2. CASE \/ walk' = [walk EXCEPT !.pc = "done", !.left = {}]
           \/ walk' = [walk EXCEPT !.pc = "done"]
           \/ walk' = [walk EXCEPT !.pc = "walk"]
  <2>1. Walks(walk') /\ walk'.file = walk.file
    BY <1>2 DEF WalkInv, Walks
  <2> QED BY <1>1, <2>1, WalkStep DEF WalkInv
<1>3. CASE /\ ~RootRefused(call.root) /\ call.tool # "stat" /\ ~Scanning /\ ~Dir(call.root)
           /\ walk' = [walk EXCEPT !.pc = "walk", !.left = {},
                                 !.file = [NotIndexing EXCEPT !.path = Real(call.root), !.phase = "check"]]
  <2>1. call.tool = "index" /\ call.root \in Entries
    BY <1>3 DEF RootRefused, Scanning, WalkInv, Tools
  <2>2. ~LeadsToSecret(call.root) /\ kind[call.root] \notin DirKinds
    BY <1>3, <2>1 DEF RootRefused, Dir, DirKinds
  <2>3. Real(call.root) \in Entries /\ kind[Real(call.root)] \notin DirKinds \cup {"secret"}
    BY <2>1, <2>2, RealIs DEF WalkInv
  <2>4. Walks(walk') /\ InHand(walk'.file)
    <3> DEFINE h == [NotIndexing EXCEPT !.path = Real(call.root), !.phase = "check"]
    <3>1. h \in HandRecords /\ h.path = Real(call.root) /\ h.phase = "check"
      BY <2>3 DEF NotIndexing, HandRecords
    <3>2. walk' = [walk EXCEPT !.pc = "walk", !.left = {}, !.file = h]
      BY <1>3
    <3> HIDE DEF h
    <3> QED BY <2>3, <3>1, <3>2 DEF WalkInv, Walks, InHand
  <2> QED BY <1>1, <2>4, WalkStep
<1> QED BY <1>2, <1>3 DEF Stat, Begin, Fail

LEMMA VisitHolds == WalkInv /\ Visit => WalkInv'
<1> SUFFICES ASSUME WalkInv, Visit PROVE WalkInv'
  OBVIOUS
<1>1. kind' = kind /\ stock' = stock /\ call' = call /\ walk.file = NotIndexing
  BY DEF Visit
<1>2. PICK p \in walk.left :
        walk' = [walk EXCEPT
                !.left = IF Decision(p).stop THEN {}
                         ELSE {q \in walk.left \ {p} : ~(Decision(p).prune /\ Dir(p) /\ q \in Below(p))},
                !.layers = Layers(p),
                !.inodes = IF call.tool = "index" /\ ~Dir(p) /\ Fenced(p) THEN InodesFor(Real(p)) ELSE @,
                !.file = IF Decision(p).take /\ call.tool = "index" THEN [NotIndexing EXCEPT !.path = Real(p), !.phase = "check", !.size = Size(Real(p))] ELSE @]
  BY DEF Visit
<1> DEFINE left == IF Decision(p).stop THEN {}
                   ELSE {q \in walk.left \ {p} : ~(Decision(p).prune /\ Dir(p) /\ q \in Below(p))}
           inodes == IF call.tool = "index" /\ ~Dir(p) /\ Fenced(p) THEN InodesFor(Real(p)) ELSE walk.inodes
           hand == IF Decision(p).take /\ call.tool = "index" THEN [NotIndexing EXCEPT !.path = Real(p), !.phase = "check", !.size = Size(Real(p))] ELSE walk.file
           layers == Layers(p)
<1>3. p \in Entries /\ left \subseteq Entries
  BY DEF WalkInv, Walks
<1>4. inodes \in {"unknown", Collected}
  BY InodesAre DEF WalkInv, Walks
<1>5. hand \in {NotIndexing} \cup HandRecords /\ InHand(hand)
  <2>1. CASE Decision(p).take /\ call.tool = "index"
    <3>1. Indexing(p).take
      BY <2>1, DecidesBy DEF Scanning
    <3>2. ~LeadsToSecret(p) /\ kind[p] \notin DirKinds
      BY <3>1, IndexingTakes DEF Dir, DirKinds
    <3>3. Real(p) \in Entries /\ kind[Real(p)] \notin DirKinds \cup {"secret"}
      BY <1>3, <3>2, RealIs DEF WalkInv
    <3>4. hand = [NotIndexing EXCEPT !.path = Real(p), !.phase = "check", !.size = Size(Real(p))] /\ Size(Real(p)) \in Nat
      BY <2>1 DEF Size
    <3> HIDE DEF hand
    <3>5. hand \in HandRecords /\ hand.path = Real(p) /\ hand.phase = "check"
      BY <3>3, <3>4 DEF NotIndexing, HandRecords
    <3> QED BY <3>3, <3>5 DEF InHand
  <2>2. CASE ~(Decision(p).take /\ call.tool = "index")
    BY <2>2 DEF WalkInv, Walks
  <2> QED BY <2>1, <2>2
<1>6. walk' = [left |-> left, layers |-> layers, inodes |-> inodes, file |-> hand, pc |-> walk.pc]
  <2>1. walk = [left |-> walk.left, layers |-> walk.layers, inodes |-> walk.inodes, file |-> walk.file, pc |-> walk.pc]
    BY DEF WalkInv, Walks
  <2>2. walk' = [walk EXCEPT !.left = left, !.layers = layers, !.inodes = inodes, !.file = hand]
    BY <1>2
  <2> HIDE DEF left, layers, inodes, hand
  <2> QED BY <2>1, <2>2
<1> HIDE DEF left, layers, inodes, hand
<1>7. Walks(walk') /\ InHand(walk'.file)
  BY <1>3, <1>4, <1>5, <1>6 DEF WalkInv, Walks
<1> QED BY <1>1, <1>7, WalkStep

LEMMA WalkEndsHolds ==
  ASSUME WalkInv, BudgetEnds \/ Finish
  PROVE  WalkInv'
<1>1. kind' = kind /\ stock' = stock /\ call' = call
  BY DEF BudgetEnds, Finish
<1>2. walk' = [walk EXCEPT !.left = {}] \/ walk' = [walk EXCEPT !.pc = "done"]
  BY DEF BudgetEnds, Finish
<1>3. Walks(walk') /\ walk'.file = walk.file
  BY <1>2 DEF WalkInv, Walks
<1> QED BY <1>1, <1>3, WalkStep DEF WalkInv

LEMMA CheckFileHolds == WalkInv /\ CheckFile => WalkInv'
<1> SUFFICES ASSUME WalkInv, CheckFile PROVE WalkInv'
  OBVIOUS
<1> DEFINE p == walk.file.path  q == Real(p)
<1>1. kind' = kind /\ call' = call /\ walk.file.phase = "check"
  BY DEF CheckFile
<1>2. CASE NotStored(p)
  <2>1. walk' = [walk EXCEPT !.file = NotIndexing] /\ stock' = stock
    BY <1>2 DEF NotStored
  <2>2. Walks(walk') /\ InHand(walk'.file)
    BY <2>1 DEF WalkInv, Walks, NotIndexing, InHand
  <2> QED BY <1>1, <2>1, <2>2, WalkStep
<1>3. CASE /\ Fenced(p) /\ ~LeadsToSecret(p) /\ kind[q] \notin {"fifo", "linkdead"}
           /\ ~SecretAlias(q, InodesFor(q)) /\ ~Unfit(q)
           /\ walk' = [walk EXCEPT !.file = [@ EXCEPT !.path = q, !.phase = "read", !.was = kind[q]]]
           /\ UNCHANGED <<tally, stock>>
  <2>1. p \in Entries /\ kind[p] \notin DirKinds \cup {"secret"}
    BY <1>1 DEF WalkInv, InHand
  <2>2. q \in Entries /\ kind[q] \notin DirKinds \cup {"secret"}
    BY <1>3, <2>1, RealIs DEF WalkInv
  <2>3. kind[q] \in GoodKinds
    <3>1. kind[q] \in DirKinds \cup LeafKinds
      BY <2>2, EntriesAre DEF WalkInv, Tree
    <3>2. kind[q] # "linky"
      <4>1. CASE kind[p] = "linky"
        <5>1. q = "y"
          BY <4>1 DEF Real
        <5> QED BY <5>1 DEF WalkInv, Tree, Swapped
      <4>2. CASE kind[p] # "linky"
        BY <4>2 DEF Real
      <4> QED BY <4>1, <4>2
    <3>3. kind[q] \notin {"linkout", "linksecret", "fifo", "linkdead", "big", "binary"}
      BY <1>3 DEF Fenced, LeadsToSecret, Unfit
    <3> HIDE DEF p, q
    <3> QED BY <2>2, <3>1, <3>2, <3>3 DEF LeafKinds, GoodKinds
  <2>4. kind[q] = "alias" => Collected = "nothing"
    BY <1>3, NotAliased DEF WalkInv, Walks
  <2>5. Walks(walk') /\ InHand(walk'.file)
    <3> DEFINE h == [walk.file EXCEPT !.path = q, !.phase = "read", !.was = kind[q]]
    <3> HIDE DEF p, q
    <3>1. walk.file \in HandRecords
      BY <1>1 DEF WalkInv, Walks, NotIndexing
    <3>2. h.path = q /\ h.phase = "read" /\ h.was = kind[q] /\ h \in HandRecords
      BY <2>2, <2>3, <3>1 DEF HandRecords, GoodKinds, LeafKinds
    <3>3. walk' = [walk EXCEPT !.file = h]
      BY <1>3
    <3> HIDE DEF h
    <3>4. walk'.file = h /\ Walks(walk')
      BY <3>2, <3>3 DEF WalkInv, Walks
    <3> QED BY <2>2, <2>3, <2>4, <3>2, <3>4 DEF InHand
  <2> QED BY <1>1, <1>3, <2>5, WalkStep
<1> QED BY <1>2, <1>3 DEF CheckFile

LEMMA ReadEntryHolds == WalkInv /\ ReadEntry => WalkInv'
<1> SUFFICES ASSUME WalkInv, ReadEntry PROVE WalkInv'
  OBVIOUS
<1> DEFINE p == walk.file.path
<1>1. kind' = kind /\ call' = call /\ walk.file.phase = "read"
  BY DEF ReadEntry, Opened
<1>2. walk' = [walk EXCEPT !.file = NotIndexing]
  BY DEF ReadEntry, Opened, NotStored, Stored
<1>3. Walks(walk') /\ InHand(walk'.file)
  BY <1>2 DEF WalkInv, Walks, NotIndexing, InHand
<1>4. CASE stock' = stock
  BY <1>1, <1>3, <1>4, WalkStep
<1>5. CASE ~Link(p) /\ ~Unfit(p) /\ kind[p] # "locked" /\ stock' = stock \cup {<<p, kind[p], walk.file.was>>}
  <2>1. walk.file.was \in GoodKinds /\ (walk.file.was = "alias" => Collected = "nothing")
    BY <1>1 DEF WalkInv, InHand
  <2>2. kind[p] = walk.file.was \/ kind[p] \in Swapped
    BY <1>1 DEF WalkInv, InHand
  <2>3. Fit(<<p, kind[p], walk.file.was>>)
    <3> HIDE DEF p
    <3> QED BY <1>5, <2>1, <2>2 DEF Fit, Link, Unfit, Swapped
  <2> QED BY <1>1, <1>3, <1>5, <2>3, WalkStep
<1> QED BY <1>4, <1>5 DEF ReadEntry, Opened, NotStored, Stored

(* What is changed was no sensitive file and no directory, and is none.    *)
LEMMA FileSwappedHolds == WalkInv /\ FileSwapped => WalkInv'
<1> SUFFICES ASSUME WalkInv, FileSwapped PROVE WalkInv'
  OBVIOUS
<1> DEFINE p == walk.file.path
<1>1. PICK k \in Swapped : kind' = [kind EXCEPT ![p] = k] /\ (k = "linky" => p # "y")
  BY DEF FileSwapped, Swapped
<1>2. UNCHANGED <<call, walk, stock>> /\ walk.file # NotIndexing
  BY DEF FileSwapped
<1>3. walk.file.phase # "none" => p \in Entries /\ kind[p] \notin DirKinds \cup {"secret"}
  BY DEF WalkInv, InHand
<1>5. walk.file.phase # "none"
  BY <1>2 DEF WalkInv, Walks, HandRecords
<1> QED
  <2>1. Tree(kind)'
    BY <1>1, <1>3, <1>5, EntriesAre DEF WalkInv, Tree, LeafKinds, Swapped
  <2>2. \A q \in Entries : /\ Sensitive(q)' <=> Sensitive(q)
                           /\ Bulk(q)' <=> Bulk(q)
                           /\ LockedDir(q)' <=> LockedDir(q)
    BY <1>1, <1>3, <1>5, EntriesAre DEF WalkInv, Tree, Sensitive, Bulk, LockedDir, Swapped, DirKinds
  <2>3. \A q \in Entries : Above(q) \subseteq Entries
    BY EntriesAre DEF Above
  <2>4. Collected' = Collected
    BY <2>2, <2>3 DEF Collected
  <2>5. InHand(walk.file)'
    <3>1. kind'[p] = k /\ walk' = walk /\ k \notin DirKinds \cup {"secret"}
      BY <1>1, <1>2, <1>3, <1>5, EntriesAre DEF WalkInv, Tree, Swapped, DirKinds
    <3> QED BY <1>3, <1>5, <2>4, <3>1 DEF WalkInv, InHand
  <2>6. Walks(walk)' /\ StoredIsFit'
    BY <1>2, <2>4 DEF WalkInv, Walks, StoredIsFit
  <2> QED BY <1>2, <2>1, <2>5, <2>6 DEF WalkInv

LEMMA WalkNextHolds == WalkInv /\ [WalkNext]_walkVars => WalkInv'
<1> SUFFICES ASSUME WalkInv, [WalkNext]_walkVars PROVE WalkInv'
  OBVIOUS
<1>1. CASE WalkEnded \/ UNCHANGED walkVars
  <2>1. UNCHANGED <<kind, call, walk, stock>>
    BY <1>1 DEF WalkEnded, walkVars
  <2> QED BY <2>1, WalkStep DEF WalkInv
<1> QED BY <1>1, StartingHolds, VisitHolds, WalkEndsHolds, CheckFileHolds, ReadEntryHolds, FileSwappedHolds DEF WalkNext

(* The invariant of the walks, for every kind that the entries may have,   *)
(* every cap and every number of changes.                                  *)
THEOREM WalkInductive == WalkSpec => []WalkInv
<1> QED BY WalkInitHolds, WalkNextHolds, PTL DEF WalkSpec

(* StoredIsFit in every state (indexFileWithSensitive of main.go): however *)
(* often somebody changes the file between the three looks, the last check *)
(* has passed a regular file that is no other name of a sensitive one the  *)
(* server can see, and what is read is that file, or a regular file or a   *)
(* pipe that took its place before the open.                               *)
THEOREM StoredAlwaysFit == WalkSpec => []StoredIsFit
<1>1. WalkInv => StoredIsFit
  BY DEF WalkInv
<1> QED BY <1>1, WalkInductive, PTL

-----------------------------------------------------------------------------
(* The tree: who is below whom, in which order the walk comes by.          *)
LEMMA TreeIs ==
  /\ Entries = {"r", "d", "x", "y", "f"}
  /\ Above("r") = {"r"} /\ Above("d") = {"r", "d"} /\ Above("x") = {"r", "d", "x"}
  /\ Above("y") = {"r", "d", "y"} /\ Above("f") = {"r", "f"}
  /\ Below("r") = {"r", "d", "x", "y", "f"} /\ Below("d") = {"d", "x", "y"}
  /\ Below("x") = {"x"} /\ Below("y") = {"y"} /\ Below("f") = {"f"}
BY EntriesAre DEF Above, Below

LEMMA PlaceIs ==
  Place("r") = 1 /\ Place("d") = 2 /\ Place("x") = 3 /\ Place("y") = 4 /\ Place("f") = 5
<1>1. DOMAIN Order = 1..5 /\ Order[1] = "r" /\ Order[2] = "d" /\ Order[3] = "x" /\ Order[4] = "y" /\ Order[5] = "f"
  BY DEF Order
<1>2. \A p, n : n \in DOMAIN Order /\ Order[n] = p /\ (\A i \in DOMAIN Order : Order[i] = p => i = n) => Place(p) = n
  BY DEF Place
<1>3. \A i \in DOMAIN Order : i \in {1, 2, 3, 4, 5}
  BY <1>1
<1> QED BY <1>1, <1>2, <1>3

LEMMA AboveIs ==
  ASSUME NEW p \in Entries
  PROVE  /\ p \in Above(p) /\ Above(p) \subseteq Entries /\ Below(p) \subseteq Entries
         /\ \A a \in Above(p) : p \in Below(a) /\ (a # p => a \in {"r", "d"} /\ Place(a) < Place(p))
         /\ \A q \in Below(p) : p \in Above(q)
         /\ Place(p) \in Nat
BY TreeIs, PlaceIs DEF Below

LEMMA BelowChain ==
  ASSUME NEW p \in Entries, NEW a \in Entries, NEW q, q \in Below(p)
  PROVE  /\ q \in Below(a) => a \in Below(p) \/ p \in Below(a)
         /\ \A s \in Below(q) : s \in Below(p)
BY TreeIs

LEMMA RootBelow ==
  ASSUME NEW p \in Entries
  PROVE  p \in Below(p)
BY TreeIs
-----------------------------------------------------------------------------
(* Tools that list what they find, and those of them that ask the rules.   *)
Lists == call.tool \notin {"index", "stat"}

Asks == call.tool \in {"glob", "resolve", "related", "rg"}

Upper(p) == (Above(p) \cap Below(WalkRoot)) \ {p}

(* A directory that a tool goes into.                                      *)
Lets(a) ==
  /\ ~LockedDir(a)
  /\ CASE call.tool = "ls"    -> a = WalkRoot \/ (DepthOf(a) < call.depth /\ (call.hidden \/ ~Hidden(a)))
       [] call.tool = "index" -> ~Bulk(a) /\ DepthOf(a) <= call.depth
       [] call.tool = "rg"    -> ~Bulk(a) /\ (a = WalkRoot \/ ~Shut(a))
       [] OTHER               -> ~Bulk(a) /\ ~Shut(a)

(* An entry that a tool takes when it comes by.                            *)
Wanted(p) ==
  CASE call.tool = "ls"    -> /\ p # WalkRoot /\ Fenced(p) /\ ~LockedDir(p)
                              /\ DepthOf(p) <= call.depth /\ (call.hidden \/ ~Hidden(p))
    [] call.tool = "index" -> ~Dir(p) \/ LockedDir(p)
    [] call.tool = "glob"  -> Fenced(p) /\ ~LockedDir(p) /\ ~Bulk(p) /\ ~Sensitive(p) /\ ~Shut(p)
    [] call.tool = "rg"    -> Fenced(p) /\ Regular(p) /\ ~Shut(p) /\ kind[p] \notin {"binary", "big", "secret", "locked"}
    [] OTHER               -> Fenced(p) /\ ~Bulk(p) /\ ~Sensitive(p) /\ ~Shut(p) /\ Regular(p)

Candidate(p) == p \in Below(WalkRoot) /\ Wanted(p) /\ \A a \in Upper(p) : Lets(a)

Shape == \A p \in Entries : Dir(p) <=> p \in {"r", "d"}

(* What is left is there with all that is below, and the directories above *)
(* that the walk has been in have let it through.                          *)
Ahead(left) ==
  /\ left \subseteq Below(WalkRoot)
  /\ \A a \in left : Below(a) \subseteq left
  /\ \A p \in left : \A a \in Upper(p) : a \in left \/ Lets(a)

(* The layers are those of the directories on the way to what is left.     *)
LayersFit(left, layers) ==
  Asks /\ WalkRoot \in {"r", "d"} =>
    /\ layers \in {<<>>, <<"r">>, <<"d">>, <<"r", "d">>}
    /\ WalkRoot \in Range(layers) <=> rules[WalkRoot] # <<>>
    /\ "r" \in Range(layers) => WalkRoot = "r"
    /\ WalkRoot = "r" /\ "d" \in left => "d" \notin Range(layers)
    /\ WalkRoot = "r" /\ "d" \notin left /\ left \cap {"x", "y"} # {} => ("d" \in Range(layers) <=> rules["d"] # <<>>)

Distinct(s) == \A i, j \in DOMAIN s : i # j => s[i] # s[j]

(* Of what the walk has passed, a list has what it should, or tells.       *)
Taken(left, s, more) ==
  Lists =>
    /\ \A p \in Range(s) : p \notin left /\ Candidate(p)
    /\ Distinct(s)
    /\ more \/ \A p \in Entries \ left : Candidate(p) => p \in Range(s)
    /\ call.tool = "rg" /\ left # {} => Len(s) < MaxFound

(* Of what index has passed, a file is stored, in hand or counted.         *)
Counted(w, t) ==
  call.tool = "index" =>
    /\ w.file # NotIndexing => Len(t.found) < MaxFound /\ t.bytes + w.file.size <= ByteCap
    /\ t.more \/ t.failed
         \/ \A p \in Entries \ w.left : Candidate(p) =>
              {p, Real(p)} \cap (Range(t.found) \cup t.skipped \cup {w.file.path}) # {}

Tallies(t) ==
  /\ t = [found |-> t.found, skipped |-> t.skipped, bytes |-> t.bytes, more |-> t.more, failed |-> t.failed]
  /\ t.found \in Seq(Entries) /\ t.skipped \subseteq Entries /\ t.bytes \in Nat
  /\ t.more \in BOOLEAN /\ t.failed \in BOOLEAN
  /\ Len(t.found) <= MaxFound /\ t.bytes <= ByteCap

(* The answer of a walk that is over.                                      *)
Answered(t) ==
    /\ Len(t.found) <= (IF Scanning THEN MaxHits ELSE MaxFound) /\ t.bytes <= ByteCap
    /\ call.tool # "index" => /\ Range(t.found) \subseteq {p \in Entries : Owed(p)}
                              /\ Cardinality(Range(t.found)) = Len(t.found)
    /\ ~t.more =>
         IF call.tool # "index" THEN {p \in Entries : Owed(p)} \subseteq Range(t.found)
         ELSE \A p \in Below(WalkRoot) :
                ~Dir(p) /\ ~PassedOver(p) => (Above(p) \cup {Real(p)}) \cap (Range(t.found) \cup t.skipped) # {}

Told(w, t) ==
  /\ Tallies(t)
  /\ w.file # NotIndexing => w.pc = "walk" /\ call.tool = "index"
  /\ w.pc = "new" => w.left = Below(WalkRoot) /\ t = NothingYet
  /\ w.pc = "walk" => call.tool # "stat" /\ (Lists => WalkRoot \in {"r", "d"})
  /\ w.pc # "done" => Ahead(w.left) /\ LayersFit(w.left, w.layers) /\ Taken(w.left, t.found, t.more) /\ Counted(w, t)
  /\ w.pc = "done" /\ ~t.failed => Answered(t)

OmitInv == WalkInv /\ Shape /\ call.depth \in Nat /\ Told(walk, tally)

-----------------------------------------------------------------------------
(* A step that changes no file, no rule and no call.                       *)
Rests == kind' = kind /\ rules' = rules /\ call' = call

LEMMA RestsEntry ==
  ASSUME Rests, NEW p
  PROVE  /\ Dir(p)' <=> Dir(p)
         /\ Bulk(p)' <=> Bulk(p)
         /\ LockedDir(p)' <=> LockedDir(p)
         /\ Hidden(p)' <=> Hidden(p)
         /\ Fenced(p)' <=> Fenced(p)
         /\ Regular(p)' <=> Regular(p)
         /\ Sensitive(p)' <=> Sensitive(p)
         /\ Real(p)' = Real(p)
         /\ DepthOf(p)' = DepthOf(p)
         /\ Above(p)' = Above(p) /\ Below(p)' = Below(p) /\ WalkRoot' = WalkRoot /\ Entries' = Entries
         /\ Standing(p)' = Standing(p)
         /\ \A b : RuleSays(b, p)' = RuleSays(b, p)
<1>1. /\ Above(p)' = Above(p) /\ Below(p)' = Below(p) /\ WalkRoot' = WalkRoot /\ Entries' = Entries
  BY DEF Above, Below, Entries, WalkRoot, Scanning, Rests
<1>2. DepthOf(p)' = DepthOf(p)
  BY DEF Rests, DepthOf, Above, WalkRoot, Scanning
<1>3. Standing(p)' = Standing(p)
  BY DEF Rests, Standing, RelatedScore, FuzzyScore, Beside, Real, Above
<1>4. \A b : RuleSays(b, p)' = RuleSays(b, p)
  BY DEF Rests, RuleSays, Matches, Below, Above, Entries
<1> QED BY <1>1, <1>2, <1>3, <1>4 DEF Rests, Dir, Bulk, LockedDir, Hidden, Fenced, Regular, Sensitive, Real, Link

LEMMA RestsShut ==
  ASSUME Rests, NEW p
  PROVE  Shut(p)' <=> Shut(p)
<1>1. /\ \A b : RuleSays(b, p)' = RuleSays(b, p)
      /\ \A b : Dir(b)' <=> Dir(b)
      /\ \A b : Above(b)' = Above(b) /\ Below(b)' = Below(b) /\ WalkRoot' = WalkRoot
  BY RestsEntry
<1> QED BY <1>1 DEF Shut

LEMMA RestsCandidate ==
  ASSUME Rests, NEW p
  PROVE  /\ Lets(p)' <=> Lets(p)
         /\ Wanted(p)' <=> Wanted(p)
         /\ Upper(p)' = Upper(p)
         /\ Candidate(p)' <=> Candidate(p)
<1>1. \A a : Lets(a)' <=> Lets(a)
  BY RestsEntry, RestsShut DEF Lets, Rests
<1>2. Wanted(p)' <=> Wanted(p)
  BY RestsEntry, RestsShut DEF Wanted, Rests
<1>3. Upper(p)' = Upper(p) /\ Below(WalkRoot)' = Below(WalkRoot)
  BY DEF Rests, Upper, Above, Below, Entries, WalkRoot, Scanning
<1> QED BY <1>1, <1>2, <1>3 DEF Candidate

LEMMA RestsOwed ==
  ASSUME Rests, NEW p
  PROVE  (Owed(p)' <=> Owed(p)) /\ (PassedOver(p)' <=> PassedOver(p))
<1>1. Open(p)' <=> Open(p)
  BY DEF Rests, Open, Above, Below, Entries, WalkRoot, Scanning, Bulk
<1>2. Ignored(p)' <=> Ignored(p)
  BY RestsEntry, RestsShut DEF Ignored, Rests
<1>3. Below(WalkRoot)' = Below(WalkRoot) /\ (Scanning' <=> Scanning) /\ \A a : Hidden(a)' <=> Hidden(a)
  BY DEF Rests, Above, Below, Entries, WalkRoot, Scanning, Hidden
<1>4. InView(p)' <=> InView(p)
  BY DEF Rests, InView, Above, Below, Entries, WalkRoot, Scanning, LockedDir
<1>5. PassedOver(p)' <=> PassedOver(p)
  <2>1. /\ \A a : (Bulk(a)' <=> Bulk(a)) /\ (Dir(a)' <=> Dir(a)) /\ DepthOf(a)' = DepthOf(a)
        /\ Above(p)' = Above(p) /\ Below(WalkRoot)' = Below(WalkRoot)
    BY <1>3, RestsEntry
  <2> QED BY <2>1 DEF PassedOver, Rests
<1>6. Owed(p)' <=> Owed(p)
  BY <1>1, <1>2, <1>3, <1>4, RestsEntry DEF Owed, Rests
<1> QED BY <1>5, <1>6

LEMMA RestsAhead ==
  ASSUME Rests, NEW left, NEW layers
  PROVE  (Ahead(left) => Ahead(left)') /\ (LayersFit(left, layers) => LayersFit(left, layers)')
<1>1. \A p : Below(p)' = Below(p) /\ WalkRoot' = WalkRoot
  BY RestsEntry
<1>2. \A p : (Lets(p)' <=> Lets(p)) /\ Upper(p)' = Upper(p)
  BY RestsCandidate
<1>3. Ahead(left) => Ahead(left)'
  BY <1>1, <1>2 DEF Ahead
<1>4. LayersFit(left, layers) => LayersFit(left, layers)'
  BY <1>1 DEF LayersFit, Asks, Rests
<1> QED BY <1>3, <1>4

LEMMA RestsTaken ==
  ASSUME Rests, NEW left, NEW s, NEW more, NEW w, NEW t
  PROVE  (Taken(left, s, more) => Taken(left, s, more)') /\ (Counted(w, t) => Counted(w, t)')
<1>1. \A p : Candidate(p)' <=> Candidate(p)
  BY RestsCandidate
<1>2. \A p : Real(p)' = Real(p) /\ Entries' = Entries
  BY RestsEntry
<1>3. Taken(left, s, more) => Taken(left, s, more)'
  BY <1>1, <1>2 DEF Taken, Lists, Rests
<1>4. Counted(w, t) => Counted(w, t)'
  BY <1>1, <1>2 DEF Counted, NotIndexing, Rests
<1> QED BY <1>3, <1>4

LEMMA RestsAnswered ==
  ASSUME Rests, NEW t, Answered(t)
  PROVE  Answered(t)'
<1>1. \A p : (Owed(p)' <=> Owed(p)) /\ (PassedOver(p)' <=> PassedOver(p))
  BY RestsOwed
<1>2. /\ \A p : Real(p)' = Real(p) /\ (Dir(p)' <=> Dir(p)) /\ Above(p)' = Above(p)
      /\ Below(WalkRoot)' = Below(WalkRoot) /\ Entries' = Entries
  BY DEF Rests, Real, Dir, Below, Above, Entries, WalkRoot, Scanning
<1>3. Scanning' <=> Scanning
  BY DEF Rests, Scanning
<1> QED BY <1>1, <1>2, <1>3 DEF Answered, Rests

(* Where such a step leaves the walk and its tally decides.                *)
LEMMA OmitStep ==
  ASSUME OmitInv, WalkInv', Rests, Told(walk', tally')
  PROVE  OmitInv'
<1>1. Shape'
  BY RestsEntry DEF Shape, OmitInv
<1>2. Tallies(tally') => Tallies(tally)'
  BY RestsEntry DEF Tallies
<1>3. Below(WalkRoot)' = Below(WalkRoot) /\ WalkRoot' = WalkRoot
  BY RestsEntry DEF Rests, Below, Above, Entries, WalkRoot, Scanning
<1>4. /\ Ahead(walk'.left) => Ahead(walk.left)'
      /\ LayersFit(walk'.left, walk'.layers) => LayersFit(walk.left, walk.layers)'
      /\ Taken(walk'.left, tally'.found, tally'.more) => Taken(walk.left, tally.found, tally.more)'
      /\ Counted(walk', tally') => Counted(walk, tally)'
      /\ Answered(tally') => Answered(tally)'
  BY RestsAhead, RestsTaken, RestsAnswered
<1>5. Told(walk, tally)'
  BY <1>2, <1>3, <1>4 DEF Told, Rests, NotIndexing, NothingYet, Lists
<1>6. call'.depth \in Nat
  BY DEF OmitInv, Rests
<1> QED BY <1>1, <1>5, <1>6 DEF OmitInv

-----------------------------------------------------------------------------
(* The rules: the layers of a walk say what the directories above say.     *)
LEMMA MaxIs ==
  /\ Max({1}) = 1 /\ Max({2}) = 2 /\ Max({1, 2}) = 2
<1>1. \A S, m : m \in S /\ (\A n \in S : m >= n) /\ (\A n \in S : (\A k \in S : n >= k) => n = m) => Max(S) = m
  BY DEF Max
<1>2. Max({1}) = 1
  BY <1>1
<1>3. Max({2}) = 2
  BY <1>1
<1>4. Max({1, 2}) = 2
  BY <1>1
<1> QED BY <1>2, <1>3, <1>4

LEMMA VerdictIs ==
  ASSUME NEW b, NEW p
  PROVE  /\ rules[b] = <<>> => RuleSays(b, p) = "none"
         /\ p \notin Below(b) => RuleSays(b, p) = "none"
<1>1. ASSUME rules[b] = <<>> PROVE RuleSays(b, p) = "none"
  <2>1. DOMAIN rules[b] = {}
    BY <1>1
  <2> QED BY <2>1 DEF RuleSays
<1> QED BY <1>1 DEF RuleSays

FourLayers == {<<>>, <<"r">>, <<"d">>, <<"r", "d">>}

LEMMA IgnoresIs ==
  ASSUME NEW layers \in FourLayers, NEW p
  PROVE  Ignores(layers, p) <=> IF "d" \in Range(layers) /\ RuleSays("d", p) # "none" THEN RuleSays("d", p) = "out"
                                ELSE "r" \in Range(layers) /\ RuleSays("r", p) = "out"
<1> DEFINE v(b) == RuleSays(b, p)
           told == {i \in DOMAIN layers : v(layers[i]) # "none"}
<1>1. Ignores(layers, p) <=> told # {} /\ v(layers[Max(told)]) = "out"
  BY DEF Ignores
<1> HIDE DEF v
<1>2. CASE layers = <<>>
  <2>1. told = {} /\ Range(layers) = {}
    BY <1>2 DEF Range
  <2> QED BY <1>1, <2>1
<1>3. CASE layers = <<"r">>
  <2>1. told = (IF v("r") # "none" THEN {1} ELSE {}) /\ Range(layers) = {"r"} /\ layers[1] = "r"
    BY <1>3 DEF Range
  <2> HIDE DEF told
  <2> QED BY <1>1, <2>1, MaxIs DEF v
<1>4. CASE layers = <<"d">>
  <2>1. told = (IF v("d") # "none" THEN {1} ELSE {}) /\ Range(layers) = {"d"} /\ layers[1] = "d"
    BY <1>4 DEF Range
  <2> HIDE DEF told
  <2> QED BY <1>1, <2>1, MaxIs DEF v
<1>5. CASE layers = <<"r", "d">>
  <2>1. Range(layers) = {"r", "d"} /\ layers[1] = "r" /\ layers[2] = "d" /\ DOMAIN layers = {1, 2}
    BY <1>5 DEF Range
  <2>2. CASE v("d") # "none"
    <3>1. told = {1, 2} \/ told = {2}
      BY <2>1, <2>2
    <3>2. Max(told) = 2 /\ told # {}
      BY <3>1, MaxIs
    <3> HIDE DEF told
    <3> QED BY <1>1, <2>1, <2>2, <3>2 DEF v
  <2>3. CASE v("d") = "none" /\ v("r") # "none"
    <3>1. told = {1}
      BY <2>1, <2>3
    <3>2. Max(told) = 1 /\ told # {}
      BY <3>1, MaxIs
    <3> HIDE DEF told
    <3> QED BY <1>1, <2>1, <2>3, <3>2 DEF v
  <2>4. CASE v("d") = "none" /\ v("r") = "none"
    <3>1. told = {}
      BY <2>1, <2>4
    <3> HIDE DEF told
    <3> QED BY <1>1, <2>1, <2>4, <3>1 DEF v
  <2> QED BY <2>2, <2>3, <2>4
<1> QED BY <1>2, <1>3, <1>4, <1>5 DEF FourLayers

LEMMA ShutIs ==
  ASSUME Shape, WalkRoot \in {"r", "d"}, NEW a \in Below(WalkRoot)
  PROVE  Shut(a) <=> IF RuleSays("d", a) # "none" THEN RuleSays("d", a) = "out"
                     ELSE WalkRoot = "r" /\ RuleSays("r", a) = "out"
<1> DEFINE v(b) == RuleSays(b, a)
           bases == {b \in Above(a) \cap Below(WalkRoot) : Dir(b)}
<1>1. Shut(a) <=> \E b \in bases : v(b) = "out" /\ \A c \in bases \ {b} : v(c) = "none" \/ c \in Above(b)
  BY DEF Shut
<1>2. a \notin Below("d") => v("d") = "none"
  BY VerdictIs
<1>3. a \in Entries /\ Above(a) \subseteq Entries
  BY TreeIs
<1>4. bases = {b \in Above(a) \cap Below(WalkRoot) : b \in {"r", "d"}}
  BY <1>3 DEF Shape
<1>5. bases = (IF WalkRoot = "r" THEN {"r"} ELSE {}) \cup (IF a \in Below("d") THEN {"d"} ELSE {})
  BY <1>3, <1>4, TreeIs
<1> HIDE DEF v, bases
<1> QED BY <1>1, <1>2, <1>5, TreeIs DEF v

-----------------------------------------------------------------------------
LEMMA PoppedIs ==
  ASSUME NEW p
  PROVE  /\ Popped(<<>>, p) = <<>>
         /\ Popped(<<"r">>, p) = <<"r">>
         /\ Popped(<<"d">>, p) = <<"d">>
         /\ Popped(<<"r", "d">>, p) = IF p \in Below("d") THEN <<"r", "d">> ELSE <<"r">>
<1>1. Popped(<<>>, p) = <<>>
  BY DEF Popped
<1>2. ASSUME NEW b PROVE Popped(<<b>>, p) = <<b>>
  <2> DEFINE s == <<b>>
             kept == {1} \cup {i \in DOMAIN s : p \in Below(s[i])}
  <2>1. kept = {1}
    <3>1. DOMAIN s = {1}
      OBVIOUS
    <3> HIDE DEF s
    <3> QED BY <3>1
  <2>2. s # <<>> /\ SubSeq(s, 1, 1) = s
    <3>1. Len(s) = 1 /\ s \in Seq({b})
      OBVIOUS
    <3>2. s # <<>>
      BY <3>1
    <3>3. SubSeq(s, 1, 1) \in Seq({b}) /\ Len(SubSeq(s, 1, 1)) = 1 /\ SubSeq(s, 1, 1)[1] = s[1]
      BY <3>1, SubSeqProperties
    <3> HIDE DEF s
    <3> QED BY <3>1, <3>2, <3>3, SeqEqual
  <2>3. Popped(s, p) = SubSeq(s, 1, Max(kept))
    BY <2>2 DEF Popped
  <2> HIDE DEF s, kept
  <2>4. Popped(s, p) = s
    BY <2>1, <2>2, <2>3, MaxIs
  <2> QED BY <2>4 DEF s
<1>3. Popped(<<"r", "d">>, p) = IF p \in Below("d") THEN <<"r", "d">> ELSE <<"r">>
  <2> DEFINE s == <<"r", "d">>
             kept == {1} \cup {i \in DOMAIN s : p \in Below(s[i])}
  <2>1. kept = IF p \in Below("d") THEN {1, 2} ELSE {1}
    <3>1. DOMAIN s = {1, 2} /\ s[2] = "d"
      OBVIOUS
    <3> HIDE DEF s
    <3> QED BY <3>1
  <2>2. s # <<>> /\ SubSeq(s, 1, 1) = <<"r">> /\ SubSeq(s, 1, 2) = s
    <3>1. Len(s) = 2 /\ s \in Seq({"r", "d"}) /\ s[1] = "r" /\ s[2] = "d"
      OBVIOUS
    <3>2. s # <<>>
      BY <3>1
    <3>3. /\ SubSeq(s, 1, 1) \in Seq({"r", "d"}) /\ Len(SubSeq(s, 1, 1)) = 1 /\ SubSeq(s, 1, 1)[1] = "r"
          /\ SubSeq(s, 1, 2) \in Seq({"r", "d"}) /\ Len(SubSeq(s, 1, 2)) = 2
          /\ SubSeq(s, 1, 2)[1] = s[1] /\ SubSeq(s, 1, 2)[2] = s[2]
      <4> HIDE DEF s
      <4> QED BY <3>1, SubSeqProperties
    <3> DEFINE one == SubSeq(s, 1, 1)  both == SubSeq(s, 1, 2)
    <3>4. one = <<"r">>
      <4>1. one \in Seq({"r", "d"}) /\ Len(one) = 1 /\ one[1] = "r"
        BY <3>3
      <4> HIDE DEF one
      <4> QED BY <4>1
    <3>5. both = s
      <4> HIDE DEF both, s
      <4>1. \A i \in 1..Len(both) : both[i] = s[i]
        BY <3>3 DEF both
      <4> QED BY <3>1, <3>3, <4>1, SeqEqual DEF both
    <3> QED BY <3>2, <3>4, <3>5
  <2>3. Popped(s, p) = SubSeq(s, 1, Max(kept))
    BY <2>2 DEF Popped
  <2> HIDE DEF s, kept
  <2>4. Popped(s, p) = IF p \in Below("d") THEN s ELSE <<"r">>
    BY <2>1, <2>2, <2>3, MaxIs
  <2> QED BY <2>4 DEF s
<1> QED BY <1>1, <1>2, <1>3

(* The entry that the walk comes to next.                                  *)
Least(left, p) == p \in left /\ \A q \in left : Place(p) <= Place(q)

LEMMA LeastIs ==
  ASSUME NEW left \in SUBSET Entries, NEW p, Least(left, p)
  PROVE  /\ p \in Entries
         /\ \A a \in Above(p) \ {p} : a \in {"r", "d"} /\ a \notin left
         /\ p \in {"x", "y", "f"} => "d" \notin left
         /\ p = "f" => left \cap {"x", "y"} = {}
         /\ p # "r" => "r" \notin left
<1>1. p \in Entries /\ \A q \in left : ~(Place(q) < Place(p))
  BY AboveIs DEF Least
<1>2. \A a \in Above(p) \ {p} : a \in {"r", "d"} /\ a \notin left
  BY <1>1, AboveIs
<1>3. /\ p \in {"x", "y", "f"} => "d" \notin left
      /\ p = "f" => left \cap {"x", "y"} = {}
      /\ p # "r" => "r" \notin left
  BY <1>1, PlaceIs, TreeIs
<1> QED BY <1>1, <1>2, <1>3

(* Below a directory that is gone from what is left nothing is left.       *)
PrunedBy(left, p, next) ==
  /\ next \subseteq left \ {p}
  /\ p = "r" /\ "d" \notin next => next \cap {"x", "y"} = {}

LEMMA RangeIs ==
  /\ Range(<<>>) = {} /\ Range(<<"r">>) = {"r"} /\ Range(<<"d">>) = {"d"} /\ Range(<<"r", "d">>) = {"r", "d"}
<1>1. Range(<<>>) = {}
  BY DEF Range
<1>2. Range(<<"r">>) = {"r"}
  BY DEF Range
<1>3. Range(<<"d">>) = {"d"}
  BY DEF Range
<1>4. Range(<<"r", "d">>) = {"r", "d"}
  BY DEF Range
<1> QED BY <1>1, <1>2, <1>3, <1>4

LEMMA AppendedIs ==
  /\ Append(<<>>, "d") = <<"d">> /\ Append(<<"r">>, "d") = <<"r", "d">>
<1>1. Append(<<>>, "d") = <<"d">>
  OBVIOUS
<1>2. Append(<<"r">>, "d") = <<"r", "d">>
  <2> DEFINE s == Append(<<"r">>, "d")  t == <<"r", "d">>
  <2>1. s \in Seq({"r", "d"}) /\ Len(s) = 2 /\ s[1] = "r" /\ s[2] = "d"
    OBVIOUS
  <2>2. t \in Seq({"r", "d"}) /\ Len(t) = 2 /\ t[1] = "r" /\ t[2] = "d"
    OBVIOUS
  <2> HIDE DEF s, t
  <2>3. \A i \in 1..Len(s) : s[i] = t[i]
    BY <2>1, <2>2
  <2>4. s = t
    BY <2>1, <2>2, <2>3, SeqEqual
  <2> QED BY <2>4 DEF s, t
<1> QED BY <1>1, <1>2

LEMMA LayersIs ==
  ASSUME Shape, Asks, WalkRoot \in {"r", "d"}, LayersFit(walk.left, walk.layers),
         walk.left \subseteq Below(WalkRoot), \A a \in walk.left : Below(a) \subseteq walk.left,
         NEW p, Least(walk.left, p), ~LockedDir(p)
  PROVE  /\ Layers(p) \in FourLayers
         /\ WalkRoot \in Range(Layers(p)) <=> rules[WalkRoot] # <<>>
         /\ "r" \in Range(Layers(p)) => WalkRoot = "r"
         /\ p \in {"d", "x", "y"} => ("d" \in Range(Layers(p)) <=> rules["d"] # <<>>)
         /\ p = "r" => "d" \notin Range(Layers(p))
<1> DEFINE old == walk.layers
           rest == Popped(old, p)
<1>1. /\ old \in FourLayers
      /\ WalkRoot \in Range(old) <=> rules[WalkRoot] # <<>>
      /\ "r" \in Range(old) => WalkRoot = "r"
      /\ WalkRoot = "r" /\ "d" \in walk.left => "d" \notin Range(old)
      /\ WalkRoot = "r" /\ "d" \notin walk.left /\ walk.left \cap {"x", "y"} # {}
           => ("d" \in Range(old) <=> rules["d"] # <<>>)
  BY DEF LayersFit, FourLayers
<1>2. walk.left \subseteq Entries
  BY TreeIs
<1>3. /\ p \in Entries /\ p \in walk.left /\ p \in Below(WalkRoot)
      /\ p \in {"x", "y", "f"} => "d" \notin walk.left
      /\ p = "r" => "d" \in walk.left
  BY <1>2, LeastIs, TreeIs DEF Least
<1>4. Layers(p) = IF call.tool = "rg" /\ p \notin {"r", "d"} THEN old
                  ELSE IF p = "d" /\ WalkRoot = "r" /\ rules["d"] # <<>> THEN Append(rest, "d") ELSE rest
  <2>1. Dir(p) <=> p \in {"r", "d"}
    BY <1>3 DEF Shape
  <2> QED BY <2>1 DEF Layers
<1> DEFINE new == Layers(p)
<1> HIDE DEF old, rest, new
<1>5. CASE call.tool = "rg" /\ p \notin {"r", "d"}
  <2>1. new = old
    BY <1>4, <1>5 DEF new
  <2>2. p \in {"x", "y", "f"}
    BY <1>3, <1>5, TreeIs
  <2>3. p \in {"x", "y"} => ("d" \in Range(old) <=> rules["d"] # <<>>)
    BY <1>1, <1>3, <2>2
  <2> QED BY <1>1, <1>5, <2>1, <2>3 DEF new
<1>6. CASE ~(call.tool = "rg" /\ p \notin {"r", "d"})
  <2>1. rest = IF old = <<"r", "d">> /\ p \notin Below("d") THEN <<"r">> ELSE old
    BY <1>1, PoppedIs DEF FourLayers, rest
  <2>2. rest \in FourLayers /\ ("r" \in Range(rest) <=> "r" \in Range(old))
    BY <1>1, <2>1, RangeIs DEF FourLayers
  <2>3. p \in Below("d") => rest = old
    BY <2>1
  <2>4. p = "d" /\ WalkRoot = "r" => rest \in {<<>>, <<"r">>}
    BY <1>1, <1>3, <2>3, RangeIs, TreeIs DEF FourLayers
  <2>5. CASE p = "d" /\ WalkRoot = "r" /\ rules["d"] # <<>>
    <3>1. new = Append(rest, "d")
      BY <1>4, <1>6, <2>5 DEF new
    <3>2. new \in {<<"d">>, <<"r", "d">>} /\ ("r" \in Range(new) <=> "r" \in Range(rest)) /\ "d" \in Range(new)
      BY <2>4, <2>5, <3>1, AppendedIs, RangeIs
    <3>3. new \in FourLayers
      BY <3>2 DEF FourLayers
    <3> QED BY <1>1, <2>2, <2>5, <3>2, <3>3 DEF new
  <2>6. CASE ~(p = "d" /\ WalkRoot = "r" /\ rules["d"] # <<>>)
    <3>1. new = rest
      BY <1>4, <1>6, <2>6 DEF new
    <3>2. WalkRoot \in Range(new) <=> rules[WalkRoot] # <<>>
      <4>1. CASE WalkRoot = "r"
        BY <1>1, <2>2, <3>1, <4>1
      <4>2. CASE WalkRoot = "d"
        BY <1>1, <1>3, <2>3, <3>1, <4>2
      <4> QED BY <4>1, <4>2
    <3>3. p \in {"d", "x", "y"} => ("d" \in Range(new) <=> rules["d"] # <<>>)
      <4>1. CASE WalkRoot = "d"
        BY <3>2, <4>1
      <4>2. CASE WalkRoot = "r" /\ p = "d"
        BY <2>4, <2>6, <3>1, <4>2, RangeIs
      <4>3. CASE WalkRoot = "r" /\ p \in {"x", "y"}
        BY <1>1, <1>3, <2>3, <3>1, <4>3, TreeIs
      <4> QED BY <4>1, <4>2, <4>3
    <3>4. p = "r" => "d" \notin Range(new)
      <4>1. p = "r" => WalkRoot = "r"
        BY <1>3, TreeIs
      <4> QED BY <1>1, <1>3, <2>1, <3>1, <4>1, RangeIs DEF FourLayers
    <3> QED BY <1>1, <2>2, <3>1, <3>2, <3>3, <3>4 DEF new
  <2> QED BY <2>5, <2>6
<1> QED BY <1>5, <1>6

(* What the tools make of the layers is what the directories say.          *)
LEMMA IgnoresShut ==
  ASSUME Shape, Asks, WalkRoot \in {"r", "d"}, LayersFit(walk.left, walk.layers),
         walk.left \subseteq Below(WalkRoot), \A a \in walk.left : Below(a) \subseteq walk.left,
         NEW p, Least(walk.left, p), ~LockedDir(p)
  PROVE  Ignores(Layers(p), p) <=> Shut(p)
<1> DEFINE new == Layers(p)
<1>1. p \in Below(WalkRoot) /\ p \in Entries
  BY TreeIs DEF Least
<1>2. /\ new \in FourLayers
      /\ WalkRoot \in Range(new) <=> rules[WalkRoot] # <<>>
      /\ "r" \in Range(new) => WalkRoot = "r"
      /\ p \in {"d", "x", "y"} => ("d" \in Range(new) <=> rules["d"] # <<>>)
  BY LayersIs
<1> HIDE DEF new
<1>3. Ignores(new, p) <=> IF "d" \in Range(new) /\ RuleSays("d", p) # "none" THEN RuleSays("d", p) = "out"
                          ELSE "r" \in Range(new) /\ RuleSays("r", p) = "out"
  BY <1>2, IgnoresIs
<1>4. "d" \notin Range(new) => RuleSays("d", p) = "none"
  BY <1>1, <1>2, VerdictIs, TreeIs
<1>5. WalkRoot = "r" /\ "r" \notin Range(new) => RuleSays("r", p) = "none"
  BY <1>2, VerdictIs
<1>6. Ignores(new, p) <=> Shut(p)
  BY <1>1, <1>2, <1>3, <1>4, <1>5, ShutIs
<1> QED BY <1>6 DEF new

LEMMA LayersStay ==
  ASSUME Shape, LayersFit(walk.left, walk.layers),
         walk.left \subseteq Below(WalkRoot), \A a \in walk.left : Below(a) \subseteq walk.left,
         NEW p, Least(walk.left, p), NEW next, PrunedBy(walk.left, p, next),
         LockedDir(p) => next \cap Below(p) = {}
  PROVE  LayersFit(next, Layers(p))
<1> SUFFICES ASSUME Asks, WalkRoot \in {"r", "d"} PROVE LayersFit(next, Layers(p))
  BY DEF LayersFit
<1>0. CASE LockedDir(p)
  <2>1. Layers(p) = walk.layers
    BY <1>0 DEF Layers
  <2>2. p \in Entries /\ (p \in {"x", "y", "f"} => "d" \notin walk.left) /\ next \subseteq walk.left \ {p}
    BY LeastIs, TreeIs DEF PrunedBy
  <2>3. "d" \in walk.left /\ "d" \notin next => next \cap {"x", "y"} = {}
    BY <1>0, <2>2, TreeIs
  <2> QED BY <2>1, <2>2, <2>3 DEF LayersFit
<1> SUFFICES ASSUME ~LockedDir(p) PROVE LayersFit(next, Layers(p))
  BY <1>0
<1> DEFINE new == Layers(p)
<1>1. /\ new \in FourLayers
      /\ WalkRoot \in Range(new) <=> rules[WalkRoot] # <<>>
      /\ "r" \in Range(new) => WalkRoot = "r"
      /\ p \in {"d", "x", "y"} => ("d" \in Range(new) <=> rules["d"] # <<>>)
      /\ p = "r" => "d" \notin Range(new)
  BY LayersIs
<1> HIDE DEF new
<1>2. /\ p \in Entries
      /\ p \in {"x", "y", "f"} => "d" \notin walk.left
      /\ p = "f" => walk.left \cap {"x", "y"} = {}
  BY LeastIs, TreeIs
<1>3. next \subseteq walk.left \ {p}
  BY DEF PrunedBy
<1>4. "d" \in next => p = "r"
  BY <1>2, <1>3, TreeIs
<1>5. "d" \notin next /\ next \cap {"x", "y"} # {} => p \in {"d", "x", "y"}
  BY <1>2, <1>3, TreeIs DEF PrunedBy
<1>6. LayersFit(next, new)
  BY <1>1, <1>4, <1>5 DEF LayersFit, FourLayers
<1> QED BY <1>6 DEF new

-----------------------------------------------------------------------------
(* What each tool decides about an entry, against what it is to take.      *)
Sound(p, do) ==
  /\ do.more \in BOOLEAN
  /\ do.take => Wanted(p) /\ Len(tally.found) < MaxFound
  /\ Wanted(p) => do.take \/ do.more \/ (call.tool = "index" /\ do.skip)
  /\ Dir(p) /\ do.prune => ~Lets(p) \/ do.more
  /\ Dir(p) => do.prune \/ do.stop \/ Lets(p)
  /\ do.stop => do.more
  /\ call.tool = "rg" /\ do.take => do.stop \/ Len(tally.found) + 1 < MaxFound
  /\ call.tool = "index" /\ do.take => tally.bytes + Size(Real(p)) <= ByteCap

Does(do, take, skip, prune, stop, more) ==
  do.take = take /\ do.skip = skip /\ do.prune = prune /\ do.stop = stop /\ do.more = more

LEMMA GoesAre ==
  ASSUME NEW b
  PROVE  /\ Does(Go, FALSE, FALSE, FALSE, FALSE, FALSE)
         /\ Does(Prune, FALSE, FALSE, TRUE, FALSE, FALSE)
         /\ Does(Take, TRUE, FALSE, FALSE, FALSE, FALSE)
         /\ Does(Skip, FALSE, TRUE, FALSE, FALSE, FALSE)
         /\ Does([Prune EXCEPT !.more = TRUE], FALSE, FALSE, TRUE, FALSE, TRUE)
         /\ Does([Prune EXCEPT !.skip = b], FALSE, b, TRUE, FALSE, FALSE)
         /\ Does([Take EXCEPT !.prune = b], TRUE, FALSE, b, FALSE, FALSE)
         /\ Does([Go EXCEPT !.stop = TRUE, !.more = TRUE], FALSE, FALSE, FALSE, TRUE, TRUE)
         /\ Does([Go EXCEPT !.take = b], b, FALSE, FALSE, FALSE, FALSE)
         /\ Does([Go EXCEPT !.prune = b], FALSE, FALSE, b, FALSE, FALSE)
         /\ Does([Take EXCEPT !.stop = b, !.more = b], TRUE, FALSE, FALSE, b, b)
         /\ Does([Skip EXCEPT !.stop = TRUE, !.more = TRUE], FALSE, TRUE, FALSE, TRUE, TRUE)
BY DEF Does, Go, Prune, Take, Skip

LEMMA CapIs ==
  ASSUME Tallies(tally)
  PROVE  AtCap \/ Len(tally.found) < MaxFound
<1>1. Len(tally.found) \in Nat
  BY DEF Tallies
<1>2. MaxFound \in Nat
  BY WalkParameters
<1> QED BY <1>1, <1>2 DEF AtCap

LEMMA LsSound ==
  ASSUME call.tool = "ls", Tallies(tally), Shape, NEW p \in Entries, ~LockedDir(p), DepthOf(p) \in Int, call.depth \in Int
  PROVE  Sound(p, Ls(p))
<1> DEFINE do == Ls(p)  deep == DepthOf(p) >= call.depth
<1>1. Lets(p) <=> p = WalkRoot \/ (DepthOf(p) < call.depth /\ (call.hidden \/ ~Hidden(p)))
  BY DEF Lets
<1>2. Wanted(p) <=> p # WalkRoot /\ Fenced(p) /\ DepthOf(p) <= call.depth /\ (call.hidden \/ ~Hidden(p))
  BY DEF Wanted
<1>3. Dir(p) => Fenced(p)
  BY DEF Dir, Fenced, Real
<1>4. AtCap \/ Len(tally.found) < MaxFound
  BY CapIs
<1>5. call.tool # "rg" /\ call.tool # "index"
  OBVIOUS
<1>6. CASE p = WalkRoot
  <2>1. do = Go
    BY <1>6 DEF Ls
  <2> HIDE DEF do
  <2>2. Does(do, FALSE, FALSE, FALSE, FALSE, FALSE)
    BY <2>1, GoesAre
  <2>3. Sound(p, do)
    BY <1>1, <1>2, <1>5, <1>6, <2>2 DEF Sound, Does
  <2> QED BY <2>3 DEF do
<1>7. CASE p # WalkRoot /\ (~Fenced(p) \/ DepthOf(p) > call.depth \/ (Hidden(p) /\ ~call.hidden))
  <2>1. do = Prune
    BY <1>7 DEF Ls
  <2>2. ~Wanted(p) /\ (Dir(p) => ~Lets(p))
    BY <1>1, <1>2, <1>3, <1>7
  <2> HIDE DEF do
  <2>3. Does(do, FALSE, FALSE, TRUE, FALSE, FALSE)
    BY <2>1, GoesAre
  <2>4. Sound(p, do)
    BY <1>5, <2>3, <2>2 DEF Sound, Does
  <2> QED BY <2>4 DEF do
<1>8. CASE p # WalkRoot /\ ~(~Fenced(p) \/ DepthOf(p) > call.depth \/ (Hidden(p) /\ ~call.hidden)) /\ AtCap
  <2>1. do = [Prune EXCEPT !.more = TRUE]
    BY <1>8 DEF Ls
  <2> HIDE DEF do
  <2>2. Does(do, FALSE, FALSE, TRUE, FALSE, TRUE)
    BY <2>1, GoesAre
  <2>3. Sound(p, do)
    BY <1>5, <2>2 DEF Sound, Does
  <2> QED BY <2>3 DEF do
<1>9. CASE p # WalkRoot /\ ~(~Fenced(p) \/ DepthOf(p) > call.depth \/ (Hidden(p) /\ ~call.hidden)) /\ ~AtCap
  <2>1. do = [Take EXCEPT !.prune = deep]
    BY <1>9 DEF Ls
  <2> HIDE DEF do, deep
  <2>2. Does(do, TRUE, FALSE, deep, FALSE, FALSE)
    BY <2>1, GoesAre
  <2>3. Wanted(p)
    BY <1>2, <1>9
  <2>4. deep <=> ~Lets(p)
    BY <1>1, <1>9 DEF deep
  <2>5. Sound(p, do)
    BY <1>4, <1>5, <1>9, <2>2, <2>3, <2>4 DEF Sound, Does
  <2> QED BY <2>5 DEF do
<1> QED BY <1>6, <1>7, <1>8, <1>9

LEMMA GlobSound ==
  ASSUME call.tool = "glob", Tallies(tally), Shape, NEW p \in Entries, ~LockedDir(p), Ignores(Layers(p), p) <=> Shut(p)
  PROVE  Sound(p, Glob(p))
<1> DEFINE do == Glob(p)
<1>1. (Lets(p) <=> ~Bulk(p) /\ ~Shut(p)) /\ (Wanted(p) <=> Fenced(p) /\ ~Bulk(p) /\ ~Sensitive(p) /\ ~Shut(p))
  BY DEF Lets, Wanted
<1>2. Dir(p) => Fenced(p) /\ ~Sensitive(p)
  BY DEF Dir, Fenced, Sensitive, Real
<1>3. AtCap \/ Len(tally.found) < MaxFound
  BY CapIs
<1>4. CASE Bulk(p) \/ ~Fenced(p)
  <2>1. do = Prune
    BY <1>4 DEF Glob
  <2> HIDE DEF do
  <2>2. Does(do, FALSE, FALSE, TRUE, FALSE, FALSE)
    BY <2>1, GoesAre
  <2>3. Sound(p, do)
    BY <1>1, <1>2, <1>4, <2>2 DEF Sound, Does
  <2> QED BY <2>3 DEF do
<1>5. CASE ~(Bulk(p) \/ ~Fenced(p)) /\ Sensitive(p)
  <2>1. do = Go
    BY <1>5 DEF Glob
  <2> HIDE DEF do
  <2>2. Does(do, FALSE, FALSE, FALSE, FALSE, FALSE)
    BY <2>1, GoesAre
  <2>3. Sound(p, do)
    BY <1>1, <1>2, <1>5, <2>2 DEF Sound, Does
  <2> QED BY <2>3 DEF do
<1>6. CASE ~(Bulk(p) \/ ~Fenced(p)) /\ ~Sensitive(p) /\ Ignores(Layers(p), p)
  <2>1. do = Prune
    BY <1>6 DEF Glob
  <2> HIDE DEF do
  <2>2. Does(do, FALSE, FALSE, TRUE, FALSE, FALSE)
    BY <2>1, GoesAre
  <2>3. Sound(p, do)
    BY <1>1, <1>2, <1>6, <2>2 DEF Sound, Does
  <2> QED BY <2>3 DEF do
<1>7. CASE ~(Bulk(p) \/ ~Fenced(p)) /\ ~Sensitive(p) /\ ~Ignores(Layers(p), p) /\ AtCap
  <2>1. do = [Prune EXCEPT !.more = TRUE]
    BY <1>7 DEF Glob
  <2> HIDE DEF do
  <2>2. Does(do, FALSE, FALSE, TRUE, FALSE, TRUE)
    BY <2>1, GoesAre
  <2>3. Sound(p, do)
    BY <2>2 DEF Sound, Does
  <2> QED BY <2>3 DEF do
<1>8. CASE ~(Bulk(p) \/ ~Fenced(p)) /\ ~Sensitive(p) /\ ~Ignores(Layers(p), p) /\ ~AtCap
  <2>1. do = Take
    BY <1>8 DEF Glob
  <2> HIDE DEF do
  <2>2. Does(do, TRUE, FALSE, FALSE, FALSE, FALSE)
    BY <2>1, GoesAre
  <2>3. Sound(p, do)
    BY <1>1, <1>2, <1>3, <1>8, <2>2 DEF Sound, Does
  <2> QED BY <2>3 DEF do
<1> QED BY <1>4, <1>5, <1>6, <1>7, <1>8

LEMMA ScanSound ==
  ASSUME call.tool \in {"resolve", "related"}, Tallies(tally), Shape, NEW p \in Entries,
         AtCap \/ (~LockedDir(p) /\ (Ignores(Layers(p), p) <=> Shut(p)))
  PROVE  Sound(p, Scan(p))
<1> DEFINE do == Scan(p)  regular == Regular(p)
<1>1. /\ ~AtCap => (Lets(p) <=> ~Bulk(p) /\ ~Shut(p))
      /\ Wanted(p) <=> Fenced(p) /\ ~Bulk(p) /\ ~Sensitive(p) /\ ~Shut(p) /\ regular
      /\ call.tool # "rg" /\ call.tool # "index"
  BY DEF Lets, Wanted
<1>2. Dir(p) => Fenced(p) /\ ~Sensitive(p)
  BY DEF Dir, Fenced, Sensitive, Real
<1>3. AtCap \/ Len(tally.found) < MaxFound
  BY CapIs
<1>4. CASE AtCap
  <2>1. do = [Go EXCEPT !.stop = TRUE, !.more = TRUE]
    BY <1>4 DEF Scan
  <2> HIDE DEF do, regular
  <2>2. Does(do, FALSE, FALSE, FALSE, TRUE, TRUE)
    BY <2>1, GoesAre
  <2>3. Sound(p, do)
    BY <2>2 DEF Sound, Does
  <2> QED BY <2>3 DEF do
<1>5. CASE ~AtCap /\ (Bulk(p) \/ ~Fenced(p))
  <2>1. do = Prune
    BY <1>5 DEF Scan
  <2> HIDE DEF do, regular
  <2>2. Does(do, FALSE, FALSE, TRUE, FALSE, FALSE)
    BY <2>1, GoesAre
  <2>3. Sound(p, do)
    BY <1>1, <1>2, <1>5, <2>2 DEF Sound, Does
  <2> QED BY <2>3 DEF do
<1>6. CASE ~AtCap /\ ~(Bulk(p) \/ ~Fenced(p)) /\ Sensitive(p)
  <2>1. do = Go
    BY <1>6 DEF Scan
  <2> HIDE DEF do, regular
  <2>2. Does(do, FALSE, FALSE, FALSE, FALSE, FALSE)
    BY <2>1, GoesAre
  <2>3. Sound(p, do)
    BY <1>1, <1>2, <1>6, <2>2 DEF Sound, Does
  <2> QED BY <2>3 DEF do
<1>7. CASE ~AtCap /\ ~(Bulk(p) \/ ~Fenced(p)) /\ ~Sensitive(p) /\ Ignores(Layers(p), p)
  <2>1. do = Prune
    BY <1>7 DEF Scan
  <2> HIDE DEF do, regular
  <2>2. Does(do, FALSE, FALSE, TRUE, FALSE, FALSE)
    BY <2>1, GoesAre
  <2>3. Sound(p, do)
    BY <1>1, <1>2, <1>7, <2>2 DEF Sound, Does
  <2> QED BY <2>3 DEF do
<1>8. CASE ~AtCap /\ ~(Bulk(p) \/ ~Fenced(p)) /\ ~Sensitive(p) /\ ~Ignores(Layers(p), p)
  <2>1. do = [Go EXCEPT !.take = regular]
    BY <1>8 DEF Scan
  <2> HIDE DEF do, regular
  <2>2. Does(do, regular, FALSE, FALSE, FALSE, FALSE)
    BY <2>1, GoesAre
  <2>3. Sound(p, do)
    BY <1>1, <1>2, <1>3, <1>8, <2>2 DEF Sound, Does
  <2> QED BY <2>3 DEF do
<1> QED BY <1>4, <1>5, <1>6, <1>7, <1>8

LEMMA RgSound ==
  ASSUME call.tool = "rg", Tallies(tally), Shape, NEW p \in Entries, ~LockedDir(p), Ignores(Layers(p), p) <=> Shut(p),
         Len(tally.found) < MaxFound
  PROVE  Sound(p, Rg(p))
<1> DEFINE do == Rg(p)
           closed == Bulk(p) \/ ~Fenced(p) \/ (p # WalkRoot /\ Ignores(Layers(p), p))
           last == Len(tally.found) + 1 >= MaxFound
<1>1. /\ Lets(p) <=> ~Bulk(p) /\ (p = WalkRoot \/ ~Shut(p))
      /\ Wanted(p) <=> Fenced(p) /\ Regular(p) /\ ~Shut(p) /\ kind[p] \notin {"binary", "big", "secret", "locked"}
  BY DEF Lets, Wanted
<1>2. Dir(p) => Fenced(p) /\ ~Regular(p)
  BY DEF Dir, Fenced, Regular, Real
<1>4. CASE Dir(p)
  <2>1. do = [Go EXCEPT !.prune = closed]
    BY <1>4 DEF Rg
  <2> HIDE DEF do
  <2>2. closed <=> ~Lets(p)
    BY <1>1, <1>2, <1>4
  <2> HIDE DEF closed
  <2>3. Does(do, FALSE, FALSE, closed, FALSE, FALSE)
    BY <2>1, GoesAre
  <2>4. Sound(p, do)
    BY <1>1, <1>2, <1>4, <2>2, <2>3 DEF Sound, Does
  <2> QED BY <2>4 DEF do
<1>5. CASE ~Dir(p) /\ (~Regular(p) \/ ~Fenced(p) \/ Ignores(Layers(p), p) \/ kind[p] \in {"binary", "big", "secret", "locked"})
  <2>1. do = Go
    BY <1>5 DEF Rg
  <2> HIDE DEF do
  <2>2. Does(do, FALSE, FALSE, FALSE, FALSE, FALSE)
    BY <2>1, GoesAre
  <2>3. Sound(p, do)
    BY <1>1, <1>5, <2>2 DEF Sound, Does
  <2> QED BY <2>3 DEF do
<1>6. CASE ~Dir(p) /\ ~(~Regular(p) \/ ~Fenced(p) \/ Ignores(Layers(p), p) \/ kind[p] \in {"binary", "big", "secret", "locked"})
  <2>1. do = [Take EXCEPT !.stop = last, !.more = last]
    BY <1>6 DEF Rg
  <2>2. last \/ Len(tally.found) + 1 < MaxFound
    <3>1. Len(tally.found) \in Nat /\ MaxFound \in Nat
      BY WalkParameters DEF Tallies
    <3> QED BY <3>1
  <2>3. Wanted(p)
    BY <1>1, <1>6
  <2>4. last \in BOOLEAN
    OBVIOUS
  <2> HIDE DEF do, last
  <2>5. Does(do, TRUE, FALSE, FALSE, last, last)
    BY <2>1, GoesAre
  <2>6. Sound(p, do)
    BY <1>6, <2>2, <2>3, <2>4, <2>5 DEF Sound, Does
  <2> QED BY <2>6 DEF do
<1> QED BY <1>4, <1>5, <1>6

LEMMA IndexingSound ==
  ASSUME call.tool = "index", Tallies(tally), Shape, NEW p \in Entries, ~LockedDir(p),
         DepthOf(p) \in Int, call.depth \in Int
  PROVE  Sound(p, Indexing(p))
<1> DEFINE do == Indexing(p)
           unfit == \/ ~Fenced(p) \/ kind[Real(p)] \in {"linkdead", "fifo"}
                    \/ LeadsToSecret(p) \/ SecretAlias(Real(p), InodesFor(Real(p))) \/ Unfit(Real(p))
           deep == DepthOf(p) > call.depth
           full == tally.bytes + Size(Real(p)) > ByteCap
<1>1. (Lets(p) <=> ~Bulk(p) /\ ~deep) /\ (Wanted(p) <=> ~Dir(p))
  BY DEF Lets, Wanted
<1>2. AtCap \/ Len(tally.found) < MaxFound
  BY CapIs
<1>3. full \/ tally.bytes + Size(Real(p)) <= ByteCap
  <2>1. tally.bytes \in Nat /\ Size(Real(p)) \in Nat /\ ByteCap \in Nat
    BY WalkParameters DEF Tallies, Size
  <2> QED BY <2>1
<1>5. CASE deep
  <2> DEFINE file == ~Dir(p)
  <2>1. do = [Prune EXCEPT !.skip = file]
    BY <1>5 DEF Indexing
  <2>2. Wanted(p) <=> file
    BY <1>1
  <2>3. file <=> ~Dir(p)
    OBVIOUS
  <2>4. ~Lets(p)
    BY <1>1, <1>5
  <2> HIDE DEF do, full, unfit, deep, file
  <2>5. Does(do, FALSE, file, TRUE, FALSE, FALSE)
    BY <2>1, GoesAre
  <2>6. Sound(p, do)
    BY <2>2, <2>3, <2>4, <2>5 DEF Sound, Does
  <2> QED BY <2>6 DEF do
<1>6. CASE ~deep /\ Dir(p)
  <2> DEFINE bulk == Bulk(p)
  <2>1. do = [Go EXCEPT !.prune = bulk]
    BY <1>6 DEF Indexing
  <2>2. bulk <=> ~Lets(p)
    BY <1>1, <1>6
  <2> HIDE DEF do, full, unfit, deep, bulk
  <2>3. Does(do, FALSE, FALSE, bulk, FALSE, FALSE)
    BY <2>1, GoesAre
  <2>4. Sound(p, do)
    BY <1>1, <1>6, <2>2, <2>3 DEF Sound, Does
  <2> QED BY <2>4 DEF do
<1>7. CASE ~deep /\ ~Dir(p) /\ AtCap
  <2>1. do = [Go EXCEPT !.stop = TRUE, !.more = TRUE]
    BY <1>7 DEF Indexing
  <2> HIDE DEF do, full, unfit, deep
  <2>2. Does(do, FALSE, FALSE, FALSE, TRUE, TRUE)
    BY <2>1, GoesAre
  <2>3. Sound(p, do)
    BY <1>7, <2>2 DEF Sound, Does
  <2> QED BY <2>3 DEF do
<1>8. CASE ~deep /\ ~Dir(p) /\ ~AtCap /\ unfit
  <2>1. do = Skip
    BY <1>8 DEF Indexing
  <2> HIDE DEF do, full, unfit, deep
  <2>2. Does(do, FALSE, TRUE, FALSE, FALSE, FALSE)
    BY <2>1, GoesAre
  <2>3. Sound(p, do)
    BY <1>8, <2>2 DEF Sound, Does
  <2> QED BY <2>3 DEF do
<1>9. CASE ~deep /\ ~Dir(p) /\ ~AtCap /\ ~unfit /\ full
  <2>1. do = [Skip EXCEPT !.stop = TRUE, !.more = TRUE]
    BY <1>9 DEF Indexing
  <2> HIDE DEF do, full, unfit, deep
  <2>2. Does(do, FALSE, TRUE, FALSE, TRUE, TRUE)
    BY <2>1, GoesAre
  <2>3. Sound(p, do)
    BY <1>9, <2>2 DEF Sound, Does
  <2> QED BY <2>3 DEF do
<1>10. CASE ~deep /\ ~Dir(p) /\ ~AtCap /\ ~unfit /\ ~full
  <2>1. do = Take
    BY <1>10 DEF Indexing
  <2> HIDE DEF do, full, unfit, deep
  <2>2. Does(do, TRUE, FALSE, FALSE, FALSE, FALSE)
    BY <2>1, GoesAre
  <2>3. Sound(p, do)
    BY <1>1, <1>2, <1>3, <1>10, <2>2 DEF Sound, Does
  <2> QED BY <2>3 DEF do
<1> QED BY <1>5, <1>6, <1>7, <1>8, <1>9, <1>10

-----------------------------------------------------------------------------
LEMMA HeightIs ==
  /\ Cardinality(Above("r")) = 1 /\ Cardinality(Above("d")) = 2 /\ Cardinality(Above("x")) = 3
  /\ Cardinality(Above("y")) = 3 /\ Cardinality(Above("f")) = 2
<1>1. IsFiniteSet({"r"}) /\ Cardinality({"r"}) = 1
  BY FS_Singleton
<1>2. IsFiniteSet({"r"} \cup {"d"}) /\ Cardinality({"r"} \cup {"d"}) = 2
  BY <1>1, FS_AddElement
<1>3. Cardinality({"r"} \cup {"f"}) = 2
  BY <1>1, FS_AddElement
<1>4. Cardinality(({"r"} \cup {"d"}) \cup {"x"}) = 3 /\ Cardinality(({"r"} \cup {"d"}) \cup {"y"}) = 3
  BY <1>2, FS_AddElement
<1>5. /\ Above("r") = {"r"} /\ Above("d") = {"r"} \cup {"d"} /\ Above("f") = {"r"} \cup {"f"}
      /\ Above("x") = ({"r"} \cup {"d"}) \cup {"x"} /\ Above("y") = ({"r"} \cup {"d"}) \cup {"y"}
  BY TreeIs
<1> QED BY <1>1, <1>2, <1>3, <1>4, <1>5

LEMMA DepthIs ==
  ASSUME WalkRoot \in Entries, NEW p \in Entries
  PROVE  /\ DepthOf(p) \in Int
         /\ \A a \in Above(p) \ {p} : DepthOf(a) \in Int /\ DepthOf(a) < DepthOf(p)
<1> DEFINE h(q) == Cardinality(Above(q))
<1>1. \A q \in Entries : h(q) \in Nat
  BY HeightIs, TreeIs
<1>2. \A a \in Above(p) \ {p} : a \in Entries /\ h(a) < h(p)
  BY HeightIs, TreeIs
<1>3. \A q : DepthOf(q) = h(q) - h(WalkRoot)
  BY DEF DepthOf
<1> HIDE DEF h
<1>4. DepthOf(p) \in Int
  BY <1>1, <1>3
<1>5. ASSUME NEW a \in Above(p) \ {p} PROVE DepthOf(a) \in Int /\ DepthOf(a) < DepthOf(p)
  <2>1. h(a) \in Nat /\ h(p) \in Nat /\ h(WalkRoot) \in Nat /\ h(a) < h(p)
    BY <1>1, <1>2
  <2>2. h(a) - h(WalkRoot) \in Int /\ h(a) - h(WalkRoot) < h(p) - h(WalkRoot)
    BY <2>1
  <2> QED BY <1>3, <2>2
<1> QED BY <1>4, <1>5

LEMMA RootIs ==
  ASSUME OmitInv
  PROVE  WalkRoot \in Entries
BY TreeIs DEF OmitInv, WalkInv, WalkRoot

LEMMA DecisionSound ==
  ASSUME OmitInv, walk.pc = "walk", NEW p, Least(walk.left, p)
  PROVE  Sound(p, Decision(p))
<1>1. /\ Tallies(tally) /\ Shape /\ Ahead(walk.left) /\ LayersFit(walk.left, walk.layers)
      /\ Taken(walk.left, tally.found, tally.more) /\ call.tool # "stat" /\ (Lists => WalkRoot \in {"r", "d"})
      /\ call.depth \in Nat /\ call.tool \in Tools
  BY DEF OmitInv, Told, WalkInv
<1>2. p \in Below(WalkRoot) /\ p \in Entries /\ walk.left # {}
  BY <1>1, TreeIs DEF Ahead, Least, Below
<1>3. Asks /\ ~LockedDir(p) => (Ignores(Layers(p), p) <=> Shut(p))
  BY <1>1, IgnoresShut DEF Asks, Lists, Ahead
<1>4. DepthOf(p) \in Int /\ call.depth \in Int
  BY <1>1, <1>2, RootIs, DepthIs
<1>5. LockedDir(p) => Dir(p) /\ ~Regular(p)
  BY DEF LockedDir, Dir, Regular
<1>6. CASE WalkError(p)
  <2> DEFINE do == Decision(p)  noted == call.tool = "index"
  <2>1. do = [Prune EXCEPT !.skip = noted]
    BY <1>6, DecidesBy
  <2>2. ~Lets(p) /\ LockedDir(p)
    BY <1>6 DEF WalkError, Lets
  <2>3. Wanted(p) => noted
    BY <1>1, <1>5, <2>2 DEF Wanted, Tools
  <2> HIDE DEF do
  <2>4. Does(do, FALSE, noted, TRUE, FALSE, FALSE)
    BY <2>1, GoesAre
  <2>5. Sound(p, do)
    BY <2>2, <2>3, <2>4 DEF Sound, Does
  <2> QED BY <2>5 DEF do
<1>7. CASE ~WalkError(p) /\ Scanning
  <2>1. AtCap \/ (~LockedDir(p) /\ (Ignores(Layers(p), p) <=> Shut(p)))
    BY <1>3, <1>7 DEF Asks, Scanning, WalkError
  <2>2. Sound(p, Scan(p))
    BY <1>1, <1>2, <1>7, <2>1, ScanSound DEF Scanning
  <2> QED BY <1>7, <2>2, DecidesBy
<1>8. CASE ~WalkError(p) /\ ~Scanning
  <2>1. ~LockedDir(p)
    BY <1>8 DEF WalkError
  <2>2. CASE call.tool = "ls"
    <3>1. Sound(p, Ls(p))
      BY <1>1, <1>2, <1>4, <2>1, <2>2, LsSound
    <3> QED BY <1>8, <2>2, <3>1, DecidesBy
  <2>3. CASE call.tool = "glob"
    <3>1. Sound(p, Glob(p))
      BY <1>1, <1>2, <1>3, <2>1, <2>3, GlobSound DEF Asks
    <3> QED BY <1>8, <2>3, <3>1, DecidesBy
  <2>4. CASE call.tool = "rg"
    <3>1. Len(tally.found) < MaxFound
      BY <1>1, <1>2, <2>4 DEF Taken, Lists
    <3>2. Sound(p, Rg(p))
      BY <1>1, <1>2, <1>3, <2>1, <2>4, <3>1, RgSound DEF Asks
    <3> QED BY <1>8, <2>4, <3>2, DecidesBy
  <2>5. CASE call.tool = "index"
    <3>1. Sound(p, Indexing(p))
      BY <1>1, <1>2, <1>4, <2>1, <2>5, IndexingSound
    <3> QED BY <1>8, <2>5, <3>1, DecidesBy
  <2> QED BY <1>1, <1>8, <2>2, <2>3, <2>4, <2>5 DEF Tools, Scanning
<1> QED BY <1>6, <1>7, <1>8

-----------------------------------------------------------------------------
(* What is left once the walk has decided about an entry.                  *)
Remaining(left, p, do) ==
  IF do.stop THEN {} ELSE {q \in left \ {p} : ~(do.prune /\ Dir(p) /\ q \in Below(p))}

LEMMA AheadStays ==
  ASSUME Shape, NEW left, Ahead(left), NEW p, Least(left, p), NEW do, Dir(p) => do.prune \/ do.stop \/ Lets(p)
  PROVE  Ahead(Remaining(left, p, do)) /\ PrunedBy(left, p, Remaining(left, p, do))
<1> DEFINE next == Remaining(left, p, do)
<1>1. /\ left \subseteq Entries /\ p \in Entries /\ p \in left
      /\ \A a \in left : Below(a) \subseteq left
      /\ \A s \in left : \A a \in Upper(s) : a \in left \/ Lets(a)
      /\ left \subseteq Below(WalkRoot)
  BY TreeIs DEF Ahead, Least, Below
<1>2. next \subseteq left \ {p}
  BY DEF Remaining
<1>3. CASE do.stop
  <2>1. next = {}
    BY <1>3 DEF Remaining
  <2> HIDE DEF next
  <2>2. Ahead(next) /\ PrunedBy(left, p, next)
    BY <2>1 DEF Ahead, PrunedBy
  <2> QED BY <2>2 DEF next
<1>4. CASE ~do.stop /\ do.prune /\ Dir(p)
  <2>1. next = left \ Below(p)
    BY <1>1, <1>4, RootBelow DEF Remaining
  <2> HIDE DEF next
  <2>2. ASSUME NEW a \in next PROVE Below(a) \subseteq next
    <3>1. a \in left /\ a \notin Below(p) /\ a \in Entries
      BY <1>1, <2>1
    <3>2. ASSUME NEW q \in Below(a), q \in Below(p) PROVE FALSE
      <4>1. p \in Below(a)
        BY <1>1, <3>1, <3>2, BelowChain
      <4>2. a \in Above(p) /\ a # p
        BY <1>1, <3>1, <4>1, AboveIs, RootBelow
      <4>3. a \notin left
        BY <1>1, <4>2, LeastIs
      <4> QED BY <3>1, <4>3
    <3> QED BY <1>1, <2>1, <3>1, <3>2
  <2>3. ASSUME NEW s \in next, NEW a \in Upper(s) PROVE a \in next \/ Lets(a)
    <3>1. s \in left /\ s \notin Below(p) /\ s \in Entries /\ a \in Entries /\ s \in Below(a)
      BY <1>1, <2>1, AboveIs DEF Upper
    <3>2. a \notin Below(p)
      BY <1>1, <3>1, BelowChain
    <3> QED BY <1>1, <2>1, <3>1, <3>2
  <2>4. PrunedBy(left, p, next)
    BY <1>1, <1>2, <2>1, TreeIs DEF PrunedBy
  <2>5. Ahead(next)
    BY <1>1, <1>2, <2>2, <2>3 DEF Ahead
  <2> QED BY <2>4, <2>5 DEF next
<1>5. CASE ~do.stop /\ ~(do.prune /\ Dir(p))
  <2>1. next = left \ {p}
    BY <1>5 DEF Remaining
  <2> HIDE DEF next
  <2>2. ASSUME NEW a \in next PROVE Below(a) \subseteq next
    <3>1. a \in left /\ a # p /\ a \in Entries
      BY <1>1, <2>1
    <3>2. p \notin Below(a)
      <4>1. p \in Below(a) => a \in Above(p)
        BY <3>1, AboveIs
      <4> QED BY <1>1, <3>1, <4>1, LeastIs
    <3> QED BY <1>1, <2>1, <3>1, <3>2
  <2>3. ASSUME NEW s \in next, NEW a \in Upper(s) PROVE a \in next \/ Lets(a)
    <3>1. s \in left /\ s \in Entries /\ a \in Above(s) \ {s}
      BY <1>1, <2>1 DEF Upper
    <3>2. a \in {"r", "d"} /\ a \in Entries
      BY <3>1, AboveIs
    <3>3. a = p => Lets(a)
      BY <1>1, <1>5, <3>2 DEF Shape
    <3> QED BY <1>1, <2>1, <3>1, <3>3
  <2>4. PrunedBy(left, p, next)
    <3>1. p = "r" => "d" \in left
      BY <1>1, TreeIs
    <3> QED BY <1>2, <2>1, <3>1 DEF PrunedBy
  <2>5. Ahead(next)
    BY <1>1, <1>2, <2>2, <2>3 DEF Ahead
  <2> QED BY <2>4, <2>5 DEF next
<1> QED BY <1>3, <1>4, <1>5

(* The entry that the walk comes to is one that every directory above it   *)
(* has let through.                                                        *)
LEMMA CandidateNow ==
  ASSUME NEW left, Ahead(left), NEW p, Least(left, p)
  PROVE  Candidate(p) <=> Wanted(p)
<1>1. left \subseteq Entries /\ p \in Below(WalkRoot) /\ p \in left
  BY TreeIs DEF Ahead, Least, Below
<1>2. \A a \in Upper(p) : a \notin left
  BY <1>1, LeastIs DEF Upper
<1>3. \A a \in Upper(p) : Lets(a)
  BY <1>1, <1>2 DEF Ahead
<1> QED BY <1>1, <1>3 DEF Candidate

(* What is pruned without a word has nothing that is wanted.               *)
LEMMA PrunedAreNone ==
  ASSUME Shape, NEW left, Ahead(left), NEW p, Least(left, p), NEW do, Sound(p, do), ~do.more,
         NEW q, q \in left, q \notin Remaining(left, p, do), q # p
  PROVE  ~Candidate(q)
<1>1. ~do.stop
  BY DEF Sound
<1>2. do.prune /\ Dir(p) /\ q \in Below(p)
  BY <1>1 DEF Remaining
<1>3. ~Lets(p)
  BY <1>2 DEF Sound
<1>4. p \in Entries /\ q \in Entries /\ p \in Below(WalkRoot)
  BY TreeIs DEF Ahead, Least, Below
<1>5. p \in Upper(q)
  BY <1>2, <1>4, AboveIs DEF Upper
<1> QED BY <1>3, <1>5 DEF Candidate

LEMMA RangeGrows ==
  ASSUME NEW S, NEW s \in Seq(S), NEW e \in S
  PROVE  /\ Append(s, e) \in Seq(S) /\ Len(Append(s, e)) = Len(s) + 1
         /\ Range(Append(s, e)) = Range(s) \cup {e}
         /\ Distinct(s) /\ e \notin Range(s) => Distinct(Append(s, e))
<1> DEFINE t == Append(s, e)  n == Len(s)
<1>1. n \in Nat /\ DOMAIN s = 1..n
  OBVIOUS
<1>2. t \in Seq(S) /\ Len(t) = n + 1 /\ DOMAIN t = 1..(n + 1)
  OBVIOUS
<1>3. t[n + 1] = e /\ \A i \in 1..n : t[i] = s[i]
  OBVIOUS
<1> HIDE DEF t, n
<1>4. \A i : i \in 1..(n + 1) <=> i \in 1..n \/ i = n + 1
  BY <1>1
<1>5. Range(t) = Range(s) \cup {e}
  BY <1>1, <1>2, <1>3, <1>4 DEF Range
<1>6. \A i \in 1..n : s[i] \in Range(s)
  BY <1>1 DEF Range
<1>7. Distinct(s) /\ e \notin Range(s) => Distinct(t)
  BY <1>1, <1>2, <1>3, <1>4, <1>6 DEF Distinct
<1> QED BY <1>2, <1>5, <1>7 DEF t, n

LEMMA TakenStays ==
  ASSUME OmitInv, Lists, walk.pc = "walk", NEW p, Least(walk.left, p), NEW do, Sound(p, do),
         NEW s, s = IF do.take THEN Append(tally.found, p) ELSE tally.found
  PROVE  /\ Taken(Remaining(walk.left, p, do), s, tally.more \/ do.more)
         /\ s \in Seq(Entries) /\ Len(s) <= MaxFound
<1> DEFINE old == tally.found  next == Remaining(walk.left, p, do)
<1>1. /\ Shape /\ Ahead(walk.left) /\ old \in Seq(Entries) /\ Len(old) <= MaxFound
      /\ \A q \in Range(old) : q \notin walk.left /\ Candidate(q)
      /\ Distinct(old)
      /\ tally.more \/ \A q \in Entries \ walk.left : Candidate(q) => q \in Range(old)
      /\ p \in walk.left /\ MaxFound \in Nat /\ Len(old) \in Nat
  BY WalkParameters DEF OmitInv, Told, Tallies, Taken, Least
<1>2. next \subseteq walk.left \ {p} /\ p \in Entries
  BY <1>1 DEF Remaining, Ahead, Below
<1>3. Candidate(p) <=> Wanted(p)
  BY <1>1, CandidateNow
<1>4. do.take => Candidate(p) /\ Len(old) < MaxFound
  BY <1>3 DEF Sound
<1>5. ~do.more => (Wanted(p) => do.take) /\ \A q \in walk.left : q # p /\ Candidate(q) => q \in next
  BY <1>1, PrunedAreNone DEF Sound, Lists
<1>6. /\ s \in Seq(Entries) /\ Len(s) = (IF do.take THEN Len(old) + 1 ELSE Len(old))
      /\ Range(s) = Range(old) \cup (IF do.take THEN {p} ELSE {})
      /\ Distinct(s)
  BY <1>1, <1>2, RangeGrows
<1> HIDE DEF old, next
<1>7. Len(s) <= MaxFound
  BY <1>1, <1>4, <1>6
<1>8. \A q \in Range(s) : q \notin next /\ Candidate(q)
  BY <1>1, <1>2, <1>4, <1>6
<1>9. tally.more \/ do.more \/ \A q \in Entries \ next : Candidate(q) => q \in Range(s)
  BY <1>1, <1>3, <1>5, <1>6
<1>10. call.tool = "rg" /\ next # {} => Len(s) < MaxFound
  <2>1. call.tool = "rg" /\ next # {} => ~do.stop /\ Len(old) < MaxFound
    BY <1>1 DEF OmitInv, Told, Taken, Remaining, next, old
  <2>2. call.tool = "rg" /\ do.take => do.stop \/ Len(old) + 1 < MaxFound
    BY DEF Sound, old
  <2> QED BY <1>6, <2>1, <2>2
<1>11. Taken(next, s, tally.more \/ do.more)
  BY <1>6, <1>8, <1>9, <1>10 DEF Taken
<1> QED BY <1>6, <1>7, <1>11 DEF next

LEMMA RealIn ==
  ASSUME NEW p \in Entries
  PROVE  Real(p) \in Entries /\ "none" \notin Entries
BY TreeIs DEF Real

LEMMA CountedStays ==
  ASSUME OmitInv, call.tool = "index", walk.pc = "walk", walk.file = NotIndexing,
         NEW p, Least(walk.left, p), NEW do, Sound(p, do),
         NEW w, w.left = Remaining(walk.left, p, do),
         w.file = IF do.take THEN [NotIndexing EXCEPT !.path = Real(p), !.phase = "check", !.size = Size(Real(p))] ELSE NotIndexing,
         NEW t, t.found = tally.found, t.bytes = tally.bytes, t.failed = tally.failed,
         t.skipped = IF do.skip THEN tally.skipped \cup {p} ELSE tally.skipped,
         t.more = (tally.more \/ do.more)
  PROVE  Counted(w, t)
<1> DEFINE got == Range(tally.found) \cup tally.skipped
<1>1. /\ Shape /\ Ahead(walk.left) /\ p \in walk.left /\ p \in Entries
      /\ tally.more \/ tally.failed \/ \A q \in Entries \ walk.left : Candidate(q) => {q, Real(q)} \cap (got \cup {"none"}) # {}
  BY DEF OmitInv, Told, Counted, Least, Ahead, Below, NotIndexing
<1>2. Candidate(p) <=> Wanted(p)
  BY <1>1, CandidateNow
<1>3. ~do.more => (Wanted(p) => do.take \/ do.skip) /\ \A q \in walk.left : q # p /\ Candidate(q) => q \in w.left
  BY <1>1, PrunedAreNone DEF Sound
<1>4. w.file # NotIndexing => Len(t.found) < MaxFound /\ t.bytes + w.file.size <= ByteCap
  BY DEF Sound
<1>5. \A q \in Entries : {q, Real(q)} \subseteq Entries /\ "none" \notin Entries
  BY RealIn
<1>6. got \subseteq Range(t.found) \cup t.skipped /\ (do.skip => p \in t.skipped) /\ (do.take => w.file.path = Real(p))
  OBVIOUS
<1> HIDE DEF got
<1>7. ASSUME ~(t.more \/ t.failed), NEW q \in Entries \ w.left, Candidate(q)
      PROVE  {q, Real(q)} \cap (Range(t.found) \cup t.skipped \cup {w.file.path}) # {}
  <2>1. ~do.more /\ ~tally.more /\ ~tally.failed
    BY <1>7
  <2>2. CASE q = p
    BY <1>2, <1>3, <1>6, <1>7, <2>1, <2>2
  <2>3. CASE q # p
    <3>1. q \notin walk.left
      BY <1>3, <1>7, <2>1, <2>3
    <3>2. {q, Real(q)} \cap (got \cup {"none"}) # {}
      BY <1>1, <1>7, <2>1, <3>1
    <3>3. {q, Real(q)} \cap got # {}
      BY <1>5, <1>7, <3>2
    <3> QED BY <1>6, <3>3
  <2> QED BY <2>2, <2>3
<1> QED BY <1>4, <1>7 DEF Counted

-----------------------------------------------------------------------------
LEMMA VisitOmits == OmitInv /\ Visit => OmitInv'
<1> SUFFICES ASSUME OmitInv, Visit PROVE OmitInv'
  OBVIOUS
<1>1. WalkInv' /\ Rests
  BY VisitHolds DEF OmitInv, Visit, Rests
<1>2. PICK p \in walk.left :
        /\ \A q \in walk.left : Place(p) <= Place(q)
        /\ walk' = [walk EXCEPT
              !.left = IF Decision(p).stop THEN {}
                       ELSE {q \in walk.left \ {p} : ~(Decision(p).prune /\ Dir(p) /\ q \in Below(p))},
              !.layers = Layers(p),
              !.inodes = IF call.tool = "index" /\ ~Dir(p) /\ Fenced(p) THEN InodesFor(Real(p)) ELSE @,
              !.file = IF Decision(p).take /\ call.tool = "index"
                       THEN [NotIndexing EXCEPT !.path = Real(p), !.phase = "check", !.size = Size(Real(p))] ELSE @]
        /\ tally' = [tally EXCEPT
              !.found = IF Decision(p).take /\ call.tool # "index" THEN Append(@, p) ELSE @,
              !.skipped = IF Decision(p).skip THEN @ \cup {p} ELSE @,
              !.more = @ \/ Decision(p).more]
  BY DEF Visit
<1> DEFINE do == Decision(p)
           hand == IF do.take /\ call.tool = "index"
                   THEN [NotIndexing EXCEPT !.path = Real(p), !.phase = "check", !.size = Size(Real(p))] ELSE NotIndexing
           s == IF do.take /\ call.tool # "index" THEN Append(tally.found, p) ELSE tally.found
           skipped == IF do.skip THEN tally.skipped \cup {p} ELSE tally.skipped
           more == tally.more \/ do.more
           rest == Remaining(walk.left, p, do)
           layers == Layers(p)
           inodes == IF call.tool = "index" /\ ~Dir(p) /\ Fenced(p) THEN InodesFor(Real(p)) ELSE walk.inodes
<1>3. Least(walk.left, p) /\ walk.pc = "walk" /\ walk.file = NotIndexing
  BY <1>2 DEF Least, Visit
<1>4. Sound(p, do)
  BY <1>3, DecisionSound
<1>5. /\ Shape /\ Tallies(tally) /\ Ahead(walk.left) /\ LayersFit(walk.left, walk.layers)
      /\ call.tool # "stat" /\ (Lists => WalkRoot \in {"r", "d"})
      /\ p \in Entries
  BY <1>3 DEF OmitInv, Told, Ahead, Least, Below
<1>6. walk' = [left |-> rest, layers |-> layers, inodes |-> inodes, file |-> hand, pc |-> "walk"]
  <2>1. walk = [left |-> walk.left, layers |-> walk.layers, inodes |-> walk.inodes, file |-> walk.file, pc |-> walk.pc]
    BY DEF OmitInv, WalkInv, Walks
  <2>2. walk' = [walk EXCEPT !.left = rest, !.layers = layers, !.inodes = inodes, !.file = hand]
    BY <1>2, <1>3 DEF Remaining
  <2> HIDE DEF rest, layers, inodes, hand
  <2> QED BY <1>3, <2>1, <2>2
<1>7. tally' = [found |-> s, skipped |-> skipped, bytes |-> tally.bytes, more |-> more, failed |-> tally.failed]
  <2>1. tally = [found |-> tally.found, skipped |-> tally.skipped, bytes |-> tally.bytes,
                 more |-> tally.more, failed |-> tally.failed]
    BY <1>5 DEF Tallies
  <2>2. tally' = [tally EXCEPT !.found = s, !.skipped = skipped, !.more = more]
    BY <1>2
  <2> HIDE DEF s, skipped, more
  <2> QED BY <2>1, <2>2
<1>8. Ahead(rest) /\ LayersFit(rest, layers)
  <2>1. Dir(p) => do.prune \/ do.stop \/ Lets(p)
    BY <1>4 DEF Sound
  <2>2. Ahead(rest) /\ PrunedBy(walk.left, p, rest)
    BY <1>3, <1>5, <2>1, AheadStays
  <2>3. LockedDir(p) => rest \cap Below(p) = {}
    <3>1. LockedDir(p) => Dir(p) /\ ~Lets(p)
      BY DEF LockedDir, Dir, Lets
    <3> HIDE DEF do
    <3> QED BY <2>1, <3>1 DEF Remaining
  <2> HIDE DEF rest
  <2>4. LayersFit(rest, layers)
    BY <1>3, <1>5, <2>2, <2>3, LayersStay DEF Ahead
  <2> QED BY <2>2, <2>4
<1>9. more \in BOOLEAN /\ skipped \subseteq Entries
  BY <1>4, <1>5 DEF Tallies, Sound
<1>10. Taken(rest, s, more) /\ s \in Seq(Entries) /\ Len(s) <= MaxFound
  <2>1. CASE Lists
    <3>1. s = IF do.take THEN Append(tally.found, p) ELSE tally.found
      BY <2>1 DEF Lists
    <3> HIDE DEF do, s
    <3> QED BY <1>3, <1>4, <2>1, <3>1, TakenStays
  <2>2. CASE ~Lists
    <3>1. s = tally.found
      BY <1>5, <2>2 DEF Lists
    <3> HIDE DEF s
    <3> QED BY <1>5, <2>2, <3>1 DEF Taken, Tallies
  <2> QED BY <2>1, <2>2
<1>11. Counted(walk', tally')
  <2>1. CASE call.tool = "index"
    <3>1. /\ walk'.left = Remaining(walk.left, p, do) /\ tally'.found = tally.found /\ tally'.bytes = tally.bytes
          /\ walk'.file = IF do.take THEN [NotIndexing EXCEPT !.path = Real(p), !.phase = "check", !.size = Size(Real(p))] ELSE NotIndexing
          /\ tally'.failed = tally.failed /\ tally'.skipped = skipped /\ tally'.more = more
      BY <1>6, <1>7, <2>1
    <3> HIDE DEF do
    <3> QED BY <1>3, <1>4, <2>1, <3>1, CountedStays
  <2>2. CASE call.tool # "index"
    BY <2>2 DEF Counted
  <2> QED BY <2>1, <2>2
<1>12. Told(walk', tally')
  <2>1. hand # NotIndexing => call.tool = "index"
    OBVIOUS
  <2>2. Tallies(tally')
    <3> HIDE DEF s, skipped, more
    <3> QED BY <1>5, <1>7, <1>9, <1>10 DEF Tallies
  <2> HIDE DEF rest, layers, inodes, hand, s, skipped, more
  <2>3. walk'.left = rest /\ walk'.layers = layers /\ walk'.file = hand /\ walk'.pc = "walk" /\ tally'.found = s /\ tally'.more = more
    BY <1>6, <1>7
  <2> QED BY <1>5, <1>8, <1>10, <1>11, <2>1, <2>2, <2>3 DEF Told
<1> QED BY <1>1, <1>12, OmitStep

-----------------------------------------------------------------------------
(* What a tool owes is what its walk is to take.                           *)
LEMMA OwedIs ==
  ASSUME Shape, Lists, WalkRoot \in {"r", "d"}, call.tool \in Tools, call.depth \in Nat, NEW p \in Entries
  PROVE  Owed(p) <=> Candidate(p) /\ (Scanning => Standing(p) > 0)
<1> DEFINE asked == Above(p) \cap Below(WalkRoot)  stands == Standing(p) > 0
<1>1. p \in Below(WalkRoot) => asked = Upper(p) \cup {p}
  BY AboveIs DEF Upper
<1>2. \A a \in Upper(p) : a \in Above(p) \ {p} /\ a \in Below(WalkRoot)
  BY DEF Upper
<1>3. (Open(p) <=> \A a \in asked : ~Bulk(a)) /\ (Ignored(p) <=> \E a \in asked : Shut(a) /\ ~(call.tool = "rg" /\ a = WalkRoot))
  BY DEF Open, Ignored
<1>9. InView(p) <=> \A a \in asked : ~LockedDir(a)
  BY DEF InView
<1>10. Regular(p) => ~LockedDir(p)
  BY DEF Regular, Dir, LockedDir
<1>4. Candidate(p) <=> p \in Below(WalkRoot) /\ Wanted(p) /\ \A a \in Upper(p) : Lets(a)
  BY DEF Candidate
<1> HIDE DEF stands
<1>5. CASE call.tool = "ls"
  <2>1. Owed(p) <=> /\ p \in Below(WalkRoot) /\ Fenced(p) /\ InView(p) /\ p # WalkRoot /\ DepthOf(p) <= call.depth
                    /\ call.hidden \/ \A a \in asked : a = WalkRoot \/ ~Hidden(a)
    BY <1>5 DEF Owed, Scanning
  <2>2. \A a \in Upper(p) : DepthOf(p) <= call.depth => DepthOf(a) < call.depth
    <3>1. WalkRoot \in Entries
      BY TreeIs
    <3>2. ASSUME NEW a \in Upper(p), DepthOf(p) <= call.depth PROVE DepthOf(a) < call.depth
      <4>1. DepthOf(a) \in Int /\ DepthOf(p) \in Int /\ DepthOf(a) < DepthOf(p)
        BY <1>2, <3>1, DepthIs
      <4> QED BY <3>2, <4>1
    <3> QED BY <3>2
  <2>3. \A a : Lets(a) <=> ~LockedDir(a) /\ (a = WalkRoot \/ (DepthOf(a) < call.depth /\ (call.hidden \/ ~Hidden(a))))
    BY <1>5 DEF Lets
  <2>4. Wanted(p) <=> p # WalkRoot /\ Fenced(p) /\ ~LockedDir(p) /\ DepthOf(p) <= call.depth /\ (call.hidden \/ ~Hidden(p))
    BY <1>5 DEF Wanted
  <2>5. ~Scanning
    BY <1>5 DEF Scanning
  <2> HIDE DEF asked
  <2> QED BY <1>1, <1>4, <1>9, <2>1, <2>2, <2>3, <2>4, <2>5
<1>6. CASE call.tool = "glob"
  <2>1. Owed(p) <=> p \in Below(WalkRoot) /\ Fenced(p) /\ InView(p) /\ Open(p) /\ ~Ignored(p) /\ ~Sensitive(p)
    BY <1>6 DEF Owed, Scanning
  <2>2. \A a : Lets(a) <=> ~LockedDir(a) /\ ~Bulk(a) /\ ~Shut(a)
    BY <1>6 DEF Lets
  <2>3. Wanted(p) <=> Fenced(p) /\ ~LockedDir(p) /\ ~Bulk(p) /\ ~Sensitive(p) /\ ~Shut(p)
    BY <1>6 DEF Wanted
  <2>4. ~Scanning
    BY <1>6 DEF Scanning
  <2> HIDE DEF asked
  <2> QED BY <1>1, <1>3, <1>4, <1>9, <1>6, <2>1, <2>2, <2>3, <2>4
<1>7. CASE Scanning
  <2>1. Owed(p) <=> p \in Below(WalkRoot) /\ Fenced(p) /\ InView(p) /\ Open(p) /\ ~Ignored(p) /\ Regular(p) /\ ~Sensitive(p) /\ stands
    BY <1>7 DEF Owed, Scanning, stands
  <2>2. \A a : Lets(a) <=> ~LockedDir(a) /\ ~Bulk(a) /\ ~Shut(a)
    BY <1>7 DEF Lets, Scanning
  <2>3. Wanted(p) <=> Fenced(p) /\ ~Bulk(p) /\ ~Sensitive(p) /\ ~Shut(p) /\ Regular(p)
    BY <1>7 DEF Wanted, Scanning
  <2>4. call.tool # "rg"
    BY <1>7 DEF Scanning
  <2> HIDE DEF asked
  <2> QED BY <1>1, <1>3, <1>4, <1>9, <1>10, <1>7, <2>1, <2>2, <2>3, <2>4 DEF stands
<1>8. CASE call.tool = "rg"
  <2>1. Owed(p) <=> /\ p \in Below(WalkRoot) /\ Fenced(p) /\ InView(p) /\ Open(p) /\ ~Ignored(p)
                    /\ Regular(p) /\ kind[p] \notin {"binary", "big", "secret", "locked"}
    BY <1>8 DEF Owed, Scanning
  <2>2. \A a : Lets(a) <=> ~LockedDir(a) /\ ~Bulk(a) /\ (a = WalkRoot \/ ~Shut(a))
    BY <1>8 DEF Lets
  <2>3. Wanted(p) <=> Fenced(p) /\ Regular(p) /\ ~Shut(p) /\ kind[p] \notin {"binary", "big", "secret", "locked"}
    BY <1>8 DEF Wanted
  <2>4. ~Scanning
    BY <1>8 DEF Scanning
  <2>5. Regular(p) => p # WalkRoot /\ ~Bulk(p)
    <3>1. Dir(WalkRoot)
      BY TreeIs DEF Shape
    <3> QED BY <3>1 DEF Regular, Bulk, Dir
  <2> HIDE DEF asked
  <2> QED BY <1>1, <1>3, <1>4, <1>9, <1>10, <1>8, <2>1, <2>2, <2>3, <2>4, <2>5
<1> QED BY <1>5, <1>6, <1>7, <1>8 DEF Lists, Tools, Scanning

(* A file that index owes a note of it comes by, or a locked directory     *)
(* above it.                                                               *)
LEMMA OwedByIndex ==
  ASSUME call.tool = "index", Shape, call.depth \in Nat, WalkRoot \in Entries, NEW p \in Below(WalkRoot), ~PassedOver(p), ~Dir(p)
  PROVE  Candidate(p) \/ \E a \in Above(p) : Candidate(a) /\ LockedDir(a)
<1>1. p \in Entries /\ \A a \in Upper(p) : a \in {"r", "d"} /\ a \in Below(WalkRoot) /\ a \in Above(p)
  BY AboveIs DEF Upper
<1>2. \A a \in Upper(p) : ~Bulk(a) /\ Dir(a) /\ ~(DepthOf(a) > call.depth)
  BY <1>1, TreeIs DEF PassedOver, Shape, Upper
<1>3. \A a \in Upper(p) : DepthOf(a) <= call.depth
  <2>1. \A a \in Upper(p) : DepthOf(a) \in Int /\ call.depth \in Int
    BY <1>1, TreeIs, DepthIs
  <2> QED BY <1>2, <2>1
<1>4. \A a \in Upper(p) : Lets(a) \/ LockedDir(a)
  BY <1>2, <1>3 DEF Lets
<1>5. \A a \in Upper(p) : LockedDir(a) => Wanted(a)
  BY DEF Wanted
<1>6. Wanted(p)
  BY DEF Wanted
<1>7. CASE \A a \in Upper(p) : Lets(a)
  BY <1>6, <1>7 DEF Candidate
<1>8. CASE "r" \in Upper(p) /\ LockedDir("r")
  <2>1. Upper("r") = {}
    BY TreeIs DEF Upper
  <2>2. Candidate("r")
    BY <1>1, <1>5, <1>8, <2>1 DEF Candidate
  <2> QED BY <1>1, <1>8, <2>2
<1>9. CASE "d" \in Upper(p) /\ LockedDir("d") /\ ~("r" \in Upper(p) /\ LockedDir("r"))
  <2>1. Upper("d") \subseteq {"r"} /\ ("r" \in Upper("d") => "r" \in Upper(p))
    BY <1>1, <1>9, TreeIs DEF Upper
  <2>2. \A a \in Upper("d") : Lets(a)
    BY <1>4, <1>9, <2>1
  <2>3. Candidate("d")
    BY <1>1, <1>5, <1>9, <2>2 DEF Candidate
  <2> QED BY <1>1, <1>9, <2>3
<1> QED BY <1>1, <1>4, <1>7, <1>8, <1>9

-----------------------------------------------------------------------------
(* Sequences without repetition.                                           *)
LEMMA DistinctCount ==
  ASSUME NEW S, NEW s \in Seq(S), Distinct(s)
  PROVE  Cardinality(Range(s)) = Len(s)
<1> DEFINE n == Len(s)
<1>1. n \in Nat /\ DOMAIN s = 1..n /\ s \in [1..n -> S]
  OBVIOUS
<1> HIDE DEF n
<1>2. s \in [1..n -> Range(s)] /\ \A e \in Range(s) : \E i \in 1..n : s[i] = e
  BY <1>1 DEF Range
<1>3. s \in Bijection(1..n, Range(s))
  BY <1>1, <1>2 DEF Distinct, Bijection, Injection, Surjection, IsInjective
<1>4. ExistsBijection(1..n, Range(s))
  BY <1>3 DEF ExistsBijection
<1>5. IsFiniteSet(1..n) /\ Cardinality(1..n) = n
  BY <1>1, FS_Interval
<1> QED BY <1>4, <1>5, FS_Bijection DEF n

LEMMA PrefixIs ==
  ASSUME NEW S, NEW s \in Seq(S), Distinct(s), NEW n \in 0..Len(s)
  PROVE  /\ SubSeq(s, 1, n) \in Seq(S) /\ Len(SubSeq(s, 1, n)) = n
         /\ Range(SubSeq(s, 1, n)) \subseteq Range(s)
         /\ Distinct(SubSeq(s, 1, n))
         /\ n = Len(s) => Range(SubSeq(s, 1, n)) = Range(s)
<1> DEFINE t == SubSeq(s, 1, n)  k == Len(s)
<1>1. k \in Nat /\ DOMAIN s = 1..k /\ n \in Nat /\ n <= k
  OBVIOUS
<1>2. t \in Seq(S) /\ Len(t) = n /\ \A i \in 1..n : t[i] = s[i]
  BY SubSeqProperties
<1>3. DOMAIN t = 1..n
  BY <1>2
<1> HIDE DEF t, k
<1>4. \A i \in 1..n : i \in 1..k
  BY <1>1
<1>5. Range(t) \subseteq Range(s) /\ Distinct(t) /\ (n = k => Range(t) = Range(s))
  BY <1>1, <1>2, <1>3, <1>4 DEF Range, Distinct
<1> QED BY <1>2, <1>5 DEF t, k

(* A permutation of a set has every member of it.                          *)
LEMMA PermutationIs ==
  ASSUME NEW S, IsFiniteSet(S), NEW s \in SetToSeqs(S)
  PROVE  s \in Seq(S) /\ Distinct(s) /\ Range(s) = S /\ Len(s) = Cardinality(S)
<1> DEFINE n == Cardinality(S)
<1>1. n \in Nat
  BY FS_CardinalityType
<1>2. s \in [1..n -> S] /\ \A i, j \in 1..n : i # j => s[i] # s[j]
  BY DEF SetToSeqs
<1>3. IsFiniteSet(1..n) /\ Cardinality(1..n) = n
  BY <1>1, FS_Interval
<1> HIDE DEF n
<1>4. s \in Injection(1..n, S)
  BY <1>2 DEF Injection, IsInjective
<1>5. s \in Surjection(1..n, S)
  BY <1>3, <1>4, FS_Injection DEF n
<1>6. Range(s) = S
  BY <1>2, <1>5 DEF Surjection, Range
<1>7. s \in Seq(S) /\ Len(s) = n
  BY <1>1, <1>2
<1> QED BY <1>2, <1>6, <1>7 DEF Distinct, n

LEMMA EntriesFinite == IsFiniteSet(Entries)
<1>1. IsFiniteSet({"r"})
  BY FS_Singleton
<1>2. IsFiniteSet({"r"} \cup {"d"})
  BY <1>1, FS_AddElement
<1>3. IsFiniteSet(({"r"} \cup {"d"}) \cup {"x"})
  BY <1>2, FS_AddElement
<1>4. IsFiniteSet((({"r"} \cup {"d"}) \cup {"x"}) \cup {"y"})
  BY <1>3, FS_AddElement
<1>5. IsFiniteSet(((({"r"} \cup {"d"}) \cup {"x"}) \cup {"y"}) \cup {"f"})
  BY <1>4, FS_AddElement
<1>6. Entries = ((({"r"} \cup {"d"}) \cup {"x"}) \cup {"y"}) \cup {"f"}
  BY TreeIs
<1> QED BY <1>5, <1>6

-----------------------------------------------------------------------------
(* The end of a walk: what has been found, ranked by resolve and related.  *)
LEMMA FinishAnswers ==
  ASSUME OmitInv, Finish
  PROVE  /\ Tallies(tally') /\ (tally'.failed \/ Answered(tally'))
         /\ walk' = [walk EXCEPT !.pc = "done"] /\ walk.file = NotIndexing
<1> DEFINE s == tally.found
<1>1. /\ Shape /\ Tallies(tally) /\ call.tool # "stat" /\ call.tool \in Tools /\ call.depth \in Nat
      /\ Lists => WalkRoot \in {"r", "d"}
      /\ Taken(walk.left, s, tally.more) /\ Counted(walk, tally)
      /\ walk.left = {} /\ walk.file = NotIndexing /\ walk' = [walk EXCEPT !.pc = "done"]
  BY DEF OmitInv, Told, Finish, WalkInv
<1>2. s \in Seq(Entries) /\ Len(s) <= MaxFound /\ tally.bytes <= ByteCap /\ tally.skipped \subseteq Entries
  BY <1>1 DEF Tallies
<1>3. Lists => /\ \A p \in Range(s) : Candidate(p)
               /\ Distinct(s)
               /\ tally.more \/ \A p \in Entries : Candidate(p) => p \in Range(s)
  BY <1>1 DEF Taken
<1>4. Lists => \A p \in Entries : Owed(p) <=> Candidate(p) /\ (Scanning => Standing(p) > 0)
  BY <1>1, OwedIs
<1>5. Range(s) \subseteq Entries
  BY <1>2 DEF Range
<1>6. CASE Scanning
  <2>1. Lists
    BY <1>6 DEF Lists, Scanning
  <2> DEFINE S == {p \in Range(s) : Standing(p) > 0}
  <2>2. PICK r \in Ranked :
          tally' = [tally EXCEPT !.found = SubSeq(r, 1, IF Len(r) > MaxHits THEN MaxHits ELSE Len(r)),
                                 !.more = @ \/ Len(r) > MaxHits]
    BY <1>6 DEF Finish
  <2>3. r \in SetToSeqs(S)
    BY <2>2 DEF Ranked
  <2>4. S \subseteq Entries /\ IsFiniteSet(S)
    <3>1. S \subseteq Entries
      BY <1>5
    <3> QED BY <3>1, EntriesFinite, FS_Subset
  <2>5. r \in Seq(S) /\ Distinct(r) /\ Range(r) = S
    BY <2>3, <2>4, PermutationIs
  <2> DEFINE shown == IF Len(r) > MaxHits THEN MaxHits ELSE Len(r)
             t == SubSeq(r, 1, shown)
             over == Len(r) > MaxHits
  <2>6. Len(r) \in Nat /\ MaxHits \in Nat /\ MaxFound \in Nat
    BY <2>5, WalkParameters
  <2>7. shown \in 0..Len(r) /\ shown <= MaxHits /\ (~over => shown = Len(r))
    BY <2>6
  <2>8. /\ t \in Seq(S) /\ Len(t) = shown /\ Range(t) \subseteq S /\ Distinct(t)
        /\ shown = Len(r) => Range(t) = S
    <3> HIDE DEF S, shown
    <3> QED BY <2>5, <2>7, PrefixIs
  <2>9. tally' = [tally EXCEPT !.found = t, !.more = tally.more \/ over]
    BY <2>2
  <2> HIDE DEF t, shown, over
  <2>10. /\ tally' = [found |-> t, skipped |-> tally.skipped, bytes |-> tally.bytes,
                      more |-> tally.more \/ over, failed |-> tally.failed]
         /\ tally'.found = t /\ tally'.bytes = tally.bytes /\ tally'.more = (tally.more \/ over)
    BY <1>1, <2>9 DEF Tallies
  <2>11. t \in Seq(Entries)
    <3> HIDE DEF S
    <3>1. t \in [1..shown -> S]
      BY <2>8
    <3> QED BY <2>4, <2>8, SeqDef
  <2>12. Len(t) <= MaxFound
    <3>1. Cardinality(Range(s)) = Len(s)
      BY <1>2, <1>3, <2>1, DistinctCount
    <3>2. IsFiniteSet(Range(s)) /\ Range(t) \subseteq Range(s)
      BY <1>5, <2>8, EntriesFinite, FS_Subset
    <3>3. Cardinality(Range(t)) <= Cardinality(Range(s))
      BY <3>2, FS_Subset
    <3>4. Cardinality(Range(t)) = Len(t)
      BY <2>8, <2>11, DistinctCount
    <3>5. Len(s) \in Nat /\ Len(t) \in Nat
      BY <1>2, <2>11
    <3> QED BY <1>2, <2>6, <3>1, <3>3, <3>4, <3>5
  <2>13. Tallies(tally')
    BY <1>1, <2>10, <2>11, <2>12 DEF Tallies, over
  <2>14. Cardinality(Range(t)) = Len(t)
    BY <2>8, <2>11, DistinctCount
  <2>15. Range(t) \subseteq {p \in Entries : Owed(p)}
    BY <1>3, <1>4, <1>5, <2>1, <2>8
  <2>16. ~(tally.more \/ over) => {p \in Entries : Owed(p)} \subseteq Range(t)
    BY <1>3, <1>4, <1>6, <2>1, <2>7, <2>8
  <2>17. Len(t) <= MaxHits
    BY <2>7, <2>8
  <2>18. Answered(tally')
    BY <1>2, <1>6, <2>1, <2>10, <2>14, <2>15, <2>16, <2>17 DEF Answered, Lists
  <2> QED BY <1>1, <2>13, <2>18
<1>7. CASE ~Scanning
  <2>1. tally' = tally
    BY <1>7 DEF Finish
  <2>2. CASE Lists
    <3>1. Cardinality(Range(s)) = Len(s)
      BY <1>2, <1>3, <2>2, DistinctCount
    <3>2. Range(s) = {p \in Range(s) : Owed(p)} /\ (tally.more \/ {p \in Entries : Owed(p)} \subseteq Range(s))
      BY <1>3, <1>4, <1>5, <1>7, <2>2
    <3>3. Answered(tally)
      BY <1>2, <1>5, <1>7, <2>2, <3>1, <3>2 DEF Answered, Lists
    <3> QED BY <1>1, <2>1, <3>3
  <2>3. CASE call.tool = "index"
    <3>1. tally.more \/ tally.failed \/ \A p \in Entries : Candidate(p) => {p, Real(p)} \cap (Range(s) \cup tally.skipped \cup {"none"}) # {}
      BY <1>1, <2>3 DEF Counted, NotIndexing
    <3>2. \A p \in Entries : Real(p) \in Entries /\ "none" \notin Entries
      BY RealIn
    <3>3. Below(WalkRoot) \subseteq Entries
      BY DEF Below
    <3> DEFINE got == Range(s) \cup tally.skipped
    <3>4. ASSUME ~tally.more, ~tally.failed, NEW p \in Below(WalkRoot), ~Dir(p), ~PassedOver(p)
          PROVE  (Above(p) \cup {Real(p)}) \cap got # {}
      <4>1. p \in Entries /\ p \in Above(p) /\ Above(p) \subseteq Entries
        BY <3>3, AboveIs
      <4>2. \A a \in Entries : Candidate(a) => a \in got \/ Real(a) \in got
        BY <3>1, <3>2, <3>4
      <4>3. CASE Candidate(p)
        BY <4>1, <4>2, <4>3
      <4>4. CASE \E a \in Above(p) : Candidate(a) /\ LockedDir(a)
        <5>1. \A a : LockedDir(a) => Real(a) = a
          BY DEF LockedDir, Real
        <5> QED BY <4>1, <4>2, <4>4, <5>1
      <4> QED BY <1>1, <2>3, <3>4, <4>3, <4>4, RootIs, OwedByIndex
    <3>5. tally.failed \/ Answered(tally)
      BY <1>2, <1>7, <2>3, <3>4 DEF Answered
    <3> QED BY <1>1, <2>1, <3>5
  <2> QED BY <1>1, <2>2, <2>3 DEF Lists
<1> QED BY <1>6, <1>7

LEMMA FinishOmits == OmitInv /\ Finish => OmitInv'
<1> SUFFICES ASSUME OmitInv, Finish PROVE OmitInv'
  OBVIOUS
<1>1. WalkInv' /\ Rests
  BY WalkEndsHolds DEF OmitInv, Finish, Rests
<1>2. /\ Tallies(tally') /\ (tally'.failed \/ Answered(tally'))
      /\ walk' = [walk EXCEPT !.pc = "done"] /\ walk.file = NotIndexing
  BY FinishAnswers
<1>3. walk'.pc = "done" /\ walk'.file = NotIndexing
  BY <1>2 DEF OmitInv, WalkInv, Walks
<1>4. Told(walk', tally')
  BY <1>2, <1>3 DEF Told
<1> QED BY <1>1, <1>4, OmitStep

LEMMA BudgetOmits == OmitInv /\ BudgetEnds => OmitInv'
<1> SUFFICES ASSUME OmitInv, BudgetEnds PROVE OmitInv'
  OBVIOUS
<1>1. WalkInv' /\ Rests
  BY WalkEndsHolds DEF OmitInv, BudgetEnds, Rests
<1>2. /\ walk' = [walk EXCEPT !.left = {}] /\ tally' = [tally EXCEPT !.more = TRUE]
      /\ walk.pc = "walk" /\ Lists /\ call.tool # "index"
  BY DEF BudgetEnds, Lists, Scanning
<1>3. /\ walk'.left = {} /\ walk'.layers = walk.layers /\ walk'.file = walk.file /\ walk'.pc = walk.pc
      /\ tally'.found = tally.found /\ tally'.more = TRUE
  BY <1>2 DEF OmitInv, WalkInv, Walks, Told, Tallies
<1>4. Tallies(tally')
  BY <1>2 DEF OmitInv, Told, Tallies
<1>5. LayersFit({}, walk.layers) /\ Ahead({})
  BY <1>2 DEF OmitInv, Told, LayersFit, Ahead
<1>6. Taken({}, tally.found, TRUE)
  BY <1>2 DEF OmitInv, Told, Taken
<1>7. Counted(walk', tally')
  BY <1>2 DEF Counted
<1>8. Told(walk', tally')
  BY <1>2, <1>3, <1>4, <1>5, <1>6, <1>7 DEF OmitInv, Told
<1> QED BY <1>1, <1>8, OmitStep

LEMMA StatOmits == OmitInv /\ Stat => OmitInv'
<1> SUFFICES ASSUME OmitInv, Stat PROVE OmitInv'
  OBVIOUS
<1>1. WalkInv' /\ Rests
  BY StartingHolds DEF OmitInv, Stat, Rests
<1>2. /\ walk' = [walk EXCEPT !.pc = "done", !.left = {}] /\ tally' = [tally EXCEPT !.found = <<call.root>>]
      /\ walk.pc = "new" /\ call.tool = "stat" /\ call.root \in Entries /\ tally = NothingYet
  BY DEF OmitInv, Stat, WalkInv, Told
<1>3. walk'.pc = "done" /\ walk'.file = walk.file /\ walk.file = NotIndexing
  BY <1>2 DEF OmitInv, WalkInv, Walks, Told
<1> DEFINE root == call.root  s == <<root>>
<1>4. s \in Seq(Entries) /\ Len(s) = 1 /\ Range(s) = {root}
  BY <1>2 DEF Range
<1>5. WalkRoot = root /\ ~Scanning
  BY <1>2 DEF WalkRoot, Scanning
<1>6. root \in Below(root)
  BY <1>2, RootBelow
<1>7. \A p \in Entries : Owed(p) <=> p = root
  BY <1>2, <1>5, <1>6 DEF Owed
<1>8. Cardinality({root}) = 1
  BY FS_Singleton
<1> HIDE DEF s
<1>9. tally' = [found |-> s, skipped |-> {}, bytes |-> 0, more |-> FALSE, failed |-> FALSE]
  BY <1>2 DEF NothingYet, s
<1>10. 1 <= MaxFound /\ 0 <= ByteCap /\ ByteCap \in Nat
  BY WalkParameters
<1>11. Tallies(tally')
  BY <1>4, <1>9, <1>10 DEF Tallies
<1>12. Answered(tally')
  <2>1. tally'.found = s /\ tally'.more = FALSE /\ tally'.bytes = 0
    BY <1>9
  <2>2. {p \in Entries : Owed(p)} = {root}
    BY <1>2, <1>7
  <2>3. Len(s) <= MaxFound /\ tally'.bytes <= ByteCap /\ call.tool # "index"
    BY <1>2, <1>4, <1>10, <2>1
  <2> HIDE DEF root
  <2>4. Range(s) = {p \in Entries : Owed(p)} /\ Cardinality(Range(s)) = Len(s)
    BY <1>4, <1>8, <2>2
  <2> QED BY <1>5, <2>1, <2>3, <2>4 DEF Answered
<1>13. Told(walk', tally')
  BY <1>3, <1>11, <1>12 DEF Told
<1> QED BY <1>1, <1>13, OmitStep

LEMMA BeginOmits == OmitInv /\ Begin => OmitInv'
<1> SUFFICES ASSUME OmitInv, Begin PROVE OmitInv'
  OBVIOUS
<1>1. WalkInv' /\ Rests
  BY StartingHolds DEF OmitInv, Begin, Rests
<1>2. /\ walk.pc = "new" /\ call.tool # "stat" /\ call.root \in Entries /\ call.tool \in Tools
      /\ tally = NothingYet /\ walk.left = Below(WalkRoot) /\ walk.file = NotIndexing /\ Shape
      /\ walk = [left |-> walk.left, layers |-> walk.layers, inodes |-> walk.inodes, file |-> walk.file, pc |-> walk.pc]
  BY DEF OmitInv, Begin, WalkInv, Walks, Told
<1>3. /\ Tallies(tally) /\ Ahead(walk.left) /\ LayersFit(walk.left, walk.layers)
      /\ Taken(walk.left, tally.found, tally.more) /\ Counted(walk, tally)
  BY <1>2 DEF OmitInv, Told
<1>4. CASE Fail
  <2>1. walk'.pc = "done" /\ walk'.file = NotIndexing
    BY <1>2, <1>4 DEF Fail
  <2>2. Tallies(tally') /\ tally'.failed
    BY <1>3, <1>4 DEF Fail, Tallies
  <2>3. Told(walk', tally')
    BY <2>1, <2>2 DEF Told
  <2> QED BY <1>1, <2>3, OmitStep
<1>5. CASE ~RootRefused(call.root) /\ (Scanning \/ Dir(call.root)) /\ walk' = [walk EXCEPT !.pc = "walk"] /\ tally' = tally
  <2>1. /\ walk'.pc = "walk" /\ walk'.file = NotIndexing /\ walk'.left = walk.left /\ walk'.layers = walk.layers
        /\ tally'.found = tally.found /\ tally'.more = tally.more
    BY <1>2, <1>5
  <2>2. WalkRoot \in {"r", "d"}
    BY <1>2, <1>5 DEF WalkRoot, Shape
  <2>3. Counted(walk', tally')
    BY <1>2, <1>3, <1>5, <2>1 DEF Counted
  <2>4. Told(walk', tally')
    BY <1>2, <1>3, <1>5, <2>1, <2>2, <2>3 DEF Told
  <2> QED BY <1>1, <2>4, OmitStep
<1>6. CASE /\ ~RootRefused(call.root) /\ ~Scanning /\ ~Dir(call.root) /\ tally' = tally
           /\ walk' = [walk EXCEPT !.pc = "walk", !.left = {},
                                   !.file = [NotIndexing EXCEPT !.path = Real(call.root), !.phase = "check"]]
  <2>1. call.tool = "index" /\ call.root \notin {"r", "d"} /\ WalkRoot = call.root
    BY <1>2, <1>6 DEF RootRefused, Scanning, Tools, WalkRoot, Shape
  <2>2. /\ walk'.pc = "walk" /\ walk'.left = {} /\ walk'.layers = walk.layers
        /\ walk'.file.path = Real(call.root) /\ walk'.file.size = 0 /\ walk'.file # NotIndexing
    BY <1>2, <1>6 DEF NotIndexing
  <2>3. /\ tally'.found = <<>> /\ tally'.bytes = 0 /\ tally'.more = FALSE
    BY <1>2, <1>6 DEF NothingYet
  <2>4. Below(call.root) = {call.root}
    BY <1>2, <2>1, TreeIs
  <2>5. \A p : Candidate(p) => p = call.root
    BY <2>1, <2>4 DEF Candidate
  <2>6. Len(tally'.found) < MaxFound /\ tally'.bytes + walk'.file.size <= ByteCap
    BY <2>2, <2>3, WalkParameters
  <2>7. Counted(walk', tally')
    <3>1. walk'.file.path = Real(call.root)
      BY <2>2
    <3>2. \A p : Candidate(p) => {p, Real(p)} \cap (Range(tally'.found) \cup tally'.skipped \cup {walk'.file.path}) # {}
      BY <2>5, <3>1
    <3> QED BY <2>6, <3>2 DEF Counted
  <2>8. Ahead({}) /\ LayersFit({}, walk.layers) /\ Taken({}, <<>>, FALSE)
    BY <2>1 DEF Ahead, LayersFit, Asks, Taken, Lists
  <2>9. Told(walk', tally')
    BY <1>3, <1>6, <2>1, <2>2, <2>3, <2>7, <2>8 DEF Told, Lists
  <2> QED BY <1>1, <2>9, OmitStep
<1> QED BY <1>4, <1>5, <1>6 DEF Begin

-----------------------------------------------------------------------------
(* A file in hand that is not stored is counted, or the call fails.        *)
LEMMA NotStoredOmits ==
  ASSUME OmitInv, WalkInv', Rests, walk.file # NotIndexing, NotStored(walk.file.path)
  PROVE  OmitInv'
<1> DEFINE p == walk.file.path
<1>1. /\ call.tool = "index" /\ walk.pc = "walk" /\ Tallies(tally) /\ Ahead(walk.left)
      /\ Counted(walk, tally) /\ p \in Entries
      /\ walk = [left |-> walk.left, layers |-> walk.layers, inodes |-> walk.inodes, file |-> walk.file, pc |-> walk.pc]
  BY DEF OmitInv, Told, WalkInv, Walks, HandRecords
<1>2. walk'.file = NotIndexing /\ walk'.left = walk.left /\ walk'.layers = walk.layers /\ walk'.pc = "walk"
  BY <1>1 DEF NotStored
<1>3. \/ tally' = [tally EXCEPT !.skipped = @ \cup {p}]
      \/ tally' = [tally EXCEPT !.failed = TRUE]
  BY DEF NotStored
<1>4. /\ tally'.found = tally.found /\ tally'.bytes = tally.bytes /\ tally'.more = tally.more
      /\ (tally'.failed = tally.failed /\ tally'.skipped = tally.skipped \cup {p}) \/ tally'.failed
      /\ Tallies(tally')
  BY <1>1, <1>3 DEF Tallies
<1> HIDE DEF p
<1>5. Counted(walk', tally')
  BY <1>1, <1>2, <1>4 DEF Counted, p
<1>6. LayersFit(walk.left, walk.layers) /\ Taken(walk.left, tally.found, tally.more)
  BY <1>1 DEF LayersFit, Asks, Taken, Lists
<1>7. Told(walk', tally')
  BY <1>1, <1>2, <1>4, <1>5, <1>6 DEF Told, Lists
<1> QED BY <1>7, OmitStep

LEMMA CheckFileOmits == OmitInv /\ CheckFile => OmitInv'
<1> SUFFICES ASSUME OmitInv, CheckFile PROVE OmitInv'
  OBVIOUS
<1> DEFINE p == walk.file.path  q == Real(p)
<1>1. WalkInv' /\ Rests /\ walk.file.phase = "check"
  BY CheckFileHolds DEF OmitInv, CheckFile, Rests
<1>2. walk.file # NotIndexing
  BY <1>1 DEF NotIndexing
<1>3. CASE NotStored(p)
  BY <1>1, <1>2, <1>3, NotStoredOmits
<1>4. CASE walk' = [walk EXCEPT !.file = [@ EXCEPT !.path = q, !.phase = "read", !.was = kind[q]]] /\ tally' = tally
  <2>1. /\ call.tool = "index" /\ walk.pc = "walk" /\ Tallies(tally) /\ Ahead(walk.left)
        /\ Counted(walk, tally) /\ p \in Entries /\ Tree(kind)
        /\ walk = [left |-> walk.left, layers |-> walk.layers, inodes |-> walk.inodes, file |-> walk.file, pc |-> walk.pc]
        /\ walk.file \in HandRecords
    BY <1>2 DEF OmitInv, Told, WalkInv, Walks, HandRecords
  <2>2. /\ walk'.left = walk.left /\ walk'.layers = walk.layers /\ walk'.pc = "walk"
        /\ walk'.file.path = q /\ walk'.file.size = walk.file.size
    <3> HIDE DEF p, q
    <3> QED BY <1>4, <2>1 DEF HandRecords
  <2>3. \A e \in Entries : p \in {e, Real(e)} => q \in {e, Real(e)}
    <3>1. kind["y"] # "linky"
      BY <2>1 DEF Tree, Swapped
    <3> QED BY <3>1 DEF Real
  <2> HIDE DEF p, q
  <2>4. Counted(walk', tally')
    <3>1. Len(tally'.found) < MaxFound /\ tally'.bytes + walk'.file.size <= ByteCap
      BY <1>2, <1>4, <2>1, <2>2 DEF Counted
    <3> DEFINE got == Range(tally.found) \cup tally.skipped
    <3>2. tally.more \/ tally.failed \/ \A e \in Entries \ walk.left : Candidate(e) => {e, Real(e)} \cap (got \cup {p}) # {}
      BY <2>1 DEF Counted, p
    <3> HIDE DEF got
    <3>3. tally.more \/ tally.failed \/ \A e \in Entries \ walk.left : Candidate(e) => {e, Real(e)} \cap (got \cup {q}) # {}
      BY <2>3, <3>2
    <3> QED BY <1>4, <2>2, <3>1, <3>3 DEF Counted, got
  <2>5. LayersFit(walk.left, walk.layers) /\ Taken(walk.left, tally.found, tally.more)
    BY <2>1 DEF LayersFit, Asks, Taken, Lists
  <2>6. Told(walk', tally')
    BY <1>4, <2>1, <2>2, <2>4, <2>5 DEF Told, Lists
  <2> QED BY <1>1, <2>6, OmitStep
<1> QED BY <1>3, <1>4 DEF CheckFile

LEMMA ReadEntryOmits == OmitInv /\ ReadEntry => OmitInv'
<1> SUFFICES ASSUME OmitInv, ReadEntry PROVE OmitInv'
  OBVIOUS
<1> DEFINE p == walk.file.path
<1>1. WalkInv' /\ Rests /\ walk.file.phase = "read"
  BY ReadEntryHolds DEF OmitInv, ReadEntry, Opened, Rests
<1>2. walk.file # NotIndexing
  BY <1>1 DEF NotIndexing
<1>3. CASE NotStored(p)
  BY <1>1, <1>2, <1>3, NotStoredOmits
<1>4. CASE Stored(p)
  <2>1. /\ call.tool = "index" /\ walk.pc = "walk" /\ Tallies(tally) /\ Ahead(walk.left)
        /\ Counted(walk, tally) /\ p \in Entries
        /\ walk = [left |-> walk.left, layers |-> walk.layers, inodes |-> walk.inodes, file |-> walk.file, pc |-> walk.pc]
        /\ walk.file.size \in Nat
    BY <1>2 DEF OmitInv, Told, WalkInv, Walks, HandRecords
  <2>2. walk'.file = NotIndexing /\ walk'.left = walk.left /\ walk'.layers = walk.layers /\ walk'.pc = "walk"
    BY <1>4, <2>1 DEF Stored
  <2> DEFINE s == Append(tally.found, p)  n == tally.bytes + walk.file.size
  <2>3. tally' = [tally EXCEPT !.found = s, !.bytes = n]
    BY <1>4 DEF Stored
  <2>4. Len(tally.found) < MaxFound /\ n <= ByteCap
    BY <1>2, <2>1 DEF Counted
  <2>5. tally.found \in Seq(Entries) /\ tally.bytes \in Nat /\ MaxFound \in Nat
    BY <2>1, WalkParameters DEF Tallies
  <2>6. s \in Seq(Entries) /\ Len(s) = Len(tally.found) + 1 /\ Range(s) = Range(tally.found) \cup {p}
    BY <2>1, <2>5, RangeGrows
  <2>7. Len(s) <= MaxFound /\ n \in Nat
    <3>1. Len(tally.found) \in Nat
      BY <2>5
    <3> HIDE DEF s
    <3> QED BY <2>1, <2>4, <2>5, <2>6, <3>1
  <2> HIDE DEF s, n
  <2>8. /\ tally'.found = s /\ tally'.skipped = tally.skipped /\ tally'.more = tally.more /\ tally'.failed = tally.failed
        /\ Tallies(tally')
    BY <2>1, <2>3, <2>4, <2>6, <2>7 DEF Tallies
  <2> HIDE DEF p
  <2>9. Counted(walk', tally')
    BY <2>1, <2>2, <2>6, <2>8 DEF Counted, p
  <2>10. LayersFit(walk.left, walk.layers) /\ Taken(walk.left, s, tally.more)
    BY <2>1 DEF LayersFit, Asks, Taken, Lists
  <2>11. Told(walk', tally')
    BY <2>1, <2>2, <2>8, <2>9, <2>10 DEF Told, Lists
  <2> QED BY <1>1, <2>11, OmitStep
<1> QED BY <1>3, <1>4 DEF ReadEntry, Opened

(* What is changed is in hand, so it is its own witness; nothing becomes   *)
(* or was a directory.                                                     *)
LEMMA SwappedOmits == OmitInv /\ FileSwapped => OmitInv'
<1> SUFFICES ASSUME OmitInv, FileSwapped PROVE OmitInv'
  OBVIOUS
<1> DEFINE p == walk.file.path
<1>1. WalkInv'
  BY FileSwappedHolds DEF OmitInv
<1>2. PICK k \in Swapped : kind' = [kind EXCEPT ![p] = k]
  BY DEF FileSwapped, Swapped
<1>3. /\ rules' = rules /\ call' = call /\ walk' = walk /\ tally' = tally
      /\ walk.file # NotIndexing /\ ~Dir(p)
  BY DEF FileSwapped, Regular
<1>4. /\ call.tool = "index" /\ walk.pc = "walk" /\ Tallies(tally) /\ Ahead(walk.left)
      /\ Counted(walk, tally) /\ p \in Entries /\ Tree(kind)
      /\ WalkRoot \in Entries
  BY <1>3, RootIs DEF OmitInv, Told, WalkInv, Walks, HandRecords
<1>5. \A e \in Entries : kind'[e] = IF e = p THEN k ELSE kind[e]
  BY <1>2, <1>4, EntriesAre DEF Tree
<1> HIDE DEF p
<1>6. \A e \in Entries : /\ Dir(e)' <=> Dir(e)
                         /\ Bulk(e)' <=> Bulk(e)
                         /\ LockedDir(e)' <=> LockedDir(e)
                         /\ Real(e)' = Real(e) \/ e = p
  BY <1>3, <1>5 DEF Dir, Bulk, LockedDir, Real, Swapped
<1>7. /\ Entries' = Entries /\ WalkRoot' = WalkRoot /\ \A e : Below(e)' = Below(e) /\ Above(e)' = Above(e)
  BY <1>3 DEF Entries, WalkRoot, Scanning, Below, Above
<1>8. \A e \in Entries : Upper(e)' = Upper(e) /\ Upper(e) \subseteq Entries
  BY <1>7, AboveIs DEF Upper
<1>9. \A e \in Entries : (Lets(e)' <=> Lets(e)) /\ (Wanted(e)' <=> Wanted(e))
  <2>1. \A e : DepthOf(e)' = DepthOf(e)
    BY <1>7 DEF DepthOf
  <2> QED BY <1>3, <1>4, <1>6, <2>1 DEF Lets, Wanted
<1>10. \A e \in Entries : Candidate(e)' <=> Candidate(e)
  BY <1>3, <1>7, <1>8, <1>9 DEF Candidate
<1>11. Ahead(walk.left)'
  <2>1. walk.left \subseteq Entries
    BY <1>4 DEF Ahead, Below
  <2> QED BY <1>3, <1>4, <1>7, <1>8, <1>9, <2>1 DEF Ahead
<1>12. Counted(walk, tally)'
  <2> DEFINE got == Range(tally.found) \cup tally.skipped \cup {p}
  <2>1. tally.more \/ tally.failed \/ \A e \in Entries \ walk.left : Candidate(e) => {e, Real(e)} \cap got # {}
    BY <1>4 DEF Counted, p
  <2>2. p \in got
    OBVIOUS
  <2>3. tally.more \/ tally.failed \/ \A e \in Entries \ walk.left : Candidate(e)' => {e, Real(e)'} \cap got # {}
    <3> HIDE DEF got
    <3> QED BY <1>6, <1>10, <2>1, <2>2
  <2>4. Len(tally.found) < MaxFound /\ tally.bytes + walk.file.size <= ByteCap
    BY <1>3, <1>4 DEF Counted
  <2> QED BY <1>3, <1>7, <2>3, <2>4 DEF Counted, p
<1>13. Shape'
  BY <1>6, <1>7 DEF OmitInv, Shape
<1>14. Tallies(tally)' /\ LayersFit(walk.left, walk.layers)' /\ Taken(walk.left, tally.found, tally.more)'
  BY <1>3, <1>4, <1>7 DEF Tallies, LayersFit, Asks, Taken, Lists
<1>15. Told(walk, tally)'
  BY <1>3, <1>4, <1>11, <1>12, <1>14 DEF Told, Lists
<1> QED BY <1>1, <1>3, <1>13, <1>15 DEF OmitInv

LEMMA RestOmits ==
  ASSUME OmitInv, WalkEnded \/ UNCHANGED walkVars
  PROVE  OmitInv'
<1>1. UNCHANGED <<kind, rules, call, walk, tally, stock, changes>>
  BY DEF WalkEnded, walkVars
<1>2. WalkInv'
  BY <1>1, WalkStep DEF OmitInv, WalkInv
<1>3. Told(walk', tally')
  BY <1>1 DEF OmitInv
<1> QED BY <1>1, <1>2, <1>3, OmitStep DEF Rests

LEMMA OmitStarts == WalkInit => OmitInv
<1> SUFFICES ASSUME WalkInit PROVE OmitInv
  OBVIOUS
<1>1. WalkInv
  BY WalkInitHolds
<1>2. WalkRoot \in Entries
  BY <1>1, TreeIs DEF WalkInv, WalkRoot
<1>3. Shape
  <2>1. kind \in [r : {"dir"}, d : {"dir", "hiddendir", "bulk", "lockeddir"}, x : FirstKinds, y : {"plain"}, f : LastKinds]
    BY DEF WalkInit
  <2>2. kind["r"] = "dir" /\ kind["d"] \in DirKinds /\ kind["x"] \in LeafKinds /\ kind["y"] = "plain" /\ kind["f"] \in LeafKinds
    BY <2>1, WalkParameters DEF DirKinds
  <2>3. LeafKinds \cap DirKinds = {} /\ "plain" \notin DirKinds /\ "dir" \in DirKinds
    BY DEF LeafKinds, DirKinds
  <2>4. \A e : Dir(e) <=> kind[e] \in DirKinds
    BY DEF Dir, DirKinds
  <2> QED BY <2>2, <2>3, <2>4, TreeIs DEF Shape
<1>4. call.depth \in Nat
  BY DEF WalkInit
<1> DEFINE l == IF rules[IF WalkRoot = "d" THEN "d" ELSE "r"] = <<>> THEN <<>> ELSE <<WalkRoot>>
<1>5. /\ walk = [left |-> Below(WalkRoot), layers |-> l, inodes |-> "unknown", file |-> NotIndexing, pc |-> "new"]
      /\ tally = NothingYet
  BY DEF WalkInit
<1>6. /\ walk.left = Below(WalkRoot) /\ walk.layers = l /\ walk.file = NotIndexing /\ walk.pc = "new"
      /\ tally.found = <<>> /\ tally.more = FALSE
  BY <1>5 DEF NothingYet
<1>7. Tallies(tally)
  BY <1>5, WalkParameters DEF Tallies, NothingYet
<1>8. Ahead(walk.left)
  <2>1. walk.left \subseteq Entries
    BY <1>6 DEF Below
  <2> QED BY <1>2, <1>6, <2>1, BelowChain DEF Ahead, Upper
<1>9. LayersFit(walk.left, walk.layers)
  <2>1. CASE WalkRoot = "r"
    <3>1. l = (IF rules["r"] = <<>> THEN <<>> ELSE <<"r">>) /\ "d" \in walk.left
      BY <1>6, <2>1, TreeIs
    <3> HIDE DEF l
    <3> QED BY <1>6, <2>1, <3>1, RangeIs DEF LayersFit
  <2>2. CASE WalkRoot = "d"
    <3>1. l = (IF rules["d"] = <<>> THEN <<>> ELSE <<"d">>)
      BY <2>2
    <3> HIDE DEF l
    <3> QED BY <1>6, <2>2, <3>1, RangeIs DEF LayersFit
  <2> QED BY <2>1, <2>2 DEF LayersFit
<1> HIDE DEF l
<1>10. \A p \in Entries \ walk.left : ~Candidate(p)
  BY <1>6 DEF Candidate
<1>11. Taken(walk.left, tally.found, tally.more)
  <2>1. Range(<<>>) = {} /\ Distinct(<<>>) /\ Len(<<>>) < MaxFound
    BY RangeIs, WalkParameters DEF Distinct
  <2> QED BY <1>6, <1>10, <2>1 DEF Taken
<1>12. Counted(walk, tally)
  BY <1>6, <1>10 DEF Counted
<1>13. Told(walk, tally)
  BY <1>5, <1>6, <1>7, <1>8, <1>9, <1>11, <1>12 DEF Told
<1> QED BY <1>1, <1>3, <1>4, <1>13 DEF OmitInv

LEMMA OmitNext == OmitInv /\ [WalkNext]_walkVars => OmitInv'
<1> SUFFICES ASSUME OmitInv, [WalkNext]_walkVars PROVE OmitInv'
  OBVIOUS
<1> QED BY StatOmits, BeginOmits, VisitOmits, BudgetOmits, FinishOmits, CheckFileOmits, ReadEntryOmits, SwappedOmits,
           RestOmits DEF WalkNext

(* The invariant of what the walks find, for every kind that the entries   *)
(* may have, every rule, every root and every cap.                         *)
THEOREM OmitInductive == WalkSpec => []OmitInv
<1> QED BY OmitStarts, OmitNext, PTL DEF WalkSpec

(* OmissionIsTold in every state (toolLs, toolGlob, rgGoBudget, the scans  *)
(* of resolve and related, toolStat and toolIndex): a walk that is over    *)
(* has found what the tree and the rules owe the caller, as far as it can  *)
(* be read, each entry once, or says that there is more; an index run has  *)
(* stored or counted every file, or counted a directory above it that it   *)
(* could not read, save below directories that are bulky or too deep.      *)
THEOREM OmissionAlwaysTold == WalkSpec => []OmissionIsTold
<1>1. OmitInv => OmissionIsTold
  BY DEF OmitInv, Told, Answered, OmissionIsTold
<1> QED BY <1>1, OmitInductive, PTL
-----------------------------------------------------------------------------
(* One search by rg.  A buffer that has not overflowed holds every cell    *)
(* that rg has written.                                                    *)
CaptureParameters == BufCells \in Nat /\ FetchLimit \in Nat /\ Limit \in Nat

(* rg has ended, and nothing is said to be missing.                        *)
SaysWhole == capture # Running /\ ended.by = "rg" /\ ~ended.broken /\ ended.truncated = FALSE

CaptureInv ==
  /\ output \in Seq(Lines) /\ cut \in BOOLEAN
  /\ RgRuns => sent \in Nat /\ sent <= 2 * Len(output) /\ (~cut => buf = [c \in 1 .. sent |-> c])
  /\ SaysWhole => capture = output

LEMMA KeptAll ==
  ASSUME NEW m \in Nat, NEW n \in Nat, buf = [c \in 1 .. m |-> c], Len(buf) + n <= BufCells,
         NEW p, p = [c \in 1 .. n |-> m + c]
  PROVE  Kept(p) = [c \in 1 .. m + n |-> c]
<1>1. Len(buf) = m /\ Len(p) = n
  OBVIOUS
<1>2. Kept(p) = buf \o p
  BY <1>1 DEF Kept
<1>3. buf \in Seq(Nat) /\ p \in Seq(Nat)
  OBVIOUS
<1>4. buf \o p = [c \in 1 .. m + n |-> IF c <= m THEN buf[c] ELSE p[c - m]]
  BY <1>1, <1>3
<1>5. \A c \in 1 .. m + n : (IF c <= m THEN buf[c] ELSE p[c - m]) = c
  OBVIOUS
<1> HIDE DEF Kept
<1> QED BY <1>2, <1>4, <1>5

(* The lines of such a buffer are those that rg wrote.                     *)
LEMMA LinesAre ==
  ASSUME output \in Seq(Lines), NEW n, n = Len(output), buf = [c \in 1 .. 2 * n |-> c], cut = FALSE, NEW rest
  PROVE  [i \in DOMAIN Split |-> Parsed(Split[i], rest)] = output
<1>1. n \in Nat /\ output = [i \in 1 .. n |-> output[i]] /\ buf \in Seq(Nat) /\ Len(buf) = 2 * n
  OBVIOUS
<1>2. Split = BufferLines
  BY DEF Split
<1>3. CASE n = 0
  <2>1. buf = <<>> /\ output = <<>>
    BY <1>1, <1>3
  <2>2. Split = <<>>
    BY <1>2, <2>1 DEF BufferLines
  <2> QED BY <2>1, <2>2
<1>4. CASE n # 0
  <2>1. 1 \in 1 .. 2 * n /\ 2 * n \in 1 .. 2 * n /\ buf # <<>>
    BY <1>1, <1>4
  <2>2. Head(buf) = 1 /\ Last(buf) = 2 * n
    BY <1>1, <2>1 DEF Last
  <2>3. LineNo(1) = 1 /\ LineNo(2 * n) = n
    BY <1>1 DEF LineNo
  <2>4. Split = [i \in 1 .. n |-> i]
    <3>1. Split = [i \in 1 .. n - 1 + 1 |-> 1 + i - 1]
      BY <1>2, <2>1, <2>2, <2>3 DEF BufferLines
    <3>2. n - 1 + 1 = n /\ \A i \in 1 .. n : 1 + i - 1 = i
      BY <1>1
    <3> QED BY <3>1, <3>2
  <2>5. \A i \in 1 .. n : Whole(i)
    <3> TAKE i \in 1 .. n
    <3>1. 2 * i - 1 \in DOMAIN buf /\ 2 * i \in DOMAIN buf /\ buf[2 * i - 1] = 2 * i - 1 /\ buf[2 * i] = 2 * i
      BY <1>1
    <3> QED BY <3>1 DEF Whole, ToSet
  <2>6. \A i \in 1 .. n : Parsed(i, rest) = output[i]
    BY <2>5 DEF Parsed
  <2>7. DOMAIN Split = 1 .. n /\ \A i \in 1 .. n : Split[i] = i
    BY <2>4
  <2> HIDE DEF Parsed
  <2> QED BY <1>1, <2>6, <2>7
<1> QED BY <1>3, <1>4

LEMMA LeastIn ==
  ASSUME NEW S \in SUBSET Nat, S # {}
  PROVE  Min(S) \in S
<1>1. PICK n \in S : \A m \in S : ~(<<m, n>> \in OpToRel(<, Nat))
  BY NatLessThanWellFounded, WFMin
<1>2. \A m \in S : n <= m
  <2> TAKE m \in S
  <2>1. ~(m < n) /\ m \in Nat /\ n \in Nat
    BY <1>1 DEF OpToRel
  <2> QED BY <2>1
<1> QED BY <1>2 DEF Min

(* Below the limit nothing has been left off.                              *)
LEMMA UpToAll ==
  ASSUME NEW s \in Seq(Lines), NEW limit, ~(Hits(UpTo(s, limit)) >= limit)
  PROVE  UpTo(s, limit) = s
<1> DEFINE over == {i \in DOMAIN s : IsMatch(s[i]) /\ HitsBefore(s, i) >= limit}
<1> SUFFICES ASSUME over # {} PROVE FALSE
  BY DEF UpTo
<1>1. UpTo(s, limit) = SubSeq(s, 1, Min(over) - 1)
  BY DEF UpTo
<1>2. Min(over) \in over
  <2>1. over \in SUBSET Nat
    OBVIOUS
  <2> HIDE DEF over
  <2> QED BY <2>1, LeastIn
<1>3. HitsBefore(s, Min(over)) >= limit
  BY <1>2
<1> HIDE DEF over
<1>4. Hits(UpTo(s, limit)) >= limit
  BY <1>1, <1>3 DEF HitsBefore
<1> QED BY <1>4

LEMMA FinishKeeps ==
  ASSUME CaptureInv, RgFinishes
  PROVE  SaysWhole' => capture' = output'
<1> SUFFICES ASSUME SaysWhole' PROVE capture' = output
  BY DEF RgFinishes, Keeps
<1>1. PICK rest \in LineKinds : capture' = UpTo([i \in DOMAIN Split |-> Parsed(Split[i], rest)], FetchLimit)
  BY DEF RgFinishes, Keeps
<1>2. ended' = Ending("rg", cut \/ FALSE \/ Hits(capture') >= FetchLimit, FALSE, FALSE)
  BY DEF RgFinishes, Keeps
<1>3. ended'.truncated = (cut \/ FALSE \/ Hits(capture') >= FetchLimit)
  BY <1>2 DEF Ending
<1>4. ~cut /\ ~(Hits(capture') >= FetchLimit)
  BY <1>3 DEF SaysWhole
<1>5. buf = [c \in 1 .. 2 * Len(output) |-> c] /\ cut = FALSE /\ output \in Seq(Lines)
  BY <1>4 DEF CaptureInv, RgFinishes
<1>6. [i \in DOMAIN Split |-> Parsed(Split[i], rest)] = output
  BY <1>5, LinesAre
<1>7. capture' = UpTo(output, FetchLimit)
  BY <1>1, <1>6
<1>8. UpTo(output, FetchLimit) = output
  BY <1>4, <1>5, <1>7, UpToAll
<1> QED BY <1>7, <1>8

(* The invariant of one search by rg is inductive: until rg has ended, a   *)
(* buffer that is not cut has every cell (limitedBuffer.Write), and a      *)
(* search that says it has everything has rg's lines (rgSystemBounded).    *)
THEOREM CaptureInductive ==
  ASSUME CaptureParameters
  PROVE  /\ CaptureInit => CaptureInv
         /\ CaptureInv /\ [CaptureNext]_captureVars => CaptureInv'
<1>1. ASSUME CaptureInit PROVE CaptureInv
  <2>1. output \in Seq(Lines)
    <3>1. output \in UNION {[1 .. m -> Lines] : m \in 0 .. MaxLines}
      BY <1>1 DEF CaptureInit, BoundedSeq, SeqOf
    <3>2. PICK m \in 0 .. MaxLines : output \in [1 .. m -> Lines]
      BY <3>1
    <3>3. m \in Nat
      OBVIOUS
    <3> QED BY <3>2, <3>3
  <2>2. sent = 0 /\ buf = <<>> /\ cut = FALSE /\ capture = Running
    BY <1>1 DEF CaptureInit
  <2>4. Len(output) \in Nat /\ 0 <= 2 * Len(output)
    <3>1. Len(output) \in Nat
      BY <2>1
    <3> QED BY <3>1
  <2>3. buf = [c \in 1 .. 0 |-> c]
    BY <2>2
  <2> QED BY <2>1, <2>2, <2>3, <2>4 DEF CaptureInv, SaysWhole
<1>2. ASSUME CaptureInv, [CaptureNext]_captureVars PROVE CaptureInv'
  <2>0. output \in Seq(Lines) /\ cut \in BOOLEAN /\ Len(output) \in Nat
    BY <1>2 DEF CaptureInv
  <2>1. CASE RgWrites
    <3>1. PICK n \in 1 .. 2 * Len(output) - sent :
            sent' = sent + n /\ buf' = Kept([i \in 1 .. n |-> sent + i]) /\ cut' = (cut \/ Len(buf) + n > BufCells)
      BY <2>1 DEF RgWrites
    <3>2. output' = output /\ capture' = capture /\ ended' = ended /\ RgRuns /\ capture = Running
      BY <2>1 DEF RgWrites, RgRuns
    <3>3. sent \in Nat /\ sent <= 2 * Len(output) /\ (~cut => buf = [c \in 1 .. sent |-> c])
      BY <1>2, <3>2 DEF CaptureInv
    <3>4. n \in Nat /\ sent' \in Nat /\ sent' <= 2 * Len(output)
      BY <2>0, <3>1, <3>3
    <3>5. ASSUME ~cut' PROVE buf' = [c \in 1 .. sent' |-> c]
      <4>1. buf = [c \in 1 .. sent |-> c] /\ ~(Len(buf) + n > BufCells)
        BY <3>1, <3>3, <3>5
      <4>2. Len(buf) = sent
        BY <3>3, <4>1
      <4>3. Len(buf) + n <= BufCells
        BY <3>3, <3>4, <4>1, <4>2 DEF CaptureParameters
      <4>4. PICK p : p = [c \in 1 .. n |-> sent + c]
        OBVIOUS
      <4>5. Kept(p) = [c \in 1 .. sent + n |-> c]
        BY <3>3, <3>4, <4>1, <4>3, <4>4, KeptAll
      <4> QED BY <3>1, <4>4, <4>5
    <3>6. cut' \in BOOLEAN
      BY <3>1
    <3> QED BY <2>0, <3>2, <3>4, <3>5, <3>6 DEF CaptureInv, SaysWhole
  <2>2. CASE RgFinishes
    <3>1. ended'.by = "rg" /\ output' = output /\ cut' = cut /\ ended'.broken = FALSE
      BY <2>2 DEF RgFinishes, Keeps, Ending
    <3>2. SaysWhole' => capture' = output'
      BY <1>2, <2>2, FinishKeeps
    <3>3. RgRuns' => sent' \in Nat /\ sent' <= 2 * Len(output') /\ (~cut' => buf' = [c \in 1 .. sent' |-> c])
      BY <1>2, <2>2 DEF RgFinishes, Keeps, CaptureInv
    <3> QED BY <2>0, <3>1, <3>2, <3>3 DEF CaptureInv
  <2>3. CASE RgKilled
    <3>1. ended'.truncated = TRUE /\ output' = output /\ cut' = cut
      BY <2>3 DEF RgKilled, Keeps, Ending
    <3>2. RgRuns' => sent' \in Nat /\ sent' <= 2 * Len(output') /\ (~cut' => buf' = [c \in 1 .. sent' |-> c])
      BY <1>2, <2>3 DEF RgKilled, Keeps, CaptureInv
    <3> QED BY <2>0, <3>1, <3>2 DEF CaptureInv, SaysWhole
  <2>4. CASE RgBreaks
    <3>1. CASE buf # <<>> /\ Keeps(FALSE, TRUE)
      <4>1. ended'.broken = TRUE /\ output' = output /\ cut' = cut
        BY <3>1 DEF Keeps, Ending
      <4>2. RgRuns' => sent' \in Nat /\ sent' <= 2 * Len(output') /\ (~cut' => buf' = [c \in 1 .. sent' |-> c])
        BY <1>2, <2>4, <3>1 DEF RgBreaks, Keeps, CaptureInv
      <4> QED BY <2>0, <4>1, <4>2 DEF CaptureInv, SaysWhole
    <3>2. CASE output' = <<>> /\ ended' = Ending("go", FALSE, FALSE, FALSE) /\ cut' = cut
      <4>1. ended'.by = "go" /\ ended' # Searching
        BY <3>2 DEF Ending, Searching
      <4>2. output' \in Seq(Lines)
        BY <3>2
      <4> QED BY <2>0, <3>2, <4>1, <4>2 DEF CaptureInv, SaysWhole, RgRuns
    <3> QED BY <2>4, <3>1, <3>2 DEF RgBreaks
  <2>5. CASE SearchFails
    <3>1. ended'.by = "error" /\ ended' # Searching /\ output' = <<>> /\ cut' = cut
      BY <2>5 DEF SearchFails, Ending, Searching
    <3> QED BY <2>0, <3>1 DEF CaptureInv, SaysWhole, RgRuns
  <2>6. CASE GoSearch
    <3>1. output' = output /\ cut' = cut /\ sent' = sent /\ buf' = buf
      BY <2>6 DEF GoSearch
    <3>2. \E truncated, budget : ended' = Ending("go", truncated, budget, FALSE)
      BY <2>6 DEF GoSearch
    <3>3. ended'.by = "go" /\ ended' # Searching
      BY <3>2 DEF Ending, Searching
    <3> QED BY <2>0, <3>1, <3>3 DEF CaptureInv, SaysWhole, RgRuns
  <2>7. CASE UNCHANGED captureVars
    BY <1>2, <2>7 DEF captureVars, CaptureInv, SaysWhole, RgRuns
  <2> QED BY <1>2, <2>1, <2>2, <2>3, <2>4, <2>5, <2>6, <2>7 DEF CaptureNext, CaptureEnded
<1> QED BY <1>1, <1>2

(* What an answer of a search by rg promises, page by page: one that does  *)
(* not say that there is more comes from all that rg has found, and the    *)
(* pages up to it have room for all matches of that.                       *)
AnswersTell ==
  \A offset \in Nat :
    capture # Running /\ ended.by = "rg" /\ ~ended.broken /\ ~Answer(Groups, offset, FALSE).told =>
      capture = output /\ Total = AllMatches /\ Total <= offset + Limit

(* The guarantee of toolRg's pages for one search by rg, whatever it       *)
(* writes, however its buffer is cut and its time ends: what is missing    *)
(* is said to be missing.                                                  *)
THEOREM AnswersAlwaysTell ==
  ASSUME CaptureParameters
  PROVE  CaptureSpec => []AnswersTell
<1>1. CaptureInit => CaptureInv
  BY CaptureInductive
<1>2. CaptureInv /\ [CaptureNext]_captureVars => CaptureInv'
  BY CaptureInductive
<1>3. CaptureInv => AnswersTell
  <2> SUFFICES ASSUME CaptureInv, NEW offset \in Nat, capture # Running, ended.by = "rg", ~ended.broken,
                      ~Answer(Groups, offset, FALSE).told
               PROVE  capture = output /\ Total = AllMatches /\ Total <= offset + Limit
    BY DEF AnswersTell
  <2>1. \A lines, told : ~Shown(lines, told).told => ~told
    BY DEF Shown, Checked
  <2>2. ~Truncated /\ (offset > 0 => ~(offset + Limit < Total)) /\ (~(offset > 0) => Total <= Limit)
    BY <2>1 DEF Answer
  <2>3. capture = output
    BY <2>2 DEF Truncated, CaptureInv, SaysWhole
  <2>4. Total \in Nat
    BY <2>3 DEF Total, Hits, CaptureInv
  <2>5. Total <= offset + Limit
    BY <2>2, <2>4 DEF CaptureParameters
  <2> QED BY <2>3, <2>5 DEF Total, AllMatches
<1> QED BY <1>1, <1>2, <1>3, PTL DEF CaptureSpec
=============================================================================
