------------------------------ MODULE ToolProofs ------------------------------
(***************************************************************************)
(* Five tools.  ShellFeed: StdinIsTracked for every set of descriptors     *)
(* and every number of redirections.  GitTool: GitStaysInside for every    *)
(* tree of directories, every set of workspaces and every change of the    *)
(* repositories between the two runs.  Dial: DialsAreChecked for every set *)
(* of IPv4 addresses, however they are embedded in others, every set of    *)
(* names and every number of redirects.  Search: SearchIsFair for every    *)
(* finite set of documents, every limit and every number of writes.        *)
(* ShellVars: EveryWordIsScreened for every script and every run of it.    *)
(***************************************************************************)
EXTENDS ShellVars, ShellFeed, GitTool, Dial, Search, FiniteSetTheorems, SequenceTheorems, WellFoundedInduction, TLAPS

Feeds == [piped : BOOLEAN, file : BOOLEAN, bodies : SUBSET Nat, here : Nat]

Reals == [kind : {"doc", "here", "pipe", "other"}, id : Nat, byName : BOOLEAN]

(* What the property says of descriptor 0, of an origin and a descriptor.  *)
Tracked(o, real) ==
  \/ real.byName
  \/ o.piped /\ ~o.file
  \/ real = Other
  \/ real.kind = "doc" /\ real.id \in o.bodies
  \/ real.kind = "here" /\ real.id = o.here

FeedTypes ==
  /\ DOMAIN origins \subseteq Fds /\ 0 \in DOMAIN origins
  /\ origins = [n \in DOMAIN origins |-> origins[n]]
  /\ table \in [Fds -> Reals]
  /\ vetted \in BOOLEAN /\ redirs \in Nat

(* The collector is right about every descriptor that it has seen, and one *)
(* it has not seen is, outside functions, none that delivers a text unless *)
(* it was opened by name.                                                  *)
FeedInv ==
  /\ FeedTypes
  /\ \A n \in DOMAIN origins : Tracked(origins[n], table[n])
  /\ vetted = TRUE => \A n \in Fds \ DOMAIN origins : table[n] = Other \/ table[n].byName

LEMMA Invents == FeedInv => StdinIsTracked
  BY DEF FeedInv, FeedTypes, StdinIsTracked, Tracked

LEMMA FeedInitHolds == 0 \in Fds /\ FeedInit => FeedInv
<1> SUFFICES ASSUME 0 \in Fds, FeedInit PROVE FeedInv
  OBVIOUS
<1>1. PICK piped \in BOOLEAN :
        /\ origins = [n \in {0} |-> IF piped THEN Piped ELSE NoFeed]
        /\ table = [n \in Fds |-> IF n = 0 /\ piped THEN Pipe ELSE Other]
  BY DEF FeedInit
<1>2. DOMAIN origins = {0} /\ origins = [n \in {0} |-> IF piped THEN Piped ELSE NoFeed]
  BY <1>1
<1>3. Tracked(origins[0], table[0])
  BY <1>1, <1>2 DEF Tracked, Piped, NoFeed
<1>4. table \in [Fds -> Reals]
  BY <1>1 DEF Reals, Pipe, Other, Stream
<1> QED
  BY <1>1, <1>2, <1>3, <1>4 DEF FeedInit, FeedInv, FeedTypes

(* One descriptor is rebound to an origin that is right about it.          *)
LEMMA ReboundKeeps ==
  ASSUME FeedInv, NEW n \in Fds, NEW o, NEW real \in Reals, Rebound(n, o, real),
         Tracked(o, real), UNCHANGED vetted, redirs' \in Nat
  PROVE  FeedInv'
<1>1. DOMAIN origins' = {n} \cup DOMAIN origins
  BY DEF Rebound, Bound
<1>2. origins' = [m \in {n} \cup DOMAIN origins |-> IF m = n THEN o ELSE origins[m]]
  BY DEF Rebound, Bound
<1>3. table' \in [Fds -> Reals] /\ table'[n] = real
      /\ \A m \in Fds \ {n} : table'[m] = table[m]
  BY DEF Rebound, FeedInv, FeedTypes
<1>4. FeedTypes'
  BY <1>1, <1>2, <1>3 DEF FeedInv, FeedTypes
<1>5. \A m \in {n} \cup DOMAIN origins : Tracked(origins'[m], table'[m])
  BY <1>2, <1>3 DEF FeedInv, FeedTypes
<1> QED
  BY <1>1, <1>3, <1>4, <1>5 DEF FeedInv

LEMMA CopiedTracked ==
  ASSUME FeedInv, NEW m \in Fds
  PROVE  Tracked(Copied(m), table[m])
  BY DEF FeedInv, FeedTypes, Copied, Seen, Tracked, FileFed, Piped, NoFeed

LEMMA MoveKeeps ==
  ASSUME FeedInv, NEW n \in Fds, NEW m \in Fds, Move(n, m), UNCHANGED vetted, redirs' \in Nat
  PROVE  FeedInv'
<1> DEFINE D == {n, m} \cup DOMAIN origins
<1>1. origins' = [x \in D |-> IF x = n THEN Copied(m) ELSE IF x = m THEN FileFed ELSE origins[x]]
  BY DEF Move, Bound
<1>2. DOMAIN origins' = D
  BY <1>1
<1>3. /\ table' \in [Fds -> Reals] /\ table'[n] = table[m] /\ table'[m] = Other
      /\ \A x \in Fds \ {n, m} : table'[x] = table[x]
  BY DEF Move, FeedInv, FeedTypes, Reals, Other, Stream
<1>4. FeedTypes'
  BY <1>1, <1>2, <1>3 DEF FeedInv, FeedTypes
<1>5. \A x \in D : Tracked(origins'[x], table'[x])
  <2> TAKE x \in D
  <2>1. CASE x = n
    BY <2>1, <1>1, <1>3, CopiedTracked
  <2>2. CASE x = m /\ x # n
    BY <2>2, <1>1, <1>3 DEF Tracked
  <2>3. CASE x \notin {n, m}
    BY <2>3, <1>1, <1>3 DEF FeedInv, FeedTypes
  <2> QED BY <2>1, <2>2, <2>3
<1>6. \A x \in Fds \ D : table'[x] = table[x] /\ x \notin DOMAIN origins
  BY <1>3
<1> QED
  BY <1>2, <1>4, <1>5, <1>6 DEF FeedInv

LEMMA RedirectKeeps == FeedInv /\ Redirect => FeedInv'
<1> SUFFICES ASSUME FeedInv, Redirect PROVE FeedInv'
  OBVIOUS
<1>1. redirs' \in Nat /\ UNCHANGED vetted
  BY DEF Redirect, FeedInv, FeedTypes
<1>2. PICK n \in Fds :
        \/ HereDoc(n) \/ HereString(n) \/ FromFile(n) \/ ToFile(n) \/ Close(n) \/ DupUnknown(n)
        \/ \E m \in Fds : Dup(n, m) \/ Move(n, m)
  BY DEF Redirect
<1>3. /\ Doc(redirs') \in Reals /\ Here(redirs') \in Reals /\ Other \in Reals
      /\ \A m \in Fds : table[m] \in Reals
  BY <1>1 DEF Reals, Doc, Here, Other, Stream, FeedInv, FeedTypes
<1>4. CASE HereDoc(n)
  <2>1. Tracked([NoFeed EXCEPT !.bodies = Known(n).bodies \cup {redirs'}], Doc(redirs'))
    BY DEF Tracked, NoFeed, Doc, Stream
  <2> QED BY <1>1, <1>3, <1>4, <2>1, ReboundKeeps DEF HereDoc
<1>5. CASE HereString(n)
  <2>1. Tracked([NoFeed EXCEPT !.here = redirs'], Here(redirs'))
    BY DEF Tracked, NoFeed, Here, Stream
  <2> QED BY <1>1, <1>3, <1>5, <2>1, ReboundKeeps DEF HereString
<1>6. Tracked(FileFed, Other) /\ \A real : Tracked(Piped, real)
  BY DEF Tracked, Piped, NoFeed
<1>12. \A real \in Reopened \cup {ByName(Pipe)} :
         real \in Reals /\ (real = Other \/ real.byName) /\ Tracked(FileFed, real)
  <2>1. ASSUME NEW real \in Reals
        PROVE  ByName(real) \in Reals /\ ByName(real).byName /\ Tracked(FileFed, ByName(real))
    <3>1. ByName(real) \in Reals /\ ByName(real).byName = TRUE
      BY DEF ByName, Reals
    <3> QED BY <3>1 DEF Tracked
  <2>2. Pipe \in Reals
    BY DEF Pipe, Stream, Reals
  <2> QED BY <1>3, <1>6, <2>1, <2>2 DEF Reopened
<1>7. CASE FromFile(n) \/ Close(n) \/ (n = 0 /\ ToFile(n))
  <2>1. \E real \in Reopened \cup {ByName(Pipe)} : Rebound(n, FileFed, real)
    BY <1>7 DEF FromFile, Close, ToFile, Reopened
  <2> QED BY <1>1, <1>12, <2>1, ReboundKeeps
<1>8. CASE n # 0 /\ ToFile(n)
  <2>1. /\ UNCHANGED origins /\ table' \in [Fds -> Reals]
        /\ Tracked(FileFed, table'[n]) /\ (table'[n] = Other \/ table'[n].byName)
        /\ \A m \in Fds \ {n} : table'[m] = table[m]
    BY <1>3, <1>8, <1>12 DEF ToFile, FeedInv, FeedTypes
  <2>2. \A m \in DOMAIN origins : Tracked(origins[m], table'[m])
    BY <2>1 DEF FeedInv, FeedTypes, Tracked
  <2> QED BY <1>1, <2>1, <2>2 DEF FeedInv, FeedTypes
<1>9. CASE DupUnknown(n)
  BY <1>1, <1>3, <1>6, <1>9, ReboundKeeps DEF DupUnknown
<1>10. ASSUME NEW m \in Fds, Dup(n, m) PROVE FeedInv'
  BY <1>1, <1>3, <1>10, CopiedTracked, ReboundKeeps DEF Dup
<1>11. ASSUME NEW m \in Fds, Move(n, m) PROVE FeedInv'
  BY <1>1, <1>11, MoveKeeps
<1> QED
  BY <1>2, <1>4, <1>5, <1>7, <1>8, <1>9, <1>10, <1>11

LEMMA FeedStep == 0 \in Fds /\ FeedInv /\ [FeedNext]_feedVars => FeedInv'
<1> SUFFICES ASSUME 0 \in Fds, FeedInv, [FeedNext]_feedVars PROVE FeedInv'
  OBVIOUS
<1>1. CASE PipelineRight
  <2>1. Tracked(Piped, Pipe) /\ Pipe \in Reals
    BY DEF Tracked, Piped, NoFeed, Pipe, Stream, Reals
  <2> QED
    BY <1>1, <2>1, ReboundKeeps DEF PipelineRight, FeedInv, FeedTypes
<1>2. CASE FunctionBody
  <2>1. origins' = [n \in {0} |-> Piped] /\ DOMAIN origins' = {0}
    BY <1>2 DEF FunctionBody
  <2>4. Pipe \in Reals /\ Other \in Reals
    BY DEF Pipe, Other, Stream, Reals
  <2>2. table' \in [Fds -> Reals] /\ vetted' = FALSE
    BY <1>2, <2>4 DEF FunctionBody
  <2>3. Tracked(Piped, table'[0])
    BY DEF Tracked, Piped, NoFeed
  <2> QED
    BY <1>2, <2>1, <2>2, <2>3 DEF FunctionBody, FeedInv, FeedTypes
<1>3. CASE UNCHANGED feedVars
  BY <1>3 DEF feedVars, FeedInv, FeedTypes, Tracked
<1> QED
  BY <1>1, <1>2, <1>3, RedirectKeeps DEF FeedNext

(* What the guards are told of the standard input of a command is right,   *)
(* however many redirections, copies of descriptors, pipelines and         *)
(* functions are on the way to it, unless it was opened through the path   *)
(* of a descriptor or a process substitution.                              *)
THEOREM StdinAlwaysTracked ==
  ASSUME 0 \in Fds
  PROVE  FeedSpec => []StdinIsTracked
<1>1. FeedInit => FeedInv
  BY FeedInitHolds
<1>2. FeedInv /\ [FeedNext]_feedVars => FeedInv'
  BY FeedStep
<1> QED BY <1>1, <1>2, Invents, PTL DEF FeedSpec

-----------------------------------------------------------------------------

Paths == Seq(STRING)

Parameters ==
  /\ Dirs \subseteq Paths /\ Workdirs \subseteq Dirs
  /\ MaxOut \in Nat /\ ShowLimit \in Nat /\ KeepLimit \in Nat /\ ShowLimit < KeepLimit

-----------------------------------------------------------------------------
(* Prefixes, element by element. *)
LEMMA PrefixPoints ==
  ASSUME NEW s \in Paths, NEW t \in Paths
  PROVE  IsPrefix(s, t) <=> Len(s) <= Len(t) /\ \A i \in 1 .. Len(s) : s[i] = t[i]
  BY DEF IsPrefix, Paths

(* Two prefixes of one path are comparable.                                *)
LEMMA Comparable ==
  ASSUME NEW s \in Paths, NEW t \in Paths, NEW u \in Paths,
         IsPrefix(s, u), IsPrefix(t, u), Len(s) <= Len(t)
  PROVE  IsPrefix(s, t)
  BY PrefixPoints DEF Paths

LEMMA Transitive ==
  ASSUME NEW s \in Paths, NEW t \in Paths, NEW u \in Paths, IsPrefix(s, t), IsPrefix(t, u)
  PROVE  IsPrefix(s, u)
  BY PrefixPoints DEF Paths

LEMMA ParentPrefix ==
  ASSUME NEW w \in Paths, w # <<>>
  PROVE  Parent(w) \in Paths /\ Len(Parent(w)) = Len(w) - 1 /\ IsPrefix(Parent(w), w)
<1>1. Len(w) \in Nat /\ Len(w) >= 1
  BY DEF Paths
<1>2. /\ Parent(w) \in Paths /\ Len(Parent(w)) = Len(w) - 1
      /\ \A i \in 1 .. Len(w) - 1 : Parent(w)[i] = w[i]
  <2>1. Parent(w) = SubSeq(w, 1, Len(w) - 1)
    BY DEF Parent, Front
  <2>2. \A i \in 1 .. Len(w) - 1 : w[i] \in STRING
    BY <1>1 DEF Paths
  <2>3. /\ SubSeq(w, 1, Len(w) - 1) \in Seq(STRING)
        /\ Len(SubSeq(w, 1, Len(w) - 1)) = IF 1 <= Len(w) - 1 THEN (Len(w) - 1) - 1 + 1 ELSE 0
        /\ \A i \in 1 .. (Len(w) - 1) - 1 + 1 : SubSeq(w, 1, Len(w) - 1)[i] = w[1 + i - 1]
    BY <1>1, <2>2, SubSeqProperties
  <2>4. ASSUME NEW i \in 1 .. Len(w) - 1 PROVE SubSeq(w, 1, Len(w) - 1)[i] = w[i]
    <3>1. i \in 1 .. (Len(w) - 1) - 1 + 1 /\ 1 + i - 1 = i
      BY <1>1
    <3> QED BY <2>3, <3>1
  <2>5. Len(SubSeq(w, 1, Len(w) - 1)) = Len(w) - 1
    <3> DEFINE k == Len(w) - 1
    <3>1. k \in Nat /\ Len(SubSeq(w, 1, k)) = IF 1 <= k THEN k - 1 + 1 ELSE 0
      BY <1>1, <2>3
    <3> HIDE DEF k
    <3>2. CASE 1 <= k
      BY <3>1, <3>2 DEF k
    <3>3. CASE k = 0
      BY <3>1, <3>3 DEF k
    <3> QED BY <3>1, <3>2, <3>3
  <2> QED BY <2>1, <2>3, <2>4, <2>5 DEF Paths
<1> QED BY <1>1, <1>2, PrefixPoints

-----------------------------------------------------------------------------
(* Of the directories below which another lies one is the nearest to it.   *)
LEMMA NearestExists ==
  ASSUME NEW d \in Paths, NEW up, up \subseteq {e \in Paths : IsPrefix(e, d)}, up # {}
  PROVE  \E e \in up : \A f \in up : Len(f) <= Len(e)
<1> DEFINE T == {Len(d) - Len(e) : e \in up}
<1>1. \A e \in up : Len(e) \in Nat /\ Len(d) \in Nat /\ Len(e) <= Len(d)
  BY PrefixPoints DEF Paths
<1>2. T \subseteq Nat /\ T # {}
  BY <1>1
<1> HIDE DEF T
<1>3. PICK x \in T : \A y \in T : ~ (<<y, x>> \in OpToRel(<, Nat))
  BY <1>2, WFMin, NatLessThanWellFounded
<1>4. \A y \in T : ~ (y < x)
  BY <1>2, <1>3 DEF OpToRel
<1>5. PICK e \in up : x = Len(d) - Len(e)
  BY <1>3 DEF T
<1>6. ASSUME NEW f \in up PROVE Len(f) <= Len(e)
  <2>1. Len(d) - Len(f) \in T
    BY DEF T
  <2> QED BY <1>1, <1>4, <1>5, <2>1
<1> QED BY <1>6

(* The ceilings keep git in the workspace of the directory it starts in:   *)
(* a root above it is at or above the workspace's parent, a ceiling.       *)
LEMMA FoundInside ==
  ASSUME Parameters, NEW d \in Dirs, Inside(d), repos \subseteq Dirs, Nowhere \notin Dirs,
         Found(d, Ceilings) # Nowhere
  PROVE  Inside(Found(d, Ceilings))
<1> DEFINE up == {e \in repos : Within(d, e) /\
                    ~\E c \in Ceilings : Within(c, e) /\ Within(d, c) /\ c # d}
           r == Found(d, Ceilings)
<1>1. up # {} /\ r = CHOOSE e \in up : \A f \in up : Len(f) <= Len(e)
  BY DEF Found
<1>2. up \subseteq {e \in Paths : IsPrefix(e, d)} /\ d \in Paths
  BY DEF Within, Parameters
<1>3. r \in up
  BY <1>1, <1>2, NearestExists
<1>4. PICK w \in Workdirs : IsPrefix(w, d)
  BY DEF Inside, Within
<1>5. w \in Paths /\ r \in Paths /\ IsPrefix(r, d)
  BY <1>2, <1>3 DEF Parameters
<1>6. Len(w) \in Nat /\ Len(r) \in Nat
  BY <1>5 DEF Paths
<1>7. CASE Len(w) <= Len(r)
  BY <1>4, <1>5, <1>2, <1>7, Comparable DEF Inside, Within
<1>8. CASE Len(r) < Len(w)
  <2>1. w # <<>>
    BY <1>6, <1>8
  <2>2. /\ Parent(w) \in Paths /\ Len(Parent(w)) = Len(w) - 1 /\ IsPrefix(Parent(w), w)
    BY <1>5, <2>1, ParentPrefix
  <2>3. IsPrefix(Parent(w), d) /\ Parent(w) # d
    <3>1. IsPrefix(Parent(w), d)
      BY <1>2, <1>4, <1>5, <2>2, Transitive
    <3>2. Len(w) <= Len(d)
      BY <1>2, <1>4, <1>5, PrefixPoints
    <3> QED BY <1>2, <1>6, <2>2, <3>1, <3>2 DEF Paths
  <2>4. IsPrefix(r, Parent(w))
    BY <1>2, <1>5, <1>6, <1>8, <2>2, <2>3, Comparable
  <2>5. Parent(w) \in Ceilings
    BY <2>1 DEF Ceilings
  <2> QED BY <1>3, <2>3, <2>4, <2>5 DEF Within
<1> QED BY <1>6, <1>7, <1>8

-----------------------------------------------------------------------------
(* A call gets to its runs of git only from a cwd in a workspace, and its  *)
(* answer is what the property says of it.                                 *)
Fits(answer) ==
  answer.told \in {"all", "truncated"} =>
    /\ Inside(answer.repo)
    /\ answer.told = "all" => answer.from = 1 /\ answer.lines = answer.all
    /\ answer.secret \notin answer.from .. answer.from + answer.lines - 1

GitInv ==
  /\ repos \subseteq Dirs /\ gitcall.cwd \in Dirs
  /\ step \in {"resolved", "checked"} => Inside(gitcall.cwd)
  /\ Fits(shows)

LEMMA GitInitHolds == GitInit => GitInv
  BY DEF GitInit, GitInv, Fits, NoAnswer

LEMMA FailsFit == Fits([NoAnswer EXCEPT !.told = "error"]) /\ Fits([NoAnswer EXCEPT !.told = "withheld"])
  BY DEF Fits, NoAnswer

LEMMA AnswerFits ==
  ASSUME Parameters, Nowhere \notin Dirs, GitInv, RunGit
  PROVE  Fits(shows')
<1> DEFINE repo == Found(gitcall.cwd, Ceilings)
<1>1. CASE repo = Nowhere
  BY <1>1, FailsFit DEF RunGit, GitFails
<1>2. CASE repo # Nowhere
  <2>1. Inside(repo)
    BY <1>2, FoundInside DEF GitInv, RunGit
  <2> HIDE DEF repo
  <2>2. PICK n \in 0 .. MaxOut : \E secret \in 0 .. IF gitcall.action = "status" THEN 0 ELSE n :
               shows' = IF secret > 0 /\ Gated(n, secret) THEN [NoAnswer EXCEPT !.told = "withheld"]
                        ELSE [repo |-> repo, from |-> Kept(n) + 1, all |-> n, secret |-> secret,
                              lines |-> IF Cut(n) THEN ShowLimit ELSE n - Kept(n),
                              told |-> IF Cut(n) THEN "truncated" ELSE "all"]
    BY <1>2 DEF RunGit, repo
  <2>3. PICK secret \in 0 .. IF gitcall.action = "status" THEN 0 ELSE n :
               shows' = IF secret > 0 /\ Gated(n, secret) THEN [NoAnswer EXCEPT !.told = "withheld"]
                        ELSE [repo |-> repo, from |-> Kept(n) + 1, all |-> n, secret |-> secret,
                              lines |-> IF Cut(n) THEN ShowLimit ELSE n - Kept(n),
                              told |-> IF Cut(n) THEN "truncated" ELSE "all"]
    BY <2>2
  <2>4. n \in Nat /\ secret \in Nat /\ Kept(n) \in Nat
    BY <2>2, <2>3 DEF Parameters, Kept
  <2>5. CASE secret > 0 /\ Gated(n, secret)
    BY <2>3, <2>5, FailsFit
  <2>6. CASE ~(secret > 0 /\ Gated(n, secret))
    <3>1. secret <= Kept(n)
      BY <2>3, <2>4, <2>6 DEF Gated
    <3>2. ~Cut(n) => Kept(n) = 0
      BY <2>4 DEF Cut, Kept, Parameters
    <3>3. /\ shows'.repo = repo /\ shows'.from = Kept(n) + 1 /\ shows'.all = n
          /\ shows'.secret = secret /\ (~Cut(n) => shows'.lines = n - Kept(n))
          /\ (Cut(n) => shows'.told = "truncated")
      BY <2>3, <2>6
    <3>4. shows'.secret \notin shows'.from .. shows'.from + shows'.lines - 1
      BY <2>4, <3>1, <3>3
    <3> QED BY <2>1, <2>4, <3>2, <3>3, <3>4 DEF Fits
  <2> QED BY <2>5, <2>6
<1> QED BY <1>1, <1>2

LEMMA GitStep ==
  ASSUME Parameters, Nowhere \notin Dirs, GitInv, [GitNext]_gitVars
  PROVE  GitInv'
<1>1. CASE ArgumentsRefused \/ TopRefused \/ GitBreaks
  BY <1>1, FailsFit DEF ArgumentsRefused, TopRefused, GitBreaks, GitFails, GitInv
<1>2. CASE ArgumentsResolved
  BY <1>2 DEF ArgumentsResolved, GitInv, Inside, Fits
<1>3. CASE FindTop
  BY <1>3 DEF FindTop, GitInv, Inside, Fits
<1>4. CASE RunGit
  <2>1. step' = "done" /\ UNCHANGED <<repos, gitcall>>
    BY <1>4 DEF RunGit, GitFails
  <2> QED BY <1>4, <2>1, AnswerFits DEF GitInv
<1>5. CASE ReposChange
  BY <1>5 DEF ReposChange, GitInv, Inside, Fits
<1>6. CASE UNCHANGED gitVars
  BY <1>6 DEF gitVars, GitInv, Inside, Fits
<1> QED
  BY <1>1, <1>2, <1>3, <1>4, <1>5, <1>6 DEF GitNext, GitEnded

(* Whichever repositories come and go between the two runs of git: what is *)
(* shown is of a repository in a workspace, complete unless it says so,    *)
(* and without a line that the content check refuses.                      *)
THEOREM GitAlwaysInside ==
  ASSUME Parameters, Nowhere \notin Dirs
  PROVE  GitSpec => []GitStaysInside
<1>1. GitInv => GitStaysInside
  BY DEF GitInv, Fits, GitStaysInside
<1>2. GitInv /\ [GitNext]_gitVars => GitInv'
  BY GitStep
<1> QED BY <1>1, <1>2, GitInitHolds, PTL DEF GitSpec

-----------------------------------------------------------------------------

(* What DialsAreChecked asks of a connection.                              *)
Checked(a) ==
  \/ a.form \in Undecoded
  \/ /\ a.form \notin Classes \ {"global"}
     /\ \A b \in Reaches(a) : \A r \in Ranges : ~InRange(b, r)

Bytes == (0 .. 255) \X (0 .. 255)

(* checkIPv4 refuses every range of the list that its comment gives.       *)
LEMMA RangesBlocked ==
  ASSUME NEW b \in Bytes, ~BlockedV4(b), NEW r \in Ranges
  PROVE  ~InRange(b, r)
<1>0. b[1] \in 0 .. 255 /\ b[2] \in 0 .. 255 /\ b = <<b[1], b[2]>>
  BY DEF Bytes
<1>1. PICK x \in 0 .. 255, y \in 0 .. 255 : b = <<x, y>>
  BY <1>0
<1>2. /\ x \notin {0, 127, 10} /\ x \notin 224 .. 239 /\ ~(x >= 240)
      /\ ~(x = 169 /\ y = 254) /\ ~(x = 192 /\ y = 168) /\ ~(x = 172 /\ y \in 16 .. 31)
      /\ ~(x = 100 /\ y \in 64 .. 127) /\ ~(x = 198 /\ y \in 18 .. 19)
  BY <1>1 DEF BlockedV4
<1>4. /\ Block(4) = 4096 /\ Block(8) = 256 /\ Block(10) = 64 /\ Block(12) = 16 /\ Block(15) = 2 /\ Block(16) = 1
  BY DEF Block
<1>5. /\ InRange(b, <<0, 0, 8>>) => 256 * x + y \in 0 .. 255
      /\ InRange(b, <<127, 0, 8>>) => 256 * x + y \in 32512 .. 32767
      /\ InRange(b, <<10, 0, 8>>) => 256 * x + y \in 2560 .. 2815
      /\ InRange(b, <<169, 254, 16>>) => 256 * x + y \in 43518 .. 43518
      /\ InRange(b, <<192, 168, 16>>) => 256 * x + y \in 49320 .. 49320
      /\ InRange(b, <<224, 0, 4>>) => 256 * x + y \in 57344 .. 61439
      /\ InRange(b, <<240, 0, 4>>) => 256 * x + y \in 61440 .. 65535
      /\ InRange(b, <<172, 16, 12>>) => 256 * x + y \in 44048 .. 44063
      /\ InRange(b, <<100, 64, 10>>) => 256 * x + y \in 25664 .. 25727
      /\ InRange(b, <<198, 18, 15>>) => 256 * x + y \in 50706 .. 50707
  BY <1>1, <1>4 DEF InRange
<1> QED BY <1>2, <1>5 DEF Ranges

LEMMA AddressesTyped ==
  ASSUME NEW a \in Addresses
  PROVE  /\ a.form \in {"v4"} \cup Embedded \cup Undecoded \cup Classes
         /\ a.form \in {"v4"} \cup Embedded => a.v4 \in Bytes
         /\ a.form = "teredo" => Inverted(a.client) \in Bytes
         /\ a # NoConn
<1>1. V4 \subseteq Bytes /\ Inner \subseteq Bytes
  BY DialParameters DEF Bytes
<1>2. ASSUME NEW b \in Bytes PROVE Inverted(Inverted(b)) = b
  BY <1>2 DEF Inverted, Bytes
<1>3. CASE a \in [form : {"v4"}, v4 : V4, client : {NoV4}]
  BY <1>1, <1>3 DEF NoConn, Class, Embedded, Undecoded, Classes
<1>4. CASE a \in [form : (Embedded \ {"teredo"}) \cup Undecoded, v4 : Inner, client : {NoV4}]
  BY <1>1, <1>4 DEF NoConn, Class, Embedded, Undecoded, Classes
<1>5. CASE a \in [form : {"teredo"}, v4 : Inner, client : {Inverted(b) : b \in Inner}]
  BY <1>1, <1>2, <1>5 DEF NoConn, Class, Embedded, Undecoded, Classes
<1>6. CASE a \in {Class(c) : c \in Classes}
  BY <1>6 DEF NoConn, Class, Embedded, Undecoded, Classes
<1> QED BY <1>3, <1>4, <1>5, <1>6 DEF Addresses

(* What checkIP lets through and decodes reaches no server of a listed     *)
(* range.                                                                  *)
LEMMA AllowedIsChecked ==
  ASSUME NEW a \in Addresses, ~Blocked(a)
  PROVE  Checked(a)
<1> SUFFICES ASSUME a.form \notin Undecoded PROVE Checked(a)
  BY DEF Checked
<1>1. a.form \notin Classes \ {"global"}
  BY DEF Blocked
<1>2. ASSUME NEW b \in Reaches(a) PROVE b \in Bytes /\ ~BlockedV4(b)
  BY <1>2, AddressesTyped DEF Reaches, Blocked, Embedded, Classes
<1> QED BY <1>1, <1>2, RangesBlocked DEF Checked

(* The connection and the idle ones are addresses that were allowed when   *)
(* they were dialled.                                                      *)
Allowed == {a \in Addresses : ~Blocked(a)} \cup {NoConn}

DialInv ==
  /\ url \in [web : BOOLEAN, server : Server]
  /\ conn \in Allowed
  /\ idle \in [Names -> Allowed]

LEMMA LookupsAreAddresses ==
  ASSUME url \in [web : BOOLEAN, server : Server], NEW f \in Lookups, NEW a \in f
  PROVE  a \in Addresses
<1>1. Class("global") \in Addresses
  BY DEF Addresses, Classes
<1>2. CASE Literal
  BY <1>2, DialParameters DEF Lookups, Literal, Server
<1>3. CASE ~Literal
  BY <1>1, <1>3 DEF Lookups
<1> QED BY <1>2, <1>3

LEMMA DialStep ==
  ASSUME DialInv, [DialNext]_dialVars
  PROVE  DialInv'
<1> USE DEF DialInv
<1>1. NoConn \in Allowed
  BY DEF Allowed
<1>2. ASSUME DialFails PROVE DialInv'
  BY <1>1, <1>2 DEF DialFails
<1>3. ~Literal => url.server.name \in Names
  BY DEF Literal, Server
<1>4. ASSUME Returned PROVE idle' \in [Names -> Allowed]
  BY <1>3, <1>4 DEF Returned
<1>5. CASE Validate
  BY <1>2, <1>5 DEF Validate
<1>6. CASE Connect
  BY <1>6, LookupsAreAddresses DEF Connect, Dialable, Allowed
<1>7. CASE Reuse
  BY <1>3, <1>7 DEF Reuse, Idle
<1>8. CASE DialBreaks
  BY <1>2, <1>8 DEF DialBreaks
<1>9. CASE Redirected
  BY <1>1, <1>4, <1>9 DEF Redirected, Request
<1>10. CASE RedirectRefused
  BY <1>1, <1>4, <1>10 DEF RedirectRefused
<1>11. CASE PageRead
  BY <1>1, <1>4, <1>11 DEF PageRead
<1>12. CASE IdleExpires
  BY <1>1, <1>12 DEF IdleExpires
<1>13. CASE NextDownload
  BY <1>1, <1>13 DEF NextDownload, Request
<1>14. CASE UNCHANGED dialVars
  BY <1>14 DEF dialVars
<1> QED
  BY <1>5, <1>6, <1>7, <1>8, <1>9, <1>10, <1>11, <1>12, <1>13, <1>14 DEF DialNext

(* Whatever DNS answers and wherever redirects point, no connection, new   *)
(* or reused, goes to a server of the ranges that checkIP lists, unless it *)
(* is by an address of the NAT64 prefix that checkIP does not decode.      *)
THEOREM DialsChecked == DialSpec => []DialsAreChecked
<1>1. DialInit => DialInv
  BY DEF DialInit, DialInv, Allowed
<1>2. DialInv /\ [DialNext]_dialVars => DialInv'
  BY DialStep
<1>3. DialInv => DialsAreChecked
  <2>1. ASSUME NEW a \in Allowed \ {NoConn} PROVE Checked(a)
    BY <2>1, AllowedIsChecked DEF Allowed
  <2>2. ASSUME DialInv, NEW a \in ({conn} \cup {idle[n] : n \in Names}) \ {NoConn}
        PROVE  a \in Allowed \ {NoConn}
    BY <2>2 DEF DialInv
  <2> QED BY <2>1, <2>2 DEF DialsAreChecked, Checked
<1> QED BY <1>1, <1>2, <1>3, PTL DEF DialSpec

-----------------------------------------------------------------------------

(* A ranking: no document comes twice.                                     *)
Distinct(s) == s \in Seq(Docs) /\ \A i, j \in 1 .. Len(s) : s[i] = s[j] => i = j

LEMMA DistinctCounts ==
  ASSUME NEW s, Distinct(s)
  PROVE  /\ Range(s) \subseteq Docs /\ IsFiniteSet(Range(s)) /\ Cardinality(Range(s)) = Len(s) /\ Len(s) \in Nat
         /\ Range(s) = {s[i] : i \in 1 .. Len(s)}
<1>1. s \in Seq(Docs) /\ Len(s) \in Nat /\ DOMAIN s = 1 .. Len(s)
  BY DEF Distinct
<1>2. Range(s) = {s[i] : i \in 1 .. Len(s)}
  BY <1>1 DEF Range
<1>3. Range(s) \subseteq Docs
  BY <1>1, <1>2
<1>4. s \in [1 .. Len(s) -> Range(s)]
  BY <1>1, <1>2
<1>5. s \in Bijection(1 .. Len(s), Range(s))
  BY <1>1, <1>2, <1>4 DEF Bijection, Injection, Surjection, IsInjective, Distinct
<1>6. ExistsBijection(1 .. Len(s), Range(s))
  BY <1>5 DEF ExistsBijection
<1>7. IsFiniteSet(1 .. Len(s)) /\ Cardinality(1 .. Len(s)) = Len(s)
  BY <1>1, FS_Interval
<1> QED BY <1>1, <1>2, <1>3, <1>6, <1>7, FS_Bijection

LEMMA RankingsAre ==
  ASSUME NEW S \in SUBSET Docs, NEW r \in Rankings(S)
  PROVE  Distinct(r) /\ Range(r) = S /\ Len(r) = Cardinality(S) /\ IsFiniteSet(S)
<1>1. IsFiniteSet(S) /\ Cardinality(S) \in Nat
  BY SearchParameters, FS_Subset, FS_CardinalityType
<1> DEFINE n == Cardinality(S)
<1>2. r \in [1 .. n -> S] /\ \A i, j \in 1 .. n : i # j => r[i] # r[j]
  BY DEF Rankings, SetToSeqs
<1> HIDE DEF n
<1>3. n \in Nat
  BY <1>1 DEF n
<1>4. r \in Seq(Docs) /\ Len(r) = n
  BY <1>2, <1>3
<1>5. Distinct(r)
  BY <1>2, <1>4 DEF Distinct
<1>6. Range(r) \in SUBSET S /\ Cardinality(Range(r)) = n
  BY <1>2, <1>4, <1>5, DistinctCounts
<1>7. Range(r) = S
  BY <1>1, <1>6, FS_Subset DEF n
<1> QED BY <1>1, <1>4, <1>5, <1>7 DEF n

LEMMA CutIs ==
  ASSUME NEW s, Distinct(s), NEW n \in Nat, n <= Len(s)
  PROVE  /\ Distinct(SubSeq(s, 1, n)) /\ Len(SubSeq(s, 1, n)) = n
         /\ \A i \in 1 .. n : SubSeq(s, 1, n)[i] = s[i]
<1>1. s \in Seq(Docs)
  BY DEF Distinct
<1> DEFINE c == SubSeq(s, 1, n)
<1>2. \A i \in 1 .. n : s[i] \in Docs
  BY <1>1
<1>3. c \in Seq(Docs) /\ Len(c) = (IF 1 <= n THEN n - 1 + 1 ELSE 0) /\ \A i \in 1 .. n - 1 + 1 : c[i] = s[1 + i - 1]
  BY <1>2, SubSeqProperties
<1> HIDE DEF c
<1>4. n - 1 + 1 = n /\ (IF 1 <= n THEN n - 1 + 1 ELSE 0) = n /\ \A i \in 1 .. n : 1 + i - 1 = i
  OBVIOUS
<1>5. Len(c) = n /\ \A i \in 1 .. n : c[i] = s[i]
  BY <1>3, <1>4
<1>6. \A i \in 1 .. n : i \in 1 .. Len(s)
  BY <1>1
<1>7. Distinct(c)
  BY <1>3, <1>5, <1>6 DEF Distinct
<1> QED BY <1>5, <1>7 DEF c

LEMMA LessOf ==
  ASSUME NEW a \in Nat, NEW b \in Nat
  PROVE  Min({a, b}) = (IF a <= b THEN a ELSE b) /\ Max({a, b}) = (IF a <= b THEN b ELSE a)
<1>1. CASE a <= b
  <2>1. Min({a, b}) = a
    BY <1>1 DEF Min
  <2>2. Max({a, b}) = b
    BY <1>1 DEF Max
  <2> QED BY <1>1, <2>1, <2>2
<1>2. CASE ~(a <= b)
  <2>1. Min({a, b}) = b
    BY <1>2 DEF Min
  <2>2. Max({a, b}) = a
    BY <1>2 DEF Max
  <2> QED BY <1>2, <2>1, <2>2
<1> QED BY <1>1, <1>2

-----------------------------------------------------------------------------
(* 1 / a + 1 / b is more than x / c + y / f if each of the two is.         *)
LEMMA Times ==
  ASSUME NEW a \in Nat, NEW b \in Nat, NEW x \in Nat \ {0}, a < b
  PROVE  x * a < x * b
<1>1. PICK k \in Nat : b = a + k /\ k > 0
  <2>1. b - a \in Nat /\ b = a + (b - a) /\ b - a > 0
    OBVIOUS
  <2> QED BY <2>1
<1>2. x * b = x * a + x * k
  BY <1>1
<1>3. x * k > 0
  BY <1>1
<1>4. x * a \in Nat /\ x * k \in Nat
  BY <1>1
<1> QED BY <1>2, <1>3, <1>4

LEMMA SharesAdd ==
  ASSUME NEW a \in Nat \ {0}, NEW b \in Nat \ {0}, NEW c \in Nat \ {0}, NEW f \in Nat \ {0},
         a < c, b < f
  PROVE  /\ ~((1 * f + 1 * c) * (a * b) >= (1 * b + 1 * a) * (c * f))
         /\ ~((1 * 1 + 0 * c) * (a * b) >= (1 * b + 1 * a) * (c * 1))
         /\ ~((0 * f + 1 * 1) * (a * b) >= (1 * b + 1 * a) * (1 * f))
         /\ ~((0 * 1 + 0 * 1) * (a * b) >= (1 * b + 1 * a) * (1 * 1))
<1>1. b * a < b * c /\ a * b < a * f
  BY Times
<1>2. b * c \in Nat \ {0} /\ a * f \in Nat \ {0} /\ a * b \in Nat \ {0} /\ a * c \in Nat \ {0} /\ b * f \in Nat \ {0}
  OBVIOUS
<1>3. f * (b * a) < f * (b * c) /\ c * (a * b) < c * (a * f)
  BY <1>1, <1>2, Times
<1>4. (1 * f + 1 * c) * (a * b) = f * (b * a) + c * (a * b)
  BY Z3
<1>5. (1 * b + 1 * a) * (c * f) = f * (b * c) + c * (a * f)
  BY Z3
<1>6. f * (b * a) \in Nat /\ c * (a * b) \in Nat /\ f * (b * c) \in Nat /\ c * (a * f) \in Nat
  OBVIOUS
<1>7. ~((1 * f + 1 * c) * (a * b) >= (1 * b + 1 * a) * (c * f))
  BY <1>3, <1>4, <1>5, <1>6
<1>8. ~((1 * 1 + 0 * c) * (a * b) >= (1 * b + 1 * a) * (c * 1))
  <2>1. (1 * 1 + 0 * c) * (a * b) = b * a
    OBVIOUS
  <2>2. (1 * b + 1 * a) * (c * 1) = b * c + a * c
    OBVIOUS
  <2> QED BY <1>1, <1>2, <2>1, <2>2
<1>9. ~((0 * f + 1 * 1) * (a * b) >= (1 * b + 1 * a) * (1 * f))
  <2>1. (0 * f + 1 * 1) * (a * b) = a * b
    OBVIOUS
  <2>2. (1 * b + 1 * a) * (1 * f) = b * f + a * f
    OBVIOUS
  <2> QED BY <1>1, <1>2, <2>1, <2>2
<1>10. ~((0 * 1 + 0 * 1) * (a * b) >= (1 * b + 1 * a) * (1 * 1))
  BY <1>2
<1> QED BY <1>7, <1>8, <1>9, <1>10

LEMMA RankIs ==
  ASSUME NEW s, Distinct(s), NEW d \in Range(s)
  PROVE  RankIn(s, d) \in 1 .. Len(s) /\ s[RankIn(s, d)] = d
<1>1. \E i \in DOMAIN s : s[i] = d
  BY DEF Range
<1>2. DOMAIN s = 1 .. Len(s)
  BY DEF Distinct
<1> QED BY <1>1, <1>2 DEF RankIn

(* What a ranking gives to two documents of which it has one before the    *)
(* other, if it has the other at all.                                      *)
LEMMA SharesAre ==
  ASSUME NEW s, Distinct(s), NEW d, NEW e, Before(s, d, e)
  PROVE  \E a \in Nat \ {0} : /\ Share(s, d) = <<1, a>>
                              /\ Share(s, e) = <<0, 1>> \/ \E c \in Nat : a < c /\ Share(s, e) = <<1, c>>
<1> DEFINE a == 60 + RankIn(s, d)
<1>1. d \in Range(s) /\ RankIn(s, d) \in Nat
  <2>1. d \in Range(s)
    BY DEF Before
  <2>2. RankIn(s, d) \in 1 .. Len(s) /\ Len(s) \in Nat
    BY <2>1, RankIs, DistinctCounts
  <2> QED BY <2>1, <2>2
<1>2. a \in Nat \ {0} /\ Share(s, d) = <<1, a>>
  BY <1>1 DEF Share
<1>3. CASE e \notin Range(s)
  BY <1>2, <1>3 DEF Share
<1>4. CASE e \in Range(s)
  <2> DEFINE c == 60 + RankIn(s, e)
  <2>1. RankIn(s, e) \in 1 .. Len(s) /\ Len(s) \in Nat /\ RankIn(s, d) < RankIn(s, e)
    BY <1>4, RankIs, DistinctCounts DEF Before
  <2>2. c \in Nat /\ a < c /\ Share(s, e) = <<1, c>>
    BY <1>1, <1>4, <2>1 DEF Share
  <2> QED BY <1>2, <2>2
<1> QED BY <1>3, <1>4

LEMMA BothBefore ==
  ASSUME NEW p, Distinct(p), NEW t, Distinct(t), NEW d, NEW e, Before(p, d, e), Before(t, d, e)
  PROVE  ~NotLess(Score(p, t, e), Score(p, t, d))
<1>1. PICK a \in Nat \ {0} : /\ Share(p, d) = <<1, a>>
                             /\ Share(p, e) = <<0, 1>> \/ \E c \in Nat : a < c /\ Share(p, e) = <<1, c>>
  BY SharesAre
<1>2. PICK b \in Nat \ {0} : /\ Share(t, d) = <<1, b>>
                             /\ Share(t, e) = <<0, 1>> \/ \E c \in Nat : b < c /\ Share(t, e) = <<1, c>>
  BY SharesAre
<1>3. Score(p, t, d)[1] = 1 * b + 1 * a /\ Score(p, t, d)[2] = a * b
  BY <1>1, <1>2 DEF Score, Total
<1>4. ASSUME NEW x, NEW c, NEW y, NEW f, Share(p, e) = <<x, c>>, Share(t, e) = <<y, f>>
      PROVE  NotLess(Score(p, t, e), Score(p, t, d)) <=> (x * f + y * c) * (a * b) >= (1 * b + 1 * a) * (c * f)
  <2>1. Score(p, t, e)[1] = x * f + y * c /\ Score(p, t, e)[2] = c * f
    BY <1>4 DEF Score, Total
  <2> QED BY <1>3, <2>1 DEF NotLess
<1>5. CASE Share(p, e) = <<0, 1>> /\ Share(t, e) = <<0, 1>>
  <2>1. a \in Nat \ {0} /\ a + 1 \in Nat \ {0} /\ b + 1 \in Nat \ {0} /\ a < a + 1 /\ b < b + 1
    OBVIOUS
  <2> QED BY <1>4, <1>5, <2>1, SharesAdd
<1>6. CASE Share(p, e) = <<0, 1>> /\ \E c \in Nat : b < c /\ Share(t, e) = <<1, c>>
  <2>1. PICK f \in Nat : b < f /\ Share(t, e) = <<1, f>>
    BY <1>6
  <2>2. f \in Nat \ {0} /\ a + 1 \in Nat \ {0} /\ a < a + 1
    BY <2>1
  <2>3. ~((0 * f + 1 * 1) * (a * b) >= (1 * b + 1 * a) * (1 * f))
    BY <2>1, <2>2, SharesAdd
  <2> QED BY <1>4, <1>6, <2>1, <2>3
<1>7. CASE (\E c \in Nat : a < c /\ Share(p, e) = <<1, c>>) /\ Share(t, e) = <<0, 1>>
  <2>1. PICK c \in Nat : a < c /\ Share(p, e) = <<1, c>>
    BY <1>7
  <2>2. c \in Nat \ {0} /\ b + 1 \in Nat \ {0} /\ b < b + 1
    BY <2>1
  <2>3. ~((1 * 1 + 0 * c) * (a * b) >= (1 * b + 1 * a) * (c * 1))
    BY <2>1, <2>2, SharesAdd
  <2> QED BY <1>4, <1>7, <2>1, <2>3
<1>8. CASE (\E c \in Nat : a < c /\ Share(p, e) = <<1, c>>) /\ \E c \in Nat : b < c /\ Share(t, e) = <<1, c>>
  <2>1. PICK c \in Nat : a < c /\ Share(p, e) = <<1, c>>
    BY <1>8
  <2>2. PICK f \in Nat : b < f /\ Share(t, e) = <<1, f>>
    BY <1>8
  <2>3. c \in Nat \ {0} /\ f \in Nat \ {0}
    BY <2>1, <2>2
  <2>4. ~((1 * f + 1 * c) * (a * b) >= (1 * b + 1 * a) * (c * f))
    BY <2>1, <2>2, <2>3, SharesAdd
  <2> QED BY <1>4, <2>1, <2>2, <2>4
<1> QED BY <1>1, <1>2, <1>5, <1>6, <1>7, <1>8

-----------------------------------------------------------------------------
(* Nothing both rankings have before what was kept is cut off.             *)
FairCut(results, p, t) ==
  \A d, e : d \notin Range(results) /\ e \in Range(results) => ~(Before(p, d, e) /\ Before(t, d, e))

LEMMA MergedIsFair ==
  ASSUME NEW p, Distinct(p), NEW t, Distinct(t), NEW limit \in Nat, NEW results \in Merged(p, t, limit)
  PROVE  /\ Distinct(results) /\ FairCut(results, p, t) /\ Len(results) <= limit
         /\ Len(results) < limit => Range(results) = Range(p) \cup Range(t)
<1> DEFINE U == Range(p) \cup Range(t)
<1>1. U \in SUBSET Docs
  BY DistinctCounts
<1>2. PICK o \in Rankings(U) : /\ \A i, j \in DOMAIN o : i < j => NotLess(Score(p, t, o[i]), Score(p, t, o[j]))
                               /\ results = SubSeq(o, 1, Min({Len(o), limit}))
  BY DEF Merged
<1>3. Distinct(o) /\ Range(o) = U /\ Len(o) \in Nat /\ DOMAIN o = 1 .. Len(o)
  BY <1>1, RankingsAre, DistinctCounts DEF Distinct
<1> DEFINE n == Min({Len(o), limit})
<1>4. n \in Nat /\ n <= Len(o) /\ n <= limit /\ (n < limit => n = Len(o))
  BY <1>3, LessOf
<1> HIDE DEF n
<1>5. Distinct(results) /\ Len(results) = n /\ \A i \in 1 .. n : results[i] = o[i]
  BY <1>2, <1>3, <1>4, CutIs DEF n
<1>6. Range(results) = {o[i] : i \in 1 .. n}
  BY <1>5, DistinctCounts
<1>7. Range(o) = {o[i] : i \in 1 .. Len(o)}
  BY <1>3, DistinctCounts
<1>8. n < limit => Range(results) = U
  BY <1>3, <1>4, <1>6, <1>7
<1>9. ASSUME NEW d, NEW e, d \notin Range(results), e \in Range(results), Before(p, d, e), Before(t, d, e)
      PROVE  FALSE
  <2>1. PICK j \in 1 .. n : e = o[j]
    BY <1>6, <1>9
  <2>2. d \in Range(o)
    BY <1>3, <1>9 DEF Before
  <2>3. PICK i \in 1 .. Len(o) : d = o[i]
    BY <1>7, <2>2
  <2>4. i \notin 1 .. n
    BY <1>6, <1>9, <2>3
  <2>5. j < i /\ j \in 1 .. Len(o)
    <3> DEFINE m == Len(o)
    <3>1. n \in Nat /\ m \in Nat /\ n <= m
      BY <1>3, <1>4
    <3>2. i \in 1 .. m /\ j \in 1 .. n
      OBVIOUS
    <3> HIDE DEF m
    <3>3. j < i /\ j \in 1 .. m
      BY <2>4, <3>1, <3>2
    <3> QED BY <3>3 DEF m
  <2>6. NotLess(Score(p, t, e), Score(p, t, d))
    BY <1>2, <1>3, <2>1, <2>3, <2>5
  <2> QED BY <1>9, <2>6, BothBefore
<1> QED BY <1>4, <1>5, <1>8, <1>9 DEF FairCut

LEMMA RerankedSame ==
  ASSUME NEW results, Distinct(results), NEW r \in Reranked(results)
  PROVE  Distinct(r) /\ Range(r) = Range(results) /\ Len(r) = Len(results)
<1>1. Range(results) \in SUBSET Docs /\ Cardinality(Range(results)) = Len(results)
  BY DistinctCounts
<1>2. r \in Rankings(Range(results)) \/ r = results
  BY DEF Reranked
<1>3. CASE r \in Rankings(Range(results))
  BY <1>1, <1>3, RankingsAre
<1> QED BY <1>2, <1>3

LEMMA OneLeft ==
  ASSUME NEW a \in Nat, NEW b \in Nat, NEW c \in Nat, a < 2, b > c, b <= a
  PROVE  b = 1 /\ c = 0
OBVIOUS

(* What a search answers, of the rankings p and t. *)
FairAnswer(r, corrected, p, t, limit) ==
  /\ Distinct(r) /\ Len(r) <= limit /\ FairCut(r, p, t)
  /\ corrected => Range(p) \cup Range(t) \subseteq Range(r)
  /\ r = <<>> => p = <<>> /\ t = <<>>

LEMMA MergeAnswers ==
  ASSUME NEW p, Distinct(p), NEW t, Distinct(t), NEW limit \in Nat, limit >= 2,
         NEW results \in Merged(p, t, limit), NEW corrected \in BOOLEAN, corrected <=> TooFew(results, p, t),
         NEW r \in Reranked(IF corrected THEN SubSeq(t, 1, Min({Len(t), limit})) ELSE results)
  PROVE  FairAnswer(r, corrected, p, t, limit)
<1>1. /\ Distinct(results) /\ FairCut(results, p, t) /\ Len(results) <= limit
      /\ Len(results) < limit => Range(results) = Range(p) \cup Range(t)
  BY MergedIsFair
<1>2. /\ Cardinality(Range(results)) = Len(results) /\ Len(results) \in Nat /\ IsFiniteSet(Range(results))
      /\ Cardinality(Range(p)) = Len(p) /\ Len(p) \in Nat /\ Range(p) = {p[i] : i \in 1 .. Len(p)}
      /\ Cardinality(Range(t)) = Len(t) /\ Len(t) \in Nat /\ Range(t) = {t[i] : i \in 1 .. Len(t)}
  BY <1>1, DistinctCounts
<1>3. CASE ~corrected
  <2>1. r \in Reranked(results)
    BY <1>3
  <2>2. Distinct(r) /\ Range(r) = Range(results) /\ Len(r) = Len(results)
    BY <1>1, <2>1, RerankedSame
  <2>3. FairCut(r, p, t)
    BY <1>1, <2>2 DEF FairCut
  <2>4. r = <<>> => p = <<>> /\ t = <<>>
    <3>1. ASSUME r = <<>> PROVE p = <<>> /\ t = <<>>
      <4>1. Len(results) = 0 /\ Len(results) < limit
        BY <2>2, <3>1
      <4>2. Range(r) = {} /\ Range(p) \cup Range(t) = {}
        BY <1>1, <2>2, <3>1, <4>1 DEF Range
      <4>3. Len(p) = 0 /\ Len(t) = 0
        BY <1>2, <4>2, FS_EmptySet
      <4> QED BY <4>3 DEF Distinct
    <3> QED BY <3>1
  <2> QED BY <1>1, <1>3, <2>2, <2>3, <2>4 DEF FairAnswer
<1>4. CASE corrected
  <2>1. Len(results) < 2 /\ Len(t) > Len(p)
    BY <1>4 DEF TooFew
  <2>2. Range(results) = Range(p) \cup Range(t)
    <3>1. Len(results) < limit
      <4>1. Len(results) \in Nat
        BY <1>2
      <4> QED BY <2>1, <4>1
    <3> QED BY <1>1, <3>1
  <2>3. Len(t) <= Len(results)
    <3>1. Range(t) \in SUBSET Range(results)
      BY <2>2
    <3>2. Cardinality(Range(t)) <= Cardinality(Range(results))
      BY <1>2, <3>1, FS_Subset
    <3> QED BY <1>2, <3>2
  <2>4. Len(t) = 1 /\ Len(p) = 0
    <3>1. Len(t) \in Nat /\ Len(p) \in Nat /\ Len(results) \in Nat
      BY <1>2
    <3> QED BY <2>1, <2>3, <3>1, OneLeft
  <2>5. Min({Len(t), limit}) = Len(t)
    BY <1>2, <2>4, LessOf
  <2>6. SubSeq(t, 1, Min({Len(t), limit})) = t
    BY <2>4, <2>5 DEF Distinct
  <2>7. r = t
    <3>1. r \in Reranked(t)
      BY <1>4, <2>6
    <3> QED BY <2>4, <3>1 DEF Reranked
  <2>8. Range(p) = {}
    BY <1>2, <2>4
  <2>9. FairCut(r, p, t)
    BY <2>8 DEF FairCut, Before
  <2>10. r # <<>> /\ Len(r) <= limit
    <3>1. Len(r) = 1
      BY <2>4, <2>7
    <3>2. Len(<<>>) = 0
      OBVIOUS
    <3> QED BY <3>1, <3>2
  <2> QED BY <2>7, <2>8, <2>9, <2>10 DEF FairAnswer
<1> QED BY <1>3, <1>4

-----------------------------------------------------------------------------
(* The store: the indexes know nothing that is gone; the first of them has *)
(* everything or nothing, unless a probe was taken in, and everything from *)
(* the moment the probe or the rebuilding is through.                      *)
StoreInv ==
  /\ db \in [tables : Nat, pc : {"file", "health", "porter", "trigram", "secure", "open"}, blind : BOOLEAN]
  /\ stored \in SUBSET Docs /\ index \in [Indexes -> SUBSET Docs]
  /\ \A i \in Indexes : index[i] \subseteq stored
  /\ ~db.blind => index.porter \in {{}, stored}
  /\ ~db.blind /\ db.pc \in {"trigram", "secure", "open"} => index.porter = stored
  /\ db.pc = "trigram" => ~db.blind

(* The rankings of the two indexes: a failed one is empty.                 *)
Ranked(f) ==
  /\ f \in [Indexes -> [ok : BOOLEAN, docs : Seq(Docs)]]
  /\ \A i \in Indexes : Distinct(f[i].docs) /\ (~f[i].ok => f[i].docs = <<>>)

(* The search: halved or not, the limit leaves room for two.               *)
AskInv ==
  /\ query \in [scope : {"", "rg", "batch"}, limit : Nat, words : Nat]
  /\ reply.pc = "new" => query.limit >= 4
  /\ reply.pc \in {"porter", "trigram", "merge"} => query.limit >= 2
  /\ Ranked(found)
  /\ reply.pc = "found" =>
       FairAnswer(reply.docs, reply.corrected, found.porter.docs, found.trigram.docs, query.limit)
  /\ reply.pc = "nothing" => found.porter = NotAsked /\ found.trigram = NotAsked

SearchInv == StoreInv /\ AskInv

LEMMA EmptyRanking == Distinct(<<>>) /\ NotAsked \in [ok : BOOLEAN, docs : Seq(Docs)] /\ Failed \in [ok : BOOLEAN, docs : Seq(Docs)]
<1>1. <<>> \in Seq(Docs) /\ Len(<<>>) = 0 /\ 1 .. 0 = {}
  OBVIOUS
<1> QED BY <1>1 DEF Distinct, NotAsked, Failed

LEMMA SearchInitHolds == SearchInit => SearchInv
<1> SUFFICES ASSUME SearchInit PROVE SearchInv
  OBVIOUS
<1>1. stored \in SUBSET Docs
  BY SearchParameters DEF SearchInit
<1>2. PICK n \in 0 .. Len(Tables) :
        /\ db = [tables |-> n, pc |-> "file", blind |-> FALSE]
        /\ index = [i \in Indexes |-> IF \E k \in 1 .. n : Tables[k] = i THEN stored ELSE {}]
  BY DEF SearchInit
<1>3. n \in Nat
  BY <1>2 DEF Tables
<1>4. StoreInv
  BY <1>1, <1>2, <1>3 DEF StoreInv, Indexes
<1>5. query = [scope |-> "", limit |-> 0, words |-> 0] /\ reply.pc = "idle"
  BY DEF SearchInit, NoQuery
<1>6. Ranked(found)
  <2>1. found = [porter |-> NotAsked, trigram |-> NotAsked]
    BY DEF SearchInit
  <2>2. found \in [Indexes -> [ok : BOOLEAN, docs : Seq(Docs)]] /\ \A i \in Indexes : found[i] = NotAsked
    BY <2>1, EmptyRanking DEF Indexes
  <2>3. NotAsked.docs = <<>>
    BY DEF NotAsked
  <2> QED BY <2>2, <2>3, EmptyRanking DEF Ranked
<1> QED BY <1>4, <1>5, <1>6 DEF AskInv, SearchInv

(* What an index returns is a ranking. *)
LEMMA ResultsRank ==
  ASSUME StoreInv, AskInv, NEW i \in Indexes, NEW r \in Results(i)
  PROVE  r \in [ok : BOOLEAN, docs : Seq(Docs)] /\ Distinct(r.docs) /\ (~r.ok => r.docs = <<>>)
<1>1. CASE r = Failed
  <2>1. Failed.docs = <<>>
    BY DEF Failed
  <2> QED BY <1>1, <2>1, EmptyRanking
<1>2. CASE r # Failed
  <2> DEFINE S == index[i] \cap matching[i] \cap InScope
  <2>1. S \in SUBSET Docs
    BY DEF StoreInv
  <2>2. PICK o \in Rankings(S) : r = [ok |-> TRUE, docs |-> SubSeq(o, 1, Min({Len(o), ExtraLimit}))]
    BY <1>2 DEF Results
  <2>3. Distinct(o) /\ Len(o) \in Nat
    BY <2>1, RankingsAre, DistinctCounts
  <2>4. ExtraLimit \in Nat
    <3>1. query.limit \in Nat
      BY DEF AskInv
    <3> DEFINE m == 3 * query.limit
    <3>2. m \in Nat /\ 30 \in Nat
      BY <3>1
    <3> HIDE DEF m
    <3>3. Max({30, m}) \in Nat
      BY <3>2, LessOf
    <3> QED BY <3>3 DEF ExtraLimit, m
  <2>5. Min({Len(o), ExtraLimit}) \in Nat /\ Min({Len(o), ExtraLimit}) <= Len(o)
    BY <2>3, <2>4, LessOf
  <2>6. Distinct(SubSeq(o, 1, Min({Len(o), ExtraLimit})))
    BY <2>3, <2>5, CutIs
  <2> QED BY <2>2, <2>6 DEF Distinct
<1> QED BY <1>1, <1>2

-----------------------------------------------------------------------------
LEMMA OpeningHolds ==
  ASSUME SearchInv, CreateTable \/ CheckHealth \/ Rebuild \/ Secured \/ OpenFails \/ Reopen
  PROVE  SearchInv'
<1>1. UNCHANGED Opening /\ AskInv'
  <2>1. UNCHANGED Opening
    BY DEF CreateTable, CheckHealth, Rebuild, Secured, OpenFails, Reopen
  <2> QED BY <2>1 DEF Opening, SearchInv, AskInv
<1>2. stored' = stored
  BY <1>1 DEF Opening
<1>3. CASE CreateTable
  <2>1. index' = index /\ db.pc = "file"
    BY <1>3 DEF CreateTable
  <2>2. db' = [db EXCEPT !.tables = @ + 1] \/ db' = [db EXCEPT !.pc = "health"]
    BY <1>3 DEF CreateTable, Opens
  <2>3. StoreInv'
    BY <1>2, <2>1, <2>2 DEF SearchInv, StoreInv
  <2> QED BY <1>1, <2>3 DEF SearchInv
<1>4. CASE CheckHealth
  <2>1. index' = index
    BY <1>4 DEF CheckHealth
  <2>2. CASE stored = {} /\ Opens("secure")
    <3>1. db' = [db EXCEPT !.pc = "secure"] /\ stored = {}
      BY <2>2 DEF Opens
    <3>2. index.porter = stored
      BY <3>1 DEF SearchInv, StoreInv, Indexes
    <3>3. StoreInv'
      BY <1>2, <2>1, <3>1, <3>2 DEF SearchInv, StoreInv
    <3> QED BY <1>1, <3>3 DEF SearchInv
  <2>3. CASE Opens("porter")
    <3>1. StoreInv'
      BY <1>2, <2>1, <2>3 DEF SearchInv, StoreInv, Opens
    <3> QED BY <1>1, <3>1 DEF SearchInv
  <2>4. ASSUME NEW d \in stored, db' = [db EXCEPT !.pc = "secure", !.blind = @ \/ d \notin index.porter]
        PROVE  SearchInv'
    <3> DEFINE b == db.blind \/ d \notin index.porter
    <3>1. b \in BOOLEAN /\ (~b => ~db.blind /\ d \in index.porter)
      BY DEF SearchInv, StoreInv
    <3>2. ~b => index.porter = stored
      BY <3>1 DEF SearchInv, StoreInv
    <3>3. db' = [db EXCEPT !.pc = "secure", !.blind = b]
      BY <2>4
    <3> HIDE DEF b
    <3>4. StoreInv'
      BY <1>2, <2>1, <3>1, <3>2, <3>3 DEF SearchInv, StoreInv
    <3> QED BY <1>1, <3>4 DEF SearchInv
  <2>5. \/ stored = {} /\ Opens("secure")
        \/ Opens("porter")
        \/ \E d \in stored : db' = [db EXCEPT !.pc = "secure", !.blind = @ \/ d \notin index.porter]
    BY <1>4 DEF CheckHealth
  <2> QED BY <2>2, <2>3, <2>4, <2>5
<1>5. CASE Rebuild
  <2>1. /\ db.pc \in Indexes /\ index' = [index EXCEPT ![db.pc] = stored]
        /\ db' = [db EXCEPT !.pc = IF db.pc = "porter" THEN "trigram" ELSE "secure", !.blind = FALSE]
    BY <1>5 DEF Rebuild
  <2>2. index' \in [Indexes -> SUBSET Docs] /\ \A i \in Indexes : index'[i] \subseteq stored
    BY <2>1 DEF SearchInv, StoreInv
  <2>3. index'.porter = stored
    <3>1. CASE db.pc = "porter"
      BY <2>1, <3>1 DEF SearchInv, StoreInv, Indexes
    <3>2. CASE db.pc = "trigram"
      <4>1. index'.porter = index.porter /\ db'.blind = FALSE
        BY <2>1, <3>2 DEF SearchInv, StoreInv, Indexes
      <4> QED BY <3>2, <4>1 DEF SearchInv, StoreInv
    <3> QED BY <2>1, <3>1, <3>2 DEF Indexes
  <2>4. StoreInv'
    BY <1>2, <2>1, <2>2, <2>3 DEF SearchInv, StoreInv
  <2> QED BY <1>1, <2>4 DEF SearchInv
<1>6. CASE Secured
  <2>1. StoreInv'
    BY <1>2, <1>6 DEF Secured, Opens, SearchInv, StoreInv
  <2> QED BY <1>1, <2>1 DEF SearchInv
<1>7. CASE OpenFails \/ Reopen
  <2>1. db' = [db EXCEPT !.pc = "file"] /\ index' = index
    BY <1>7 DEF OpenFails, Reopen, Opens
  <2>2. StoreInv'
    BY <1>2, <2>1 DEF SearchInv, StoreInv
  <2> QED BY <1>1, <2>2 DEF SearchInv
<1> QED BY <1>3, <1>4, <1>5, <1>6, <1>7

LEMMA StoreChangesHolds == SearchInv /\ StoreChanges => SearchInv'
<1> SUFFICES ASSUME SearchInv, StoreChanges PROVE SearchInv'
  OBVIOUS
<1>1. PICK d \in Docs : \E new \in {{}, {d}} :
        /\ stored' = Written(stored, {d}, new)
        /\ index' = [i \in Indexes |-> Written(index[i], {d}, new)]
  BY DEF StoreChanges
<1>2. PICK new \in {{}, {d}} :
        /\ stored' = Written(stored, {d}, new)
        /\ index' = [i \in Indexes |-> Written(index[i], {d}, new)]
  BY <1>1
<1>3. db' = db /\ db.pc = "open"
  BY DEF StoreChanges
<1>4. stored' \in SUBSET Docs /\ index' \in [Indexes -> SUBSET Docs] /\ \A i \in Indexes : index'[i] \subseteq stored'
  BY <1>2 DEF Written, SearchInv, StoreInv
<1>5. ~db.blind => index'.porter = stored'
  BY <1>2, <1>3 DEF SearchInv, StoreInv, Indexes
<1>6. StoreInv'
  BY <1>3, <1>4, <1>5 DEF SearchInv, StoreInv
<1>7. AskInv'
  BY DEF StoreChanges, SearchInv, AskInv
<1> QED BY <1>6, <1>7 DEF SearchInv

-----------------------------------------------------------------------------
LEMMA StoreSame ==
  ASSUME StoreInv, UNCHANGED <<db, index, stored>>
  PROVE  StoreInv'
BY DEF StoreInv

LEMMA AskHolds == SearchInv /\ Ask => SearchInv'
<1> SUFFICES ASSUME SearchInv, Ask PROVE SearchInv'
  OBVIOUS
<1>1. StoreInv'
  BY StoreSame DEF Ask, SearchInv
<1>2. reply'.pc = "new" /\ query' \in Queries /\ found' = found
  BY DEF Ask, Becomes
<1>3. query' \in [scope : {"", "rg", "batch"}, limit : Nat, words : Nat] /\ query'.limit >= 4
  <2>1. query' \in [scope : {"", "rg", "batch"}, limit : Limits, words : {1, 2}]
    BY <1>2 DEF Queries
  <2>2. \A n \in Limits : n \in Nat /\ n >= 4
    <3> SUFFICES ASSUME NEW n \in Limits PROVE n \in Nat /\ n >= 4
      OBVIOUS
    <3>1. n \in Nat /\ n \notin 0 .. 3
      BY SearchParameters
    <3> QED BY <3>1
  <2>3. query'.limit \in Nat /\ query'.limit >= 4
    <3>1. query'.limit \in Limits
      BY <2>1
    <3> QED BY <2>2, <3>1, Zenon
  <2>4. query'.words \in Nat /\ query'.scope \in {"", "rg", "batch"}
    <3>1. query'.words \in {1, 2}
      BY <2>1
    <3>2. query'.scope \in {"", "rg", "batch"}
      BY <2>1
    <3>3. \A n \in {1, 2} : n \in Nat
      OBVIOUS
    <3> QED BY <3>1, <3>2, <3>3
  <2>5. query' = [scope |-> query'.scope, limit |-> query'.limit, words |-> query'.words]
    BY <2>1
  <2> QED BY <2>3, <2>4, <2>5
<1>4. AskInv'
  BY <1>2, <1>3 DEF SearchInv, AskInv
<1> QED BY <1>1, <1>4 DEF SearchInv

LEMMA HalvedIs ==
  ASSUME NEW limit \in Nat, limit >= 4
  PROVE  Halved(limit) \in Nat /\ Halved(limit) >= 2
<1> DEFINE h == limit \div 2
<1>1. h \in Nat /\ h >= 2
  OBVIOUS
<1> HIDE DEF h
<1>2. Max({1, h}) = h
  BY <1>1, LessOf
<1> QED BY <1>1, <1>2 DEF Halved, h

LEMMA GuardVerdictHolds == SearchInv /\ GuardVerdict => SearchInv'
<1> SUFFICES ASSUME SearchInv, GuardVerdict PROVE SearchInv'
  OBVIOUS
<1>1. StoreInv'
  BY StoreSame DEF GuardVerdict, SearchInv
<1>2. found' = found /\ reply.pc = "new" /\ query.limit >= 4
  BY DEF GuardVerdict, SearchInv, AskInv
<1>3. query \in [scope : {"", "rg", "batch"}, limit : Nat, words : Nat]
  BY DEF SearchInv, AskInv
<1>4. CASE reply'.pc \in {"porter", "blocked"} /\ query' = query
  <2>1. query.limit >= 2
    <3>1. query.limit \in Nat
      BY <1>3
    <3> QED BY <1>2, <3>1
  <2> QED BY <1>1, <1>2, <1>3, <1>4, <2>1 DEF SearchInv, AskInv
<1>5. CASE reply'.pc = "porter" /\ query' = [query EXCEPT !.limit = Halved(@)]
  <2> DEFINE h == Halved(query.limit)
  <2>1. h \in Nat /\ h >= 2
    BY <1>2, <1>3, HalvedIs
  <2>2. query' = [query EXCEPT !.limit = h]
    BY <1>5
  <2> HIDE DEF h
  <2>3. query' \in [scope : {"", "rg", "batch"}, limit : Nat, words : Nat] /\ query'.limit >= 2
    BY <1>3, <2>1, <2>2
  <2> QED BY <1>1, <1>2, <1>5, <2>3 DEF SearchInv, AskInv
<1> QED BY <1>4, <1>5 DEF GuardVerdict, Becomes

LEMMA SearchedHolds ==
  ASSUME SearchInv, NEW i \in Indexes, NEW r \in Results(i), found' = [found EXCEPT ![i] = r],
         UNCHANGED <<db, index, stored, query>>, reply.pc \in {"porter", "trigram"}, reply'.pc \in {"trigram", "merge"}
  PROVE  SearchInv'
<1>1. StoreInv'
  BY StoreSame DEF SearchInv
<1>2. r \in [ok : BOOLEAN, docs : Seq(Docs)] /\ Distinct(r.docs) /\ (~r.ok => r.docs = <<>>)
  BY ResultsRank DEF SearchInv
<1>3. Ranked(found')
  BY <1>2 DEF SearchInv, AskInv, Ranked
<1>4. AskInv'
  BY <1>3 DEF SearchInv, AskInv
<1> QED BY <1>1, <1>4 DEF SearchInv

LEMMA MergeHolds == SearchInv /\ Merge => SearchInv'
<1> SUFFICES ASSUME SearchInv, Merge PROVE SearchInv'
  OBVIOUS
<1>1. StoreInv'
  BY StoreSame DEF Merge, SearchInv
<1>2. found' = found /\ query' = query /\ reply.pc = "merge"
  BY DEF Merge
<1>3. query \in [scope : {"", "rg", "batch"}, limit : Nat, words : Nat] /\ query.limit >= 2 /\ Ranked(found)
  BY <1>2 DEF SearchInv, AskInv
<1>4. CASE reply'.pc = "error"
  BY <1>1, <1>2, <1>3, <1>4 DEF SearchInv, AskInv
<1>5. CASE reply'.pc # "error"
  <2> DEFINE p == found.porter  t == found.trigram
  <2>1. Distinct(p.docs) /\ Distinct(t.docs) /\ p \in [ok : BOOLEAN, docs : Seq(Docs)] /\ t \in [ok : BOOLEAN, docs : Seq(Docs)]
    BY <1>3 DEF Ranked, Indexes
  <2>2. ~NothingToSay(p, t) /\ \E results \in Merged(p.docs, t.docs, query.limit) :
               LET corrected == TooFew(results, p.docs, t.docs)
                   first     == IF corrected THEN SubSeq(t.docs, 1, Min({Len(t.docs), query.limit})) ELSE results
               IN \E r \in Reranked(first) :
                    Becomes(IF r = <<>> THEN "nothing" ELSE "found", r, corrected)
    <3>1. ~Becomes("error", <<>>, FALSE)
      BY <1>5 DEF Becomes
    <3> QED BY <3>1 DEF Merge
  <2>3. PICK results \in Merged(p.docs, t.docs, query.limit) :
               LET corrected == TooFew(results, p.docs, t.docs)
                   first     == IF corrected THEN SubSeq(t.docs, 1, Min({Len(t.docs), query.limit})) ELSE results
               IN \E r \in Reranked(first) :
                    Becomes(IF r = <<>> THEN "nothing" ELSE "found", r, corrected)
    BY <2>2
  <2> DEFINE corrected == TooFew(results, p.docs, t.docs)
  <2>4. PICK r \in Reranked(IF corrected THEN SubSeq(t.docs, 1, Min({Len(t.docs), query.limit})) ELSE results) :
          Becomes(IF r = <<>> THEN "nothing" ELSE "found", r, corrected)
    BY <2>3
  <2>5. corrected \in BOOLEAN /\ query.limit \in Nat /\ query.limit >= 2 /\ (corrected <=> TooFew(results, p.docs, t.docs))
    BY <1>3 DEF TooFew
  <2> HIDE DEF corrected
  <2>6. FairAnswer(r, corrected, p.docs, t.docs, query.limit)
    <3> HIDE DEF p, t
    <3> QED BY <2>1, <2>4, <2>5, MergeAnswers
  <2>7. reply'.pc = (IF r = <<>> THEN "nothing" ELSE "found") /\ reply'.docs = r /\ reply'.corrected = corrected
    BY <2>4 DEF Becomes
  <2>8. r = <<>> => p = NotAsked /\ t = NotAsked
    <3>1. ASSUME r = <<>> PROVE p = NotAsked /\ t = NotAsked
      <4>1. p.docs = <<>> /\ t.docs = <<>>
        BY <2>6, <3>1 DEF FairAnswer
      <4>2. p.ok = TRUE /\ t.ok = TRUE
        BY <2>1, <2>2, <4>1 DEF NothingToSay
      <4> QED BY <2>1, <4>1, <4>2 DEF NotAsked
    <3> QED BY <3>1
  <2>9. AskInv'
    <3>1. CASE r = <<>>
      BY <1>2, <1>3, <2>7, <2>8, <3>1 DEF AskInv
    <3>2. CASE r # <<>>
      BY <1>2, <1>3, <2>6, <2>7, <3>2 DEF AskInv
    <3> QED BY <3>1, <3>2
  <2> QED BY <1>1, <2>9 DEF SearchInv
<1> QED BY <1>4, <1>5

LEMMA SearchStep == SearchInv /\ [SearchNext]_searchVars => SearchInv'
<1> SUFFICES ASSUME SearchInv, [SearchNext]_searchVars PROVE SearchInv'
  OBVIOUS
<1>1. CASE CreateTable \/ CheckHealth \/ Rebuild \/ Secured \/ OpenFails \/ Reopen
  BY <1>1, OpeningHolds
<1>2. CASE Ask
  BY <1>2, AskHolds
<1>3. CASE GuardVerdict
  BY <1>3, GuardVerdictHolds
<1>4. CASE SearchPorter
  <2>1. PICK r \in Results("porter") : found' = [found EXCEPT !["porter"] = r]
    BY <1>4 DEF SearchPorter
  <2>2. UNCHANGED <<db, index, stored, query>> /\ reply.pc = "porter" /\ reply'.pc = "trigram" /\ "porter" \in Indexes
    BY <1>4 DEF SearchPorter, Becomes, Indexes
  <2> QED BY <2>1, <2>2, SearchedHolds
<1>5. CASE SearchTrigram
  <2>1. PICK r \in Results("trigram") : found' = [found EXCEPT !["trigram"] = r]
    BY <1>5 DEF SearchTrigram
  <2>2. UNCHANGED <<db, index, stored, query>> /\ reply.pc = "trigram" /\ reply'.pc = "merge" /\ "trigram" \in Indexes
    BY <1>5 DEF SearchTrigram, Becomes, Indexes
  <2> QED BY <2>1, <2>2, SearchedHolds
<1>6. CASE Merge
  BY <1>6, MergeHolds
<1>7. CASE StoreChanges
  BY <1>7, StoreChangesHolds
<1>8. CASE SearchEnded \/ UNCHANGED searchVars
  <2>1. UNCHANGED <<db, index, stored, query, found, reply>>
    BY <1>8 DEF SearchEnded, searchVars
  <2>2. StoreInv'
    BY <2>1, StoreSame DEF SearchInv
  <2>3. AskInv'
    BY <2>1 DEF SearchInv, AskInv
  <2> QED BY <2>2, <2>3 DEF SearchInv
<1> QED BY <1>1, <1>2, <1>3, <1>4, <1>5, <1>6, <1>7, <1>8 DEF SearchNext

(* The store and the search stay as the invariant says: whatever was found *)
(* on opening the database, whenever an opening ended, and whatever other  *)
(* tools wrote between the two queries.                                    *)
THEOREM SearchInductive == SearchSpec => []SearchInv
<1> QED BY SearchInitHolds, SearchStep, PTL DEF SearchSpec

LEMMA SearchInvIsFair == SearchInv => SearchIsFair
<1> SUFFICES ASSUME SearchInv PROVE SearchIsFair
  OBVIOUS
<1> DEFINE p == found.porter.docs  t == found.trigram.docs
<1>1. ASSUME reply.pc = "found"
      PROVE  /\ Cardinality(Range(reply.docs)) = Len(reply.docs) /\ Len(reply.docs) <= query.limit
             /\ \A d \in Docs \ Range(reply.docs), e \in Range(reply.docs) : ~(Before(p, d, e) /\ Before(t, d, e))
             /\ reply.corrected => Range(p) \cup Range(t) \subseteq Range(reply.docs)
  <2>1. FairAnswer(reply.docs, reply.corrected, p, t, query.limit)
    BY <1>1 DEF SearchInv, AskInv
  <2>2. Cardinality(Range(reply.docs)) = Len(reply.docs)
    BY <2>1, DistinctCounts DEF FairAnswer
  <2> QED BY <2>1, <2>2 DEF FairAnswer, FairCut
<1>2. reply.pc = "nothing" => found.porter = NotAsked /\ found.trigram = NotAsked
  BY DEF SearchInv, AskInv
<1>3. (\A i \in Indexes : index[i] \subseteq stored) /\ (db.pc = "open" /\ ~db.blind => index.porter = stored)
  BY DEF SearchInv, StoreInv
<1> QED BY <1>1, <1>2, <1>3 DEF SearchIsFair

(* SearchIsFair in every state, for every finite set of documents, every   *)
(* limit of at least four and every number of writes in between: no        *)
(* document that both indexes rank before another is left out for it, the  *)
(* fallback to one ranking loses nothing, and "no matches" is said only if *)
(* both indexes have said so (rrfMerge and SearchFuzzy of search.go).      *)
THEOREM SearchAlwaysFair == SearchSpec => []SearchIsFair
<1> QED BY SearchInductive, SearchInvIsFair, PTL

-----------------------------------------------------------------------------
(* The screen's variables.  What a script is made of, and what the         *)
(* collector knows and has handed over at each place of its walk.          *)
ScriptFits == script \in Seq(Stmts) /\ \A site \in SitesOf(script) : WellFormed(StmtAt(script, site))

Collectors ==
  [known : [Vars -> Abs \cup Lits \cup {None}], tainted : SUBSET Vars]

Spots == [again : BOOLEAN, stmt : Nat, item : Nat, next : Nat]

Rounds(i) == IF Enumerates(script[i]) THEN Len(script[i].vals) ELSE 1

CollTypes ==
  /\ coll \in Collectors /\ spot \in Spots /\ SsaBlocked(script) \subseteq coll.tainted
  /\ spot.stmt \in 1 .. Len(script) + 1
  /\ spot.stmt \in DOMAIN script => spot.next \in 0 .. Len(script[spot.stmt].body) /\ spot.item \in 1 .. Rounds(spot.stmt)
  /\ Walked => spot.next = 0 /\ spot.item = 1

(* A top-level assignment to v, and whether the walk has passed it.        *)
Sets(w, v) == w \in DOMAIN script /\ script[w].op = "set" /\ script[w].v = v

Passed(i) == spot.again \/ i < spot.stmt

(* The same for statement j of the body, for item k of a loop.             *)
PassedAt(i, j, k) ==
  Passed(i) \/ (i = spot.stmt /\ (k < spot.item \/ (k = spot.item /\ j < spot.next)))

(* What is known of v is what its only assignment gives it.                *)
GivenBy(w, v) ==
  IF script[w].from = None THEN script[w].vals[1] = coll.known[v]
  ELSE /\ coll.known[v] \in Abs /\ coll.known[script[w].from] = coll.known[v]
       /\ \E x \in 1 .. w - 1 : Sets(x, script[w].from)

Grounded(v) ==
  coll.known[v] # None =>
    /\ v \notin coll.tainted
    /\ \E w \in DOMAIN script : Sets(w, v) /\ Passed(w) /\ GivenBy(w, v)

Noted(w, v) == Sets(w, v) /\ Passed(w) => coll.known[v] # None \/ v \in coll.tainted

(* How the guards know the word at a place: as dynamic, by the value of an *)
(* assignment before it, or by the item of its loop.                       *)
Handled(i, j, k) ==
  LET s == StmtAt(script, <<i, j>>)
  IN s.op \in {"head", "word"} =>
       \/ <<<<i, j>>, Dynamic>> \in emitted
       \/ /\ coll.known[s.v] # None /\ <<<<i, j>>, coll.known[s.v]>> \in emitted
          /\ \E w \in 1 .. i - 1 : Sets(w, s.v)
       \/ /\ j # 0 /\ Enumerates(script[i]) /\ script[i].v = s.v
          /\ <<<<i, j>>, script[i].vals[k]>> \in emitted

CollInv ==
  /\ ScriptFits /\ CollTypes
  /\ \A v \in Vars : Grounded(v) /\ \A w \in DOMAIN script : Noted(w, v)
  /\ \A i \in DOMAIN script : \A j \in 0 .. Len(script[i].body), k \in 1 .. Rounds(i) :
       PassedAt(i, j, k) => Handled(i, j, k)

(* The shell's variables e are what the collector knows of them, from      *)
(* their assignment on, when it is at statement p.                         *)
Agrees(e, p) ==
  /\ e = [v \in Vars |-> e[v]]
  /\ \A v \in Vars : coll.known[v] # None /\ (\E w \in 1 .. p : Sets(w, v)) => e[v] = coll.known[v]

InBody(x, i) == i \in DOMAIN script /\ \E j \in DOMAIN script[i].body : x = [stmt |-> script[i].body[j], site |-> <<i, j>>]

OfFunction(x, p) == \E i \in 1 .. p : script[i].op = "func" /\ InBody(x, i)

(* What is left to run: statements of the compound that the shell is at or *)
(* of the function, the end of the subshell, the rest of the loop.         *)
Pending(x, p) ==
  \/ script[p].op \in Enclosing /\ InBody(x, p)
  \/ OfFunction(x, p)
  \/ script[p].op = "sub" /\ \E saved : x = Leave(saved) /\ Agrees(saved, p)
  \/ script[p].op = "for" /\ \E rest \in Seq(Range(script[p].vals)) :
       x = [stmt |-> [script[p] EXCEPT !.vals = rest], site |-> <<p, 0>>]

InLoop(e, p) ==
  script[p].op = "for" /\ Enumerates(script[p]) => e[script[p].v] \in Range(script[p].vals)

Running(e, p, t, f) ==
  /\ p \in 0 .. Len(script) /\ (p > 0 => Walked) /\ (p = 0 => t = <<>>)
  /\ Agrees(e, p) /\ (t # <<>> => InLoop(e, p))
  /\ t \in Seq(Range(t)) /\ \A x \in Range(t) : Pending(x, p)
  /\ f \in Seq(Range(f)) /\ \A x \in Range(f) : OfFunction(x, p)

RunInv == Running(env, place, todo, func)

ScreenInv == CollInv /\ RunInv /\ EveryWordIsScreened
-----------------------------------------------------------------------------
LEMMA SitesAre ==
  ASSUME NEW p, NEW i \in DOMAIN p, NEW j
  PROVE  <<i, j>> \in SitesOf(p) <=> j \in 0 .. Len(p[i].body)
<1>1. ASSUME j \in 0 .. Len(p[i].body) PROVE <<i, j>> \in SitesOf(p)
  BY <1>1 DEF SitesOf
<1>2. ASSUME <<i, j>> \in SitesOf(p) PROVE j \in 0 .. Len(p[i].body)
  <2>1. PICK x \in DOMAIN p : <<i, j>> \in {<<x, y>> : y \in 0 .. Len(p[x].body)}
    BY <1>2 DEF SitesOf
  <2>2. PICK y \in 0 .. Len(p[x].body) : <<i, j>> = <<x, y>>
    BY <2>1
  <2> QED BY <2>2
<1> QED BY <1>1, <1>2

(* A statement of a script: simple ones have no body, the others hold      *)
(* simple ones.                                                            *)
Plain(s) == s \in SimpleStmts /\ WellFormed(s)

LEMMA StmtIs ==
  ASSUME ScriptFits, NEW i \in DOMAIN script
  PROVE  /\ script[i] \in Stmts /\ WellFormed(script[i])
         /\ script[i].op \in Enclosing => script[i].body \in Seq(SimpleStmts)
         /\ script[i].op \notin Enclosing => Plain(script[i]) /\ script[i].body = <<>> /\ Len(script[i].body) = 0
         /\ Len(script[i].body) \in Nat /\ DOMAIN script[i].body = 1 .. Len(script[i].body)
         /\ \A j \in DOMAIN script[i].body : Plain(script[i].body[j])
         /\ script[i].vals \in Seq(Values)
         /\ StmtAt(script, <<i, 0>>) = script[i]
         /\ \A j \in DOMAIN script[i].body : StmtAt(script, <<i, j>>) = script[i].body[j]
<1>1. script[i] \in Stmts
  BY DEF ScriptFits
<1>2. StmtAt(script, <<i, 0>>) = script[i]
  BY DEF StmtAt
<1>3. script[i].body \in Seq(SimpleStmts) /\ script[i].vals \in Seq(Values)
      /\ (script[i].op \notin Enclosing => script[i] \in SimpleStmts /\ script[i].body = <<>>)
  <2>1. CASE script[i] \in SimpleStmts
    <3>1. script[i].body = <<>> /\ script[i].op \in {"set", "unset", "head", "word", "call"} /\ script[i].vals \in Seq(Values)
      BY <2>1 DEF SimpleStmts
    <3>2. <<>> \in Seq(SimpleStmts)
      OBVIOUS
    <3> QED BY <2>1, <3>1, <3>2
  <2>2. CASE script[i] \notin SimpleStmts
    BY <1>1, <2>2 DEF Stmts
  <2> QED BY <2>1, <2>2
<1>4. Len(script[i].body) \in Nat /\ DOMAIN script[i].body = 1 .. Len(script[i].body)
  BY <1>3
<1>5. <<i, 0>> \in SitesOf(script)
  BY <1>4, SitesAre
<1>6. WellFormed(script[i])
  BY <1>2, <1>5 DEF ScriptFits
<1>7. ASSUME NEW j \in DOMAIN script[i].body
      PROVE  Plain(script[i].body[j]) /\ StmtAt(script, <<i, j>>) = script[i].body[j]
  <2>1. j \in 0 .. Len(script[i].body) /\ j # 0
    BY <1>4
  <2>2. StmtAt(script, <<i, j>>) = script[i].body[j]
    BY <2>1 DEF StmtAt
  <2>3. <<i, j>> \in SitesOf(script)
    BY <2>1, SitesAre
  <2>4. WellFormed(script[i].body[j])
    BY <2>2, <2>3 DEF ScriptFits
  <2>5. script[i].body[j] \in SimpleStmts
    BY <1>3
  <2> QED BY <2>2, <2>4, <2>5 DEF Plain
<1>8. Len(<<>>) = 0
  OBVIOUS
<1> QED BY <1>1, <1>2, <1>3, <1>4, <1>6, <1>7, <1>8 DEF Plain

(* Whoever is not blocked has one assignment.                              *)
LEMMA OneWrite ==
  ASSUME NEW v \in Vars, v \notin SsaBlocked(script),
         NEW a \in SitesOf(script), NEW b \in SitesOf(script),
         Writes(StmtAt(script, a)), StmtAt(script, a).v = v, Writes(StmtAt(script, b)), StmtAt(script, b).v = v
  PROVE  a = b
BY DEF SsaBlocked

(* The only assignment to a variable that is known is at the top level.    *)
LEMMA OneSet ==
  ASSUME CollInv, NEW v \in Vars, coll.known[v] # None,
         NEW i \in DOMAIN script, NEW j \in 0 .. Len(script[i].body),
         Writes(StmtAt(script, <<i, j>>)), StmtAt(script, <<i, j>>).v = v
  PROVE  j = 0 /\ Sets(i, v) /\ Passed(i) /\ GivenBy(i, v)
<1>1. PICK w \in DOMAIN script : Sets(w, v) /\ Passed(w) /\ GivenBy(w, v)
  BY DEF CollInv, Grounded
<1>2. ScriptFits
  BY DEF CollInv
<1>3. StmtAt(script, <<w, 0>>) = script[w] /\ Len(script[w].body) \in Nat
  BY <1>2, StmtIs
<1>4. Writes(script[w]) /\ script[w].v = v
  BY <1>1 DEF Sets, Writes
<1>5. v \notin SsaBlocked(script)
  BY DEF CollInv, Grounded, CollTypes
<1>6. <<w, 0>> \in SitesOf(script) /\ <<i, j>> \in SitesOf(script)
  BY <1>3, SitesAre
<1>7. <<w, 0>> = <<i, j>>
  BY <1>3, <1>4, <1>5, <1>6, OneWrite
<1>8. w = i /\ j = 0
  BY <1>7
<1> QED BY <1>1, <1>8

-----------------------------------------------------------------------------
(* A step of the walk over the script goes to the next place.              *)
Steps == spot' = Onward /\ script' = script /\ ~Walked

LEMMA SpotIs ==
  ASSUME NEW again \in BOOLEAN, NEW stmt \in Nat, NEW item \in Nat, NEW next \in Nat, NEW d, d = Spot(again, stmt, item, next)
  PROVE  d \in Spots /\ d.again = again /\ d.stmt = stmt /\ d.item = item /\ d.next = next
BY DEF Spot, Spots

LEMMA StepsIs ==
  ASSUME CollInv, Steps
  PROVE  /\ spot' \in Spots /\ spot'.again = spot.again
         /\ spot.stmt \in DOMAIN script /\ spot'.stmt \in 1 .. Len(script) + 1
         /\ \/ /\ spot.next < Len(script[spot.stmt].body)
               /\ spot'.stmt = spot.stmt /\ spot'.item = spot.item /\ spot'.next = spot.next + 1
            \/ /\ spot.next = Len(script[spot.stmt].body) /\ spot.item < Rounds(spot.stmt) /\ script[spot.stmt].op \in Enclosing
               /\ spot'.stmt = spot.stmt /\ spot'.item = spot.item + 1 /\ spot'.next = 1 /\ 1 <= Len(script[spot.stmt].body)
            \/ /\ spot.next = Len(script[spot.stmt].body)
               /\ spot.item = Rounds(spot.stmt) \/ (script[spot.stmt].body = <<>> /\ Len(script[spot.stmt].body) = 0)
               /\ spot'.stmt = spot.stmt + 1 /\ spot'.item = 1 /\ spot'.next = 0
<1> DEFINE i == spot.stmt  s == script[i]
<1>1. ScriptFits /\ CollTypes /\ script \in Seq(Stmts)
  BY DEF CollInv, ScriptFits
<1>2. Len(script) \in Nat /\ DOMAIN script = 1 .. Len(script)
  BY <1>1
<1>3. i \in DOMAIN script /\ spot \in Spots /\ spot.next \in 0 .. Len(s.body) /\ spot.item \in 1 .. Rounds(i)
  BY <1>1, <1>2 DEF Steps, Walked, CollTypes
<1>4. spot.stmt \in Nat /\ spot.item \in Nat /\ spot.next \in Nat /\ spot.again \in BOOLEAN
  BY <1>3 DEF Spots
<1>5. /\ Len(s.body) \in Nat /\ (s.op \notin Enclosing => s.body = <<>>) /\ (s.body = <<>> => Len(s.body) = 0)
      /\ s.vals \in Seq(Values) /\ (s.body # <<>> => Len(s.body) >= 1)
  <2>1. s.body \in Seq(SimpleStmts)
    <3>1. <<>> \in Seq(SimpleStmts)
      OBVIOUS
    <3> QED BY <1>1, <1>3, <3>1, StmtIs
  <2>2. s.body # <<>> => Len(s.body) >= 1
    BY <2>1
  <2>3. Len(<<>>) = 0
    OBVIOUS
  <2> QED BY <1>1, <1>3, <2>2, <2>3, StmtIs
<1>6. spot' = IF spot.next < Len(s.body) THEN Spot(spot.again, i, spot.item, spot.next + 1)
              ELSE IF s.body # <<>> /\ Enumerates(s) /\ spot.item < Len(s.vals) THEN Spot(spot.again, i, spot.item + 1, 1)
              ELSE Spot(spot.again, i + 1, 1, 0)
  BY DEF Steps, Onward
<1>7. Enumerates(s) => Rounds(i) = Len(s.vals) /\ Len(s.vals) \in Nat
  BY <1>5 DEF Rounds
<1>8. ~Enumerates(s) => Rounds(i) = 1
  BY DEF Rounds
<1>9. i \in 1 .. Len(script) + 1 /\ i + 1 \in 1 .. Len(script) + 1
  BY <1>2, <1>3
<1>10. CASE spot.next < Len(s.body)
  <2>1. spot' = Spot(spot.again, i, spot.item, spot.next + 1) /\ spot.next + 1 \in Nat
    BY <1>4, <1>6, <1>10
  <2>2. spot' \in Spots /\ spot'.again = spot.again /\ spot'.stmt = i /\ spot'.item = spot.item /\ spot'.next = spot.next + 1
    BY <1>4, <2>1, SpotIs
  <2> QED BY <1>3, <1>9, <1>10, <2>2
<1>11. CASE spot.next >= Len(s.body) /\ s.body # <<>> /\ Enumerates(s) /\ spot.item < Len(s.vals)
  <2>1. spot' = Spot(spot.again, i, spot.item + 1, 1) /\ spot.item + 1 \in Nat
    BY <1>4, <1>5, <1>6, <1>11
  <2>2. spot.next = Len(s.body) /\ spot.item < Rounds(i) /\ s.op \in Enclosing /\ 1 <= Len(s.body)
    BY <1>3, <1>5, <1>7, <1>11
  <2>3. spot' \in Spots /\ spot'.again = spot.again /\ spot'.stmt = i /\ spot'.item = spot.item + 1 /\ spot'.next = 1
    BY <1>4, <2>1, SpotIs
  <2> QED BY <1>3, <1>9, <2>2, <2>3
<1>12. CASE spot.next >= Len(s.body) /\ ~(s.body # <<>> /\ Enumerates(s) /\ spot.item < Len(s.vals))
  <2>1. spot' = Spot(spot.again, i + 1, 1, 0) /\ i + 1 \in Nat
    BY <1>4, <1>5, <1>6, <1>12
  <2>2. spot.next = Len(s.body) /\ (spot.item = Rounds(i) \/ s.body = <<>>)
    BY <1>3, <1>4, <1>5, <1>7, <1>8, <1>12
  <2>3. spot' \in Spots /\ spot'.again = spot.again /\ spot'.stmt = i + 1 /\ spot'.item = 1 /\ spot'.next = 0
    BY <1>4, <2>1, SpotIs
  <2> QED BY <1>3, <1>5, <1>9, <2>2, <2>3
<1> QED BY <1>3, <1>4, <1>5, <1>10, <1>11, <1>12

(* A step passes the place where the walk was, and no other with a word.   *)
LEMMA OnePassed ==
  ASSUME CollInv, Steps, NEW i \in DOMAIN script, NEW j \in 0 .. Len(script[i].body), NEW k \in 1 .. Rounds(i),
         PassedAt(i, j, k)'
  PROVE  \/ PassedAt(i, j, k)
         \/ <<i, j>> = Site /\ k = spot.item
         \/ j = 0 /\ script[i].op \in Enclosing
<1>1. ScriptFits /\ spot \in Spots
  BY DEF CollInv, CollTypes
<1>2. spot.stmt \in Nat /\ spot.item \in Nat /\ spot.next \in Nat /\ i \in Nat /\ j \in Nat /\ Len(script[i].body) \in Nat
  BY <1>1, StmtIs DEF Spots, ScriptFits
<1>3. Rounds(i) \in Nat
  BY <1>1, StmtIs DEF Rounds
<1>4. k \in Nat
  BY <1>3
<1>5. spot'.again = spot.again
  BY StepsIs
<1>6. CASE i # spot.stmt
  <2>1. Passed(i)' => Passed(i)
    BY <1>2, <1>5, <1>6, StepsIs DEF Passed
  <2>2. Passed(i)'
    <3>1. i = spot'.stmt => spot'.stmt = spot.stmt + 1 /\ spot'.item = 1 /\ spot'.next = 0
      BY <1>6, StepsIs
    <3>2. i = spot'.stmt => ~(k < spot'.item) /\ ~(j < spot'.next)
      BY <1>2, <1>3, <3>1
    <3> QED BY <3>2 DEF PassedAt
  <2> QED BY <2>1, <2>2 DEF PassedAt
<1>7. CASE i = spot.stmt /\ spot.again
  BY <1>7 DEF PassedAt, Passed
<1>8. CASE i = spot.stmt /\ ~spot.again
  <2>0. <<i, j>> = Site <=> j = spot.next
    BY <1>8 DEF Site
  <2>1. CASE spot'.stmt = spot.stmt
    <3>1. k < spot'.item \/ (k = spot'.item /\ j < spot'.next)
      BY <1>2, <1>5, <1>8, <2>1 DEF PassedAt, Passed
    <3>2. CASE spot'.item = spot.item /\ spot'.next = spot.next + 1
      BY <1>2, <1>4, <1>8, <2>0, <3>1, <3>2 DEF PassedAt
    <3>3. CASE spot.next = Len(script[i].body) /\ spot'.item = spot.item + 1 /\ spot'.next = 1 /\ script[i].op \in Enclosing
      BY <1>2, <1>4, <1>8, <2>0, <3>1, <3>3 DEF PassedAt
    <3> QED BY <1>2, <1>8, <2>1, <3>2, <3>3, StepsIs
  <2>2. CASE spot'.stmt = spot.stmt + 1
    <3>1. spot.next = Len(script[i].body) /\ (spot.item = Rounds(i) \/ Len(script[i].body) = 0)
      BY <1>2, <1>8, <2>2, StepsIs
    <3>2. CASE spot.item = Rounds(i)
      BY <1>2, <1>3, <1>4, <1>8, <2>0, <3>1, <3>2 DEF PassedAt
    <3>3. CASE Len(script[i].body) = 0
      <4>1. j = 0 /\ spot.next = 0
        BY <1>2, <3>1, <3>3
      <4>2. CASE script[i].op \notin Enclosing
        <5>1. ~Enumerates(script[i])
          BY <4>2 DEF Enumerates, Enclosing
        <5>2. Rounds(i) = 1
          BY <5>1 DEF Rounds
        <5>3. spot.item \in 1 .. Rounds(i)
          BY <1>8 DEF CollInv, CollTypes
        <5> QED BY <2>0, <4>1, <5>2, <5>3
      <4> QED BY <4>1, <4>2
    <3> QED BY <3>1, <3>2, <3>3
  <2> QED BY <2>1, <2>2, StepsIs
<1> QED BY <1>6, <1>7, <1>8

-----------------------------------------------------------------------------
LEMMA ScriptRests ==
  ASSUME script' = script
  PROVE  /\ ScriptFits' <=> ScriptFits
         /\ SsaBlocked(script)' = SsaBlocked(script)
         /\ \A s : Enumerates(s)' <=> Enumerates(s)
         /\ \A i : Rounds(i)' = Rounds(i)
         /\ \A w, v : Sets(w, v)' <=> Sets(w, v)
         /\ \A site : StmtAt(script, site)' = StmtAt(script, site)
<1>1. SsaBlocked(script)' = SsaBlocked(script)
  BY DEF SsaBlocked, SitesOf, StmtAt, Writes
<1>2. \A s : Enumerates(s)' <=> Enumerates(s)
  BY <1>1 DEF Enumerates
<1>3. \A site : StmtAt(script, site)' = StmtAt(script, site)
  BY DEF StmtAt
<1>4. ScriptFits' <=> ScriptFits
  BY DEF ScriptFits, SitesOf, StmtAt, WellFormed
<1> QED BY <1>1, <1>2, <1>3, <1>4 DEF Rounds, Sets

LEMMA RoundsPositive ==
  ASSUME ScriptFits, NEW i \in DOMAIN script
  PROVE  Rounds(i) \in Nat /\ 1 <= Rounds(i)
<1>1. script[i].vals \in Seq(Values)
  BY StmtIs
<1>2. script[i].vals # <<>> => Len(script[i].vals) \in Nat /\ 1 <= Len(script[i].vals)
  BY <1>1
<1>3. Enumerates(script[i]) => script[i].vals # <<>>
  BY DEF Enumerates
<1> QED BY <1>2, <1>3 DEF Rounds

LEMMA StepsTyped ==
  ASSUME CollInv, Steps, coll' \in Collectors, coll.tainted \subseteq coll'.tainted
  PROVE  CollTypes'
<1>1. ScriptFits /\ CollTypes /\ script' = script
  BY DEF CollInv, Steps
<1>2. SsaBlocked(script)' = SsaBlocked(script) /\ \A i : Rounds(i)' = Rounds(i)
  BY <1>1, ScriptRests
<1>3. SsaBlocked(script)' \subseteq coll'.tainted
  BY <1>1, <1>2 DEF CollTypes
<1>4. Len(script) \in Nat /\ DOMAIN script = 1 .. Len(script)
  BY <1>1 DEF ScriptFits
<1>5. spot' \in Spots /\ spot'.stmt \in 1 .. Len(script) + 1
  BY StepsIs
<1>6. spot.stmt \in DOMAIN script /\ spot.next \in 0 .. Len(script[spot.stmt].body) /\ spot.item \in 1 .. Rounds(spot.stmt)
  BY <1>1, StepsIs DEF CollTypes
<1>7. Len(script[spot.stmt].body) \in Nat
  BY <1>1, <1>6, StmtIs
<1>8. ASSUME spot'.stmt \in DOMAIN script
      PROVE  spot'.next \in 0 .. Len(script[spot'.stmt].body) /\ spot'.item \in 1 .. Rounds(spot'.stmt)
  <2>1. Rounds(spot'.stmt) \in Nat /\ 1 <= Rounds(spot'.stmt) /\ Len(script[spot'.stmt].body) \in Nat
    BY <1>1, <1>8, RoundsPositive, StmtIs
  <2>2. CASE spot'.stmt = spot.stmt /\ spot'.item = spot.item /\ spot'.next = spot.next + 1 /\ spot.next < Len(script[spot.stmt].body)
    BY <1>6, <1>7, <2>2
  <2>3. CASE /\ spot'.stmt = spot.stmt /\ spot'.item = spot.item + 1 /\ spot'.next = 1
             /\ 1 <= Len(script[spot.stmt].body) /\ spot.item < Rounds(spot.stmt)
    BY <1>6, <1>7, <2>1, <2>3
  <2>4. CASE spot'.item = 1 /\ spot'.next = 0
    BY <2>1, <2>4
  <2> QED BY <2>2, <2>3, <2>4, StepsIs
<1>9. ASSUME spot'.stmt > Len(script)
      PROVE  spot'.next = 0 /\ spot'.item = 1
  <2>1. spot'.stmt # spot.stmt
    BY <1>4, <1>6, <1>9
  <2> QED BY <2>1, StepsIs
<1> QED BY <1>1, <1>2, <1>3, <1>5, <1>8, <1>9 DEF CollTypes, Walked

(* What the collector knows stays, and the guards keep what they have.     *)
Grows ==
  /\ \A v \in Vars : coll.known[v] # None => coll'.known[v] = coll.known[v] /\ v \notin coll'.tainted
  /\ coll.tainted \subseteq coll'.tainted /\ emitted \subseteq emitted'

LEMMA HandledStays ==
  ASSUME ScriptFits, Grows, script' = script, NEW i \in DOMAIN script, NEW j \in 0 .. Len(script[i].body), NEW k, Handled(i, j, k)
  PROVE  Handled(i, j, k)'
<1> DEFINE s == StmtAt(script, <<i, j>>)
<1>1. s' = s
  BY ScriptRests
<1> SUFFICES ASSUME s.op \in {"head", "word"} PROVE Handled(i, j, k)'
  BY <1>1 DEF Handled
<1>2. s.v \in Vars
  <2>1. <<i, j>> \in SitesOf(script)
    BY SitesAre
  <2> QED BY <2>1 DEF ScriptFits, WellFormed
<1>3. Enumerates(script[i])' <=> Enumerates(script[i])
  BY ScriptRests
<1>4. \A w : Sets(w, s.v)' <=> Sets(w, s.v)
  BY ScriptRests
<1> HIDE DEF s
<1>5. CASE <<<<i, j>>, Dynamic>> \in emitted
  BY <1>1, <1>5 DEF Handled, Grows, s
<1>6. CASE coll.known[s.v] # None /\ <<<<i, j>>, coll.known[s.v]>> \in emitted /\ \E w \in 1 .. i - 1 : Sets(w, s.v)
  <2>1. coll'.known[s.v] = coll.known[s.v]
    BY <1>2, <1>6 DEF Grows
  <2>2. <<<<i, j>>, coll'.known[s.v]>> \in emitted'
    BY <1>6, <2>1 DEF Grows
  <2>3. \E w \in 1 .. i - 1 : Sets(w, s.v)'
    BY <1>4, <1>6
  <2> QED BY <1>1, <1>6, <2>1, <2>2, <2>3 DEF Handled, s
<1>7. CASE j # 0 /\ Enumerates(script[i]) /\ script[i].v = s.v /\ <<<<i, j>>, script[i].vals[k]>> \in emitted
  BY <1>1, <1>3, <1>7 DEF Handled, Grows, s
<1> QED BY <1>5, <1>6, <1>7 DEF Handled, s

(* What a step may newly know, must have noted and has handed over.        *)
Learns(i) ==
  /\ \A v \in Vars : coll.known[v] = None /\ coll'.known[v] # None =>
       spot.next = 0 /\ v \notin coll'.tainted /\ Sets(i, v) /\ GivenBy(i, v)'
  /\ \A v \in Vars : Sets(i, v) => coll'.known[v] # None \/ v \in coll'.tainted

LEMMA PassedOn ==
  ASSUME CollInv, Steps, NEW i \in DOMAIN script
  PROVE  /\ Passed(i) => Passed(i)'
         /\ script[i].op \notin Enclosing /\ i = spot.stmt => Passed(i)'
         /\ script[i].op \notin Enclosing /\ Passed(i)' => Passed(i) \/ i = spot.stmt
<1>1. ScriptFits /\ spot \in Spots
  BY DEF CollInv, CollTypes
<1>2. spot.stmt \in Nat /\ i \in Nat
  BY <1>1 DEF Spots, ScriptFits
<1>3. spot'.again = spot.again /\ (spot'.stmt = spot.stmt \/ spot'.stmt = spot.stmt + 1)
  BY StepsIs
<1>4. script[i].op \notin Enclosing /\ i = spot.stmt => spot'.stmt = spot.stmt + 1
  <2> SUFFICES ASSUME script[i].op \notin Enclosing, i = spot.stmt PROVE spot'.stmt = spot.stmt + 1
    OBVIOUS
  <2>1. Len(script[i].body) = 0 /\ spot.next \in 0 .. Len(script[i].body)
    BY <1>1, StmtIs DEF CollInv, CollTypes
  <2>2. ~(spot.next < Len(script[i].body))
    BY <2>1
  <2> QED BY <2>2, StepsIs
<1> QED BY <1>2, <1>3, <1>4 DEF Passed

LEMMA GivenStays ==
  ASSUME CollInv, Grows, script' = script, NEW v \in Vars, coll.known[v] # None,
         NEW w \in DOMAIN script, Sets(w, v), GivenBy(w, v)
  PROVE  GivenBy(w, v)'
<1>1. coll'.known[v] = coll.known[v]
  BY DEF Grows
<1>2. CASE script[w].from = None
  BY <1>1, <1>2 DEF GivenBy
<1>3. CASE script[w].from # None
  <2>1. script[w].from \in Vars
    <3>1. Plain(script[w])
      BY StmtIs DEF CollInv, Sets, Enclosing
    <3> QED BY <1>3, <3>1 DEF Plain, SimpleStmts
  <2>2. coll.known[script[w].from] = coll.known[v] /\ coll.known[v] \in Abs
        /\ \E x \in 1 .. w - 1 : Sets(x, script[w].from)
    BY <1>3 DEF GivenBy
  <2>3. coll'.known[script[w].from] = coll.known[v]
    BY <2>1, <2>2 DEF Grows
  <2>4. \E x \in 1 .. w - 1 : Sets(x, script[w].from)'
    BY <2>2, ScriptRests
  <2> QED BY <1>1, <1>3, <2>2, <2>3, <2>4 DEF GivenBy
<1> QED BY <1>2, <1>3

LEMMA WalkKeeps ==
  ASSUME CollInv, Steps, coll' \in Collectors, Grows,
         NEW m, m = spot.stmt, NEW n, n = spot.next, NEW r, r = spot.item, Learns(m), Handled(m, n, r)'
  PROVE  CollInv'
<1>1. ScriptFits /\ script' = script /\ m \in DOMAIN script
  BY StepsIs DEF CollInv, Steps
<1>2. ScriptFits' /\ CollTypes'
  BY <1>1, ScriptRests, StepsTyped DEF Grows
<1>3. \A w, v : Sets(w, v)' <=> Sets(w, v)
  BY <1>1, ScriptRests
<1>4. ASSUME NEW v \in Vars PROVE Grounded(v)'
  <2> SUFFICES ASSUME coll'.known[v] # None
               PROVE  v \notin coll'.tainted /\ \E w \in DOMAIN script : Sets(w, v)' /\ Passed(w)' /\ GivenBy(w, v)'
    BY <1>1 DEF Grounded
  <2>1. CASE coll.known[v] # None
    <3>1. PICK w \in DOMAIN script : Sets(w, v) /\ Passed(w) /\ GivenBy(w, v)
      BY <2>1 DEF CollInv, Grounded
    <3>2. Passed(w)'
      BY <3>1, PassedOn
    <3>3. GivenBy(w, v)'
      BY <1>1, <2>1, <3>1, GivenStays
    <3> QED BY <1>3, <2>1, <3>1, <3>2, <3>3 DEF Grows
  <2>2. CASE coll.known[v] = None
    <3>1. Sets(m, v) /\ GivenBy(m, v)' /\ v \notin coll'.tainted
      BY <2>2 DEF Learns
    <3>2. script[m].op \notin Enclosing
      BY <3>1 DEF Sets, Enclosing
    <3>3. Passed(m)'
      BY <1>1, <3>2, PassedOn
    <3> QED BY <1>1, <1>3, <3>1, <3>3
  <2> QED BY <2>1, <2>2
<1>5. ASSUME NEW v \in Vars, NEW w \in DOMAIN script PROVE Noted(w, v)'
  <2> SUFFICES ASSUME Sets(w, v), Passed(w)' PROVE coll'.known[v] # None \/ v \in coll'.tainted
    BY <1>3 DEF Noted
  <2>1. script[w].op \notin Enclosing
    BY DEF Sets, Enclosing
  <2>2. CASE w = m
    BY <2>2 DEF Learns
  <2>3. CASE Passed(w)
    <3>1. coll.known[v] # None \/ v \in coll.tainted
      BY <2>3 DEF CollInv, Noted
    <3> QED BY <3>1 DEF Grows
  <2> QED BY <2>1, <2>2, <2>3, PassedOn
<1>6. ASSUME NEW i \in DOMAIN script, NEW j \in 0 .. Len(script[i].body), NEW k \in 1 .. Rounds(i), PassedAt(i, j, k)'
      PROVE  Handled(i, j, k)'
  <2>1. CASE PassedAt(i, j, k)
    <3>1. Handled(i, j, k)
      BY <2>1 DEF CollInv
    <3> QED BY <1>1, <3>1, HandledStays
  <2>2. CASE <<i, j>> = Site /\ k = spot.item
    <3>1. i = m /\ j = n /\ k = r
      BY <2>2 DEF Site
    <3> QED BY <3>1
  <2>3. CASE j = 0 /\ script[i].op \in Enclosing
    <3>1. StmtAt(script, <<i, j>>)' = script[i]
      BY <1>1, <2>3, StmtIs, ScriptRests
    <3> QED BY <2>3, <3>1 DEF Handled, Enclosing
  <2> QED BY <1>6, <2>1, <2>2, <2>3, OnePassed
<1>7. \A i \in DOMAIN script : Rounds(i)' = Rounds(i)
  BY <1>1, ScriptRests
<1> QED BY <1>1, <1>2, <1>4, <1>5, <1>6, <1>7 DEF CollInv

-----------------------------------------------------------------------------
(* Where the walk is, as constants.                                        *)
AtPlace(m, n, r) == m = spot.stmt /\ n = spot.next /\ r = spot.item

LEMMA PlaceIs ==
  ASSUME CollInv, ~Walked, NEW m, NEW n, NEW r, AtPlace(m, n, r)
  PROVE  /\ ScriptFits /\ m \in DOMAIN script /\ m \in Nat /\ n \in 0 .. Len(script[m].body) /\ r \in 1 .. Rounds(m)
         /\ <<m, n>> \in SitesOf(script) /\ Site = <<m, n>> /\ Len(script[m].body) \in Nat
         /\ n = 0 => StmtAt(script, Site) = script[m]
         /\ n # 0 => Plain(StmtAt(script, Site)) /\ script[m].op \in Enclosing
         /\ StmtAt(script, Site).op \notin Enclosing => Plain(StmtAt(script, Site))
<1>1. ScriptFits /\ CollTypes /\ spot \in Spots /\ script \in Seq(Stmts)
  BY DEF CollInv, ScriptFits, CollTypes
<1>2. Len(script) \in Nat /\ DOMAIN script = 1 .. Len(script)
  BY <1>1
<1>3. m \in DOMAIN script
  BY <1>1, <1>2 DEF AtPlace, CollTypes, Walked
<1>4. n \in 0 .. Len(script[m].body) /\ r \in 1 .. Rounds(m)
  BY <1>1, <1>3 DEF AtPlace, CollTypes
<1>5. Len(script[m].body) \in Nat /\ DOMAIN script[m].body = 1 .. Len(script[m].body)
  BY <1>1, <1>3, StmtIs
<1>6. Site = <<m, n>>
  BY DEF Site, AtPlace
<1>7. n # 0 => n \in DOMAIN script[m].body
  BY <1>4, <1>5
<1>8. n # 0 => script[m].op \in Enclosing
  <2>1. script[m].op \notin Enclosing => Len(script[m].body) = 0
    BY <1>1, <1>3, StmtIs
  <2> QED BY <1>4, <2>1
<1>9. n # 0 => Plain(StmtAt(script, Site))
  BY <1>1, <1>3, <1>6, <1>7, StmtIs
<1>10. n = 0 => StmtAt(script, Site) = script[m]
  BY <1>1, <1>3, <1>6, StmtIs
<1>11. StmtAt(script, Site).op \notin Enclosing => Plain(StmtAt(script, Site))
  BY <1>1, <1>3, <1>9, <1>10, StmtIs
<1>12. <<m, n>> \in SitesOf(script)
  BY <1>3, <1>4, SitesAre
<1> QED BY <1>1, <1>2, <1>3, <1>4, <1>5, <1>6, <1>8, <1>9, <1>10, <1>11, <1>12

(* An assignment to what is known is at the top level and gives the same.  *)
LEMMA SameValue ==
  ASSUME CollInv, ~Walked, NEW m, NEW n, NEW r, AtPlace(m, n, r),
         NEW s, s = StmtAt(script, Site), s.op = "set", coll.known[s.v] # None
  PROVE  n = 0 /\ Value(s) = coll.known[s.v] /\ coll.known[s.v] \in Abs \cup Lits
<1>1. s.op \notin Enclosing
  BY DEF Enclosing
<1>2. Plain(s) /\ s.v \in Vars
  BY <1>1, PlaceIs DEF Plain, WellFormed
<1>3. Writes(s)
  BY DEF Writes
<1>4. n = 0 /\ GivenBy(m, s.v) /\ s = script[m]
  <2>1. Site = <<m, n>> /\ m \in DOMAIN script /\ n \in 0 .. Len(script[m].body)
    BY PlaceIs
  <2>2. n = 0 /\ GivenBy(m, s.v)
    BY <1>2, <1>3, <2>1, OneSet
  <2> QED BY <2>2, PlaceIs
<1>5. coll \in Collectors
  BY DEF CollInv, CollTypes
<1>6. coll.known[s.v] \in Abs \cup Lits
  BY <1>2, <1>5 DEF Collectors
<1>7. CASE s.from = None
  BY <1>4, <1>6, <1>7 DEF GivenBy, Value
<1>8. CASE s.from # None
  <2>1. s.from \in Vars
    BY <1>2, <1>8 DEF Plain, SimpleStmts
  <2>2. coll.known[s.from] = coll.known[s.v] /\ coll.known[s.v] \in Abs
    BY <1>4, <1>8 DEF GivenBy
  <2>3. s.from \notin coll.tainted
    BY <2>1, <2>2 DEF CollInv, Grounded
  <2>4. EnumVar(s.from) = None
    BY <1>4 DEF EnumVar, AllowBind, AtPlace
  <2>5. Value(s) = coll.known[s.v]
    BY <1>8, <2>2, <2>3, <2>4 DEF Value, Payload, Bare
  <2> QED BY <1>4, <1>6, <2>5
<1> QED BY <1>7, <1>8

LEMMA TaintIs ==
  ASSUME coll \in Collectors, NEW v \in Vars, NEW d, d = Taint(v)
  PROVE  /\ d \in Collectors /\ d.tainted = coll.tainted \cup {v} /\ d.known[v] = None
         /\ \A u \in Vars : u # v => d.known[u] = coll.known[u]
<1>1. coll.known \in [Vars -> Abs \cup Lits \cup {None}] /\ coll.tainted \in SUBSET Vars
  BY DEF Collectors
<1>2. d.known = [coll.known EXCEPT ![v] = None] /\ d.tainted = coll.tainted \cup {v} /\ d = [known |-> d.known, tainted |-> d.tainted]
  BY DEF Taint
<1>3. d.known \in [Vars -> Abs \cup Lits \cup {None}]
  BY <1>1, <1>2
<1>4. d \in Collectors
  BY <1>1, <1>2, <1>3 DEF Collectors
<1> QED BY <1>1, <1>2, <1>4

Bind(v, val) == [coll EXCEPT !.known[v] = val]

LEMMA BindIs ==
  ASSUME coll \in Collectors, NEW v \in Vars, NEW val \in Abs \cup Lits, NEW d, d = Bind(v, val)
  PROVE  /\ d \in Collectors /\ d.tainted = coll.tainted /\ d.known[v] = val
         /\ \A u \in Vars : u # v => d.known[u] = coll.known[u]
<1>1. coll.known \in [Vars -> Abs \cup Lits \cup {None}] /\ coll.tainted \in SUBSET Vars
      /\ coll = [known |-> coll.known, tainted |-> coll.tainted]
  BY DEF Collectors
<1>2. d = [known |-> [coll.known EXCEPT ![v] = val], tainted |-> coll.tainted]
  BY <1>1 DEF Bind
<1>3. [coll.known EXCEPT ![v] = val] \in [Vars -> Abs \cup Lits \cup {None}]
  BY <1>1
<1>4. d.known = [coll.known EXCEPT ![v] = val] /\ d.tainted = coll.tainted
  BY <1>2
<1>5. d \in Collectors
  BY <1>1, <1>2, <1>3 DEF Collectors
<1> QED BY <1>1, <1>4, <1>5


(* An assignment as the collector notes it.                                *)
LEMMA NoteLearns ==
  ASSUME CollInv, Steps, NEW m, NEW n, NEW r, AtPlace(m, n, r),
         NEW s, s = StmtAt(script, Site), s.op = "set", coll' = Note(s.v, Value(s)), emitted \subseteq emitted'
  PROVE  coll' \in Collectors /\ Grows /\ Learns(m)
<1>0. ~Walked
  BY DEF Steps
<1>1. s.op \notin Enclosing /\ ~Walked
  BY DEF Enclosing, Steps
<1>2. Plain(s) /\ s.v \in Vars
  BY <1>1, PlaceIs DEF Plain, WellFormed
<1>3. CollTypes /\ coll \in Collectors /\ m \in DOMAIN script /\ m \in Nat /\ script' = script
  BY <1>1, PlaceIs DEF CollInv, CollTypes, Steps
<1>4. n = 0 => s = script[m]
  BY <1>1, PlaceIs
<1>5. ASSUME NEW v, Sets(m, v) PROVE n = 0 /\ v = s.v
  <2>1. script[m].op \notin Enclosing
    BY <1>5 DEF Sets, Enclosing
  <2>2. n # 0 => script[m].op \in Enclosing
    BY <1>0, PlaceIs
  <2> QED BY <1>4, <1>5, <2>1, <2>2 DEF Sets
<1>6. spot.next = n /\ (AllowBind <=> n = 0)
  BY DEF AtPlace, AllowBind
<1>7. ASSUME coll' = Taint(s.v), coll.known[s.v] = None
      PROVE  coll' \in Collectors /\ Grows /\ Learns(m)
  <2>1. /\ coll' \in Collectors /\ coll'.tainted = coll.tainted \cup {s.v} /\ coll'.known[s.v] = None
        /\ \A u \in Vars : u # s.v => coll'.known[u] = coll.known[u]
    BY <1>2, <1>3, <1>7, TaintIs
  <2>2. \A v \in Vars : coll.known[v] # None => v \notin coll.tainted
    BY DEF CollInv, Grounded
  <2>3. Grows
    BY <1>7, <2>1, <2>2 DEF Grows
  <2>4. Learns(m)
    BY <1>5, <2>1 DEF Learns
  <2> QED BY <2>1, <2>3, <2>4
<1>8. CASE n # 0
  <2>1. coll' = Taint(s.v)
    BY <1>6, <1>8 DEF Note
  <2>2. coll.known[s.v] = None
    BY <1>1, <1>8, SameValue
  <2> QED BY <1>7, <2>1, <2>2
<1>9. CASE n = 0 /\ s.v \in coll.tainted
  <2>1. coll' = coll
    BY <1>6, <1>9 DEF Note
  <2>2. \A v \in Vars : coll.known[v] # None => v \notin coll.tainted
    BY DEF CollInv, Grounded
  <2> QED BY <1>3, <1>5, <1>9, <2>1, <2>2 DEF Grows, Learns
<1>10. CASE n = 0 /\ s.v \notin coll.tainted /\ (Value(s) \notin Abs \cup Lits \/ coll.known[s.v] \notin {None, Value(s)})
  <2>1. coll' = Taint(s.v)
    BY <1>6, <1>10 DEF Note
  <2>2. coll.known[s.v] = None
    <3>1. coll.known[s.v] # None => Value(s) = coll.known[s.v] /\ coll.known[s.v] \in Abs \cup Lits
      BY <1>1, SameValue
    <3> QED BY <1>10, <3>1
  <2> QED BY <1>7, <2>1, <2>2
<1>11. CASE n = 0 /\ s.v \notin coll.tainted /\ Value(s) \in Abs \cup Lits /\ coll.known[s.v] \in {None, Value(s)}
  <2>1. coll' = [coll EXCEPT !.known[s.v] = Value(s)]
    BY <1>6, <1>11 DEF Note
  <2>2. /\ coll' \in Collectors /\ coll'.tainted = coll.tainted /\ coll'.known[s.v] = Value(s)
        /\ \A u \in Vars : u # s.v => coll'.known[u] = coll.known[u]
    <3>1. PICK val : val = Value(s)
      OBVIOUS
    <3>2. val \in Abs \cup Lits /\ coll' = Bind(s.v, val)
      BY <1>11, <2>1, <3>1 DEF Bind
    <3> QED BY <1>2, <1>3, <3>1, <3>2, BindIs
  <2>3. Value(s) # None
    BY <1>11, ScreenParameters
  <2>4. Grows
    <3>1. \A v \in Vars : coll.known[v] # None => v \notin coll.tainted
      BY DEF CollInv, Grounded
    <3>2. coll.known[s.v] # None => coll.known[s.v] = Value(s)
      BY <1>11
    <3> QED BY <2>2, <3>1, <3>2 DEF Grows
  <2>5. Sets(m, s.v) /\ s = script[m]
    BY <1>3, <1>4, <1>11 DEF Sets
  <2>6. ASSUME coll.known[s.v] = None PROVE GivenBy(m, s.v)'
    <3>1. CASE s.from = None
      <4>1. Value(s) = s.vals[1]
        BY <3>1 DEF Value
      <4> QED BY <1>3, <2>2, <2>5, <3>1, <4>1 DEF GivenBy
    <3>2. CASE s.from # None
      <4>1. s.from \in Vars
        BY <1>2, <3>2 DEF Plain, SimpleStmts
      <4>2. EnumVar(s.from) = None
        BY <1>6, <1>11 DEF EnumVar
      <4>3. Value(s) = Bare(s.from)
        BY <3>2, <4>2 DEF Value, Payload
      <4>4. Value(s) # Dynamic
        BY <1>11, ScreenParameters
      <4>5. coll.known[s.from] = Value(s) /\ coll.known[s.from] \in Abs
        BY <4>3, <4>4 DEF Bare
      <4>6. s.from # s.v /\ coll'.known[s.from] = Value(s)
        BY <2>2, <2>3, <2>6, <4>1, <4>5
      <4>7. PICK x \in DOMAIN script : Sets(x, s.from) /\ Passed(x)
        BY <2>3, <4>1, <4>5 DEF CollInv, Grounded
      <4>8. ~spot.again
        <5>1. spot.again => Passed(m)
          BY DEF Passed
        <5>2. Noted(m, s.v)
          BY <1>2, <1>3 DEF CollInv
        <5> QED BY <1>11, <2>5, <2>6, <5>1, <5>2 DEF Noted
      <4>9. x \in 1 .. m - 1
        <5>1. x < m
          BY <4>7, <4>8 DEF Passed, AtPlace
        <5>2. DOMAIN script = 1 .. Len(script) /\ Len(script) \in Nat
          <6>1. script \in Seq(Stmts)
            BY DEF CollInv, ScriptFits
          <6> QED BY <6>1
        <5> QED BY <1>3, <5>1, <5>2
      <4>10. Sets(x, s.from)'
        BY <1>3, <4>7, ScriptRests
      <4>11. coll'.known[s.v] \in Abs /\ coll'.known[s.from] = coll'.known[s.v]
        BY <2>2, <4>5, <4>6
      <4>12. script' = script /\ script[m].from = s.from
        BY <1>3, <2>5
      <4> HIDE DEF Sets
      <4> QED BY <3>2, <4>9, <4>10, <4>11, <4>12 DEF GivenBy
    <3> QED BY <3>1, <3>2
  <2>7. Learns(m)
    <3>1. ASSUME NEW v \in Vars, coll.known[v] = None, coll'.known[v] # None
          PROVE  spot.next = 0 /\ v \notin coll'.tainted /\ Sets(m, v) /\ GivenBy(m, v)'
      <4>1. v = s.v
        BY <2>2, <3>1
      <4> QED BY <1>6, <1>11, <2>2, <2>5, <2>6, <3>1, <4>1
    <3>2. ASSUME NEW v \in Vars, Sets(m, v) PROVE coll'.known[v] # None \/ v \in coll'.tainted
      BY <1>5, <2>2, <2>3, <3>2
    <3> QED BY <3>1, <3>2 DEF Learns
  <2> QED BY <2>2, <2>4, <2>7
<1> QED BY <1>8, <1>9, <1>10, <1>11

LEMMA RestLearns ==
  ASSUME CollInv, Steps, NEW m, NEW n, NEW r, AtPlace(m, n, r),
         NEW s, s = StmtAt(script, Site), s.op # "set", coll' = coll, emitted \subseteq emitted'
  PROVE  coll' \in Collectors /\ Grows /\ Learns(m)
<1>1. ~Walked
  BY DEF Steps
<1>2. \A v \in Vars : coll.known[v] # None => v \notin coll.tainted
  BY DEF CollInv, Grounded
<1>3. \A v : ~Sets(m, v)
  <2>1. n = 0 => s = script[m]
    BY <1>1, PlaceIs
  <2>2. n # 0 => script[m].op \in Enclosing
    BY <1>1, PlaceIs
  <2> QED BY <2>1, <2>2 DEF Sets, Enclosing
<1>4. coll \in Collectors
  BY DEF CollInv, CollTypes
<1> QED BY <1>2, <1>3, <1>4 DEF Grows, Learns

(* The word here as the guards get it: the item of the loop, the value of  *)
(* an assignment before it, or dynamic.                                    *)
LEMMA WordKnown ==
  ASSUME CollInv, ~Walked, ~spot.again, NEW m, NEW n, NEW r, AtPlace(m, n, r),
         NEW v \in Vars, NEW val, val \in {Payload(v, Bare(v)), InWord(v)}
  PROVE  \/ val = Dynamic
         \/ coll.known[v] # None /\ val = coll.known[v] /\ \E w \in 1 .. m - 1 : Sets(w, v)
         \/ n # 0 /\ Enumerates(script[m]) /\ script[m].v = v /\ val = script[m].vals[r]
<1>1. m \in DOMAIN script /\ m \in Nat /\ script \in Seq(Stmts)
  BY PlaceIs DEF CollInv, ScriptFits
<1>2. CASE EnumVar(v) # None
  <2>1. n # 0 /\ Enumerates(script[m]) /\ script[m].v = v /\ EnumVar(v) = script[m].vals[r]
    BY <1>2 DEF EnumVar, AllowBind, AtPlace
  <2>2. val = EnumVar(v)
    BY <1>2 DEF Payload, InWord
  <2> QED BY <2>1, <2>2
<1>3. CASE EnumVar(v) = None
  <2>1. val = Dynamic \/ (coll.known[v] \in Abs /\ val = coll.known[v]) \/ (coll.known[v] # None /\ val = coll.known[v])
    BY <1>3 DEF Payload, InWord, Bare
  <2>2. coll.known[v] \in Abs => coll.known[v] # None
    BY ScreenParameters
  <2>3. ASSUME coll.known[v] # None PROVE \E w \in 1 .. m - 1 : Sets(w, v)
    <3>1. PICK w \in DOMAIN script : Sets(w, v) /\ Passed(w)
      BY <2>3 DEF CollInv, Grounded
    <3>2. w < m
      BY <3>1 DEF Passed, AtPlace
    <3>3. DOMAIN script = 1 .. Len(script) /\ Len(script) \in Nat
      BY <1>1
    <3>4. w \in 1 .. m - 1
      BY <1>1, <3>2, <3>3
    <3> QED BY <3>1, <3>4
  <2> QED BY <2>1, <2>2, <2>3
<1> QED BY <1>2, <1>3

LEMMA WordHandled ==
  ASSUME CollInv, ~Walked, ~spot.again, script' = script, coll' = coll, NEW m, NEW n, NEW r, AtPlace(m, n, r),
         NEW s, s = StmtAt(script, Site), s.op \in {"head", "word"},
         NEW val, val \in {Payload(s.v, Bare(s.v)), InWord(s.v)}, <<<<m, n>>, val>> \in emitted'
  PROVE  Handled(m, n, r)'
<1>1. s.op \notin Enclosing
  BY DEF Enclosing
<1>2. Plain(s)
  BY <1>1, PlaceIs
<1>3. s.v \in Vars
  BY <1>2 DEF Plain, WellFormed
<1>4. Site = <<m, n>>
  BY DEF Site, AtPlace
<1>5. StmtAt(script, <<m, n>>)' = s
  BY <1>4, ScriptRests
<1>6. Enumerates(script[m])' <=> Enumerates(script[m])
  BY ScriptRests
<1>7. \A w : Sets(w, s.v)' <=> Sets(w, s.v)
  BY ScriptRests
<1>8. \/ val = Dynamic
      \/ coll.known[s.v] # None /\ val = coll.known[s.v] /\ \E w \in 1 .. m - 1 : Sets(w, s.v)
      \/ n # 0 /\ Enumerates(script[m]) /\ script[m].v = s.v /\ val = script[m].vals[r]
  BY <1>3, WordKnown
<1>9. CASE val = Dynamic
  BY <1>9 DEF Handled
<1>10. CASE coll.known[s.v] # None /\ val = coll.known[s.v] /\ \E w \in 1 .. m - 1 : Sets(w, s.v)
  <2>1. \E w \in 1 .. m - 1 : Sets(w, s.v)'
    BY <1>7, <1>10
  <2> QED BY <1>5, <1>10, <2>1 DEF Handled
<1>11. CASE n # 0 /\ Enumerates(script[m]) /\ script[m].v = s.v /\ val = script[m].vals[r]
  BY <1>5, <1>6, <1>11 DEF Handled
<1> QED BY <1>8, <1>9, <1>10, <1>11

LEMMA SimpleKeeps ==
  ASSUME CollInv, WalkSimple
  PROVE  CollInv'
<1> PICK m, n, r : AtPlace(m, n, r)
  BY DEF AtPlace
<1> PICK s : s = StmtAt(script, Site)
  OBVIOUS
<1>1. Steps /\ ~Walked /\ script' = script
  BY DEF WalkSimple, Steps
<1>2. s.op \notin Enclosing /\ coll' = (IF s.op = "set" THEN Note(s.v, Value(s)) ELSE coll)
  BY DEF WalkSimple
<1>3. emitted' = CASE s.op = "head" -> emitted \cup {<<Site, Payload(s.v, Bare(s.v))>>}
                   [] s.op = "word" -> emitted \cup {<<Site, InWord(s.v)>>}
                   [] OTHER         -> emitted
  BY DEF WalkSimple
<1>4. emitted \subseteq emitted'
  BY <1>3
<1>5. coll' \in Collectors /\ Grows /\ Learns(m)
  <2>1. CASE s.op = "set"
    <3>1. coll' = Note(s.v, Value(s))
      BY <1>2, <2>1
    <3> QED BY <1>1, <1>4, <2>1, <3>1, NoteLearns
  <2>2. CASE s.op # "set"
    <3>1. coll' = coll
      BY <1>2, <2>2
    <3> QED BY <1>1, <1>4, <2>2, <3>1, RestLearns
  <2> QED BY <2>1, <2>2
<1>6. ScriptFits /\ m \in DOMAIN script /\ n \in 0 .. Len(script[m].body) /\ r \in 1 .. Rounds(m) /\ Site = <<m, n>>
  BY <1>1, PlaceIs
<1>7. Handled(m, n, r)'
  <2>1. CASE spot.again
    <3>1. PassedAt(m, n, r)
      BY <2>1 DEF PassedAt, Passed
    <3>2. Handled(m, n, r)
      BY <1>6, <3>1 DEF CollInv
    <3> QED BY <1>1, <1>5, <1>6, <3>2, HandledStays
  <2>2. CASE ~spot.again /\ s.op = "head"
    <3>1. PICK val : val = Payload(s.v, Bare(s.v))
      OBVIOUS
    <3>2. coll' = coll /\ <<<<m, n>>, val>> \in emitted'
      BY <1>2, <1>3, <1>6, <2>2, <3>1
    <3> QED BY <1>1, <2>2, <3>1, <3>2, WordHandled
  <2>3. CASE ~spot.again /\ s.op = "word"
    <3>1. PICK val : val = InWord(s.v)
      OBVIOUS
    <3>2. coll' = coll /\ <<<<m, n>>, val>> \in emitted'
      BY <1>2, <1>3, <1>6, <2>3, <3>1
    <3> QED BY <1>1, <2>3, <3>1, <3>2, WordHandled
  <2>4. CASE s.op \notin {"head", "word"}
    <3>1. StmtAt(script, <<m, n>>)' = s
      BY <1>1, <1>6, ScriptRests
    <3> QED BY <2>4, <3>1 DEF Handled
  <2> QED BY <2>1, <2>2, <2>3, <2>4
<1>8. m = spot.stmt /\ n = spot.next /\ r = spot.item
  BY DEF AtPlace
<1> QED BY <1>1, <1>5, <1>7, <1>8, WalkKeeps

LEMMA IntoKeeps ==
  ASSUME CollInv, WalkInto
  PROVE  CollInv'
<1> PICK m, n, r : AtPlace(m, n, r)
  BY DEF AtPlace
<1> PICK s : s = StmtAt(script, Site)
  OBVIOUS
<1>1. Steps /\ ~Walked /\ script' = script /\ emitted' = emitted
  BY DEF WalkInto, Steps
<1>2. s.op \in Enclosing /\ coll' = (IF s.op = "for" THEN Taint(s.v) ELSE coll)
  BY DEF WalkInto
<1>0. ~Walked
  BY <1>1
<1>3. n # 0 => Plain(s)
  <2>1. n # 0 => Plain(StmtAt(script, Site)) /\ script[m].op \in Enclosing
    BY <1>0, PlaceIs
  <2> QED BY <2>1
<1>4. n = 0
  <2>1. Plain(s) => s.op \notin Enclosing
    BY DEF Plain, SimpleStmts, Enclosing
  <2> QED BY <1>2, <1>3, <2>1
<1>5. ScriptFits /\ m \in DOMAIN script /\ Site = <<m, n>> /\ Len(script[m].body) \in Nat
  BY <1>1, PlaceIs
<1>6. s = script[m]
  BY <1>1, <1>4, PlaceIs
<1>7. coll' \in Collectors /\ Grows /\ Learns(m)
  <2>1. CASE s.op = "for"
    <3>1. coll' = Taint(s.v) /\ coll \in Collectors /\ WellFormed(s)
      BY <1>2, <1>5, <1>6, <2>1, StmtIs DEF CollInv, CollTypes
    <3>2. s.v \in Vars
      BY <2>1, <3>1 DEF WellFormed
    <3>3. coll.known[s.v] = None
      <4>1. Writes(s) /\ StmtAt(script, <<m, n>>) = s
        BY <1>5, <2>1 DEF Writes
      <4>2. n \in 0 .. Len(script[m].body)
        BY <1>4, <1>5
      <4>3. coll.known[s.v] # None => Sets(m, s.v)
        BY <1>5, <3>2, <4>1, <4>2, OneSet
      <4> QED BY <1>6, <2>1, <4>3 DEF Sets
    <3>4. /\ coll' \in Collectors /\ coll'.tainted = coll.tainted \cup {s.v} /\ coll'.known[s.v] = None
          /\ \A u \in Vars : u # s.v => coll'.known[u] = coll.known[u]
      BY <3>1, <3>2, TaintIs
    <3>5. \A v \in Vars : coll.known[v] # None => v \notin coll.tainted
      BY DEF CollInv, Grounded
    <3>6. Grows
      BY <1>1, <3>3, <3>4, <3>5 DEF Grows
    <3>7. \A v : ~Sets(m, v)
      BY <1>6, <2>1 DEF Sets
    <3> QED BY <3>3, <3>4, <3>6, <3>7 DEF Learns
  <2>2. CASE s.op # "for"
    <3>1. coll' = coll /\ emitted \subseteq emitted' /\ s.op # "set"
      BY <1>1, <1>2, <2>2 DEF Enclosing
    <3> QED BY <1>1, <3>1, RestLearns
  <2> QED BY <2>1, <2>2
<1>8. Handled(m, n, r)'
  <2>1. StmtAt(script, <<m, n>>)' = s
    BY <1>1, <1>5, ScriptRests
  <2> QED BY <1>2, <2>1 DEF Handled, Enclosing
<1>9. m = spot.stmt /\ n = spot.next /\ r = spot.item
  BY DEF AtPlace
<1> QED BY <1>1, <1>7, <1>8, <1>9, WalkKeeps

(* The second walk starts where every place has been passed.               *)
LEMMA AgainKeeps ==
  ASSUME CollInv, WalkAgain
  PROVE  CollInv'
<1>1. script' = script /\ coll' = coll /\ emitted' = emitted /\ Walked /\ spot' = Spot(TRUE, 1, 1, 0)
  BY DEF WalkAgain
<1>2. ScriptFits /\ CollTypes /\ spot \in Spots /\ script \in Seq(Stmts)
  BY DEF CollInv, ScriptFits, CollTypes
<1>3. Len(script) \in Nat /\ DOMAIN script = 1 .. Len(script)
  BY <1>2
<1>4. spot' \in Spots /\ spot'.again = TRUE /\ spot'.stmt = 1 /\ spot'.item = 1 /\ spot'.next = 0
  BY <1>1 DEF Spot, Spots
<1>5. \A i \in DOMAIN script : Passed(i)
  BY <1>1, <1>2, <1>3 DEF Walked, Passed, Spots
<1>6. \A w, v : Sets(w, v)' <=> Sets(w, v)
  BY <1>1, ScriptRests
<1>7. /\ ScriptFits' /\ SsaBlocked(script)' = SsaBlocked(script) /\ \A i : Rounds(i)' = Rounds(i)
  BY <1>1, <1>2, ScriptRests
<1>8. CollTypes'
  <2>1. 1 \in DOMAIN script => Rounds(1) \in Nat /\ 1 <= Rounds(1) /\ Len(script[1].body) \in Nat
    BY <1>2, RoundsPositive, StmtIs
  <2>2. 1 \in DOMAIN script => 0 \in 0 .. Len(script[1].body) /\ 1 \in 1 .. Rounds(1)
    BY <2>1
  <2>3. spot'.stmt \in 1 .. Len(script) + 1
    BY <1>3, <1>4
  <2>4. coll' \in Collectors /\ SsaBlocked(script)' \subseteq coll'.tainted
    BY <1>1, <1>2, <1>7 DEF CollTypes
  <2> QED BY <1>1, <1>4, <1>7, <2>2, <2>3, <2>4 DEF CollTypes
<1>9. ASSUME NEW v \in Vars PROVE Grounded(v)'
  <2> SUFFICES ASSUME coll.known[v] # None
               PROVE  v \notin coll.tainted /\ \E w \in DOMAIN script : Sets(w, v)' /\ Passed(w)' /\ GivenBy(w, v)'
    BY <1>1 DEF Grounded
  <2>1. PICK w \in DOMAIN script : Sets(w, v) /\ GivenBy(w, v)
    BY DEF CollInv, Grounded
  <2>2. Passed(w)'
    BY <1>4 DEF Passed
  <2>3. Grows
    BY <1>1 DEF CollInv, Grounded, Grows
  <2>4. GivenBy(w, v)'
    BY <1>1, <2>1, <2>3, GivenStays
  <2> QED BY <1>6, <2>1, <2>2, <2>4 DEF CollInv, Grounded
<1>10. ASSUME NEW v \in Vars, NEW w \in DOMAIN script PROVE Noted(w, v)'
  <2>1. Noted(w, v) /\ Passed(w)
    BY <1>5 DEF CollInv
  <2> QED BY <1>1, <1>6, <2>1 DEF Noted
<1>11. ASSUME NEW i \in DOMAIN script, NEW j \in 0 .. Len(script[i].body), NEW k \in 1 .. Rounds(i) PROVE Handled(i, j, k)'
  <2>1. PassedAt(i, j, k)
    BY <1>5 DEF PassedAt
  <2>2. Handled(i, j, k)
    BY <2>1 DEF CollInv
  <2>3. Grows
    BY <1>1 DEF CollInv, Grounded, Grows
  <2> QED BY <1>1, <1>2, <2>2, <2>3, HandledStays
<1> QED BY <1>1, <1>7, <1>8, <1>9, <1>10, <1>11 DEF CollInv

-----------------------------------------------------------------------------
(* What the shell's statements do to its variables.                        *)
LEMMA Unknown ==
  ASSUME CollInv, NEW i \in DOMAIN script, NEW j \in 0 .. Len(script[i].body),
         NEW s, s = StmtAt(script, <<i, j>>), Writes(s), j # 0 \/ s.op # "set"
  PROVE  s.v \in Vars /\ coll.known[s.v] = None
<1>1. s.v \in Vars
  <2>1. <<i, j>> \in SitesOf(script)
    BY SitesAre
  <2>2. WellFormed(s)
    BY <2>1 DEF CollInv, ScriptFits
  <2>3. s.op \in {"set", "unset", "head", "word", "for"}
    BY DEF Writes
  <2> QED BY <2>2, <2>3 DEF WellFormed
<1>2. coll.known[s.v] # None => j = 0 /\ Sets(i, s.v)
  BY <1>1, OneSet
<1>3. j = 0 => s = script[i]
  BY DEF StmtAt
<1> QED BY <1>1, <1>2, <1>3 DEF Sets

LEMMA WriteAgrees ==
  ASSUME NEW e, NEW p, Agrees(e, p), NEW v \in Vars, coll.known[v] = None, NEW x
  PROVE  Agrees([e EXCEPT ![v] = x], p)
<1> DEFINE d == [e EXCEPT ![v] = x]
<1>1. DOMAIN e = Vars
  BY DEF Agrees
<1>2. d = [u \in Vars |-> d[u]] /\ \A u \in Vars : u # v => d[u] = e[u]
  BY <1>1
<1> HIDE DEF d
<1>3. Agrees(d, p)
  BY <1>2 DEF Agrees
<1> QED BY <1>3 DEF d

LEMMA PassAgrees ==
  ASSUME script \in Seq(Stmts), NEW i \in DOMAIN script, NEW e, Agrees(e, i - 1), script[i].op # "set"
  PROVE  Agrees(e, i)
<1>1. i \in Nat
  OBVIOUS
<1>2. ASSUME NEW v \in Vars, NEW w \in 1 .. i, Sets(w, v) PROVE w \in 1 .. i - 1
  <2>1. w # i
    BY <1>2 DEF Sets
  <2> QED BY <1>1, <2>1
<1> QED BY <1>2 DEF Agrees

LEMMA SetAgrees ==
  ASSUME CollInv, NEW i \in DOMAIN script, NEW e, Agrees(e, i - 1), script[i].op = "set"
  PROVE  Agrees(After(script[i], e), i)
<1> DEFINE s == script[i]
           val == IF s.from # None THEN e[s.from] ELSE s.vals[1]
           d == [e EXCEPT ![s.v] = val]
<1>1. ScriptFits /\ script \in Seq(Stmts) /\ Plain(s) /\ Len(s.body) \in Nat
  <2>1. s.op \notin Enclosing
    BY DEF Enclosing
  <2> QED BY <2>1, StmtIs DEF CollInv, ScriptFits
<1>2. i \in Nat
  BY <1>1
<1>3. s.v \in Vars
  BY <1>1 DEF Plain, WellFormed
<1>4. After(s, e) = d
  BY DEF After
<1>5. DOMAIN e = Vars
  BY DEF Agrees
<1>6. d = [u \in Vars |-> d[u]] /\ d[s.v] = val /\ \A u \in Vars : u # s.v => d[u] = e[u]
  BY <1>3, <1>5
<1>7. ASSUME coll.known[s.v] # None PROVE val = coll.known[s.v]
  <2>1. GivenBy(i, s.v)
    <3>1. StmtAt(script, <<i, 0>>) = s /\ Writes(s) /\ 0 \in 0 .. Len(s.body)
      BY <1>1, StmtIs DEF Writes
    <3> QED BY <1>3, <1>7, <3>1, OneSet
  <2>2. CASE s.from = None
    BY <2>1, <2>2 DEF GivenBy
  <2>3. CASE s.from # None
    <3>1. s.from \in Vars
      BY <1>1, <2>3 DEF Plain, SimpleStmts
    <3>2. coll.known[s.from] = coll.known[s.v] /\ \E x \in 1 .. i - 1 : Sets(x, s.from)
      BY <2>1, <2>3 DEF GivenBy
    <3>3. e[s.from] = coll.known[s.from]
      BY <1>7, <3>1, <3>2 DEF Agrees
    <3> QED BY <2>3, <3>2, <3>3
  <2> QED BY <2>2, <2>3
<1>8. ASSUME NEW v \in Vars, v # s.v, NEW w \in 1 .. i, Sets(w, v) PROVE w \in 1 .. i - 1
  <2>1. w # i
    BY <1>8 DEF Sets
  <2> QED BY <1>2, <2>1
<1> HIDE DEF s, d, val
<1>9. Agrees(d, i)
  <2>1. ASSUME NEW v \in Vars, coll.known[v] # None, NEW w \in 1 .. i, Sets(w, v) PROVE d[v] = coll.known[v]
    <3>1. CASE v = s.v
      BY <1>6, <1>7, <2>1, <3>1
    <3>2. CASE v # s.v
      <4>1. w \in 1 .. i - 1
        BY <1>8, <2>1, <3>2
      <4>2. e[v] = coll.known[v]
        BY <2>1, <4>1 DEF Agrees
      <4> QED BY <1>6, <3>2, <4>2
    <3> QED BY <3>1, <3>2
  <2> QED BY <1>6, <2>1 DEF Agrees
<1> QED BY <1>4, <1>9 DEF s

LEMMA TopAgrees ==
  ASSUME CollInv, NEW i \in DOMAIN script, NEW e, Agrees(e, i - 1)
  PROVE  Agrees(After(script[i], e), i)
<1> DEFINE s == script[i]
<1>1. ScriptFits /\ script \in Seq(Stmts) /\ Len(s.body) \in Nat /\ StmtAt(script, <<i, 0>>) = s /\ s \in Stmts
  BY StmtIs DEF CollInv, ScriptFits
<1>2. CASE s.op = "set"
  BY <1>2, SetAgrees
<1>3. CASE s.op \in {"unset", "for"}
  <2>1. Agrees(e, i)
    BY <1>1, <1>3, PassAgrees
  <2>2. s.v \in Vars /\ coll.known[s.v] = None
    <3>1. Writes(s) /\ 0 \in 0 .. Len(s.body)
      BY <1>1, <1>3 DEF Writes
    <3> QED BY <1>1, <1>3, <3>1, Unknown
  <2>3. PICK x : After(s, e) = [e EXCEPT ![s.v] = x] \/ After(s, e) = e
    BY <1>3 DEF After
  <2>4. Agrees([e EXCEPT ![s.v] = x], i)
    BY <2>1, <2>2, WriteAgrees
  <2> QED BY <2>1, <2>3, <2>4
<1>4. CASE s.op \notin {"set", "unset", "for"}
  <2>1. s.op # "leave"
    BY <1>1 DEF Stmts, SimpleStmts, Enclosing
  <2>2. After(s, e) = e
    BY <1>4, <2>1 DEF After
  <2> QED BY <1>1, <1>4, <2>2, PassAgrees
<1> QED BY <1>2, <1>3, <1>4

LEMMA BodyAgrees ==
  ASSUME CollInv, NEW i \in DOMAIN script, NEW j \in DOMAIN script[i].body, NEW s, s = script[i].body[j],
         NEW e, NEW p, Agrees(e, p)
  PROVE  Agrees(After(s, e), p)
<1>1. ScriptFits /\ Len(script[i].body) \in Nat /\ DOMAIN script[i].body = 1 .. Len(script[i].body)
      /\ StmtAt(script, <<i, j>>) = s /\ Plain(s)
  BY StmtIs DEF CollInv
<1>2. j \in 0 .. Len(script[i].body) /\ j # 0
  BY <1>1
<1>3. s.op \notin {"for", "leave"}
  BY <1>1 DEF Plain, SimpleStmts
<1>4. CASE s.op \in {"set", "unset"}
  <2>1. s.v \in Vars /\ coll.known[s.v] = None
    <3>1. Writes(s)
      BY <1>4 DEF Writes
    <3> QED BY <1>1, <1>2, <3>1, Unknown
  <2>2. PICK x : After(s, e) = [e EXCEPT ![s.v] = x]
    BY <1>4 DEF After
  <2> QED BY <2>1, <2>2, WriteAgrees
<1>5. CASE s.op \notin {"set", "unset"}
  BY <1>3, <1>5 DEF After
<1> QED BY <1>4, <1>5

(* The rest of a loop.                                                     *)
Rest(i, rest) == [script[i] EXCEPT !.vals = rest]

LEMMA RestIs ==
  ASSUME ScriptFits, NEW i \in DOMAIN script, script[i].op = "for", NEW rest
  PROVE  /\ Rest(i, rest).op = "for" /\ Rest(i, rest).v = script[i].v /\ Rest(i, rest).vals = rest
         /\ Rest(i, rest).body = script[i].body
         /\ \A more : [Rest(i, rest) EXCEPT !.vals = more] = Rest(i, more)
         /\ Rest(i, script[i].vals) = script[i]
<1>1. script[i] \in [op : Enclosing, v : Vars \cup {None}, vals : Seq(Values), from : {None}, body : Seq(SimpleStmts)]
  <2>1. script[i] \in Stmts
    BY StmtIs
  <2>2. script[i] \notin SimpleStmts
    BY DEF SimpleStmts
  <2> QED BY <2>1, <2>2 DEF Stmts
<1>2. script[i] = [op |-> script[i].op, v |-> script[i].v, vals |-> script[i].vals, from |-> script[i].from, body |-> script[i].body]
  BY <1>1
<1>3. \A more : Rest(i, more) = [op |-> script[i].op, v |-> script[i].v, vals |-> more, from |-> script[i].from, body |-> script[i].body]
  BY <1>2 DEF Rest
<1>4. ASSUME NEW more PROVE [Rest(i, rest) EXCEPT !.vals = more] = Rest(i, more)
  BY <1>3
<1>5. Rest(i, script[i].vals) = script[i]
  BY <1>2, <1>3
<1> QED BY <1>3, <1>4, <1>5

LEMMA LoopAgrees ==
  ASSUME CollInv, NEW i \in DOMAIN script, script[i].op = "for", NEW rest, NEW e, NEW p, Agrees(e, p)
  PROVE  Agrees(After(Rest(i, rest), e), p)
<1> DEFINE s == Rest(i, rest)
<1>1. ScriptFits /\ Len(script[i].body) \in Nat /\ StmtAt(script, <<i, 0>>) = script[i]
  BY StmtIs DEF CollInv
<1>2. s.op = "for" /\ s.v = script[i].v
  BY <1>1, RestIs
<1>3. s.v \in Vars /\ coll.known[s.v] = None
  <2>1. Writes(script[i]) /\ 0 \in 0 .. Len(script[i].body) /\ script[i].op # "set"
    BY <1>1 DEF Writes
  <2>2. script[i].v \in Vars /\ coll.known[script[i].v] = None
    BY <1>1, <2>1, Unknown
  <2> QED BY <1>2, <2>2
<1>4. PICK x : After(s, e) = [e EXCEPT ![s.v] = x] \/ After(s, e) = e
  BY <1>2 DEF After
<1> HIDE DEF s
<1>5. Agrees([e EXCEPT ![s.v] = x], p)
  BY <1>3, WriteAgrees
<1>6. Agrees(After(s, e), p)
  BY <1>4, <1>5
<1> QED BY <1>6 DEF s

-----------------------------------------------------------------------------
(* Nothing else binds the variable of a loop that is enumerated.           *)
LEMMA LoopOnly ==
  ASSUME CollInv, NEW i \in DOMAIN script, Enumerates(script[i]), NEW w \in DOMAIN script, NEW j \in DOMAIN script[w].body,
         NEW s, s = script[w].body[j], Writes(s)
  PROVE  s.v # script[i].v
<1>1. ScriptFits /\ StmtAt(script, <<i, 0>>) = script[i] /\ Len(script[i].body) \in Nat
      /\ StmtAt(script, <<w, j>>) = s /\ Len(script[w].body) \in Nat /\ DOMAIN script[w].body = 1 .. Len(script[w].body)
  BY StmtIs DEF CollInv
<1>2. j \in 0 .. Len(script[w].body) /\ j # 0 /\ 0 \in 0 .. Len(script[i].body)
  BY <1>1
<1>3. <<i, 0>> \in SitesOf(script) /\ <<w, j>> \in SitesOf(script)
  BY <1>2, SitesAre
<1>4. Writes(script[i]) /\ script[i].v \notin SsaBlocked(script) /\ script[i].op = "for"
  BY DEF Enumerates, Writes
<1>5. script[i].v \in Vars
  BY <1>1, <1>4, StmtIs DEF WellFormed
<1>6. s.v = script[i].v => <<i, 0>> = <<w, j>>
  BY <1>1, <1>3, <1>4, <1>5, OneWrite
<1>7. <<i, 0>> # <<w, j>>
  BY <1>2
<1> QED BY <1>6, <1>7

LEMMA RestRange ==
  ASSUME ScriptFits, NEW i \in DOMAIN script, NEW rest \in Seq(Range(script[i].vals)), rest # <<>>
  PROVE  Head(rest) \in Range(script[i].vals) /\ Tail(rest) \in Seq(Range(script[i].vals))
OBVIOUS

LEMMA LoopBinds ==
  ASSUME CollInv, NEW i \in DOMAIN script, script[i].op = "for", NEW rest \in Seq(Range(script[i].vals)), rest # <<>>,
         NEW e, NEW p, Agrees(e, p)
  PROVE  InLoop(After(Rest(i, rest), e), i)
<1> DEFINE s == Rest(i, rest)  v == script[i].v  x == Head(rest)
<1>1. ScriptFits /\ WellFormed(script[i])
  BY StmtIs DEF CollInv
<1>2. s.op = "for" /\ s.v = v /\ s.vals = rest
  BY <1>1, RestIs
<1>3. v \in Vars
  BY <1>1 DEF WellFormed
<1>4. x \in Range(script[i].vals)
  BY <1>1, RestRange
<1>5. After(s, e) = [e EXCEPT ![v] = x]
  BY <1>2 DEF After
<1>6. DOMAIN e = Vars
  BY DEF Agrees
<1>7. After(s, e)[v] = x
  BY <1>3, <1>5, <1>6
<1> HIDE DEF s, x
<1>8. InLoop(After(s, e), i)
  BY <1>4, <1>7 DEF InLoop
<1> QED BY <1>8 DEF s

LEMMA BodyInLoop ==
  ASSUME CollInv, NEW i \in DOMAIN script, NEW w \in DOMAIN script, NEW j \in DOMAIN script[w].body,
         NEW s, s = script[w].body[j], NEW e, NEW p, Agrees(e, p), InLoop(e, i)
  PROVE  InLoop(After(s, e), i)
<1> DEFINE v == script[i].v
<1> SUFFICES ASSUME script[i].op = "for", Enumerates(script[i]) PROVE After(s, e)[v] = e[v]
  BY DEF InLoop
<1>1. ScriptFits /\ Plain(s)
  BY StmtIs DEF CollInv
<1>2. DOMAIN e = Vars
  BY DEF Agrees
<1>3. WellFormed(script[i])
  BY <1>1, StmtIs
<1>4. v \in Vars
  BY <1>3 DEF WellFormed
<1>5. s.op \notin {"for", "leave"}
  BY <1>1 DEF Plain, SimpleStmts
<1>6. CASE s.op \in {"set", "unset"}
  <2>1. s.v # v
    BY <1>6, LoopOnly DEF Writes
  <2>2. PICK x : After(s, e) = [e EXCEPT ![s.v] = x]
    BY <1>6 DEF After
  <2> QED BY <1>2, <1>4, <2>1, <2>2
<1>7. CASE s.op \notin {"set", "unset"}
  BY <1>5, <1>7 DEF After
<1> QED BY <1>6, <1>7

(* A word that the shell expands is one that the guards have seen.         *)
LEMMA WordSeen ==
  ASSUME CollInv, Walked, NEW i \in DOMAIN script, NEW j \in 0 .. Len(script[i].body), NEW s, s = StmtAt(script, <<i, j>>),
         s.op \in {"head", "word"}, NEW e, NEW p \in Nat, i - 1 <= p, Agrees(e, p),
         j # 0 /\ script[i].op = "for" => InLoop(e, i)
  PROVE  <<<<i, j>>, e[s.v]>> \in emitted \/ <<<<i, j>>, Dynamic>> \in emitted
<1>1. ScriptFits /\ script \in Seq(Stmts) /\ spot \in Spots
  BY DEF CollInv, ScriptFits, CollTypes
<1>2. i \in Nat /\ Len(script) \in Nat /\ DOMAIN script = 1 .. Len(script)
  BY <1>1
<1>3. s.v \in Vars
  <2>1. <<i, j>> \in SitesOf(script)
    BY SitesAre
  <2> QED BY <1>1, <2>1 DEF ScriptFits, WellFormed
<1>4. Passed(i)
  BY <1>1, <1>2 DEF Walked, Passed, Spots
<1>5. \A k \in 1 .. Rounds(i) : Handled(i, j, k)
  BY <1>4 DEF CollInv, PassedAt
<1>6. ASSUME coll.known[s.v] # None, NEW w \in 1 .. i - 1, Sets(w, s.v) PROVE e[s.v] = coll.known[s.v]
  <2>1. w \in 1 .. p
    BY <1>2
  <2> QED BY <1>3, <1>6, <2>1 DEF Agrees
<1>7. PICK k \in 1 .. Rounds(i) :
        j # 0 /\ Enumerates(script[i]) /\ script[i].v = s.v => script[i].vals[k] = e[s.v]
  <2>1. CASE j # 0 /\ Enumerates(script[i]) /\ script[i].v = s.v
    <3>1. e[s.v] \in Range(script[i].vals)
      BY <2>1 DEF InLoop, Enumerates
    <3>2. PICK k \in DOMAIN script[i].vals : script[i].vals[k] = e[s.v]
      BY <3>1 DEF Range
    <3>3. script[i].vals \in Seq(Values)
      BY <1>1, StmtIs
    <3>4. k \in 1 .. Rounds(i)
      BY <2>1, <3>2, <3>3 DEF Rounds
    <3> QED BY <3>2, <3>4
  <2>2. CASE ~(j # 0 /\ Enumerates(script[i]) /\ script[i].v = s.v)
    <3>1. 1 \in 1 .. Rounds(i)
      BY <1>1, RoundsPositive
    <3> QED BY <2>2, <3>1
  <2> QED BY <2>1, <2>2
<1>8. Handled(i, j, k)
  BY <1>5
<1>9. CASE <<<<i, j>>, Dynamic>> \in emitted
  BY <1>9
<1>10. CASE coll.known[s.v] # None /\ <<<<i, j>>, coll.known[s.v]>> \in emitted /\ \E w \in 1 .. i - 1 : Sets(w, s.v)
  BY <1>6, <1>10
<1>11. CASE j # 0 /\ Enumerates(script[i]) /\ script[i].v = s.v /\ <<<<i, j>>, script[i].vals[k]>> \in emitted
  BY <1>7, <1>11
<1> QED BY <1>8, <1>9, <1>10, <1>11 DEF Handled

-----------------------------------------------------------------------------
(* What a compound leaves to run.                                          *)
Ready(t, p) == t \in Seq(Range(t)) /\ \A x \in Range(t) : Pending(x, p)

LEMMA ReadyJoins ==
  ASSUME NEW a, NEW b, NEW p, Ready(a, p), Ready(b, p)
  PROVE  Ready(a \o b, p)
<1>1. a \in Seq(Range(a) \cup Range(b)) /\ b \in Seq(Range(a) \cup Range(b))
  BY DEF Ready
<1>2. a \o b \in Seq(Range(a) \cup Range(b))
  BY <1>1
<1>3. Range(a \o b) \subseteq Range(a) \cup Range(b)
  BY <1>2 DEF Range
<1>4. a \o b \in Seq(Range(a \o b))
  BY <1>2, SeqOfRange
<1> QED BY <1>3, <1>4 DEF Ready

LEMMA NoneReady ==
  ASSUME NEW p
  PROVE  Ready(<<>>, p)
BY DEF Ready, Range

LEMMA BodyReady ==
  ASSUME ScriptFits, NEW i \in DOMAIN script, script[i].op \in Enclosing, NEW s, s.body = script[i].body
  PROVE  /\ Ready(BodyOf(s, i), i) /\ BodyOf(s, i) \in Seq(Range(BodyOf(s, i)))
         /\ \A x \in Range(BodyOf(s, i)) : InBody(x, i)
<1> DEFINE b == BodyOf(s, i)
<1>1. script[i].body \in Seq(SimpleStmts)
  BY StmtIs
<1>2. b = [j \in 1 .. Len(script[i].body) |-> [stmt |-> script[i].body[j], site |-> <<i, j>>]] /\ Len(script[i].body) \in Nat
  BY <1>1 DEF BodyOf
<1>3. \A x \in Range(b) : InBody(x, i)
  BY <1>1, <1>2 DEF Range, InBody
<1> DEFINE S == {[stmt |-> script[i].body[j], site |-> <<i, j>>] : j \in DOMAIN script[i].body}
<1>4. \A j \in DOMAIN script[i].body : [stmt |-> script[i].body[j], site |-> <<i, j>>] \in S
  OBVIOUS
<1>7. DOMAIN script[i].body = 1 .. Len(script[i].body)
  BY <1>1
<1> HIDE DEF S
<1>5. b \in Seq(S)
  BY <1>2, <1>4, <1>7
<1>6. b \in Seq(Range(b))
  BY <1>5, SeqOfRange
<1> QED BY <1>3, <1>6 DEF Ready, Pending

LEMMA OneReady ==
  ASSUME NEW x, NEW p, Pending(x, p)
  PROVE  Ready(<<x>>, p)
<1>1. Range(<<x>>) = {x}
  BY DEF Range
<1>2. <<x>> \in Seq({x})
  OBVIOUS
<1> QED BY <1>1, <1>2 DEF Ready

LEMMA FuncReady ==
  ASSUME NEW p \in Nat, NEW q \in Nat, p <= q, func \in Seq(Range(func)), \A x \in Range(func) : OfFunction(x, p)
  PROVE  Ready(func, q) /\ \A x \in Range(func) : OfFunction(x, q)
<1>1. \A i \in 1 .. p : i \in 1 .. q
  OBVIOUS
<1>2. \A x \in Range(func) : OfFunction(x, q)
  BY <1>1 DEF OfFunction
<1> QED BY <1>2 DEF Ready, Pending

LEMMA SubReady ==
  ASSUME CollInv, NEW i \in DOMAIN script, script[i].op = "sub", Agrees(env, i)
  PROVE  Ready(BodyOf(script[i], i) \o <<Leave(env)>>, i)
<1>1. Pending(Leave(env), i)
  BY DEF Pending
<1>2. Ready(<<Leave(env)>>, i)
  BY <1>1, OneReady
<1>3. Ready(BodyOf(script[i], i), i)
  BY BodyReady DEF CollInv, Enclosing
<1> QED BY <1>2, <1>3, ReadyJoins

LEMMA LoopReady ==
  ASSUME CollInv, NEW i \in DOMAIN script, script[i].op = "for", NEW rest \in Seq(Range(script[i].vals)), rest # <<>>,
         NEW s, s = Rest(i, rest)
  PROVE  Ready(BodyOf(s, i) \o <<[stmt |-> [s EXCEPT !.vals = Tail(@)], site |-> <<i, 0>>]>>, i)
<1>1. ScriptFits
  BY DEF CollInv
<1>2. s.body = script[i].body /\ s.vals = rest /\ [s EXCEPT !.vals = Tail(@)] = Rest(i, Tail(rest))
  <2>1. [s EXCEPT !.vals = Tail(@)] = [s EXCEPT !.vals = Tail(s.vals)]
    OBVIOUS
  <2>2. s.vals = rest /\ s.body = script[i].body
    BY <1>1, RestIs
  <2>3. \A more : [Rest(i, rest) EXCEPT !.vals = more] = Rest(i, more)
    BY <1>1, RestIs
  <2> QED BY <2>1, <2>2, <2>3
<1>3. Tail(rest) \in Seq(Range(script[i].vals))
  BY <1>1, RestRange
<1> DEFINE x == [stmt |-> Rest(i, Tail(rest)), site |-> <<i, 0>>]
<1>4. Pending(x, i)
  BY <1>3 DEF Pending, Rest
<1> HIDE DEF x
<1>5. Ready(<<x>>, i)
  BY <1>4, OneReady
<1>6. Ready(BodyOf(s, i), i)
  BY <1>1, <1>2, BodyReady DEF Enclosing
<1>7. Ready(BodyOf(s, i) \o <<x>>, i)
  BY <1>5, <1>6, ReadyJoins
<1> QED BY <1>2, <1>7 DEF x

LEMMA TopUnfolds ==
  ASSUME CollInv, NEW i \in DOMAIN script, Agrees(env, i - 1), Ready(func, i), NEW more \in Unfolded(script[i], <<i, 0>>)
  PROVE  Ready(more, i)
<1> DEFINE s == script[i]
<1>1. ScriptFits /\ script \in Seq(Stmts) /\ <<i, 0>>[1] = i
  BY DEF CollInv, ScriptFits
<1>2. CASE s.op = "sub"
  <2>1. more = BodyOf(s, i) \o <<Leave(env)>>
    BY <1>1, <1>2 DEF Unfolded
  <2>2. Agrees(env, i)
    BY <1>1, <1>2, PassAgrees
  <2> QED BY <1>2, <2>1, <2>2, SubReady
<1>3. CASE s.op = "block"
  <2>1. more = BodyOf(s, i)
    BY <1>1, <1>3 DEF Unfolded
  <2> QED BY <1>1, <1>3, <2>1, BodyReady DEF Enclosing
<1>4. CASE s.op = "cond"
  <2>1. more \in {<<>>, BodyOf(s, i), BodyOf(s, i) \o BodyOf(s, i)}
    BY <1>1, <1>4 DEF Unfolded
  <2>2. Ready(BodyOf(s, i), i)
    BY <1>1, <1>4, BodyReady DEF Enclosing
  <2>3. Ready(BodyOf(s, i) \o BodyOf(s, i), i)
    BY <2>2, ReadyJoins
  <2> QED BY <2>1, <2>2, <2>3, NoneReady
<1>5. CASE s.op = "for" /\ s.vals # <<>>
  <2>1. more = BodyOf(s, i) \o <<[stmt |-> [s EXCEPT !.vals = Tail(@)], site |-> <<i, 0>>]>>
    BY <1>1, <1>5 DEF Unfolded
  <2>2. s = Rest(i, s.vals) /\ s.vals \in Seq(Values)
    BY <1>1, <1>5, RestIs, StmtIs
  <2>3. s.vals \in Seq(Range(s.vals))
    BY <2>2, SeqOfRange
  <2> HIDE DEF s
  <2> QED BY <1>5, <2>1, <2>2, <2>3, LoopReady DEF s
<1>6. CASE s.op = "call"
  <2>1. more = func
    BY <1>6 DEF Unfolded
  <2> QED BY <2>1
<1>7. CASE s.op \notin {"sub", "block", "cond", "call"} /\ ~(s.op = "for" /\ s.vals # <<>>)
  <2>1. more = <<>>
    BY <1>7 DEF Unfolded
  <2> QED BY <2>1, NoneReady
<1> QED BY <1>2, <1>3, <1>4, <1>5, <1>6, <1>7

LEMMA BodyUnfolds ==
  ASSUME NEW s, Plain(s), NEW site, NEW more \in Unfolded(s, site)
  PROVE  more \in {<<>>, func} /\ s.op # "func"
<1>1. s.op \notin {"sub", "block", "cond", "for", "func"}
  BY DEF Plain, SimpleStmts
<1> QED BY <1>1 DEF Unfolded

-----------------------------------------------------------------------------
(* What a statement of the shell leaves: its variables, its place, what is *)
(* left to run and the function; and the word that it expands.             *)
Leaves(s, site, more, rest, p, f) ==
  /\ Running(After(s, env), p, more \o rest, f)
  /\ s.op \in {"head", "word"} => <<site, env[s.v]>> \in emitted \/ <<site, Dynamic>> \in emitted

LEMMA TopRuns ==
  ASSUME ScreenInv, Walked, todo = <<>>, place < Len(script), NEW i, i = place + 1, NEW s, s = script[i],
         NEW more \in Unfolded(s, <<i, 0>>), NEW f, f = IF s.op = "func" THEN BodyOf(s, i) ELSE func
  PROVE  Leaves(s, <<i, 0>>, more, <<>>, i, f)
<1>1. CollInv /\ ScriptFits /\ script \in Seq(Stmts) /\ Running(env, place, todo, func)
  BY DEF ScreenInv, CollInv, ScriptFits, RunInv
<1>2. Len(script) \in Nat /\ DOMAIN script = 1 .. Len(script) /\ place \in Nat
  BY <1>1 DEF Running
<1>3. i \in DOMAIN script /\ i - 1 = place /\ i \in 0 .. Len(script) /\ i # 0 /\ i \in Nat /\ place <= i
  BY <1>2
<1>4. Agrees(env, i - 1) /\ func \in Seq(Range(func)) /\ \A x \in Range(func) : OfFunction(x, place)
  BY <1>1, <1>3 DEF Running
<1>5. Ready(func, i) /\ \A x \in Range(func) : OfFunction(x, i)
  BY <1>2, <1>3, <1>4, FuncReady
<1>6. Ready(more, i)
  BY <1>1, <1>3, <1>4, <1>5, TopUnfolds
<1>7. Ready(more \o <<>>, i)
  BY <1>6, NoneReady, ReadyJoins
<1>8. Agrees(After(s, env), i)
  BY <1>1, <1>3, <1>4, TopAgrees
<1>9. InLoop(After(s, env), i)
  <2> SUFFICES ASSUME s.op = "for", Enumerates(s) PROVE InLoop(After(s, env), i)
    BY DEF InLoop
  <2>1. s = Rest(i, s.vals) /\ s.vals \in Seq(Values) /\ s.vals # <<>>
    BY <1>1, <1>3, RestIs, StmtIs DEF Enumerates
  <2>2. s.vals \in Seq(Range(s.vals))
    BY <2>1, SeqOfRange
  <2> QED BY <1>1, <1>3, <1>4, <2>1, <2>2, LoopBinds
<1>10. f \in Seq(Range(f)) /\ \A x \in Range(f) : OfFunction(x, i)
  <2>1. CASE s.op = "func"
    <3>1. f = BodyOf(s, i) /\ s.op \in Enclosing
      BY <2>1 DEF Enclosing
    <3>2. f \in Seq(Range(f)) /\ \A x \in Range(f) : InBody(x, i)
      BY <1>1, <1>3, <3>1, BodyReady
    <3>3. i \in 1 .. i
      BY <1>2, <1>3
    <3> QED BY <2>1, <3>2, <3>3 DEF OfFunction
  <2>2. CASE s.op # "func"
    BY <1>4, <1>5, <2>2
  <2> QED BY <2>1, <2>2
<1>11. ASSUME s.op \in {"head", "word"} PROVE <<<<i, 0>>, env[s.v]>> \in emitted \/ <<<<i, 0>>, Dynamic>> \in emitted
  <2>1. StmtAt(script, <<i, 0>>) = s /\ Len(script[i].body) \in Nat
    BY <1>1, <1>3, StmtIs
  <2>2. 0 \in 0 .. Len(script[i].body)
    BY <2>1
  <2>3. Agrees(env, place) /\ i - 1 <= place
    BY <1>2, <1>3, <1>4
  <2> QED BY <1>1, <1>2, <1>3, <1>11, <2>1, <2>2, <2>3, WordSeen
<1>12. Running(After(s, env), i, more \o <<>>, f)
  BY <1>3, <1>7, <1>8, <1>9, <1>10 DEF Running, Ready
<1> QED BY <1>11, <1>12 DEF Leaves

(* The next of what is left to run, by where it is from.                   *)
LEMMA NextRuns ==
  ASSUME ScreenInv, Walked, todo # <<>>, NEW x, x = Head(todo), NEW s, s = x.stmt, NEW site, site = x.site,
         NEW more \in Unfolded(s, site)
  PROVE  Leaves(s, site, more, Tail(todo), place, func) /\ s.op # "func"
<1> DEFINE p == place
<1>1. CollInv /\ ScriptFits /\ script \in Seq(Stmts) /\ Running(env, p, todo, func)
  BY DEF ScreenInv, CollInv, ScriptFits, RunInv
<1>2. Len(script) \in Nat /\ DOMAIN script = 1 .. Len(script) /\ p \in Nat /\ p # 0 /\ p \in DOMAIN script /\ p \in 0 .. Len(script)
  BY <1>1 DEF Running
<1>3. /\ Agrees(env, p) /\ InLoop(env, p) /\ func \in Seq(Range(func)) /\ (\A y \in Range(func) : OfFunction(y, p))
      /\ todo \in Seq(Range(todo)) /\ \A y \in Range(todo) : Pending(y, p)
  BY <1>1 DEF Running
<1>4. Pending(x, p) /\ Ready(Tail(todo), p)
  <2>1. Head(todo) \in Range(todo) /\ Tail(todo) \in Seq(Range(todo))
    BY <1>3
  <2>2. Range(Tail(todo)) \subseteq Range(todo)
    BY <2>1 DEF Range
  <2>3. Tail(todo) \in Seq(Range(Tail(todo)))
    BY <2>1, SeqOfRange
  <2> QED BY <1>3, <2>1, <2>2, <2>3 DEF Ready
<1>5. Ready(func, p)
  BY <1>2, <1>3, FuncReady
<1>6. ASSUME Agrees(After(s, env), p), InLoop(After(s, env), p), Ready(more, p)
      PROVE  Running(After(s, env), p, more \o Tail(todo), func)
  <2>1. Ready(more \o Tail(todo), p)
    BY <1>4, <1>6, ReadyJoins
  <2>2. p > 0 => Walked
    OBVIOUS
  <2> QED BY <1>2, <1>3, <1>6, <2>1, <2>2 DEF Running, Ready
<1>7. ASSUME NEW i \in 1 .. p, InBody(x, i), i = p \/ script[i].op = "func"
      PROVE  Leaves(s, site, more, Tail(todo), p, func) /\ s.op # "func"
  <2>1. i \in DOMAIN script
    BY <1>7 DEF InBody
  <2>2. PICK j \in DOMAIN script[i].body : s = script[i].body[j] /\ site = <<i, j>>
    BY <1>7 DEF InBody
  <2>3. Plain(s) /\ StmtAt(script, <<i, j>>) = s /\ Len(script[i].body) \in Nat /\ DOMAIN script[i].body = 1 .. Len(script[i].body)
    BY <1>1, <2>1, <2>2, StmtIs
  <2>4. more \in {<<>>, func} /\ s.op # "func"
    BY <2>3, BodyUnfolds
  <2>5. Ready(more, p)
    BY <1>5, <2>4, NoneReady
  <2>6. Agrees(After(s, env), p)
    BY <1>1, <1>3, <2>1, <2>2, BodyAgrees
  <2>7. InLoop(After(s, env), p)
    BY <1>1, <1>2, <1>3, <2>1, <2>2, BodyInLoop
  <2>8. ASSUME s.op \in {"head", "word"} PROVE <<site, env[s.v]>> \in emitted \/ <<site, Dynamic>> \in emitted
    <3>1. j \in 0 .. Len(script[i].body) /\ i - 1 <= p
      BY <1>2, <2>3
    <3>2. script[i].op = "for" => InLoop(env, i)
      BY <1>3, <1>7
    <3>3. <<<<i, j>>, env[s.v]>> \in emitted \/ <<<<i, j>>, Dynamic>> \in emitted
      BY <1>1, <1>2, <1>3, <2>1, <2>3, <2>8, <3>1, <3>2, WordSeen
    <3> QED BY <2>2, <3>3
  <2> QED BY <1>6, <2>4, <2>5, <2>6, <2>7, <2>8 DEF Leaves
<1>8. CASE script[p].op \in Enclosing /\ InBody(x, p)
  BY <1>2, <1>7, <1>8
<1>9. CASE OfFunction(x, p)
  BY <1>7, <1>9 DEF OfFunction
<1>10. CASE script[p].op = "sub" /\ \E saved : x = Leave(saved) /\ Agrees(saved, p)
  <2>1. PICK saved : x = Leave(saved) /\ Agrees(saved, p)
    BY <1>10
  <2>2. s.op = "leave" /\ s.vals = saved
    BY <2>1 DEF Leave
  <2>3. After(s, env) = saved /\ more = <<>>
    BY <2>2 DEF After, Unfolded
  <2>4. InLoop(saved, p)
    BY <1>10 DEF InLoop
  <2>5. Running(After(s, env), p, more \o Tail(todo), func)
    BY <1>6, <2>1, <2>3, <2>4, NoneReady
  <2> QED BY <2>2, <2>5 DEF Leaves
<1>11. CASE script[p].op = "for" /\ \E rest \in Seq(Range(script[p].vals)) : x = [stmt |-> [script[p] EXCEPT !.vals = rest], site |-> <<p, 0>>]
  <2>1. PICK rest \in Seq(Range(script[p].vals)) : s = Rest(p, rest) /\ site = <<p, 0>>
    BY <1>11 DEF Rest
  <2>2. s.op = "for" /\ s.vals = rest
    BY <1>1, <1>2, <1>11, <2>1, RestIs
  <2>3. Agrees(After(s, env), p)
    BY <1>1, <1>2, <1>3, <1>11, <2>1, LoopAgrees
  <2>4. CASE rest = <<>>
    <3>1. After(s, env) = env /\ more = <<>>
      BY <2>2, <2>4 DEF After, Unfolded
    <3>2. Running(After(s, env), p, more \o Tail(todo), func)
      BY <1>3, <1>6, <2>3, <3>1, NoneReady
    <3> QED BY <2>2, <3>2 DEF Leaves
  <2>5. CASE rest # <<>>
    <3>1. InLoop(After(s, env), p)
      BY <1>1, <1>2, <1>3, <1>11, <2>1, <2>5, LoopBinds
    <3>2. more = BodyOf(s, p) \o <<[stmt |-> [s EXCEPT !.vals = Tail(@)], site |-> <<p, 0>>]>>
      <4>1. site[1] = p
        BY <2>1
      <4> QED BY <2>1, <2>2, <2>5, <4>1 DEF Unfolded
    <3>3. Ready(more, p)
      BY <1>1, <1>2, <1>11, <2>1, <2>5, <3>2, LoopReady
    <3>4. Running(After(s, env), p, more \o Tail(todo), func)
      BY <1>6, <2>3, <3>1, <3>3
    <3> QED BY <2>2, <3>4 DEF Leaves
  <2> QED BY <2>4, <2>5
<1> QED BY <1>4, <1>8, <1>9, <1>10, <1>11 DEF Pending

(* Nothing of the collector's changes while the shell runs.                *)
LEMMA CollRests ==
  ASSUME CollInv, UNCHANGED <<script, coll, spot, emitted>>
  PROVE  CollInv'
<1>1. script' = script /\ coll' = coll /\ spot' = spot /\ emitted' = emitted
  OBVIOUS
<1>2. \A i \in DOMAIN script : \A j, k : Handled(i, j, k)' <=> Handled(i, j, k)
  BY <1>1 DEF Handled, Sets, StmtAt, Enumerates, SsaBlocked, SitesOf, Writes
<1>3. \A i, j, k : PassedAt(i, j, k)' <=> PassedAt(i, j, k)
  BY <1>1 DEF PassedAt, Passed
<1>4. \A v : (Grounded(v)' <=> Grounded(v)) /\ \A w : Noted(w, v)' <=> Noted(w, v)
  BY <1>1 DEF Grounded, Noted, GivenBy, Sets, Passed
<1>5. ScriptFits' /\ \A i : Rounds(i)' = Rounds(i)
  BY <1>1, ScriptRests DEF CollInv
<1>6. CollTypes'
  BY <1>1, <1>5, ScriptRests DEF CollInv, CollTypes, Walked
<1> QED BY <1>1, <1>2, <1>3, <1>4, <1>5, <1>6 DEF CollInv

LEMMA RunGoes ==
  ASSUME UNCHANGED <<script, coll, spot, emitted>>, NEW e, e = env', NEW p, p = place', NEW t, t = todo', NEW f, f = func',
         Running(e, p, t, f)
  PROVE  RunInv'
<1>1. script' = script /\ coll' = coll /\ spot' = spot
  OBVIOUS
<1>2. \A i : InBody(i, p)' <=> InBody(i, p)
  BY <1>1 DEF InBody
<1>3. \A d : Agrees(d, p)' <=> Agrees(d, p)
  BY <1>1 DEF Agrees, Sets
<1>4. \A x : OfFunction(x, p)' <=> OfFunction(x, p)
  BY <1>1 DEF OfFunction, InBody
<1>5. \A x : Pending(x, p)' <=> Pending(x, p)
  BY <1>1, <1>2, <1>3, <1>4 DEF Pending
<1>6. \A d : InLoop(d, p)' <=> InLoop(d, p)
  BY <1>1, ScriptRests DEF InLoop
<1>7. Walked' <=> Walked
  BY <1>1 DEF Walked
<1>8. \A d, u, g : Running(d, p, u, g) => Running(d, p, u, g)'
  BY <1>1, <1>3, <1>4, <1>5, <1>6, <1>7 DEF Running
<1> QED BY <1>8 DEF RunInv

LEMMA StmtRuns ==
  ASSUME ScreenInv, UNCHANGED <<script, coll, spot, emitted>>, NEW s, NEW site, NEW rest, NEW p, p = place', Runs(s, site, rest),
         s.op = "func" => site[1] = p,
         \A more \in Unfolded(s, site) : Leaves(s, site, more, rest, p, IF s.op = "func" THEN BodyOf(s, p) ELSE func)
  PROVE  ScreenInv'
<1>1. PICK more \in Unfolded(s, site) : todo' = more \o rest
  BY DEF Runs
<1>2. env' = After(s, env) /\ func' = (IF s.op = "func" THEN BodyOf(s, p) ELSE func)
      /\ last' = (IF s.op \in {"head", "word"} THEN [site |-> site, val |-> env[s.v]] ELSE last)
  BY DEF Runs
<1>3. PICK e, t, f : e = env' /\ t = todo' /\ f = func'
  OBVIOUS
<1>4. Leaves(s, site, more, rest, p, f)
  BY <1>2, <1>3
<1>5. Running(e, p, t, f)
  BY <1>1, <1>2, <1>3, <1>4 DEF Leaves
<1>6. RunInv'
  BY <1>3, <1>5, RunGoes
<1>7. EveryWordIsScreened'
  <2>1. emitted' = emitted /\ EveryWordIsScreened
    BY DEF ScreenInv
  <2>2. CASE s.op \in {"head", "word"}
    <3>1. <<site, env[s.v]>> \in emitted \/ <<site, Dynamic>> \in emitted
      BY <1>4, <2>2 DEF Leaves
    <3>2. last'.site = site /\ last'.val = env[s.v]
      BY <1>2, <2>2
    <3> QED BY <2>1, <3>1, <3>2 DEF EveryWordIsScreened
  <2>3. CASE s.op \notin {"head", "word"}
    BY <1>2, <2>1, <2>3 DEF EveryWordIsScreened
  <2> QED BY <2>2, <2>3
<1>8. CollInv'
  BY CollRests DEF ScreenInv
<1> QED BY <1>6, <1>7, <1>8 DEF ScreenInv

LEMMA ShellRuns ==
  ASSUME ScreenInv, RunStmt
  PROVE  ScreenInv'
<1>1. Walked /\ UNCHANGED <<script, coll, spot, emitted>>
  BY DEF RunStmt
<1>2. CASE todo = <<>> /\ place < Len(script) /\ place' = place + 1 /\ Runs(script[place'], <<place', 0>>, <<>>)
  <2>1. PICK i, s : i = place + 1 /\ i = place' /\ s = script[i]
    BY <1>2
  <2>2. Runs(s, <<i, 0>>, <<>>) /\ <<i, 0>>[1] = i
    BY <1>2, <2>1
  <2>3. ASSUME NEW more \in Unfolded(s, <<i, 0>>)
        PROVE  Leaves(s, <<i, 0>>, more, <<>>, i, IF s.op = "func" THEN BodyOf(s, i) ELSE func)
    BY <1>1, <1>2, <2>1, TopRuns
  <2> QED BY <1>1, <2>1, <2>2, <2>3, StmtRuns
<1>3. CASE todo # <<>> /\ place' = place /\ Runs(Head(todo).stmt, Head(todo).site, Tail(todo))
  <2>1. PICK x, s, site, p, rest : x = Head(todo) /\ s = x.stmt /\ site = x.site /\ p = place' /\ rest = Tail(todo)
    OBVIOUS
  <2>2. Runs(s, site, rest)
    BY <1>3, <2>1
  <2>3. ASSUME NEW more \in Unfolded(s, site)
        PROVE  Leaves(s, site, more, rest, p, func) /\ s.op # "func"
    BY <1>1, <1>3, <2>1, <2>3, NextRuns
  <2>4. s.op # "func"
    <3>1. PICK more \in Unfolded(s, site) : TRUE
      BY <2>2 DEF Runs
    <3> QED BY <2>3
  <2>5. \A more \in Unfolded(s, site) : Leaves(s, site, more, rest, p, IF s.op = "func" THEN BodyOf(s, p) ELSE func)
    BY <2>3, <2>4
  <2> QED BY <1>1, <2>1, <2>2, <2>4, <2>5, StmtRuns
<1> QED BY <1>2, <1>3 DEF RunStmt

(* While the collector walks, the shell has not begun.                     *)
LEMMA WalkRuns ==
  ASSUME RunInv, EveryWordIsScreened, place = 0, script' = script, emitted \subseteq emitted',
         UNCHANGED <<env, place, todo, func, last>>
  PROVE  RunInv' /\ EveryWordIsScreened'
<1>1. env' = env /\ place' = 0 /\ todo' = todo /\ func' = func /\ last' = last
  OBVIOUS
<1>2. Running(env, 0, todo, func)
  BY DEF RunInv
<1>3. todo = <<>> /\ 0 \in 0 .. Len(script) /\ env = [v \in Vars |-> env[v]] /\ func \in Seq(Range(func)) /\ todo \in Seq(Range(todo))
  BY <1>2 DEF Running, Agrees
<1>4. Range(func) = {}
  BY <1>2 DEF Running, OfFunction
<1>5. Range(todo) = {}
  BY <1>3 DEF Range
<1>6. RunInv'
  <2>1. Agrees(env, place)'
    BY <1>1, <1>3 DEF Agrees
  <2> QED BY <1>1, <1>3, <1>4, <1>5, <2>1 DEF RunInv, Running
<1>7. EveryWordIsScreened'
  BY <1>1 DEF EveryWordIsScreened
<1> QED BY <1>6, <1>7

LEMMA ScreenStarts ==
  ASSUME ShellInit
  PROVE  ScreenInv
<1>1. /\ script \in Scripts /\ coll = NewCollector(script) /\ spot = Spot(FALSE, 1, 1, 0) /\ emitted = {}
      /\ env = [v \in Vars |-> "inherited"] /\ place = 0 /\ todo = <<>> /\ func = <<>> /\ last = NoWord
  BY DEF ShellInit
<1>2. ScriptFits /\ script \in Seq(Stmts)
  BY <1>1, ScreenParameters DEF ScriptFits
<1>3. Len(script) \in Nat /\ DOMAIN script = 1 .. Len(script)
  BY <1>2
<1>4. coll.known = [v \in Vars |-> None] /\ coll.tainted = SsaBlocked(script) /\ coll = [known |-> coll.known, tainted |-> coll.tainted]
  BY <1>1 DEF NewCollector
<1>5. coll \in Collectors
  <2>1. coll.known \in [Vars -> Abs \cup Lits \cup {None}] /\ coll.tainted \in SUBSET Vars
    BY <1>4 DEF SsaBlocked
  <2> QED BY <1>4, <2>1 DEF Collectors
<1>6. spot \in Spots /\ spot.again = FALSE /\ spot.stmt = 1 /\ spot.item = 1 /\ spot.next = 0
  BY <1>1 DEF Spot, Spots
<1>7. CollTypes
  <2>1. 1 \in DOMAIN script => Rounds(1) \in Nat /\ 1 <= Rounds(1) /\ Len(script[1].body) \in Nat
    BY <1>2, RoundsPositive, StmtIs
  <2>2. 1 \in DOMAIN script => 0 \in 0 .. Len(script[1].body) /\ 1 \in 1 .. Rounds(1)
    BY <2>1
  <2>3. spot.stmt \in 1 .. Len(script) + 1
    BY <1>3, <1>6
  <2> QED BY <1>4, <1>5, <1>6, <2>2, <2>3 DEF CollTypes
<1>8. \A i \in DOMAIN script : ~Passed(i)
  BY <1>3, <1>6 DEF Passed
<1>9. ASSUME NEW i \in DOMAIN script, NEW j \in 0 .. Len(script[i].body), NEW k \in 1 .. Rounds(i) PROVE ~PassedAt(i, j, k)
  <2>1. Rounds(i) \in Nat /\ Len(script[i].body) \in Nat
    BY <1>2, RoundsPositive, StmtIs
  <2>2. ~(k < 1) /\ ~(j < 0)
    BY <2>1
  <2> QED BY <1>6, <1>8, <2>2 DEF PassedAt
<1>10. CollInv
  BY <1>2, <1>4, <1>7, <1>8, <1>9 DEF CollInv, Grounded, Noted
<1>11. RunInv
  <2>1. Range(<<>>) = {}
    BY DEF Range
  <2>2. 0 \in 0 .. Len(script) /\ <<>> \in Seq(Range(<<>>))
    BY <1>3
  <2>3. Agrees(env, 0)
    BY <1>1 DEF Agrees
  <2> QED BY <1>1, <2>1, <2>2, <2>3 DEF RunInv, Running
<1> QED BY <1>1, <1>10, <1>11 DEF ScreenInv, EveryWordIsScreened

(* The screen's invariant is inductive: what the collector knows of a      *)
(* variable is its only assignment's value, every word it has passed is    *)
(* with the guards, and the shell's variables are what the collector knows *)
(* from their assignment on (collectStaticAssigns, walkStmt).              *)
THEOREM ScreenInductive ==
  /\ ShellInit => ScreenInv
  /\ ScreenInv /\ [ShellNext]_shellVars => ScreenInv'
<1>1. ShellInit => ScreenInv
  BY ScreenStarts
<1>2. ASSUME ScreenInv, [ShellNext]_shellVars PROVE ScreenInv'
  <2>1. CollInv /\ RunInv /\ EveryWordIsScreened
    BY <1>2 DEF ScreenInv
  <2>2. ~Walked => place = 0
    BY <2>1 DEF RunInv, Running
  <2>3. CASE WalkSimple
    <3>1. CollInv'
      BY <2>1, <2>3, SimpleKeeps
    <3>2. place = 0 /\ script' = script /\ emitted \subseteq emitted' /\ UNCHANGED <<env, place, todo, func, last>>
      BY <2>2, <2>3 DEF WalkSimple
    <3> QED BY <2>1, <3>1, <3>2, WalkRuns DEF ScreenInv
  <2>4. CASE WalkInto
    <3>1. CollInv'
      BY <2>1, <2>4, IntoKeeps
    <3>2. place = 0 /\ script' = script /\ emitted \subseteq emitted' /\ UNCHANGED <<env, place, todo, func, last>>
      BY <2>2, <2>4 DEF WalkInto
    <3> QED BY <2>1, <3>1, <3>2, WalkRuns DEF ScreenInv
  <2>5. CASE WalkAgain
    <3>1. CollInv'
      BY <2>1, <2>5, AgainKeeps
    <3>2. place = 0 /\ script' = script /\ emitted \subseteq emitted' /\ UNCHANGED <<env, place, todo, func, last>>
      BY <2>5 DEF WalkAgain
    <3> QED BY <2>1, <3>1, <3>2, WalkRuns DEF ScreenInv
  <2>6. CASE RunStmt
    BY <1>2, <2>6, ShellRuns
  <2>7. CASE UNCHANGED shellVars
    <3>1. UNCHANGED <<script, coll, spot, emitted>> /\ UNCHANGED <<env, place, todo, func, last>>
      BY <2>7 DEF shellVars
    <3>2. CollInv'
      BY <2>1, <3>1, CollRests
    <3>3. PICK e, p, t, f : e = env' /\ p = place' /\ t = todo' /\ f = func'
      OBVIOUS
    <3>4. Running(e, p, t, f)
      BY <2>1, <3>1, <3>3 DEF RunInv
    <3>5. RunInv'
      BY <3>1, <3>3, <3>4, RunGoes
    <3>6. EveryWordIsScreened'
      BY <2>1, <3>1 DEF EveryWordIsScreened
    <3> QED BY <3>2, <3>5, <3>6 DEF ScreenInv
  <2> QED BY <1>2, <2>3, <2>4, <2>5, <2>6, <2>7 DEF ShellNext, ShellEnded
<1> QED BY <1>1, <1>2

(* Whenever the shell expands a word, the guards have seen the command     *)
(* with just that value or with the word as dynamic: for every script and  *)
(* every run of it.                                                        *)
THEOREM WordsAlwaysScreened == ShellSpec => []EveryWordIsScreened
<1>1. ShellInit => ScreenInv
  BY ScreenInductive
<1>2. ScreenInv /\ [ShellNext]_shellVars => ScreenInv'
  BY ScreenInductive
<1>3. ScreenInv => EveryWordIsScreened
  BY DEF ScreenInv
<1> QED BY <1>1, <1>2, <1>3, PTL DEF ShellSpec
===============================================================================
