------------------------------- MODULE RgCapture -------------------------------
(***************************************************************************)
(* What ctx_fs action=rg returns of one search (toolRg, rgSystemBounded    *)
(* and rgGoBudget of fs_tools.go, limitedBuffer of executor.go, groups,    *)
(* slices and summary of fs_rg_summary.go and fs_rg_rank.go): rg writes    *)
(* lines into a buffer that keeps the newest bytes, or the Go engine finds *)
(* them when there is no rg or it fails; the lines kept become groups by   *)
(* file, dirty files first, and a call returns them all, the first with    *)
(* their context, a page of matches, or a summary of what it has indexed,  *)
(* cut at the size of a response.  Every call, also for a further page, is *)
(* a search of its own.                                                    *)
(*                                                                         *)
(* A line is two cells wide, the path and the rest with its newline.       *)
(***************************************************************************)
EXTENDS Naturals, Sequences, SequencesExt, FiniteSetsExt

CONSTANTS
  RgFiles,     \* files with matches, numbered from 1 in the order of this search
  MaxLines,    \* bound: lines that rg writes
  BufCells,    \* limitedBuffer.limit, in cells
  FetchLimit,  \* matches that are kept
  Limit,       \* matches of a page
  MaxShown,    \* lines of a response, fsRgMaxOutputBytes
  MaxText,     \* bound: lines of a file
  MaxFiles     \* files that a summary lists

VARIABLES
  output,   \* the lines rg has for this search
  sent,     \* cells written so far
  buf,      \* limitedBuffer.buf, cells by number
  cut,      \* limitedBuffer.truncated
  capture,  \* the lines kept, once rg has ended
  text,     \* what the Go engine reads, file by file
  ended,    \* how the search has ended
  modified  \* the files git calls dirty

captureVars == <<output, sent, buf, cut, capture, text, ended, modified>>

Torn == 0  \* the file of a half-line

Running == <<[file |-> Torn, kind |-> "none"]>>

(* A secret is a match that checkSensitiveContent refuses.                 *)
LineKinds == {"match", "secret", "context", "sep"}

IsMatch(l) == l.kind \in {"match", "secret"}

Lines == [file : RgFiles, kind : LineKinds]

Unread == [f \in RgFiles |-> <<>>]

FileTexts == [RgFiles -> BoundedSeq({"hit", "plain", "long"}, MaxText)]

(* by: which engine, or an error; broken: rg has failed after some output. *)
Ending(by, truncated, budget, broken) ==
  [by |-> by, truncated |-> truncated, budget |-> budget, broken |-> broken]

Searching == Ending("rg", FALSE, FALSE, FALSE)

(* rg prints the files one by one, in any order: they are numbered by it.  *)
InOrder(s) == \A i, j \in DOMAIN s : i < j => s[i].file <= s[j].file

CaptureInit ==
  /\ output \in {s \in BoundedSeq(Lines, MaxLines) : InOrder(s)}
  /\ sent = 0 /\ buf = <<>> /\ cut = FALSE
  /\ capture = Running /\ text = Unread /\ ended = Searching
  /\ modified \in SUBSET RgFiles

-----------------------------------------------------------------------------
(* limitedBuffer.Write: the newest BufCells cells stay.                    *)
Kept(p) ==
  IF Len(buf) + Len(p) <= BufCells THEN buf \o p
  ELSE IF Len(p) >= BufCells THEN SubSeq(p, Len(p) - BufCells + 1, Len(p))
  ELSE SubSeq(buf, Len(buf) + Len(p) - BufCells + 1, Len(buf)) \o p

(* rg is line-buffered under a time budget; without one it writes what     *)
(* fills its own buffer.                                                   *)
RgWrites ==
  /\ capture = Running /\ ended = Searching
  /\ \E n \in 1 .. 2 * Len(output) - sent :
       LET p == [i \in 1 .. n |-> sent + i]
       IN /\ sent' = sent + n
          /\ buf' = Kept(p)
          /\ cut' = (cut \/ Len(buf) + n > BufCells)
  /\ UNCHANGED <<output, capture, text, ended, modified>>

(* strings.Split of the buffer at the newlines: cell 2i ends line i.  Of a *)
(* half-line there is no telling what it parses as.                        *)
LineNo(c) == (c + 1) \div 2

Whole(i) == 2 * i - 1 \in ToSet(buf) /\ 2 * i \in ToSet(buf)

BufferLines == IF buf = <<>> THEN <<>>
               ELSE [i \in 1 .. LineNo(Last(buf)) - LineNo(Head(buf)) + 1 |-> LineNo(Head(buf)) + i - 1]

EndsInNewline == buf # <<>> /\ Last(buf) % 2 = 0

(* The trailing half-line of a truncated buffer is dropped.                *)
Split == IF cut /\ ~EndsInNewline /\ BufferLines # <<>> THEN Front(BufferLines) ELSE BufferLines

Parsed(i, rest) == IF Whole(i) THEN output[i] ELSE [file |-> Torn, kind |-> rest]

Hits(s) == Len(SelectSeq(s, IsMatch))

HitsBefore(s, i) == Hits(SubSeq(s, 1, i - 1))

(* The loop ends at the match that is one too many.                        *)
UpTo(s, limit) ==
  LET over == {i \in DOMAIN s : IsMatch(s[i]) /\ HitsBefore(s, i) >= limit}
  IN IF over = {} THEN s ELSE SubSeq(s, 1, Min(over) - 1)

Keeps(budget, broken) ==
  /\ \E rest \in LineKinds :
       capture' = UpTo([i \in DOMAIN Split |-> Parsed(Split[i], rest)], FetchLimit)
  /\ ended' = Ending("rg", cut \/ budget \/ Hits(capture') >= FetchLimit, budget, broken)
  /\ UNCHANGED <<output, sent, buf, cut, text, modified>>

RgRuns == capture = Running /\ ended = Searching

RgFinishes == RgRuns /\ sent = 2 * Len(output) /\ Keeps(FALSE, FALSE)

(* rgBudgetKilled: the time of the search is over. *)
RgKilled == RgRuns /\ Keeps(TRUE, FALSE)

(* An exit code above 1, or another signal: what has been written counts,  *)
(* and without any the Go engine takes over.  What rg would have written   *)
(* no longer matters.                                                      *)
RgBreaks ==
  /\ RgRuns
  /\ \/ buf # <<>> /\ Keeps(FALSE, TRUE)
     \/ /\ buf = <<>> /\ output' = <<>> /\ ended' = Ending("go", FALSE, FALSE, FALSE)
        /\ UNCHANGED <<sent, buf, cut, capture, text, modified>>

(* The request is cancelled, or rg fails when the budget is used up.       *)
SearchFails ==
  /\ capture = Running /\ capture' = <<>> /\ output' = <<>>
  /\ ended' = Ending("error", FALSE, FALSE, FALSE)
  /\ UNCHANGED <<sent, buf, cut, text, modified>>

-----------------------------------------------------------------------------
(* rgGoBudget: a match is preceded by the lines before it and followed by  *)
(* those after it, Context of each; a line that is too long is skipped.    *)
Context == 1

Tail1(s) == IF Len(s) > Context THEN Tail(s) ELSE s

LinesOf(t, files) ==
  FlattenSeq([f \in 1 .. files |-> [i \in DOMAIN t[f] |-> [file |-> f, kind |-> t[f][i], first |-> i = 1]]])

GoLine(acc, l) ==
  LET ring == IF l.first THEN <<>> ELSE acc.ring
      after == IF l.first THEN 0 ELSE acc.after
      kept == Tail1(Append(ring, [file |-> l.file, kind |-> "context"]))
      found == acc.out \o ring \o <<[file |-> l.file, kind |-> "match"]>>
  IN IF acc.stopped THEN acc
     ELSE
     CASE l.kind = "long"    -> [acc EXCEPT !.truncated = TRUE, !.ring = <<>>, !.after = after]
       [] l.kind = "hit"     ->
            LET full == Hits(found) >= FetchLimit \/ 2 * Len(found) > BufCells
            IN [out |-> found, ring |-> kept, after |-> Context,
                truncated |-> acc.truncated \/ full, stopped |-> full]
       [] OTHER              ->
            [acc EXCEPT !.ring = kept,
                        !.after = IF after > 0 THEN after - 1 ELSE 0,
                        !.out = IF after > 0 THEN Append(@, [file |-> l.file, kind |-> "context"]) ELSE @]

(* The budget may be over before any file, and after the last.             *)
GoSearch ==
  /\ capture = Running /\ (ended.by = "go" \/ (sent = 0 /\ output = <<>>))
  /\ text' \in FileTexts
  /\ \E files \in 0 .. Cardinality(RgFiles) : \E budget \in BOOLEAN :
       LET acc == FoldLeft(GoLine, [out |-> <<>>, ring |-> <<>>, after |-> 0, truncated |-> FALSE, stopped |-> FALSE],
                           LinesOf(text', files))
       IN /\ files < Cardinality(RgFiles) => budget
          /\ capture' = acc.out
          /\ ended' = Ending("go", acc.truncated \/ budget, budget, FALSE)
  /\ UNCHANGED <<output, sent, buf, cut, modified>>

CaptureEnded == capture # Running /\ UNCHANGED captureVars

CaptureNext ==
  RgWrites \/ RgFinishes \/ RgKilled \/ RgBreaks \/ SearchFails \/ GoSearch \/ CaptureEnded

CaptureSpec == CaptureInit /\ [][CaptureNext]_captureVars

-----------------------------------------------------------------------------
(* groupRgLines: a match opens a group unless the last one is of its file; *)
(* any other line goes to the last group, whatever its file.               *)
Group(file) == [file |-> file, lines |-> <<>>, hits |-> 0]

Grouped(s) ==
  LET Put(gs, l) ==
        LET hit == IsMatch(l)
            open == gs = <<>> \/ (hit /\ Last(gs).file # l.file)
            now == IF open THEN Append(gs, Group(l.file)) ELSE gs
            g == Last(now)
        IN Front(now) \o <<[g EXCEPT !.lines = Append(@, l), !.hits = IF hit THEN @ + 1 ELSE @]>>
  IN FoldLeft(Put, <<>>, s)

(* rankGroups: a stable sort, dirty files first.                           *)
DirtyFirst(gs) ==
  SelectSeq(gs, LAMBDA g : g.file \in modified) \o SelectSeq(gs, LAMBDA g : g.file \notin modified)

Groups == DirtyFirst(Grouped(capture))

MatchLines(gs) == SelectSeq(FlattenSeq([i \in DOMAIN gs |-> gs[i].lines]), IsMatch)

(* sliceMatchLines *)
PageFromNext(gs, offset) ==
  LET ms == MatchLines(gs) IN SubSeq(ms, offset + 2, offset + Limit)

Page(gs, offset) ==
  LET ms == MatchLines(gs)
  IN IF offset >= Len(ms) THEN <<>>
     ELSE SubSeq(ms, offset + 1, IF offset + Limit > Len(ms) THEN Len(ms) ELSE offset + Limit)

(* sliceGroupsWithContext: whole groups while they fit, then the lines of  *)
(* one up to the match that is one too many or the separator before it.    *)
CutGroup(s, left) ==
  LET over == {i \in DOMAIN s : HitsBefore(s, i) = left /\ s[i].kind # "context"}
  IN IF over = {} THEN s ELSE SubSeq(s, 1, Min(over) - 1)

FirstScreen(gs) ==
  LET Take(acc, g) ==
        IF acc.left = 0 \/ g.hits = 0 THEN acc
        ELSE IF g.hits <= acc.left THEN [lines |-> acc.lines \o g.lines, left |-> acc.left - g.hits]
        ELSE [lines |-> acc.lines \o CutGroup(g.lines, acc.left), left |-> 0]
  IN FoldLeft(Take, [lines |-> <<>>, left |-> Limit], gs).lines

-----------------------------------------------------------------------------
(* toolRg: what a call with this offset returns, and whether it says that  *)
(* there is more.  A direct answer and what is indexed are withheld when   *)
(* the content check refuses them.                                         *)
Total == Hits(capture)

Truncated == ended.truncated \/ Total >= FetchLimit

AllLines(gs) == FlattenSeq([i \in DOMAIN gs |-> gs[i].lines])

(* rgRenderResult cuts the text at the size of a response, and says so; of *)
(* a line that is cut nothing counts as shown.                             *)
Withheld(lines) == \E i \in DOMAIN lines : lines[i].kind = "secret"

Checked(lines, answer) ==
  IF Withheld(lines) THEN [lines |-> <<>>, stored |-> <<>>, told |-> TRUE] ELSE answer

Shown(lines, told) ==
  Checked(lines, [lines |-> SubSeq(lines, 1, IF Len(lines) > MaxShown THEN MaxShown ELSE Len(lines)),
                  stored |-> <<>>, told |-> told \/ Len(lines) > MaxShown])

Indexed(lines) == Checked(lines, [lines |-> <<>>, stored |-> lines, told |-> Truncated])

Answer(gs, offset, indexing) ==
  IF offset > 0 THEN Shown(Page(gs, offset), offset + Limit < Total \/ Truncated)
  ELSE IF Total <= Limit THEN Shown(AllLines(gs), Truncated)
  ELSE IF indexing THEN Indexed(AllLines(gs))
  ELSE Shown(FirstScreen(gs), TRUE)

(* renderRgSummary: dirty files, then those with more matches; the first   *)
(* matches of the first files.                                             *)
Before(g, h) ==
  IF (g.file \in modified) # (h.file \in modified) THEN g.file \in modified ELSE g.hits > h.hits

Placed(acc, g) ==
  LET k == Len(SelectSeq(acc, LAMBDA h : ~Before(g, h))) IN SubSeq(acc, 1, k) \o <<g>> \o SubSeq(acc, k + 1, Len(acc))

Summary(gs) ==
  LET sorted == FoldLeft(Placed, <<>>, SelectSeq(gs, LAMBDA g : g.hits > 0))
  IN [files |-> SubSeq(sorted, 1, Min({MaxFiles, Len(sorted)})), more |-> Len(sorted) - Min({MaxFiles, Len(sorted)})]

-----------------------------------------------------------------------------
(* A search that finds the same for every page: the first screen and the  *)
(* pages, when none of them is cut or withheld, show every match that was  *)
(* kept, each once and in the same order, whatever groups the context      *)
(* lines, the separators and the ranking make of them; a summary lists no  *)
(* file twice.                                                             *)
EachOnce(gs) ==
  LET all == MatchLines(gs)
      pages == FlattenSeq([k \in 1 .. FetchLimit |-> Page(gs, k * Limit)])
      files == Summary(gs).files
  IN /\ SelectSeq(FirstScreen(gs), IsMatch) \o pages = all
     /\ \A f \in RgFiles :
          SelectSeq(all, LAMBDA l : l.file = f)
            = SelectSeq(capture, LAMBDA l : IsMatch(l) /\ l.file = f)
     /\ \A i, j \in DOMAIN files : i # j => files[i].file # files[j].file

(* The matches that there are. *)
AllMatches ==
  IF ended.by = "go"
  THEN Len(SelectSeq(LinesOf(text, Cardinality(RgFiles)), LAMBDA l : l.kind = "hit"))
  ELSE Hits(output)

FromOffset(n, offset) == IF n > offset THEN n - offset ELSE 0

(* An answer that does not call itself truncated has every match there is, *)
(* from its offset on, or has indexed them all; a rg that fails after some *)
(* output is taken for one that has ended.                                 *)
SaysWhenMore(gs) ==
  ended.by # "error" /\ ~ended.broken =>
    \A offset \in 0 .. FetchLimit, indexing \in BOOLEAN :
      LET answer == Answer(gs, offset, indexing)
      IN ~answer.told =>
           \/ Hits(answer.lines) = FromOffset(AllMatches, offset) /\ AllMatches <= offset + Limit
           \/ Hits(answer.stored) = AllMatches

(* The same search, run again for the next page, may print the files in    *)
(* another order (rg is run without --sort) and git may call others dirty: *)
(* then a page may show again what another has shown, or the pages miss a  *)
(* match; but a search that was not truncated has as many matches again,   *)
(* so whoever follows the pages to the last has been shown as many lines.  *)
InTurn(s, turn) == FlattenSeq([k \in DOMAIN turn |-> SelectSeq(s, LAMBDA l : l.file = turn[k])])

Turns == {turn \in [1 .. Cardinality(RgFiles) -> RgFiles] : ToSet(turn) = RgFiles}

AsManyAgain(gs) ==
  ended.by = "rg" /\ ~ended.broken /\ ~Truncated =>
    \A turn \in Turns, k \in 1 .. FetchLimit :
      Len(Page(DirtyFirst(Grouped(InTurn(output, turn))), k * Limit)) = Len(Page(gs, k * Limit))

(* What the pages of a search promise (toolRg). *)
PagesPartition == capture # Running => EachOnce(Groups) /\ SaysWhenMore(Groups) /\ AsManyAgain(Groups)
=============================================================================
