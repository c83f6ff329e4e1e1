-------------------------------- MODULE RingLog --------------------------------
(***************************************************************************)
(* The log of a background job (limitedFileWriter, readBackgroundLogTail   *)
(* and the log's part of finishBackground in executor.go).  A file of at   *)
(* most LogLimit bytes is written as a ring while the job runs; at its end *)
(* compact makes it linear, and readers then read the end of the file      *)
(* itself.  Bytes are numbered as they are written.                        *)
(***************************************************************************)
EXTENDS Integers, Sequences, SequencesExt, FiniteSets

CONSTANTS
  LogLimit,   \* limitedFileWriter.limit
  MaxBytes,   \* bound: bytes the job writes
  Seconds,    \* bytes that are the second of a rune
  Newlines,   \* bytes that are the end of a line
  LineCounts, \* what readers ask for: tail_lines
  ByteCounts, \* and tail_bytes, 0 if they do not say
  MaxRead     \* what is read from the end of a file for a number of lines

ASSUME LogParameters ==
  /\ LogLimit \in Nat \ {0} /\ MaxBytes \in Nat /\ MaxRead \in Nat \ {0}
  /\ LineCounts \subseteq Nat \ {0} /\ ByteCounts \subseteq Nat
  /\ Seconds \subseteq Nat \ {0, 1} /\ Newlines \subseteq Nat \ {0}
  /\ \A s \in Seconds : s \notin Newlines /\ s - 1 \notin Newlines /\ s + 1 \notin Seconds

VARIABLES
  ring,    \* pos, filled, truncated and the file of limitedFileWriter; broken: a write of it failed
  end,     \* how far the end of the job has come
  total,   \* bytes written
  saved,   \* the bytes that compact has in memory
  reader   \* the last caller of readBackgroundLogTail

logVars == <<ring, end, saved, total, reader>>

NewRing == [file |-> <<>>, pos |-> 0, filled |-> 0, truncated |-> FALSE, broken |-> FALSE]

(* live: the log was live when it was read.  sure: it was, or had settled  *)
(* before.  torn: the window does not hold all of the log.                 *)
NoReader == [pc |-> "idle", lines |-> 0, bytes |-> 0, size |-> 0, upto |-> 0, window |-> 0,
             live |-> FALSE, sure |-> FALSE, torn |-> FALSE, got |-> <<>>]

LogInit == ring = NewRing /\ end = "live" /\ saved = <<>> /\ total = 0 /\ reader = NoReader

-----------------------------------------------------------------------------
(* A byte, or the first of two of which the second is there, begins a rune *)
(* (dropLeadingPartialRune) and ends one (trimTrailingPartialRune).        *)
RuneBegins(s, i) == s[i] \notin Seconds /\ (s[i] + 1 \in Seconds => i < Len(s) /\ s[i + 1] = s[i] + 1)

RuneEnds(s, i) == s[i] + 1 \notin Seconds /\ (s[i] \in Seconds => i > 1 /\ s[i - 1] = s[i] - 1)

DropLeading(s) ==
  LET starts == {i \in DOMAIN s : RuneBegins(s, i)}
  IN IF starts = {} THEN <<>> ELSE SubSeq(s, Min(starts), Len(s))

DropTrailing(s) == SubSeq(s, 1, Max({0} \cup {i \in DOMAIN s : RuneEnds(s, i)}))

(* Write goes on at the beginning when it is at the limit, and cuts what   *)
(* does not fit into chunks.  A chunk is a step: it might as well have been *)
(* written by itself.                                                      *)
Start(r) == IF r.pos >= LogLimit THEN 0 ELSE r.pos

WithChunk(r, n) ==
  LET at == Start(r)
      size == IF at + n > Len(r.file) THEN at + n ELSE Len(r.file)
  IN [file |-> [k \in 1 .. size |-> IF k \in at + 1 .. at + n THEN total + k - at ELSE r.file[k]],
      pos |-> at + n,
      filled |-> IF r.filled + n < LogLimit THEN r.filled + n ELSE LogLimit,
      truncated |-> r.truncated \/ r.pos >= LogLimit \/ r.filled = LogLimit,
      broken |-> r.broken]

Write ==
  /\ end = "live" /\ ~ring.broken
  /\ \E n \in 1 .. LogLimit - Start(ring) :
       /\ total + n <= MaxBytes /\ total' = total + n
       /\ ring' = WithChunk(ring, n)
  /\ UNCHANGED <<end, saved, reader>>

(* The disk may be full: a part of the chunk is there, pos stays, and what *)
(* the job writes from then on is lost.                                    *)
WriteFails ==
  /\ end = "live" /\ ~ring.broken
  /\ \E n \in 0 .. LogLimit - Start(ring) - 1 :
       ring' = [ring EXCEPT !.file = WithChunk(ring, n).file, !.pos = Start(ring),
                            !.truncated = @ \/ ring.pos >= LogLimit, !.broken = TRUE]
  /\ UNCHANGED <<end, saved, total, reader>>

LogicalUnwrapped(r) == DropLeading(SubSeq(r.file, 1, r.filled))

(* logicalBytes: of a full ring, from pos to the limit and then up to pos. *)
Logical(r) ==
  DropLeading(IF ~r.truncated \/ r.filled < LogLimit THEN SubSeq(r.file, 1, r.filled)
              ELSE SubSeq(r.file, r.pos + 1, LogLimit) \o SubSeq(r.file, 1, r.pos))

(* finishBackground: after its first critical section readers no longer    *)
(* find the writer; compact takes the logical bytes, empties the file and  *)
(* writes them again; after the second critical section it is settled.     *)
TakeHandles ==
  /\ end = "live" /\ end' = "taken"
  /\ saved' = Logical(ring)
  /\ UNCHANGED <<ring, total, reader>>

Truncate ==
  /\ end = "taken" /\ end' = "emptied"
  /\ ring' = [ring EXCEPT !.file = <<>>]
  /\ UNCHANGED <<saved, total, reader>>

(* The log cannot be read or emptied, or not all is written; finishBackground *)
(* does not look at the error.                                             *)
CompactFails ==
  /\ end = "taken" /\ end' = "written"
  /\ ring' = [ring EXCEPT !.broken = TRUE]
  /\ UNCHANGED <<saved, total, reader>>

WriteBack ==
  /\ end = "emptied" /\ end' = "written"
  /\ \/ ring' = [ring EXCEPT !.file = saved, !.pos = Len(saved), !.filled = Len(saved)]
     \/ \E n \in 0 .. Len(saved) : n < Len(saved) /\ ring' = [ring EXCEPT !.file = SubSeq(saved, 1, n), !.broken = TRUE]
  /\ UNCHANGED <<saved, total, reader>>

Settle == end = "written" /\ end' = "settled" /\ UNCHANGED <<ring, saved, total, reader>>

-----------------------------------------------------------------------------
(* trimBgLogTail.  A line that the beginning of the file was cut from is   *)
(* left out up to its end, also when nothing comes after it; of a window   *)
(* of bytes only when something does.                                      *)
Breaks(s) == {i \in DOMAIN s : s[i] \in Newlines}

From(s, i) == SubSeq(s, i, Len(s))

NextLine(s) == IF Breaks(s) = {} THEN s ELSE From(s, Min(Breaks(s)) + 1)

LastBytes(s, n) ==
  IF n = 0 \/ Len(s) <= n THEN s
  ELSE LET t == From(s, Len(s) - n + 1) IN IF Breaks(t) = {Len(t)} THEN t ELSE NextLine(t)

(* The text is split at the ends of its lines and joined: the last goes.   *)
WithoutEnd(s) == IF s # <<>> /\ s[Len(s)] \in Newlines THEN SubSeq(s, 1, Len(s) - 1) ELSE s

LastLines(s, n) ==
  LET t == WithoutEnd(s)
      starts == {i \in 1 .. Len(t) + 1 : /\ i = 1 \/ i - 1 \in Breaks(t)
                                         /\ Cardinality({j \in Breaks(t) : j >= i}) < n}
  IN From(t, Min(starts))

TrimmedTail(data, lines, bytes, torn) ==
  DropTrailing(DropLeading(LastLines(LastBytes(IF torn THEN NextLine(data) ELSE data, bytes), lines)))

(* readBackgroundLogTail.  The live bytes are read under the writer's lock *)
(* and the registry's; the file, also when they cannot be read, is         *)
(* measured first and then read.                                           *)
ReadLive ==
  /\ end = "live"
  /\ \E lines \in LineCounts, bytes \in ByteCounts :
       reader' = [NoReader EXCEPT !.pc = "read", !.lines = lines, !.bytes = bytes, !.upto = total,
                    !.window = IF bytes > 0 THEN bytes ELSE LogLimit, !.live = TRUE, !.sure = TRUE,
                    !.torn = bytes > 0 /\ Len(Logical(ring)) > bytes,
                    !.got = TrimmedTail(Logical(ring), lines, bytes, FALSE)]
  /\ UNCHANGED <<ring, end, saved, total>>

Measure ==
  /\ reader.pc # "stat"
  /\ \E lines \in LineCounts, bytes \in ByteCounts :
       reader' = [NoReader EXCEPT !.pc = "stat", !.lines = lines, !.bytes = bytes, !.size = Len(ring.file),
                    !.window = IF bytes > 0 THEN bytes ELSE MaxRead, !.sure = end = "settled"]
  /\ UNCHANGED <<ring, end, saved, total>>

FromStart(size, most) == 0

Offset(size, most) == IF size > most THEN size - most ELSE 0

ReadFile ==
  LET at == Offset(reader.size, reader.window)
      to == IF reader.size < Len(ring.file) THEN reader.size ELSE Len(ring.file)
  IN /\ reader.pc = "stat"
     /\ reader' = [reader EXCEPT !.pc = "read", !.upto = total, !.torn = at > 0,
                      !.got = TrimmedTail(SubSeq(ring.file, at + 1, to), reader.lines, reader.bytes, at > 0)]
     /\ UNCHANGED <<ring, end, saved, total>>

LogEnded == end = "settled" /\ UNCHANGED logVars

LogNext ==
  Write \/ WriteFails \/ TakeHandles \/ Truncate \/ CompactFails \/ WriteBack \/ Settle
    \/ ReadLive \/ Measure \/ ReadFile \/ LogEnded

LogSpec == LogInit /\ [][LogNext]_logVars

-----------------------------------------------------------------------------
Bytes(a, b) == [i \in 1 .. b + 1 - a |-> a + i - 1]

(* The first of the newest bytes, of those that the log keeps; the last    *)
(* that is shown, without the end of the last line or half a rune.         *)
Oldest(n) ==
  LET most == IF n < LogLimit THEN n ELSE LogLimit
  IN IF total <= most THEN 1 ELSE total - most + 1

Final == IF total \in Newlines \/ total + 1 \in Seconds THEN total - 1 ELSE total

(* It begins at a line, or, if it is not torn or has no end of a line,     *)
(* with the first whole rune of the window.                                *)
Begun(first, lo) ==
  \/ first - 1 \in Newlines
  \/ /\ first = lo \/ (first = lo + 1 /\ lo \in Seconds)
     /\ reader.torn => \A k \in lo .. Final : k \notin Newlines

(* Who reads the log of a running job, or of one that is settled, is shown *)
(* its newest bytes in the order they were written, down to the last whole *)
(* rune, unless a write of the log has failed: as many lines as asked for, *)
(* or every line that begins in the window, which is what the log keeps    *)
(* and the read asks for.  Nothing is shown only if nothing is there, or   *)
(* if the window of a settled log is the end of one line                   *)
(* (executor.go:599).                                                      *)
TailIsNewest ==
  reader.pc = "read" /\ reader.sure /\ reader.upto = total /\ ~ring.broken =>
    LET lo == Oldest(reader.window)
        breaks(first) == Cardinality({k \in first .. Final : k \in Newlines})
    IN \E first \in lo .. Final + 1 :
         /\ reader.got = Bytes(first, Final)
         /\ Begun(first, lo) \/ (first > Final /\ ((reader.torn /\ ~reader.live) \/ Final <= lo))
         /\ breaks(first) < reader.lines
         /\ breaks(first) = reader.lines - 1 \/ \A k \in lo + 1 .. Final : k - 1 \in Newlines => first <= k
=============================================================================
