------------------------------- MODULE ShellFeed -------------------------------
(***************************************************************************)
(* Where a command's standard input comes from (feedThrough, stmtFeed and  *)
(* applyRedirs of shell_ast.go).  The collector replays every redirection  *)
(* of a statement, and of the compounds around it, on a table of origins   *)
(* by descriptor; the kernel's table of the same descriptors is beside it. *)
(* A step is one redirection, or the way into a compound's pipeline or     *)
(* into a function's body.                                                 *)
(***************************************************************************)
EXTENDS Naturals, FiniteSets

CONSTANTS
  Fds,       \* descriptors, 0 and 1 among them
  MaxRedirs  \* bound: redirections on the way to the command

VARIABLES
  origins,  \* the collector: what is known of each descriptor
  vetted,   \* not inside the body of a function
  table,    \* the kernel: what each descriptor is
  redirs    \* redirections so far, which also number the here-documents

feedVars == <<origins, vetted, table, redirs>>

(* piped: bytes from a pipeline, or unknown ones; file: a file, a foreign  *)
(* or a closed descriptor; bodies, here: the texts it may deliver.         *)
NoFeed == [piped |-> FALSE, file |-> FALSE, bodies |-> {}, here |-> 0]

Piped == [NoFeed EXCEPT !.piped = TRUE]

FileFed == [NoFeed EXCEPT !.file = TRUE]

(* What a descriptor of the kernel delivers, and whether it was opened     *)
(* through a path that stands for another one.                             *)
Stream(kind, id) == [kind |-> kind, id |-> id, byName |-> FALSE]

Doc(i) == Stream("doc", i)

Here(i) == Stream("here", i)

Pipe == Stream("pipe", 0)

Other == Stream("other", 0)  \* a file, a terminal, closed

ByName(real) == [real EXCEPT !.byName = TRUE]

FeedInit ==
  /\ \E piped \in BOOLEAN :
       /\ origins = [n \in {0} |-> IF piped THEN Piped ELSE NoFeed]
       /\ table = [n \in Fds |-> IF n = 0 /\ piped THEN Pipe ELSE Other]
  /\ vetted = TRUE /\ redirs = 0

-----------------------------------------------------------------------------
(* One redirection, in both tables.  The Go map has an entry for what the  *)
(* collector has seen.                                                     *)
Seen(m) == m \in DOMAIN origins

Known(n) == IF Seen(n) THEN origins[n] ELSE NoFeed

Bound(n, o, known) == [m \in {n} \cup DOMAIN known |-> IF m = n THEN o ELSE known[m]]

Rebound(n, o, real) ==
  /\ origins' = Bound(n, o, origins)
  /\ table' = [table EXCEPT ![n] = real]

HereDoc(n) ==
  Rebound(n, [NoFeed EXCEPT !.bodies = Known(n).bodies \cup {redirs'}], Doc(redirs'))

HereString(n) == Rebound(n, [NoFeed EXCEPT !.here = redirs'], Here(redirs'))

(* /dev/stdin, /dev/fd/N and /proc/self/fd/N are whatever that descriptor  *)
(* is.                                                                     *)
Reopened == {Other} \cup {ByName(table[m]) : m \in Fds}

(* The collector does not look at the word: <(...) and the paths of other  *)
(* descriptors are files to it.                                            *)
FromFile(n) == \E real \in Reopened \cup {ByName(Pipe)} : Rebound(n, FileFed, real)

(* An output goes to descriptor 1 unless it names another.                 *)
ToFile(n) ==
  \E real \in Reopened :
    IF n = 0 THEN Rebound(n, FileFed, real)
    ELSE table' = [table EXCEPT ![n] = real] /\ UNCHANGED origins

CopiedAsFile(m) == IF Seen(m) /\ m = 0 THEN origins[m] ELSE FileFed

(* n<&m and n>&m *)
Copied(m) == IF Seen(m) THEN origins[m] ELSE IF vetted THEN FileFed ELSE Piped

Dup(n, m) == Rebound(n, Copied(m), table[m])

(* n<&m- closes m after the copy. *)
Move(n, m) ==
  /\ n # m
  /\ origins' = Bound(n, Copied(m), Bound(m, FileFed, origins))
  /\ table' = [table EXCEPT ![n] = table[m], ![m] = Other]

Close(n) == Rebound(n, FileFed, Other)

(* n<&$(...): any descriptor. *)
DupUnknown(n) == \E m \in Fds : Rebound(n, Piped, table[m])

Redirect ==
  /\ redirs < MaxRedirs /\ redirs' = redirs + 1 /\ UNCHANGED vetted
  /\ \E n \in Fds :
       \/ HereDoc(n) \/ HereString(n) \/ FromFile(n) \/ ToFile(n) \/ Close(n) \/ DupUnknown(n)
       \/ \E m \in Fds : Dup(n, m) \/ Move(n, m)

(* The right side of a pipeline inside the compound. *)
PipelineRight ==
  /\ Rebound(0, Piped, Pipe) /\ UNCHANGED <<vetted, redirs>>

(* The body of a function runs with the descriptors of its call.           *)
FunctionBody ==
  /\ vetted /\ vetted' = FALSE /\ UNCHANGED redirs
  /\ origins' = [n \in {0} |-> Piped]
  /\ table' \in [Fds -> {Pipe, Other}]

FeedNext == Redirect \/ PipelineRight \/ FunctionBody

FeedSpec == FeedInit /\ [][FeedNext]_feedVars

-----------------------------------------------------------------------------
(* What stands in the segment about standard input is what the command     *)
(* will read: unknown bytes, or the very text of a here-document, which    *)
(* the guards then read as the program of an interpreter.  Claimed unless  *)
(* it was opened by the path of a descriptor or by <(...), or copied from  *)
(* one that was, whose word the code does not look at                      *)
(* (shell_ast.go:2071); a later redirection of it is claimed again.        *)
StdinIsTracked ==
  LET o == origins[0]
      real == table[0]
  IN \/ real.byName
     \/ o.piped /\ ~o.file
     \/ real = Other
     \/ real.kind = "doc" /\ real.id \in o.bodies
     \/ real.kind = "here" /\ real.id = o.here
=============================================================================
