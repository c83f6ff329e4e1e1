------------------------------- MODULE Migration -------------------------------
(***************************************************************************)
(* The start of a server over a workspace that still has the JSON database *)
(* of an older version (main, migrateFromJSONOrWarn and migrateFromJSON of *)
(* main.go, NewStore and Index of store.go).  A start migrates the old     *)
(* documents one by one and then sets the file aside; whatever goes wrong  *)
(* is a warning and the server serves.  It may crash at any point.         *)
(***************************************************************************)
EXTENDS Naturals, FiniteSets

CONSTANTS
  OldDocs,   \* the documents of the old file
  NewDocs,   \* what tools index while the server serves
  MaxStarts  \* bound: starts of the server

VARIABLES
  doc,     \* what each old document is like
  file,    \* the old file: "old", or "bak" when it is set aside
  db,      \* documents in SQLite, which survive
  server,  \* how far the server has come
  todo,    \* old documents the loop has not come to
  handled, \* old documents some start has migrated or found unfit
  starts   \* starts so far

migrationVars == <<doc, file, db, server, todo, handled, starts>>

(* What can be said against a path, in the order of migratedDocPathValid;  *)
(* an "inside" one resolves to a file of a workdir that is not sensitive.  *)
Paths == {"malformed", "relative", "dotdot", "dangling", "outside", "sensitive", "inside"}

MigrationInit ==
  /\ doc \in [OldDocs -> [damaged : BOOLEAN, path : Paths, secret : BOOLEAN]]
  /\ \E d \in OldDocs : doc[d] = [damaged |-> FALSE, path |-> "inside", secret |-> FALSE]
  /\ file = "old" /\ db = {} /\ server = "down"
  /\ todo = {} /\ handled = {} /\ starts = 0

-----------------------------------------------------------------------------
(* main: the store is opened, with its tables and triggers, or the process *)
(* ends.                                                                   *)
Start ==
  /\ server = "down" /\ starts < MaxStarts /\ starts' = starts + 1
  /\ server' \in {"opened", "down"}
  /\ UNCHANGED <<doc, file, db, todo, handled>>

Serve == server' = "serving" /\ todo' = {} /\ UNCHANGED <<doc, db, starts>>

(* There is no old file, or it cannot be looked at, opened, read or parsed,*)
(* or is too large, or the store cannot be asked for its size.             *)
NotMigrated ==
  /\ server = "opened" /\ Serve /\ UNCHANGED <<file, handled>>

Rename(taken) ==
  /\ file = "old"
  /\ \/ file' = "bak"
     \/ UNCHANGED file
  /\ taken /\ Serve /\ UNCHANGED handled

(* The store has documents: "Already migrated; just backup the old file."  *)
SetAside ==
  /\ server = "opened" /\ Rename(db # {})

LoopBegins ==
  /\ server = "opened" /\ file = "old" /\ db = {}
  /\ server' = "loop" /\ todo' = OldDocs
  /\ UNCHANGED <<doc, file, db, handled, starts>>

(* migratedDocPathValid; the store refuses what looks like a secret.       *)
Fit(d) == ~doc[d].damaged /\ doc[d].path = "inside" /\ ~doc[d].secret

(* In the order of a Go map.  The store may fail for other reasons too,    *)
(* which is logged and forgotten as well.                                  *)
Migrate(d) ==
  /\ server = "loop" /\ d \in todo /\ todo' = todo \ {d}
  /\ \/ db' = IF Fit(d) THEN db \cup {d} ELSE db
     \/ db' = db
  /\ handled' = handled \cup {d}
  /\ UNCHANGED <<doc, file, server, starts>>

LoopEnds == server = "loop" /\ todo = {} /\ Rename(TRUE)

-----------------------------------------------------------------------------
(* While it serves, and in a run of "ctxmode index". *)
ToolIndexes ==
  /\ server = "serving" /\ \E d \in NewDocs : db' = db \cup {d}
  /\ UNCHANGED <<doc, file, server, todo, handled, starts>>

ToolPurges ==
  /\ server = "serving" /\ db' = {}
  /\ UNCHANGED <<doc, file, server, todo, handled, starts>>

Ends ==
  /\ server # "down" /\ server' = "down" /\ todo' = {}
  /\ UNCHANGED <<doc, file, db, handled, starts>>

MigrationNext ==
  \/ Start \/ NotMigrated \/ SetAside \/ LoopBegins \/ LoopEnds
  \/ \E d \in OldDocs : Migrate(d)
  \/ ToolIndexes \/ ToolPurges \/ Ends

MigrationSpec == MigrationInit /\ [][MigrationNext]_migrationVars

-----------------------------------------------------------------------------
(* main.go:1280 and the warning of main.go:1283: a migration that did not  *)
(* happen is retried on the next start, and the old file is set aside only *)
(* after the migration (main.go:1457).  So no file is set aside of which a *)
(* document has not been looked at.                                        *)
SetAsideAfterMigration == file = "bak" => handled = OldDocs
=============================================================================
