-------------------------------- MODULE MCKb --------------------------------
(***************************************************************************)
(* Instances of the knowledge base and of its other user, the search in    *)
(* files, for TLC.  Both take the store's lock for one critical section,   *)
(* and a purge of the project deletes the documents of both: it is an      *)
(* action of each part.  Beyond that they have no document, cache or map   *)
(* in common, so a behaviour is one of either part.                        *)
(*                                                                         *)
(* Three calls fetch one URL, two of them in one ctx_kb call; that ctx_kb  *)
(* call may force, the other may have ttl_ms=0.  The page changes while    *)
(* there are two calls, and has changed before there are three.            *)
(***************************************************************************)
EXTENDS KbFetch, RgSearch

CONSTANTS f1, f2, f3, b1, b2

VARIABLE part

fetchVars == vars

MCBatchOf == [c \in Calls |-> IF c = f3 THEN b2 ELSE b1]

kbVars == <<part, fetchVars, rgVars>>

AtRest == page = 1 /\ row = None /\ docs = None /\ leader = NoFlight /\ call = [c \in Calls |-> NoCall]
          /\ kind = [b \in Batches |-> "normal"] /\ cancelled = {} /\ purges = 0 /\ apart = FALSE

MCInit ==
  /\ RgInit
  /\ \/ /\ part = "fetch" /\ Init
        /\ kind[b1] # "direct" /\ kind[b2] # "force"
        /\ {c \in Calls : At(c, "new")} = IF page = 1 THEN {f1, f3} ELSE Calls
        /\ \/ page = 1
           \/ page = MaxVersion /\ row < page /\ kind = [b \in Batches |-> "normal"]
     \/ part = "rg" /\ AtRest

FetchPart(A) == part = "fetch" /\ A /\ UNCHANGED <<part, rgVars>>

RgPart == part = "rg" /\ RgNext /\ UNCHANGED <<part, fetchVars>>

MCNext == FetchPart(Next) \/ RgPart

MCSpec == MCInit /\ [][MCNext]_kbVars /\ \A c \in Calls : WF_kbVars(FetchPart(Step(c)))
=============================================================================
