------------------------------ MODULE Collections -------------------------------
(***************************************************************************)
(* QdrantGateway and one collection (qdrant_gateway.py).  The gateway      *)
(* remembers that the collection exists (_known_collections) and does not  *)
(* ask again; the collection may be deleted by others at any time, and     *)
(* coroutines that use it run concurrently: upserts in batches, deletions  *)
(* of a file's points, searches.  One action is one request to Qdrant with *)
(* the code up to the next request.                                        *)
(***************************************************************************)
EXTENDS Naturals

CONSTANTS Ops, opKind, fileOf,   \* the coroutines, what each does, and to which file
          Batches,               \* the batches of an upsert
          MaxDeletions           \* bound: how often the collection is deleted outside

OpKinds == {"upsert", "delete", "search"}

ASSUME OpsAssumption == opKind \in [Ops -> OpKinds]
ASSUME BatchesAssumption == Batches \in Nat \ {0} /\ MaxDeletions \in Nat

VARIABLES
  present,   \* Qdrant: the collection exists
  points,    \* Qdrant: the batches stored, as pairs of coroutine and number
  known,     \* the collection is in _known_collections
  at,        \* the request each coroutine awaits, or how it ended
  batch,     \* the batch an upsert sends next
  retried,   \* the upsert is in its second round
  deletions, \* how often the collection was deleted outside
  struck,    \* history: it was deleted, or the coroutine's file was, since the
             \* coroutine began its work or began it again
  qdrantErr  \* history: a request of the coroutine failed

collVars == <<present, points, known, at, batch, retried, deletions, struck, qdrantErr>>

Places == {"idle", "exists", "create", "recheck", "write", "call", "ok", "raised"}
Ended == {"ok", "raised"}

CollTypeOK ==
  /\ present \in BOOLEAN /\ known \in BOOLEAN
  /\ points \in SUBSET (Ops \X (1..Batches))
  /\ at \in [Ops -> Places]
  /\ batch \in [Ops -> 1..Batches]
  /\ retried \in [Ops -> BOOLEAN]
  /\ deletions \in 0..MaxDeletions
  /\ struck \in [Ops -> BOOLEAN] /\ qdrantErr \in [Ops -> BOOLEAN]

CollInit ==
  /\ present = FALSE /\ points = {} /\ known = FALSE
  /\ at = [o \in Ops |-> "idle"]
  /\ batch = [o \in Ops |-> 1]
  /\ retried = [o \in Ops |-> FALSE]
  /\ deletions = 0
  /\ struck = [o \in Ops |-> FALSE] /\ qdrantErr = [o \in Ops |-> FALSE]

Await(o, request) == at' = [at EXCEPT ![o] = request]

\* What a coroutine does once it takes the collection for existing.
Work(o) == IF opKind[o] = "upsert" THEN "write" ELSE "call"

-----------------------------------------------------------------------------
\* A coroutine begins: a known collection is not asked for.
BeginOp(o) ==
  /\ at[o] = "idle"
  /\ Await(o, IF known THEN Work(o) ELSE "exists")
  /\ struck' = [struck EXCEPT ![o] = FALSE]
  /\ UNCHANGED <<present, points, known, batch, retried, deletions, qdrantErr>>

\* collection_exists answers.  Only an upsert needs the collection.
ExistsAnswered(o) ==
  /\ at[o] = "exists"
  /\ known' = (known \/ present)
  /\ Await(o, IF present THEN Work(o) ELSE IF opKind[o] = "upsert" THEN "create" ELSE "ok")
  /\ UNCHANGED <<present, points, batch, retried, deletions, struck, qdrantErr>>

\* Faulty variant: a conflict is an error like any other.
OnConflictRaise(o) == Await(o, "raised")

\* 400 or 409: somebody else may have created it meanwhile.
OnConflict(o) == Await(o, "recheck")

CreateAnswered(o) ==
  /\ at[o] = "create"
  /\ \/ ~present /\ present' = TRUE /\ known' = TRUE /\ Await(o, "write")
     \/ present /\ OnConflict(o) /\ UNCHANGED <<present, known>>
  /\ UNCHANGED <<points, batch, retried, deletions, struck, qdrantErr>>

Rechecked(o) ==
  /\ at[o] = "recheck"
  /\ known' = (known \/ present)
  /\ Await(o, IF present THEN "write" ELSE "raised")
  /\ UNCHANGED <<present, points, batch, retried, deletions, struck, qdrantErr>>

\* Faulty variants: the retry resumes at the batch that failed; the name stays
\* in the cache.
RetryHere(o) == UNCHANGED batch
KeepKnown == UNCHANGED known

\* The retry starts over, since the earlier batches went with the collection.
RetryAll(o) == batch' = [batch EXCEPT ![o] = 1]

\* A 404 drops the name from the cache.
Discard == known' = FALSE

Stored(o) ==
  /\ present
  /\ points' = points \cup {<<o, batch[o]>>}
  /\ IF batch[o] = Batches
     THEN Await(o, "ok") /\ UNCHANGED batch
     ELSE batch' = [batch EXCEPT ![o] = @ + 1] /\ UNCHANGED at
  /\ UNCHANGED <<known, retried, struck>>

\* The collection is gone: it is created again and written once more; a second
\* 404 is an error.
NotFound(o) ==
  /\ ~present
  /\ IF retried[o]
     THEN Await(o, "raised") /\ UNCHANGED <<known, batch, retried, struck>>
     ELSE /\ Discard
          /\ RetryAll(o)
          /\ retried' = [retried EXCEPT ![o] = TRUE]
          /\ struck' = [struck EXCEPT ![o] = FALSE]
          /\ Await(o, IF known' THEN "write" ELSE "exists")
  /\ UNCHANGED points

\* upsert_chunks: a batch is answered.
BatchAnswered(o) ==
  /\ at[o] = "write"
  /\ Stored(o) \/ NotFound(o)
  /\ UNCHANGED <<present, deletions, qdrantErr>>

\* The file of a deletion, on whose points an upsert of it cannot count.
Shares(o, u) == opKind[o] = "delete" /\ fileOf[u] = fileOf[o]

\* Qdrant does what a deletion asks for; a search changes nothing.
Deleted(o) ==
  /\ points' = IF opKind[o] = "delete" THEN {q \in points : fileOf[q[1]] # fileOf[o]} ELSE points
  /\ struck' = [u \in Ops |-> struck[u] \/ Shares(o, u)]

\* A deletion or a search is answered; a collection that is gone holds nothing.
CallAnswered(o) ==
  /\ at[o] = "call"
  /\ Await(o, "ok")
  /\ known' = (known /\ present)
  /\ Deleted(o)
  /\ UNCHANGED <<present, batch, retried, deletions, qdrantErr>>

\* Any other failure of a request ends the coroutine, as does its cancellation;
\* Qdrant may have done what was asked for, only the answer is missing.
RequestRaises(o) ==
  /\ at[o] \notin Ended \cup {"idle"}
  /\ Await(o, "raised")
  /\ qdrantErr' = [qdrantErr EXCEPT ![o] = TRUE]
  /\ \/ UNCHANGED <<present, points, struck>>
     \/ at[o] = "create" /\ present' = TRUE /\ UNCHANGED <<points, struck>>
     \/ at[o] = "write" /\ present /\ points' = points \cup {<<o, batch[o]>>}
        /\ UNCHANGED <<present, struck>>
     \/ at[o] = "call" /\ Deleted(o) /\ UNCHANGED present
  /\ UNCHANGED <<known, batch, retried, deletions>>

\* The collection is deleted from outside.
DeletedOutside ==
  /\ present /\ deletions < MaxDeletions
  /\ present' = FALSE /\ points' = {}
  /\ deletions' = deletions + 1
  /\ struck' = [o \in Ops |-> TRUE]
  /\ UNCHANGED <<known, at, batch, retried, qdrantErr>>

CollNext ==
  \/ \E o \in Ops :
       \/ BeginOp(o) \/ ExistsAnswered(o) \/ CreateAnswered(o) \/ Rechecked(o)
       \/ BatchAnswered(o) \/ CallAnswered(o) \/ RequestRaises(o)
  \/ DeletedOutside

CollSpec == CollInit /\ [][CollNext]_collVars

-----------------------------------------------------------------------------
\* A collection that was deleted before, unknown to the gateway, harms nobody,
\* nor do coroutines that create it at the same time: an upsert that no deletion
\* overlaps, or none after it has noticed one, ends with all its points in the
\* collection.  Deletions of a file and searches are not even harmed by one that
\* overlaps them.
OutsideDeletionIsHarmless ==
  \A o \in Ops : ~qdrantErr[o] =>
    IF opKind[o] # "upsert" THEN at[o] # "raised"
    ELSE ~struck[o] =>
           at[o] # "raised" /\ (at[o] = "ok" => \A n \in 1..Batches : <<o, n>> \in points)
=============================================================================
