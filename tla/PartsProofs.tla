------------------------------ MODULE PartsProofs ------------------------------
(***************************************************************************)
(* Proofs about five small parts: Collections, for any number of           *)
(* coroutines, of batches and of deletions from outside; PushFiles, for    *)
(* any push; Prefetch, for any index, scores and limit; Analysis, for any  *)
(* files; and ModelManager, for any models, sizes and budget.              *)
(***************************************************************************)
EXTENDS Collections, PushFiles, Prefetch, Analysis, ModelManager, FiniteSetTheorems, TLAPS

-----------------------------------------------------------------------------
(* Collections.                                                            *)

\* What is awaited when, whatever happened before: a first round begins with the
\* first batch, and only upserts create and write.
Rounds(o) ==
  /\ at[o] \in {"idle", "exists", "create", "recheck"} => batch[o] = 1
  /\ at[o] = "idle" => ~retried[o]
  /\ opKind[o] = "upsert" => at[o] # "call"
  /\ opKind[o] # "upsert" => at[o] \notin {"create", "recheck", "write"}
  /\ opKind[o] # "upsert" /\ ~qdrantErr[o] => at[o] # "raised"

\* An upsert that no deletion has struck and no error: its batches so far are
\* stored, and once it has seen or made the collection, the collection is there.
\* In the first round it may begin to write on the word of the cache alone.
Undamaged(o) ==
  /\ at[o] # "raised"
  /\ at[o] = "recheck" => present
  /\ at[o] = "write" /\ (retried[o] \/ batch[o] # 1) => present
  /\ at[o] = "write" => \A n \in 1..Batches : n < batch[o] => <<o, n>> \in points
  /\ at[o] = "ok" => \A n \in 1..Batches : <<o, n>> \in points

CollInv ==
  /\ CollTypeOK
  /\ \A o \in Ops : Rounds(o)
  /\ \A o \in Ops : opKind[o] = "upsert" /\ ~struck[o] /\ ~qdrantErr[o] => Undamaged(o)

LEMMA CollInitInv == CollInit => CollInv
<1> SUFFICES ASSUME CollInit PROVE CollInv
  OBVIOUS
<1>1. points \in SUBSET (Ops \X (1..Batches)) /\ deletions \in 0..MaxDeletions
  BY BatchesAssumption DEF CollInit
<1>2. CollTypeOK
  <2>1. at \in [Ops -> Places] /\ batch \in [Ops -> 1..Batches] /\ retried \in [Ops -> BOOLEAN]
    BY BatchesAssumption DEF CollInit, Places
  <2>2. present \in BOOLEAN /\ known \in BOOLEAN
    BY DEF CollInit
  <2>3. struck \in [Ops -> BOOLEAN] /\ qdrantErr \in [Ops -> BOOLEAN]
    BY DEF CollInit
  <2> QED
    BY <1>1, <2>1, <2>2, <2>3 DEF CollTypeOK
<1>3. \A o \in Ops : Rounds(o) /\ Undamaged(o)
  BY DEF CollInit, Rounds, Undamaged
<1> QED
  BY <1>2, <1>3 DEF CollInv

USE DEF Await, Work

LEMMA CollTypeStep == CollTypeOK /\ [CollNext]_collVars => CollTypeOK'
<1> SUFFICES ASSUME CollTypeOK, [CollNext]_collVars PROVE CollTypeOK'
  OBVIOUS
<1> USE BatchesAssumption DEF CollTypeOK, Places
<1>1. ASSUME NEW o \in Ops, BeginOp(o) PROVE CollTypeOK'
  BY <1>1 DEF BeginOp
<1>2. ASSUME NEW o \in Ops, ExistsAnswered(o) PROVE CollTypeOK'
  BY <1>2 DEF ExistsAnswered
<1>3. ASSUME NEW o \in Ops, CreateAnswered(o) PROVE CollTypeOK'
  BY <1>3 DEF CreateAnswered, OnConflict
<1>4. ASSUME NEW o \in Ops, Rechecked(o) PROVE CollTypeOK'
  BY <1>4 DEF Rechecked
<1>5. ASSUME NEW o \in Ops, BatchAnswered(o), Stored(o) PROVE CollTypeOK'
  BY <1>5 DEF BatchAnswered, Stored
<1>6. ASSUME NEW o \in Ops, BatchAnswered(o), NotFound(o) PROVE CollTypeOK'
  <2>1. at' \in [Ops -> Places] /\ batch' \in [Ops -> 1..Batches]
    BY <1>6 DEF BatchAnswered, NotFound, RetryAll
  <2>2. retried' \in [Ops -> BOOLEAN] /\ struck' \in [Ops -> BOOLEAN] /\ known' \in BOOLEAN
    BY <1>6 DEF BatchAnswered, NotFound, Discard
  <2> QED
    BY <1>6, <2>1, <2>2 DEF BatchAnswered, NotFound
<1>7. ASSUME NEW o \in Ops, CallAnswered(o) PROVE CollTypeOK'
  <2>1. points' \in SUBSET (Ops \X (1..Batches)) /\ known' \in BOOLEAN
    BY <1>7 DEF CallAnswered, Deleted
  <2>2. struck' \in [Ops -> BOOLEAN]
    BY <1>7 DEF CallAnswered, Deleted, Shares
  <2> QED
    BY <1>7, <2>1, <2>2 DEF CallAnswered
<1>8. ASSUME NEW o \in Ops, RequestRaises(o) PROVE CollTypeOK'
  <2>1. points' \in SUBSET (Ops \X (1..Batches))
    <3>1. CASE UNCHANGED points
      BY <3>1
    <3>2. CASE points' = points \cup {<<o, batch[o]>>}
      BY <3>2
    <3>3. CASE Deleted(o)
      BY <3>3 DEF Deleted
    <3> QED
      BY <1>8, <3>1, <3>2, <3>3 DEF RequestRaises
  <2>3. present' \in BOOLEAN
    BY <1>8 DEF RequestRaises
  <2>2. struck' \in [Ops -> BOOLEAN]
    BY <1>8 DEF RequestRaises, Deleted, Shares
  <2> QED
    BY <1>8, <2>1, <2>2, <2>3 DEF RequestRaises
<1>9. ASSUME DeletedOutside PROVE CollTypeOK'
  <2>1. points' \in SUBSET (Ops \X (1..Batches)) /\ deletions' \in 0..MaxDeletions
    BY <1>9 DEF DeletedOutside
  <2>2. struck' \in [Ops -> BOOLEAN]
    BY <1>9 DEF DeletedOutside
  <2> QED
    BY <1>9, <2>1, <2>2 DEF DeletedOutside
<1>10. CASE UNCHANGED collVars
  BY <1>10 DEF collVars
<1> QED
  BY <1>1, <1>2, <1>3, <1>4, <1>5, <1>6, <1>7, <1>8, <1>9, <1>10 DEF CollNext, BatchAnswered

LEMMA CollStepInv == CollInv /\ [CollNext]_collVars => CollInv'
<1> SUFFICES ASSUME CollInv, [CollNext]_collVars PROVE CollInv'
  OBVIOUS
<1>0. CollTypeOK'
  BY CollTypeStep DEF CollInv
<1>a. CollTypeOK /\ \A o \in Ops : Rounds(o)
  BY DEF CollInv
<1> DEFINE Ok(u) == Rounds(u) /\ (opKind[u] = "upsert" /\ ~struck[u] /\ ~qdrantErr[u] => Undamaged(u))
<1>b. \A u \in Ops : Ok(u)
  BY DEF CollInv
<1> SUFFICES ASSUME NEW u \in Ops PROVE Ok(u)'
  BY <1>0 DEF CollInv
<1>c. Ok(u)
  BY <1>b
<1> USE BatchesAssumption, OpsAssumption DEF CollTypeOK, Rounds, Undamaged
<1>1. ASSUME NEW o \in Ops, BeginOp(o) PROVE Ok(u)'
  BY <1>1, <1>a, <1>c DEF BeginOp
<1>2. ASSUME NEW o \in Ops, ExistsAnswered(o) PROVE Ok(u)'
  BY <1>2, <1>a, <1>c DEF ExistsAnswered
<1>3. ASSUME NEW o \in Ops, CreateAnswered(o) PROVE Ok(u)'
  BY <1>3, <1>a, <1>c DEF CreateAnswered, OnConflict
<1>4. ASSUME NEW o \in Ops, Rechecked(o) PROVE Ok(u)'
  BY <1>4, <1>a, <1>c DEF Rechecked
<1>5. ASSUME NEW o \in Ops, BatchAnswered(o), Stored(o) PROVE Ok(u)'
  <2>1. opKind[o] = "upsert"
    BY <1>5, <1>b DEF BatchAnswered
  <2>2. points \subseteq points' /\ <<o, batch[o]>> \in points' /\ present /\ present' = present
    BY <1>5 DEF BatchAnswered, Stored
  <2>3. CASE u = o
    BY <1>5, <1>a, <1>c, <2>1, <2>2, <2>3 DEF BatchAnswered, Stored
  <2>4. CASE u # o
    BY <1>5, <1>a, <1>c, <2>2, <2>4 DEF BatchAnswered, Stored
  <2> QED
    BY <2>3, <2>4
<1>6. ASSUME NEW o \in Ops, BatchAnswered(o), NotFound(o) PROVE Ok(u)'
  BY <1>6, <1>a, <1>c DEF BatchAnswered, NotFound, Discard, RetryAll
<1>7. ASSUME NEW o \in Ops, CallAnswered(o) PROVE Ok(u)'
  <2>1. at'[u] = IF u = o THEN "ok" ELSE at[u]
    BY <1>7, <1>a DEF CallAnswered
  <2>2. UNCHANGED <<present, batch, retried, qdrantErr>> /\ opKind[o] # "upsert"
    BY <1>7, <1>b DEF CallAnswered
  <2>3. Rounds(u)'
    BY <2>1, <2>2, <1>7, <1>c DEF CallAnswered
  <2>4. ASSUME opKind[u] = "upsert", ~struck'[u], ~qdrantErr'[u] PROVE Undamaged(u)'
    <3>1. ~struck[u] /\ ~Shares(o, u) /\ u # o
      BY <1>7, <2>2, <2>4 DEF CallAnswered, Deleted
    <3>2. \A n \in 1..Batches : <<u, n>> \in points => <<u, n>> \in points'
      BY <1>7, <3>1 DEF CallAnswered, Deleted, Shares
    <3> QED
      BY <1>c, <2>1, <2>2, <2>4, <3>1, <3>2
  <2> QED
    BY <2>3, <2>4
<1>8. ASSUME NEW o \in Ops, RequestRaises(o) PROVE Ok(u)'
  <2>1. at'[u] = (IF u = o THEN "raised" ELSE at[u]) /\ qdrantErr'[u] = (u = o \/ qdrantErr[u])
    BY <1>8, <1>a DEF RequestRaises
  <2>2. UNCHANGED <<batch, retried>> /\ (present => present')
    BY <1>8 DEF RequestRaises
  <2>3. Rounds(u)'
    <3>1. CASE u = o
      BY <2>1, <3>1
    <3>2. CASE u # o
      BY <2>1, <2>2, <3>2, <1>c
    <3> QED
      BY <3>1, <3>2
  <2>4. ASSUME opKind[u] = "upsert", ~struck'[u], ~qdrantErr'[u] PROVE Undamaged(u)'
    <3>1. ~struck[u] /\ u # o
      BY <1>8, <2>1, <2>4 DEF RequestRaises, Deleted
    <3>2. \A n \in 1..Batches : <<u, n>> \in points => <<u, n>> \in points'
      BY <1>8, <2>4 DEF RequestRaises, Deleted, Shares
    <3> QED
      BY <1>c, <2>1, <2>2, <2>4, <3>1, <3>2
  <2> QED
    BY <2>3, <2>4
<1>9. ASSUME DeletedOutside PROVE Ok(u)'
  BY <1>9, <1>a, <1>c DEF DeletedOutside
<1>10. CASE UNCHANGED collVars
  BY <1>10, <1>c DEF collVars
<1> QED
  BY <1>1, <1>2, <1>3, <1>4, <1>5, <1>6, <1>7, <1>8, <1>9, <1>10 DEF CollNext, BatchAnswered

\* The types of the gateway's and the collection's state.
THEOREM CollTypeCorrect == CollSpec => []CollTypeOK
<1>1. CollInit => CollTypeOK
  BY CollInitInv DEF CollInv
<1> QED
  BY <1>1, CollTypeStep, PTL DEF CollSpec

\* However often the collection is deleted by others, and whoever creates it again:
\* an upsert ends with all its points stored unless a deletion overlapped it
\* unnoticed, and a deletion of a file or a search does not fail on account of it.
THEOREM DeletionsAreHarmless == CollSpec => []OutsideDeletionIsHarmless
<1>1. CollInv => OutsideDeletionIsHarmless
  BY DEF CollInv, Rounds, Undamaged, OutsideDeletionIsHarmless
<1> QED
  BY <1>1, CollInitInv, CollStepInv, PTL DEF CollSpec

-----------------------------------------------------------------------------
(* PushFiles: the property is inductive, given the lists it speaks of.     *)

LEMMA CommitKeepsNet ==
  ASSUME AggregateIsNet, newTree \in Trees, [ReadCommit]_pushVars
  PROVE  AggregateIsNet' /\ newTree' \in Trees
<1>1. CASE ReadCommit
  <2>1. newTree' \in Trees
    BY <1>1 DEF ReadCommit
  <2>2. SUFFICES ASSUME NEW p \in Paths
                 PROVE  /\ p \in added_or_modified' => newTree'[p] # 0
                        /\ p \in removed' => newTree'[p] = 0
                        /\ p \notin added_or_modified' \cup removed' => newTree'[p] = oldTree'[p]
    BY <2>1 DEF AggregateIsNet
  <2>3. oldTree' = oldTree
    BY <1>1 DEF ReadCommit
  <2>4. /\ p \in added_or_modified' <=>
             /\ p \in added_or_modified \/ (newTree'[p] # 0 /\ newTree'[p] # newTree[p])
             /\ ~(newTree'[p] = 0 /\ newTree[p] # 0)
        /\ p \in removed' <=>
             \/ p \in removed /\ ~(newTree'[p] # 0 /\ newTree'[p] # newTree[p])
             \/ newTree'[p] = 0 /\ newTree[p] # 0
    BY <1>1 DEF ReadCommit, Touched, Gone, DiscardTouched
  <2>5. /\ p \in added_or_modified => newTree[p] # 0
        /\ p \in removed => newTree[p] = 0
        /\ p \notin added_or_modified \cup removed => newTree[p] = oldTree[p]
    BY DEF AggregateIsNet
  <2> QED
    BY <2>3, <2>4, <2>5
<1>2. CASE UNCHANGED pushVars
  BY <1>2 DEF AggregateIsNet, pushVars
<1> QED
  BY <1>1, <1>2

\* aggregate_push_files: for any files and any number of commits that touch them in
\* any order, the two lists are the net change of the push.
THEOREM DeltaIsNet == PushSpec => []AggregateIsNet
<1>1. PushInit => AggregateIsNet /\ newTree \in Trees
  BY DEF PushInit, AggregateIsNet
<1>2. AggregateIsNet /\ newTree \in Trees /\ [ReadCommit]_pushVars
        => (AggregateIsNet /\ newTree \in Trees)'
  BY CommitKeepsNet
<1> QED
  BY <1>1, <1>2, PTL DEF PushSpec

-----------------------------------------------------------------------------
(* Prefetch.                                                               *)

\* A snippet as a search finds it.
FoundType ==
  [name : {c.name : c \in Chunks}, text : {c.text : c \in Chunks},
   branches : {{b} : b \in branches}, score : Nat]

FetchInv ==
  /\ found \subseteq FoundType
  /\ limit \in Nat
  /\ building \in {"idle", "embed"} => found = {}
  /\ ContextIsBest

\* Merging loses no snippet, and none of its score.
LEMMA MergedCovers ==
  ASSUME NEW best \in SUBSET FoundType,
         \A s, t \in best : Alike(s, t) => s = t,
         NEW s \in best
  PROVE  \E m \in Merged(best) :
           m.name = s.name /\ s.branches \subseteq m.branches /\ m.score >= s.score
<1>1. CASE Twins(s, best) = {}
  <2>1. s \in Merged(best)
    BY <1>1 DEF Merged
  <2>2. s.score >= s.score
    BY DEF FoundType
  <2> QED
    BY <2>1, <2>2
<1>2. CASE Twins(s, best) # {}
  <2>1. PICK t \in best : t # s /\ t.name = s.name /\ t.text = s.text
    BY <1>2 DEF Twins
  <2>2. t \in Twins(s, best) /\ s \in Twins(t, best)
    BY <2>1 DEF Twins
  <2>3. s.branches # t.branches
    BY <2>1 DEF Alike
  <2>4. s.branches \subseteq branches /\ s.score \in Nat /\ t.score \in Nat
    BY DEF FoundType
  <2>5. base_branch \in s.branches \/ base_branch \in t.branches
    BY <2>3 DEF FoundType, branches
  <2>6. CASE base_branch \in s.branches
    <3>1. Joined(s, t) \in Merged(best)
      <4>1. <<s, t>> \in {p \in best \X best :
                           base_branch \in p[1].branches /\ p[2] \in Twins(p[1], best)}
        BY <2>2, <2>6
      <4> QED
        BY <4>1 DEF Merged
    <3>2. /\ Joined(s, t).name = s.name /\ Joined(s, t).branches = branches
          /\ Joined(s, t).score >= s.score
      BY <2>4 DEF Joined
    <3> QED
      BY <2>4, <3>1, <3>2
  <2>7. CASE base_branch \in t.branches
    <3>1. Joined(t, s) \in Merged(best)
      <4>1. <<t, s>> \in {p \in best \X best :
                           base_branch \in p[1].branches /\ p[2] \in Twins(p[1], best)}
        BY <2>2, <2>7
      <4> QED
        BY <4>1 DEF Merged
    <3>2. /\ Joined(t, s).name = s.name /\ Joined(t, s).branches = branches
          /\ Joined(t, s).score >= s.score
      BY <2>1, <2>4 DEF Joined
    <3> QED
      BY <2>4, <3>1, <3>2
  <2> QED
    BY <2>5, <2>6, <2>7
<1> QED
  BY <1>1, <1>2

\* What a merged snippet is made of.
LEMMA MergedParts ==
  ASSUME NEW best \in SUBSET FoundType,
         \A s, t \in best : Alike(s, t) => s = t,
         NEW m \in Merged(best)
  PROVE  \/ m \in best /\ Twins(m, best) = {}
         \/ \E s, t \in best :
              /\ m = Joined(s, t) /\ s.branches = {base_branch} /\ t.branches = {head_branch}
              /\ base_branch # head_branch
              /\ t \in Twins(s, best) /\ s \in Twins(t, best)
<1>1. CASE m \in best /\ Twins(m, best) = {}
  BY <1>1
<1>2. CASE ~(m \in best /\ Twins(m, best) = {})
  <2>1. PICK p \in best \X best :
          base_branch \in p[1].branches /\ p[2] \in Twins(p[1], best) /\ m = Joined(p[1], p[2])
    BY <1>2 DEF Merged
  <2> DEFINE s == p[1]
             t == p[2]
  <2>2. s \in best /\ t \in best /\ t # s /\ t.name = s.name /\ t.text = s.text
    BY <2>1 DEF Twins
  <2>3. s \in Twins(t, best)
    BY <2>2 DEF Twins
  <2>4. s.branches # t.branches
    BY <2>2 DEF Alike
  <2>5. s.branches = {base_branch} /\ t.branches = {head_branch} /\ base_branch # head_branch
    <3>1. s.branches \in {{b} : b \in branches} /\ t.branches \in {{b} : b \in branches}
      BY <2>2 DEF FoundType
    <3>2. base_branch \in s.branches
      BY <2>1
    <3> QED
      BY <2>4, <3>1, <3>2 DEF branches
  <2> QED
    BY <2>1, <2>2, <2>3, <2>5
<1> QED
  BY <1>1, <1>2

\* No name appears twice for a branch.
LEMMA MergedApart ==
  ASSUME NEW best \in SUBSET FoundType,
         \A s, t \in best : Alike(s, t) => s = t,
         NEW m \in Merged(best), NEW n \in Merged(best),
         m.name = n.name, m.branches \cap n.branches # {}
  PROVE  m = n
<1> DEFINE Plain(x) == x \in best /\ Twins(x, best) = {}
<1> DEFINE Pair(x, s, t) ==
      /\ x = Joined(s, t) /\ s.branches = {base_branch} /\ t.branches = {head_branch}
      /\ base_branch # head_branch
      /\ t \in Twins(s, best) /\ s \in Twins(t, best)
<1>1. \A x \in Merged(best) : Plain(x) \/ \E s, t \in best : Pair(x, s, t)
  BY MergedParts
<1>2. \A x \in best : \E b \in branches : x.branches = {b}
  BY DEF FoundType
<1>3. ASSUME NEW x \in Merged(best), NEW y \in Merged(best), x.name = y.name,
             Plain(x), NEW s \in best, NEW t \in best, Pair(y, s, t)
      PROVE  FALSE
  <2>1. s.name = x.name /\ t.name = x.name
    BY <1>3 DEF Joined, Twins
  <2>2. x.branches = s.branches \/ x.branches = t.branches
    BY <1>2, <1>3 DEF branches
  <2>3. x = s \/ x = t
    BY <1>3, <2>1, <2>2 DEF Alike
  <2> QED
    BY <1>3, <2>3
<1>4. CASE Plain(m) /\ Plain(n)
  BY <1>2, <1>4 DEF Alike
<1>5. CASE \E s, t \in best : Pair(m, s, t)
  <2>1. PICK s \in best, t \in best : Pair(m, s, t)
    BY <1>5
  <2>2. CASE Plain(n)
    BY <1>3, <2>1, <2>2
  <2>3. CASE \E u, v \in best : Pair(n, u, v)
    <3>1. PICK u \in best, v \in best : Pair(n, u, v)
      BY <2>3
    <3>2. s.name = m.name /\ t.name = m.name /\ u.name = n.name /\ v.name = n.name
      BY <2>1, <3>1 DEF Joined, Twins
    <3>3. s = u /\ t = v
      BY <2>1, <3>1, <3>2 DEF Alike
    <3> QED
      BY <2>1, <3>1, <3>3
  <2> QED
    BY <1>1, <2>2, <2>3
<1> QED
  BY <1>1, <1>3, <1>4, <1>5

LEMMA ReturnKeepsBest ==
  ASSUME FetchInv, ReturnSnippets
  PROVE  ContextIsBest'
<1>1. PICK best \in SUBSET found :
        /\ OneEach(best)
        /\ \E shown \in SUBSET Merged(best) :
             /\ IF Cardinality(Merged(best)) <= limit
                THEN shown = Merged(best) ELSE Cardinality(shown) = limit
             /\ \A s \in shown, t \in Merged(best) \ shown : t.score <= s.score
             /\ Ends(shown)
  BY DEF ReturnSnippets
<1>2. PICK shown \in SUBSET Merged(best) :
        /\ IF Cardinality(Merged(best)) <= limit
           THEN shown = Merged(best) ELSE Cardinality(shown) = limit
        /\ \A s \in shown, t \in Merged(best) \ shown : t.score <= s.score
        /\ Ends(shown)
  BY <1>1
<1>3. snippets' = shown /\ found' = found /\ limit' = limit
  BY <1>2 DEF ReturnSnippets, Ends
<1>4. best \in SUBSET FoundType /\ \A s, t \in best : Alike(s, t) => s = t
  BY <1>1 DEF FetchInv, OneEach
<1>5. Cardinality(shown) <= limit
  BY <1>2 DEF FetchInv
<1>6. \A m \in Merged(best) : m.score \in Nat
  <2> SUFFICES ASSUME NEW m \in Merged(best) PROVE m.score \in Nat
    OBVIOUS
  <2>1. CASE m \in best
    BY <1>4, <2>1 DEF FoundType
  <2>2. CASE \E s, t \in best : m = Joined(s, t)
    BY <1>4, <2>2 DEF FoundType, Joined
  <2> QED
    BY <1>4, <2>1, <2>2, MergedParts
<1>7. ASSUME NEW s \in found
      PROVE  \/ \E t \in shown :
                  t.name = s.name /\ s.branches \subseteq t.branches /\ t.score >= s.score
             \/ Cardinality(shown) = limit /\ \A t \in shown : t.score >= s.score
  <2>1. PICK k \in best : Alike(s, k)
    BY <1>1 DEF OneEach
  <2>2. s.score <= k.score
    <3>1. Alike(k, s)
      BY <2>1 DEF Alike
    <3> QED
      BY <1>1, <3>1 DEF OneEach, Best
  <2>3. PICK m \in Merged(best) :
          m.name = k.name /\ k.branches \subseteq m.branches /\ m.score >= k.score
    BY <1>4, MergedCovers
  <2>4. s.score \in Nat /\ k.score \in Nat /\ m.score \in Nat
    BY <1>4, <1>6 DEF FetchInv, FoundType
  <2>5. m.name = s.name /\ s.branches \subseteq m.branches /\ m.score >= s.score
    BY <2>1, <2>2, <2>3, <2>4 DEF Alike
  <2>6. CASE m \in shown
    BY <2>5, <2>6
  <2>7. CASE m \notin shown
    <3>1. Cardinality(shown) = limit
      BY <1>2, <2>7
    <3>2. ASSUME NEW t \in shown PROVE t.score >= s.score
      <4>1. m.score <= t.score /\ t.score \in Nat
        BY <1>2, <1>6, <2>7
      <4> QED
        BY <2>4, <2>5, <4>1
    <3> QED
      BY <3>1, <3>2
  <2> QED
    BY <2>6, <2>7
<1>8. ASSUME NEW s \in shown, NEW t \in shown, s.name = t.name, s.branches \cap t.branches # {}
      PROVE  s = t
  BY <1>4, <1>8, MergedApart
<1>9. ASSUME NEW s \in shown, NEW b \in s.branches
      PROVE  \E t \in found : t.name = s.name /\ t.text = s.text /\ t.branches = {b}
  <2>1. CASE s \in best
    <3>1. s.branches = {b}
      BY <1>4, <1>9, <2>1 DEF FoundType
    <3> QED
      BY <2>1, <3>1
  <2>2. CASE \E u, v \in best :
               /\ s = Joined(u, v) /\ u.branches = {base_branch} /\ v.branches = {head_branch}
               /\ v \in Twins(u, best)
    <3>1. PICK u \in best, v \in best :
            /\ s = Joined(u, v) /\ u.branches = {base_branch} /\ v.branches = {head_branch}
            /\ v \in Twins(u, best)
      BY <2>2
    <3>2. /\ u.name = s.name /\ u.text = s.text /\ v.name = s.name /\ v.text = s.text
          /\ b \in {base_branch, head_branch}
      BY <1>9, <3>1 DEF Joined, Twins, branches
    <3> QED
      BY <3>1, <3>2
  <2> QED
    BY <1>4, <2>1, <2>2, MergedParts
<1> QED
  BY <1>3, <1>5, <1>7, <1>8, <1>9 DEF ContextIsBest

\* No snippets fit any limit.
LEMMA NothingShown == ASSUME NEW n \in Nat PROVE Cardinality({}) <= n
  BY FS_EmptySet

LEMMA FetchStepInv ==
  ASSUME FetchInv, [FetchNext]_fetchVars
  PROVE  FetchInv'
<1>1. CASE BeginBuild
  <2>1. limit' \in Nat /\ found' = {} /\ found = {}
    BY <1>1, LimitsAssumption DEF BeginBuild, FetchInv
  <2>2. building' = "embed" \/ snippets' = {}
    BY <1>1 DEF BeginBuild, Ends
  <2>3. ContextIsBest'
    BY <2>1, <2>2, NothingShown DEF ContextIsBest
  <2> QED
    BY <2>1, <2>3 DEF FetchInv
<1>2. CASE EmbedBatch
  <2>1. limit' \in Nat /\ found' = {} /\ found = {}
    BY <1>2 DEF EmbedBatch, FetchInv
  <2>2. building' # "returned" \/ snippets' = {}
    BY <1>2 DEF EmbedBatch, Ends
  <2>3. ContextIsBest'
    BY <2>1, <2>2, NothingShown DEF ContextIsBest
  <2> QED
    BY <2>1, <2>3 DEF FetchInv
<1>3. CASE ReturnSnippets
  <2>1. found' = found /\ limit' = limit /\ building' = "returned"
    BY <1>3 DEF ReturnSnippets, Ends
  <2> QED
    BY <1>3, <2>1, ReturnKeepsBest DEF FetchInv
<1>4. CASE BuildCancelled
  BY <1>4 DEF BuildCancelled, FetchInv, ContextIsBest
<1>5. ASSUME NEW q \in (1..identifiers) \X branches, SearchStarts(q)
      PROVE  FetchInv'
  BY <1>5 DEF SearchStarts, FetchInv, ContextIsBest
<1>6. ASSUME NEW q \in (1..identifiers) \X branches, SearchEnds(q)
      PROVE  FetchInv'
  <2>1. building' = "search" /\ limit' = limit
    BY <1>6 DEF SearchEnds
  <2>2. found' \subseteq FoundType
    <3>1. CASE UNCHANGED found
      BY <3>1 DEF FetchInv
    <3>2. CASE \E cs \in SUBSET {c \in Chunks : c.branch = q[2]} :
                 \E score \in [cs -> Scores] :
                   found' = found \cup {Snippet(c, score[c]) : c \in cs}
      <4>1. PICK cs \in SUBSET {c \in Chunks : c.branch = q[2]} : \E score \in [cs -> Scores] :
              found' = found \cup {Snippet(c, score[c]) : c \in cs}
        BY <3>2
      <4> PICK score \in [cs -> Scores] : found' = found \cup {Snippet(c, score[c]) : c \in cs}
        BY <4>1
      <4>2. ASSUME NEW c \in cs PROVE Snippet(c, score[c]) \in FoundType
        <5>1. c \in Chunks /\ c.branch \in branches /\ score[c] \in Nat
          BY LimitsAssumption
        <5> QED
          BY <5>1 DEF Snippet, FoundType
      <4> QED
        BY <4>2 DEF FetchInv
    <3> QED
      BY <1>6, <3>1, <3>2 DEF SearchEnds
  <2> QED
    BY <2>1, <2>2 DEF FetchInv, ContextIsBest
<1>7. CASE UNCHANGED fetchVars
  BY <1>7 DEF fetchVars, FetchInv, ContextIsBest
<1> QED
  BY <1>1, <1>2, <1>3, <1>4, <1>5, <1>6, <1>7 DEF FetchNext

\* ContextBuilder.build: for any index, queries, failing searches, scores and limit,
\* what the review is shown is the best of what was found, once, under its branches.
THEOREM BestIsShown == FetchSpec => []ContextIsBest
<1>1. FetchInit => FetchInv
  BY DEF FetchInit, FetchInv, ContextIsBest
<1>2. FetchInv /\ [FetchNext]_fetchVars => FetchInv'
  BY FetchStepInv
<1>3. FetchInv => ContextIsBest
  BY DEF FetchInv
<1> QED
  BY <1>1, <1>2, <1>3, PTL DEF FetchSpec

-----------------------------------------------------------------------------
(* Analysis: a process is alive only while its tool is awaited.            *)

ToolInv ==
  /\ AnalysisTypeOK
  /\ NoToolIsLeft
  /\ analysis \in {"idle", "read"} => \A t \in Tools : proc[t] = "none"
  /\ analysis \in {"spawn", "communicate", "wait"} => tmpdir
  /\ analysis = "spawn" /\ tool = "ruff" => proc["mypy"] = "none"

LEMMA ToolStep ==
  ASSUME ToolInv, [AnalysisNext]_analysisVars
  PROVE  ToolInv'
<1> USE DEF ToolInv, AnalysisTypeOK, NoToolIsLeft, Alive, Tools, AnalysisEnded
<1>1. CASE BeginAnalysis
  BY <1>1 DEF BeginAnalysis
<1>2. CASE WriteFiles
  <2>1. /\ UNCHANGED <<enabled, unread, contents, proc, reported, unheard>>
        /\ tool' \in Tools
        /\ \A t \in Tools : proc'[t] = "none"
    BY <1>2 DEF WriteFiles
  <2>2. \/ analysis' = "spawn" /\ tmpdir' = TRUE
        \/ analysis' \in {"returned", "swallowed"} /\ tmpdir' = FALSE
    BY <1>2 DEF WriteFiles, Leave
  <2> QED
    BY <2>1, <2>2
<1>3. CASE Spawn
  BY <1>3 DEF Spawn, NextTool, Leave
<1>4. CASE ToolAnswers
  BY <1>4 DEF ToolAnswers, NextTool, Leave
<1>5. CASE ToolTimesOut
  BY <1>5 DEF ToolTimesOut
<1>6. CASE ToolReaped
  BY <1>6 DEF ToolReaped, NextTool, Leave
<1>7. CASE AnalysisCancelled
  BY <1>7 DEF AnalysisCancelled, Leave
<1>8. CASE ToolRaises
  BY <1>8 DEF ToolRaises, NextTool, Leave
<1>9. ASSUME NEW p \in PyFiles, ReadFile(p) PROVE ToolInv'
  BY <1>9 DEF ReadFile
<1>10. ASSUME NEW t \in Tools, ToolExits(t) PROVE ToolInv'
  BY <1>10 DEF ToolExits
<1>11. CASE UNCHANGED analysisVars
  BY <1>11 DEF analysisVars
<1> QED
  BY <1>1, <1>2, <1>3, <1>4, <1>5, <1>6, <1>7, <1>8, <1>9, <1>10, <1>11 DEF AnalysisNext

\* StaticAnalyzer.run: for any files and settings, unless the review is cancelled or
\* talking to a process raises, no ruff or mypy outlives its turn, runs beside the
\* other or without its directory.
THEOREM ToolsAreReaped == AnalysisSpec => []NoToolIsLeft
<1>1. AnalysisInit => ToolInv
  BY DEF AnalysisInit, ToolInv, AnalysisTypeOK, NoToolIsLeft, Alive, Tools, AnalysisEnded
<1>2. ToolInv => NoToolIsLeft
  BY DEF ToolInv
<1> QED
  BY <1>1, <1>2, ToolStep, PTL DEF AnalysisSpec

-----------------------------------------------------------------------------
(* ModelManager.                                                           *)

LEMMA SizeIsNat == ASSUME NEW n \in Names PROVE _model_vram(n) \in Nat
BY NamesAssumption, SizesAssumption DEF _model_vram

LEMMA OneHeld ==
  ASSUME NEW n \in Names
  PROVE  /\ IsFiniteSet({n} \X (1.._model_vram(n)))
         /\ Cardinality({n} \X (1.._model_vram(n))) = _model_vram(n)
<1> DEFINE k == _model_vram(n)
<1>1. k \in Nat
  BY SizeIsNat
<1> HIDE DEF k
<1>2. IsFiniteSet(1..k) /\ Cardinality(1..k) = k
  BY <1>1, FS_Interval
<1>3. IsFiniteSet({n}) /\ Cardinality({n}) = 1
  BY FS_Singleton
<1>4. IsFiniteSet({n} \X (1..k)) /\ Cardinality({n} \X (1..k)) = 1 * k
  BY <1>2, <1>3, FS_Product
<1> QED
  BY <1>1, <1>4 DEF k

LEMMA HeldIsFinite ==
  ASSUME NEW S \in SUBSET Names PROVE IsFiniteSet(Held(S)) /\ Vram(S) \in Nat
<1> DEFINE f == [n \in S |-> {n} \X (1.._model_vram(n))]
           T == {{n} \X (1.._model_vram(n)) : n \in S}
<1>1. IsFiniteSet(S)
  BY NamesAssumption, FS_Subset
<1>2. f \in Surjection(S, T)
  BY DEF Surjection
<1>3. IsFiniteSet(T)
  BY <1>1, <1>2, FS_Surjection
<1>4. \A t \in T : IsFiniteSet(t)
  BY OneHeld
<1>5. IsFiniteSet(Held(S))
  BY <1>3, <1>4, FS_UNION DEF Held
<1> QED
  BY <1>5, FS_CardinalityType DEF Vram

LEMMA NothingHeld == Vram({}) = 0
<1>1. Held({}) = {}
  BY DEF Held
<1> QED
  BY <1>1, FS_EmptySet DEF Vram

\* The sum of the sizes grows by the size of an instance that is added.
LEMMA AddedVram ==
  ASSUME NEW S \in SUBSET Names, NEW n \in Names, n \notin S
  PROVE  Vram(S \cup {n}) = Vram(S) + _model_vram(n)
<1> DEFINE One == {n} \X (1.._model_vram(n))
<1>1. Held(S \cup {n}) = Held(S) \cup One
  BY DEF Held
<1>2. Held(S) \cap One = {}
  BY DEF Held
<1>3. IsFiniteSet(Held(S)) /\ Cardinality(Held(S)) \in Nat
  BY HeldIsFinite DEF Vram
<1>4. IsFiniteSet(One) /\ Cardinality(One) = _model_vram(n) /\ _model_vram(n) \in Nat
  BY OneHeld, SizeIsNat
<1>5. Cardinality(Held(S) \cup One)
        = Cardinality(Held(S)) + Cardinality(One) - Cardinality(Held(S) \cap One)
  BY <1>3, <1>4, FS_Union
<1>6. Cardinality({}) = 0
  BY FS_EmptySet
<1>7. Cardinality(Held(S) \cap One) = 0
  BY <1>2, <1>6, Zenon
<1> HIDE DEF One
<1>8. Cardinality(Held(S) \cup One) = Cardinality(Held(S)) + _model_vram(n)
  BY <1>3, <1>4, <1>5, <1>7
<1> QED
  BY <1>1, <1>8 DEF Vram

LEMMA RemovedVram ==
  ASSUME NEW S \in SUBSET Names, NEW n \in S
  PROVE  Vram(S) = Vram(S \ {n}) + _model_vram(n)
<1>1. S = (S \ {n}) \cup {n}
  OBVIOUS
<1> QED
  BY <1>1, AddedVram

\* While the manager unloads or loads: the model chosen is not there and fits into
\* an empty VRAM, and what has been freed is the rest of what was listed.
Underway ==
  /\ chosen \in Names \ listed /\ ~TooLarge(chosen)
  /\ to_unload \subseteq listed /\ Vram(listed) = freed + Vram(to_unload)
  /\ ~disturbed => loaded = to_unload

MakingRoom ==
  /\ place = "list" => chosen = NoName /\ freed = 0
  /\ place \in {"unload", "load"} => Underway
  /\ place = "unload" => OverBudget(chosen, listed, freed)
  /\ place = "load" => ~OverBudget(chosen, listed, freed)

ModelInv == ModelTypeOK /\ MakingRoom /\ BudgetHolds /\ RaisesForCause

LEMMA ModelInitInv == ModelInit => ModelInv
<1> SUFFICES ASSUME ModelInit PROVE ModelInv
  OBVIOUS
<1>1. 0 \in 0..MaxReviews /\ 0 \in 0..MaxOthers
  BY ReviewsAssumption
<1>2. ModelTypeOK
  BY <1>1 DEF ModelInit, ModelTypeOK
<1> QED
  BY <1>2 DEF ModelInit, ModelInv, MakingRoom, BudgetHolds, RaisesForCause

\* As long as the chosen model fits at all there is something left to unload.
LEMMA NextCall ==
  ASSUME NEW instances \in SUBSET Names, NEW rest \in SUBSET instances,
         NEW n \in Names, ~TooLarge(n),
         NEW gone \in Nat, Vram(instances) = gone + Vram(rest)
  PROVE  \/ Following(n, instances, gone, rest) = "load" /\ ~OverBudget(n, instances, gone)
         \/ Following(n, instances, gone, rest) = "unload" /\ OverBudget(n, instances, gone)
<1>1. CASE rest = {}
  <2>1. Vram(instances) - gone = 0
    BY <1>1, NothingHeld
  <2>2. ~OverBudget(n, instances, gone)
    BY <2>1, SizeIsNat, SizesAssumption DEF OverBudget, TooLarge
  <2> QED
    BY <2>2 DEF Following
<1>2. CASE rest # {}
  BY <1>2 DEF Following
<1> QED
  BY <1>1, <1>2

LEMMA SelectableAreNames ==
  ASSUME NEW S \in SUBSET Names PROVE Selectable(S) \subseteq Names
<1>1. Entries(S) \subseteq Names
  BY NamesAssumption DEF Entries, Keys
<1> QED
  BY <1>1 DEF Selectable, Sufficient

LEMMA ModelTypeStep == ModelInv /\ [ModelNext]_modelVars => ModelTypeOK'
<1> SUFFICES ASSUME ModelInv, [ModelNext]_modelVars PROVE ModelTypeOK'
  OBVIOUS
<1>0. ModelTypeOK /\ (place = "load" => chosen \in Names)
  BY DEF ModelInv, MakingRoom, Underway
<1> USE NamesAssumption, ReviewsAssumption DEF ModelTypeOK
<1>1. CASE GetModelForTask
  <2>1. tokens' \in Nat /\ configured' \in Names \cup {NoName} /\ reviews' \in 0..MaxReviews
    BY <1>0, <1>1 DEF GetModelForTask
  <2> QED
    BY <1>0, <1>1, <2>1 DEF GetModelForTask
<1>2. CASE Listed
  <2>1. Selectable(loaded) \subseteq Names
    BY <1>0, SelectableAreNames
  <2>2. chosen' \in Names \cup {NoName} /\ to_unload' \subseteq Names
    BY <1>0, <1>2, <2>1 DEF Listed
  <2>3. place' \in {"returned", "raised", "load", "unload"}
    BY <1>0, <1>2 DEF Listed, Following
  <2> QED
    BY <1>0, <1>2, <2>2, <2>3 DEF Listed
<1>3. ASSUME NEW n \in Names, Unload(n) PROVE ModelTypeOK'
  <2>1. freed' \in Nat
    BY <1>0, <1>3, SizeIsNat DEF Unload, Freed
  <2>2. place' \in {"raised", "load", "unload"}
    BY <1>0, <1>3 DEF Unload, Following
  <2>3. loaded' \subseteq Names /\ to_unload' \subseteq Names
    BY <1>0, <1>3 DEF Unload
  <2> QED
    BY <1>0, <1>3, <2>1, <2>2, <2>3 DEF Unload
<1>4. CASE Load
  <2>1. loaded' \subseteq Names /\ place' = "returned"
    BY <1>0, <1>4 DEF Load
  <2> QED
    BY <1>0, <1>4, <2>1 DEF Load
<1>5. CASE RequestFails
  <2>1. loaded' \subseteq Names /\ place' = "raised" /\ broken' = TRUE
    BY <1>0, <1>5 DEF RequestFails
  <2> QED
    BY <1>0, <1>5, <2>1 DEF RequestFails
<1>6. CASE OtherUser
  <2>1. loaded' \subseteq Names /\ others' \in 0..MaxOthers
    BY <1>0, <1>6 DEF OtherUser
  <2> QED
    BY <1>0, <1>6, <2>1 DEF OtherUser
<1>7. CASE UNCHANGED modelVars
  BY <1>0, <1>7 DEF modelVars
<1> QED
  BY <1>1, <1>2, <1>3, <1>4, <1>5, <1>6, <1>7 DEF ModelNext

LEMMA ModelStepInv == ModelInv /\ [ModelNext]_modelVars => ModelInv'
<1> SUFFICES ASSUME ModelInv, [ModelNext]_modelVars PROVE ModelInv'
  OBVIOUS
<1>0. ModelTypeOK /\ ModelTypeOK'
  BY ModelTypeStep DEF ModelInv
<1> SUFFICES MakingRoom' /\ BudgetHolds' /\ RaisesForCause'
  BY <1>0 DEF ModelInv
<1>1. CASE GetModelForTask
  BY <1>1 DEF GetModelForTask, MakingRoom, BudgetHolds, RaisesForCause
<1>2. CASE Listed
  <2>1. place = "list" /\ chosen = NoName /\ freed = 0 /\ freed' = 0 /\ listed' = loaded
        /\ loaded' = loaded /\ loaded \subseteq Names
    BY <1>0, <1>2 DEF Listed, ModelInv, MakingRoom, ModelTypeOK
  <2>2. CASE Sufficient(loaded) = {} /\ place' = "raised" /\ UNCHANGED <<chosen, to_unload>>
    BY <2>1, <2>2 DEF MakingRoom, BudgetHolds, RaisesForCause
  <2>3. ASSUME NEW n \in Selectable(loaded), chosen' = n, n \in loaded, place' = "returned"
        PROVE  MakingRoom' /\ BudgetHolds' /\ RaisesForCause'
    BY <2>1, <2>3 DEF MakingRoom, BudgetHolds, RaisesForCause
  <2>4. ASSUME NEW n \in Selectable(loaded), chosen' = n, TooLarge(n), place' = "raised"
        PROVE  MakingRoom' /\ BudgetHolds' /\ RaisesForCause'
    BY <2>1, <2>4 DEF MakingRoom, BudgetHolds, RaisesForCause, TooLarge
  <2>5. ASSUME NEW n \in Selectable(loaded), chosen' = n, n \notin loaded, ~TooLarge(n),
               to_unload' = loaded, place' = Following(n, loaded, 0, loaded)
        PROVE  MakingRoom' /\ BudgetHolds' /\ RaisesForCause'
    <3>1. n \in Names
      BY <2>1, SelectableAreNames
    <3>2. Vram(loaded) \in Nat
      BY <2>1, HeldIsFinite
    <3>3. \/ place' = "load" /\ ~OverBudget(n, loaded, 0)
          \/ place' = "unload" /\ OverBudget(n, loaded, 0)
      BY <2>1, <2>5, <3>1, <3>2, NextCall
    <3>4. Underway'
      BY <2>1, <2>5, <3>1, <3>2 DEF Underway
    <3> QED
      BY <2>1, <2>5, <3>3, <3>4 DEF MakingRoom, BudgetHolds, RaisesForCause
  <2> QED
    BY <1>2, <2>2, <2>3, <2>4, <2>5 DEF Listed
<1>3. ASSUME NEW n \in Names, Unload(n) PROVE MakingRoom' /\ BudgetHolds' /\ RaisesForCause'
  <2>1. Underway /\ place = "unload" /\ n \in to_unload
        /\ UNCHANGED <<listed, chosen, disturbed, broken>>
    BY <1>3 DEF Unload, ModelInv, MakingRoom
  <2>2. CASE n \notin loaded
    <3>1. disturbed /\ place' = "raised"
      BY <1>3, <2>1, <2>2 DEF Unload, Underway
    <3> QED
      BY <2>1, <3>1 DEF MakingRoom, BudgetHolds, RaisesForCause
  <2>3. CASE n \in loaded
    <3>1. loaded' = loaded \ {n} /\ freed' = freed + _model_vram(n)
          /\ to_unload' = to_unload \ {n} /\ place' = Following(chosen, listed, freed', to_unload')
      BY <1>3, <2>3 DEF Unload, Freed
    <3>2. Vram(to_unload) = Vram(to_unload \ {n}) + _model_vram(n)
      BY <1>0, <2>1, RemovedVram DEF ModelTypeOK
    <3>3. Vram(to_unload) \in Nat /\ Vram(to_unload \ {n}) \in Nat /\ Vram(listed) \in Nat
          /\ _model_vram(n) \in Nat /\ freed \in Nat /\ freed' \in Nat
      BY <1>0, HeldIsFinite, SizeIsNat DEF ModelTypeOK
    <3>4. Vram(listed) = freed' + Vram(to_unload')
      BY <2>1, <3>1, <3>2, <3>3 DEF Underway
    <3>5. Underway'
      BY <2>1, <3>1, <3>4 DEF Underway
    <3>6. \/ place' = "load" /\ ~OverBudget(chosen, listed, freed')
          \/ place' = "unload" /\ OverBudget(chosen, listed, freed')
      BY <1>0, <2>1, <3>1, <3>3, <3>4, <3>5, NextCall DEF Underway, ModelTypeOK
    <3> QED
      BY <2>1, <3>5, <3>6 DEF MakingRoom, BudgetHolds, RaisesForCause
  <2> QED
    BY <2>2, <2>3
<1>4. CASE Load
  <2>1. Underway /\ ~OverBudget(chosen, listed, freed) /\ place' = "returned"
        /\ loaded' = loaded \cup {chosen} /\ UNCHANGED <<listed, chosen, to_unload, disturbed>>
    BY <1>4 DEF Load, ModelInv, MakingRoom
  <2>2. ~disturbed => Vram(loaded') = Vram(to_unload) + _model_vram(chosen)
    BY <1>0, <2>1, AddedVram DEF Underway, ModelTypeOK
  <2>3. Vram(to_unload) \in Nat /\ Vram(listed) \in Nat /\ _model_vram(chosen) \in Nat
        /\ freed \in Nat
    BY <1>0, <2>1, HeldIsFinite, SizeIsNat DEF ModelTypeOK, Underway
  <2>4. Vram(to_unload) + _model_vram(chosen) <= vram_budget
    BY <2>1, <2>3, SizesAssumption DEF Underway, OverBudget
  <2>5. BudgetHolds'
    BY <2>1, <2>2, <2>4 DEF BudgetHolds
  <2> QED
    BY <2>1, <2>5 DEF MakingRoom, RaisesForCause
<1>5. CASE RequestFails
  BY <1>5 DEF RequestFails, MakingRoom, BudgetHolds, RaisesForCause
<1>6. CASE OtherUser
  BY <1>6 DEF OtherUser, ModelInv, MakingRoom, Underway, BudgetHolds, RaisesForCause
<1>7. CASE UNCHANGED modelVars
  BY <1>7 DEF modelVars, ModelInv, MakingRoom, BudgetHolds, RaisesForCause, Underway
<1> QED
  BY <1>1, <1>2, <1>3, <1>4, <1>5, <1>6, <1>7 DEF ModelNext

\* ModelManager: for any models, sizes and budget, the variables have their types.
THEOREM ModelTypeCorrect == ModelSpec => []ModelTypeOK
<1>1. ModelInv => ModelTypeOK
  BY DEF ModelInv
<1> QED
  BY <1>1, ModelInitInv, ModelStepInv, PTL DEF ModelSpec

\* ModelManager.get_model_for_task: for any models, sizes, budget, prompts and
\* failures, and whatever others do between two calls, a model it had to load is in
\* VRAM within the budget, unless others stepped in after it had listed the models.
THEOREM BudgetIsKept == ModelSpec => []BudgetHolds
<1>1. ModelInv => BudgetHolds
  BY DEF ModelInv
<1> QED
  BY <1>1, ModelInitInv, ModelStepInv, PTL DEF ModelSpec

\* ModelManager.get_model_for_task: for any models, sizes, budget and prompts, a call
\* that nobody and no failure disturbs gives up only when no model has the context
\* or the selected one exceeds the whole budget, and before it unloads anything.
THEOREM GivesUpForCause == ModelSpec => []RaisesForCause
<1>1. ModelInv => RaisesForCause
  BY DEF ModelInv
<1> QED
  BY <1>1, ModelInitInv, ModelStepInv, PTL DEF ModelSpec

\* Undisturbed, an instance is only unloaded while the model selected does not fit
\* beside those that are still in VRAM: the amount freed is what really is free.
UnloadsOnlyIfNeeded ==
  place = "unload" /\ ~disturbed =>
    chosen \notin loaded /\ Vram(loaded) + _model_vram(chosen) > vram_budget

\* ModelManager.get_model_for_task: for any models, sizes and budget, as long as
\* others keep out, the loop over the instances stops as soon as there is room.
THEOREM NothingIsUnloadedInVain == ModelSpec => []UnloadsOnlyIfNeeded
<1>1. ASSUME ModelInv, place = "unload", ~disturbed
      PROVE  chosen \notin loaded /\ Vram(loaded) + _model_vram(chosen) > vram_budget
  <2>1. Underway /\ OverBudget(chosen, listed, freed) /\ ModelTypeOK
    BY <1>1 DEF ModelInv, MakingRoom
  <2>2. Vram(loaded) \in Nat /\ freed \in Nat /\ Vram(listed) = freed + Vram(loaded)
        /\ _model_vram(chosen) \in Nat
    BY <1>1, <2>1, HeldIsFinite, SizeIsNat DEF Underway, ModelTypeOK
  <2> QED
    BY <1>1, <2>1, <2>2 DEF Underway, OverBudget
<1>2. ModelInv => UnloadsOnlyIfNeeded
  BY <1>1 DEF UnloadsOnlyIfNeeded
<1> QED
  BY <1>2, ModelInitInv, ModelStepInv, PTL DEF ModelSpec

=============================================================================
