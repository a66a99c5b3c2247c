-------------------------------- MODULE Prefetch --------------------------------
(***************************************************************************)
(* The code that a review is shown beside its diff (context_builder.py,    *)
(* embedding_service.py).  The identifiers of the diff are embedded in     *)
(* batches; then every identifier is searched for in the base branch and   *)
(* in the head branch, so many searches at a time; what they find is       *)
(* merged and the best of it kept.  A failing search is left out, a        *)
(* failing embedding leaves the review without code.                       *)
(*                                                                         *)
(* A chunk stands for its indexed text, which is compared without trailing *)
(* blanks; its score depends on the query.  Which of two equal scores      *)
(* comes first is left open.                                               *)
(***************************************************************************)
EXTENDS Integers, FiniteSets

CONSTANTS identifiers,        \* how many the diff has
          base_branch, head_branch,
          Chunks,             \* what the searches may find: branch, name (of the
                              \* file and the chunk) and text
          Scores, Limits,     \* the scores; the snippets a review may be shown
          BATCH_SIZE, PER_QUERY_LIMIT, MAX_CONCURRENT_SEARCHES

branches == {base_branch, head_branch}

ASSUME LimitsAssumption ==
  /\ Scores \subseteq Nat /\ Limits \subseteq Nat /\ identifiers \in Nat
  /\ BATCH_SIZE \in Nat \ {0} /\ PER_QUERY_LIMIT \in Nat /\ MAX_CONCURRENT_SEARCHES \in Nat \ {0}

VARIABLES
  building,   \* the await build() is in, or how it ended
  embedded,   \* how many identifiers have been embedded
  waiting,    \* the searches that wait for the semaphore
  running,    \* the searches under way
  found,      \* the snippets of the searches that have succeeded
  limit,
  snippets    \* what build() returned

fetchVars == <<building, embedded, waiting, running, found, limit, snippets>>

\* A snippet as found, and as returned: in one branch, or the same in both.
Snippet(c, score) ==
  [name |-> c.name, text |-> c.text, branches |-> {c.branch}, score |-> score]

FetchInit ==
  /\ building = "idle" /\ embedded = 0 /\ waiting = {} /\ running = {} /\ found = {}
  /\ limit = 0 /\ snippets = {}

Ends(result) == building' = "returned" /\ snippets' = result

-----------------------------------------------------------------------------
\* No identifiers, no code.
BeginBuild ==
  /\ building = "idle"
  /\ limit' \in Limits
  /\ IF identifiers = 0 THEN Ends({}) ELSE building' = "embed" /\ UNCHANGED snippets
  /\ UNCHANGED <<embedded, waiting, running, found>>

\* EmbeddingService.embed: a batch is answered with a vector for each text; a
\* failed request, or too few vectors, end build() with nothing.
EmbedBatch ==
  /\ building = "embed"
  /\ \/ /\ embedded' = IF embedded + BATCH_SIZE < identifiers
                        THEN embedded + BATCH_SIZE ELSE identifiers
        /\ IF embedded' = identifiers
           THEN building' = "search" /\ waiting' = (1..identifiers) \X branches
           ELSE UNCHANGED <<building, waiting>>
        /\ UNCHANGED snippets
     \/ Ends({}) /\ UNCHANGED <<embedded, waiting>>
  /\ UNCHANGED <<running, found, limit>>

\* _throttled_search enters the semaphore.
SearchStarts(q) ==
  /\ building = "search" /\ q \in waiting
  /\ Cardinality(running) < MAX_CONCURRENT_SEARCHES
  /\ waiting' = waiting \ {q} /\ running' = running \cup {q}
  /\ UNCHANGED <<building, embedded, found, limit, snippets>>

\* The nearest chunks of the branch, each with a score; a failure is logged.
SearchEnds(q) ==
  /\ building = "search" /\ q \in running
  /\ running' = running \ {q}
  /\ \/ \E cs \in SUBSET {c \in Chunks : c.branch = q[2]} :
          /\ Cardinality(cs) <= PER_QUERY_LIMIT
          /\ \E score \in [cs -> Scores] :
               found' = found \cup {Snippet(c, score[c]) : c \in cs}
     \/ UNCHANGED found
  /\ UNCHANGED <<building, embedded, waiting, limit, snippets>>

-----------------------------------------------------------------------------
(* _deduplicate.                                                           *)

\* Faulty variant: the first of a name and branch is kept, not the best.
BestAny(s, group) == s \in group

\* One of the highest score.
Best(s, group) == s \in group /\ \A t \in group : t.score <= s.score

Alike(s, t) == s.name = t.name /\ s.branches = t.branches

\* best: a snippet for each name and branch found.
OneEach(best) ==
  /\ \A s \in best : Best(s, {t \in found : Alike(s, t)})
  /\ \A s \in found : \E t \in best : Alike(s, t)
  /\ \A s, t \in best : Alike(s, t) => s = t

\* The snippets of the other branch that s agrees with.
Twins(s, best) == {t \in best : t # s /\ t.name = s.name /\ t.text = s.text}

Joined(s, t) == [name |-> s.name, text |-> s.text, branches |-> branches,
                 score |-> IF t.score > s.score THEN t.score ELSE s.score]

\* The base's and the head's snippet of a name become one if they agree.
Merged(best) ==
  {s \in best : Twins(s, best) = {}} \cup
    {Joined(p[1], p[2]) : p \in {p \in best \X best :
                                 base_branch \in p[1].branches /\ p[2] \in Twins(p[1], best)}}

\* The best of each name and branch, merged, and cut to the limit by score.
ReturnSnippets ==
  /\ building = "search" /\ waiting = {} /\ running = {}
  /\ \E best \in SUBSET found :
       /\ OneEach(best)
       /\ \E shown \in SUBSET Merged(best) :
            /\ IF Cardinality(Merged(best)) <= limit
               THEN shown = Merged(best) ELSE Cardinality(shown) = limit
            /\ \A s \in shown, t \in Merged(best) \ shown : t.score <= s.score
            /\ Ends(shown)
  /\ UNCHANGED <<embedded, waiting, running, found, limit>>

\* The review's task is cancelled, and the searches with it.
BuildCancelled ==
  /\ building \in {"embed", "search"}
  /\ building' = "cancelled" /\ waiting' = {} /\ running' = {}
  /\ UNCHANGED <<embedded, found, limit, snippets>>

FetchNext ==
  \/ BeginBuild \/ EmbedBatch \/ ReturnSnippets \/ BuildCancelled
  \/ \E q \in (1..identifiers) \X branches : SearchStarts(q) \/ SearchEnds(q)

FetchSpec == FetchInit /\ [][FetchNext]_fetchVars

-----------------------------------------------------------------------------
(* Properties.                                                             *)

\* Nothing found is lost to something worse: whatever a search found is shown,
\* as found or as the better-scored same snippet of its name in its branch, or the
\* review is shown as much as it may be, none of it scored lower.  Nothing is shown
\* twice, and a text is said to be in both branches only if it was found in both.
ContextIsBest ==
  building = "returned" =>
    /\ Cardinality(snippets) <= limit
    /\ \A s \in found :
         \/ \E t \in snippets :
              t.name = s.name /\ s.branches \subseteq t.branches /\ t.score >= s.score
         \/ Cardinality(snippets) = limit /\ \A t \in snippets : t.score >= s.score
    /\ \A s, t \in snippets : s.name = t.name /\ s.branches \cap t.branches # {} => s = t
    /\ \A s \in snippets : \A b \in s.branches :
         \E t \in found : t.name = s.name /\ t.text = s.text /\ t.branches = {b}
=============================================================================
