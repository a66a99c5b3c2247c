-------------------------- MODULE ReviewOrchestrator --------------------------
(***************************************************************************)
(* One review (review_orchestrator.py): the run that a job task of the     *)
(* queue awaits.  It checks the pull request's head, gathers what the      *)
(* language model needs, asks it for a review, checks the head again and   *)
(* posts: first the review, bound to the job's commit, then the summary    *)
(* comment, bound to none.  Each action is one await; the pull request may *)
(* move, a call may fail and the job may be cancelled at any of them.      *)
(***************************************************************************)
EXTENDS Integers, Sequences

CONSTANTS Shas,      \* commits
          MaxPush,   \* bound: how often the pull request's head moves
          shaAt,     \* the head after each push; the job is for shaAt[0]
          Places,    \* lines of files a finding may name
          pages      \* the diff of a commit as GitHub lists it, page by page

ASSUME HistoryAssumption == MaxPush \in Nat /\ shaAt \in [0..MaxPush -> Shas]
ASSUME DiffAssumption == pages \in [Shas -> Seq(SUBSET Places)]

JobSha == shaAt[0]
\* The right-side lines of the whole diff of a commit.
Diff(sha) == UNION {pages[sha][n] : n \in DOMAIN pages[sha]}

Verdicts == {"approve", "request_changes", "comment"}
Events == {"APPROVE", "REQUEST_CHANGES", "COMMENT"}
\* A run that has not ended; "cancelling" once its task is cancelled.
Going == {"running", "cancelling"}
Outcomes == Going \cup {"ok", "stale", "failed", "cancelled"}
Phases == {"head", "config", "diff", "standards", "issues", "analysis", "context", "model",
           "llm", "prepost", "submit", "resubmit", "diagnose", "summary", "end"}

VARIABLES
  world,     \* mayFail: whether calls may fail; own: the reviewer wrote the PR
  pushes,    \* how often the head has moved
  phase,     \* the await the run is suspended in
  output,    \* the output section of the merged configuration
  sources,   \* the commits the fetched pages of the diff belong to
  lines,     \* the lines in those pages
  fetched,   \* how many pages were fetched
  inline,    \* the places of the payload's inline comments
  event,     \* the event of the review to submit
  hasBody,   \* whether its body has any text
  reviews,   \* GitHub: the reviews this run has posted
  summaries, \* GitHub: how many summary comments this run has posted
  outcome    \* how run() ended

vars == <<world, pushes, phase, output, sources, lines, fetched, inline, event, hasBody,
          reviews, summaries, outcome>>
payload == <<inline, event, hasBody>>
diff == <<sources, lines, fetched>>
posted == <<reviews, summaries>>

HeadSha == shaAt[pushes]

TypeOK ==
  /\ world \in [mayFail : BOOLEAN, own : BOOLEAN]
  /\ pushes \in 0..MaxPush
  /\ phase \in Phases
  /\ output \in [inline_comments : BOOLEAN, summary_comment : BOOLEAN, formal_review : BOOLEAN]
  /\ sources \subseteq Shas /\ lines \subseteq Places /\ fetched \in Nat
  /\ inline \subseteq Places
  /\ phase \in {"submit", "resubmit"} => event \in Events
  /\ hasBody \in BOOLEAN
  /\ reviews \in Seq([event : Events, places : SUBSET Places])
  /\ summaries \in Nat
  /\ outcome \in Outcomes

Init ==
  /\ world \in [mayFail : BOOLEAN, own : BOOLEAN]
  /\ pushes = 0 /\ phase = "head" /\ outcome = "running"
  /\ output \in [inline_comments : BOOLEAN, summary_comment : BOOLEAN, formal_review : BOOLEAN]
  /\ sources = {} /\ lines = {} /\ fetched = 0
  /\ inline = {} /\ event = "COMMENT" /\ hasBody = FALSE
  /\ reviews = <<>> /\ summaries = 0

\* GitHub: somebody pushes to the pull request.
Push ==
  /\ pushes < MaxPush /\ outcome \in Going
  /\ pushes' = pushes + 1
  /\ UNCHANGED <<world, phase, output, diff, payload, posted, outcome>>

-----------------------------------------------------------------------------
End(how) == phase' = "end" /\ outcome' = how
Goto(next) == phase' = next /\ UNCHANGED outcome

\* The first check: a job whose commit is no longer the head is stale.
CheckHead ==
  /\ phase = "head"
  /\ \/ HeadSha = JobSha /\ Goto("config")
     \/ HeadSha # JobSha /\ End("stale")
     \/ world.mayFail /\ End("failed")
  /\ UNCHANGED <<world, pushes, output, diff, payload, posted>>

\* ConfigManager.for_repo; a repository without a valid file of its own has the
\* server's settings.
LoadConfig ==
  /\ phase = "config"
  /\ Goto("diff") \/ (world.mayFail /\ End("failed"))
  /\ UNCHANGED <<world, pushes, output, diff, payload, posted>>

\* get_pr_diff asks for one page after the other, of whatever commit is then the
\* head, until a page is the last.
FetchPage ==
  /\ phase = "diff"
  /\ \/ /\ fetched' = fetched + 1
        /\ sources' = sources \cup {HeadSha}
        /\ lines' = lines \cup
             IF fetched' \in DOMAIN pages[HeadSha] THEN pages[HeadSha][fetched'] ELSE {}
        /\ Goto(IF fetched' < Len(pages[HeadSha]) THEN "diff" ELSE "standards")
     \/ world.mayFail /\ End("failed") /\ UNCHANGED diff
  /\ UNCHANGED <<world, pushes, output, payload, posted>>

\* StandardsDetector.detect and ModelManager.get_model_for_task may raise.
Require(from, next) ==
  /\ phase = from
  /\ Goto(next) \/ (world.mayFail /\ End("failed"))
  /\ UNCHANGED <<world, pushes, output, diff, payload, posted>>

DetectStandards == Require("standards", "issues")
SelectModel == Require("model", "llm")

\* Linked issues, static analysis and retrieved snippets are best effort: their
\* failures are logged, and the review goes on without them.
Degrade(from, next) ==
  /\ phase = from
  /\ Goto(next)
  /\ UNCHANGED <<world, pushes, output, diff, payload, posted>>

ResolveIssues == Degrade("issues", "analysis")
Analyze == Degrade("analysis", "context")
BuildContext == Degrade("context", "model")

-----------------------------------------------------------------------------
(* The model's answer and the payload made of it.                          *)

\* Faulty variant: comments are not filtered.
OnDiffAll(places) == places

\* Only comments on lines of the fetched diff are kept.
OnDiff(places) == places \cap lines

\* Faulty variant: without a formal review there is nothing to submit.
ReviewDueFormal == output.formal_review

\* A review is submitted for the verdict or for the inline comments.
ReviewDue == inline' # {} \/ output.formal_review

\* _VERDICT_MAP
EventOf(verdict) ==
  CASE verdict = "approve" -> "APPROVE"
    [] verdict = "request_changes" -> "REQUEST_CHANGES"
    [] OTHER -> "COMMENT"

\* Without a formal review the inline comments go out as a COMMENT.
SubmitEvent(verdict) == IF output.formal_review THEN EventOf(verdict) ELSE "COMMENT"

\* Every event but an approval needs a body: a blank one is replaced.
Body(ev, text) == text \/ ev # "APPROVE"

\* LLMClient.review returns findings and a verdict (its fallback is a verdict of
\* "comment" without located findings), or raises, as when a call fails or a finding
\* does not parse; the formatter makes the payload.
Review ==
  /\ phase = "llm"
  /\ \/ \E found \in SUBSET Places, verdict \in Verdicts, text \in BOOLEAN :
          /\ inline' = IF output.inline_comments THEN OnDiff(found) ELSE {}
          /\ event' = SubmitEvent(verdict)
          /\ hasBody' = Body(event', output.formal_review /\ text)
          /\ IF ReviewDue \/ output.summary_comment THEN Goto("prepost") ELSE End("ok")
     \/ world.mayFail /\ End("failed") /\ UNCHANGED payload
  /\ UNCHANGED <<world, pushes, output, diff, posted>>

-----------------------------------------------------------------------------
(* Posting.                                                                *)

\* Faulty variant: the head is not checked again.
MayPostUnchecked == TRUE

\* The second check, once there is something to post.
MayPost == HeadSha = JobSha

SubmitsReview == inline # {} \/ output.formal_review

CheckBeforePosting ==
  /\ phase = "prepost"
  /\ \/ MayPost /\ Goto(IF SubmitsReview THEN "submit" ELSE "summary")
     \/ ~MayPost /\ End("stale")
     \/ world.mayFail /\ End("failed")
  /\ UNCHANGED <<world, pushes, output, diff, payload, posted>>

\* GitHub's rules for a review with event ev and a body or none.
OwnPR(ev) == world.own /\ ev # "COMMENT"
Acceptable(ev, body) == inline \subseteq Diff(JobSha) /\ ~OwnPR(ev) /\ (ev = "APPROVE" \/ body)

Accept(ev) == reviews' = Append(reviews, [event |-> ev, places |-> inline])

\* The answers to submit_pr_review: accepted; a 422 that says "own pull request",
\* or one for a moved head or a broken rule; or an error, after which the review
\* may be there all the same.
Answer(ev, body, answer) ==
  CASE answer = "accepted" -> Acceptable(ev, body) /\ Accept(ev)
    [] answer = "own" -> OwnPR(ev) /\ UNCHANGED reviews
    [] answer = "rejected" -> /\ \/ ~Acceptable(ev, body) /\ ~OwnPR(ev)
                                 \/ HeadSha # JobSha \/ world.mayFail
                              /\ UNCHANGED reviews
    [] answer = "error" -> /\ world.mayFail
                           /\ (Acceptable(ev, body) /\ Accept(ev)) \/ UNCHANGED reviews

AfterReview == IF output.summary_comment THEN Goto("summary") ELSE End("ok")

\* Faulty variant: nothing is retried.
RetryNothing(answer) == FALSE

\* Only an own-PR rejection is retried, as a COMMENT.
Retryable(answer) == answer = "own"

\* Faulty variant: the review is submitted again as it was.
RetryUnchanged == /\ Goto("submit")
                  /\ UNCHANGED payload

RetryAsComment == /\ Goto("resubmit")
                  /\ event' = "COMMENT" /\ hasBody' = TRUE
                  /\ UNCHANGED inline

\* Faulty variant: a rejection is logged and the summary is posted all the same.
OnRejectionGoOn == AfterReview

\* _raise_stale_or_reraise
OnRejection == Goto("diagnose")

Submit ==
  /\ phase = "submit"
  /\ \E answer \in {"accepted", "own", "rejected", "error"} :
       /\ Answer(event, hasBody, answer)
       /\ \/ Retryable(answer) /\ RetryAsComment
          \/ /\ ~Retryable(answer) /\ UNCHANGED payload
             /\ CASE answer = "accepted" -> AfterReview
                  [] answer = "error" -> End("failed")
                  [] OTHER -> OnRejection
  /\ UNCHANGED <<world, pushes, output, diff, summaries>>

\* The retry: no answer to it is retried.
Resubmit ==
  /\ phase = "resubmit"
  /\ \E answer \in {"accepted", "own", "rejected", "error"} :
       /\ Answer(event, hasBody, answer)
       /\ CASE answer = "accepted" -> AfterReview
            [] answer = "error" -> End("failed")
            [] OTHER -> OnRejection
  /\ UNCHANGED <<world, pushes, output, diff, payload, summaries>>

\* Faulty variant: a head that could not be read is taken to have moved.
UnknownIsMoved == "stale"

\* A rejection is a validation error unless the head is seen to have moved.
UnknownHead == "failed"

Diagnose ==
  /\ phase = "diagnose"
  /\ \/ HeadSha # JobSha /\ End("stale")
     \/ HeadSha = JobSha /\ End("failed")
     \/ world.mayFail /\ End(UnknownHead)
  /\ UNCHANGED <<world, pushes, output, diff, payload, posted>>

PostSummary ==
  /\ phase = "summary"
  /\ \/ summaries' = summaries + 1 /\ End("ok")
     \/ world.mayFail /\ summaries' \in {summaries, summaries + 1} /\ End("failed")
  /\ UNCHANGED <<world, pushes, output, diff, payload, reviews>>

-----------------------------------------------------------------------------
\* The queue calls cancel() on the job's task.
RequestCancel ==
  /\ outcome = "running" /\ outcome' = "cancelling"
  /\ UNCHANGED <<world, pushes, phase, output, diff, payload, posted>>

\* Faulty variant: an except block takes CancelledError for a failure.
CancelledFails == End("failed")

\* No except block of the run catches CancelledError.
OnCancelled == End("cancelled")

\* CancelledError is thrown at the await; a request under way may have taken effect.
Cancelled ==
  /\ outcome = "cancelling"
  /\ OnCancelled
  /\ \/ UNCHANGED posted
     \/ /\ phase \in {"submit", "resubmit"} /\ Acceptable(event, hasBody) /\ Accept(event)
        /\ UNCHANGED summaries
     \/ phase = "summary" /\ summaries' = summaries + 1 /\ UNCHANGED reviews
  /\ UNCHANGED <<world, pushes, output, diff, payload>>

\* The await of the run ends, and nobody has cancelled it.
Proceed ==
  /\ outcome = "running"
  /\ \/ CheckHead \/ LoadConfig \/ FetchPage \/ DetectStandards \/ ResolveIssues \/ Analyze
     \/ BuildContext \/ SelectModel \/ Review \/ CheckBeforePosting \/ Submit \/ Resubmit
     \/ Diagnose \/ PostSummary

Step == Proceed \/ Cancelled

Next == Push \/ RequestCancel \/ Step

\* Every await ends: calls to GitHub and Qdrant time out, a stalled stream of the
\* language model does too (LLM_TIMEOUT), and its answers have a bounded length.
Spec == Init /\ [][Next]_vars /\ WF_vars(Step)

-----------------------------------------------------------------------------
(* Properties.                                                             *)

\* The head never comes back to the job's commit once it has left it.
NeverReturns == \A n \in 1..MaxPush : shaAt[n] # JobSha

\* Whatever is posted was made from the job's commit alone, although the diff is
\* read page by page from a pull request that may move: the two head checks
\* enclose the reading.  (A force-push away and back between them escapes both.)
PostsAreAboutTheirCommit ==
  NeverReturns /\ (reviews # <<>> \/ summaries > 0) => sources = {JobSha}

\* "a single out-of-range finding doesn't abort the whole review": no review is
\* submitted with a comment on a line that is not in its commit's diff.
CommentsAreOnTheDiff ==
  NeverReturns /\ phase \in {"submit", "resubmit"} => inline \subseteq Diff(JobSha)

\* One run posts at most one review and one summary, retry included, even when an
\* answer is lost; and "a 422 (stale commit) aborts before any comment is posted":
\* when a review is due there is no summary comment without it.
OneReviewThenSummary ==
  /\ Len(reviews) <= 1 /\ summaries <= 1
  /\ summaries > 0 /\ (inline # {} \/ output.formal_review) => Len(reviews) > 0

\* The queue settles a stale job without a word: it must not hide a failure.
StaleIsTrue == outcome = "stale" => \E n \in 0..pushes : shaAt[n] # JobSha

\* A run that returns has posted all that was asked for.
OkIsComplete ==
  outcome = "ok" =>
    /\ output.summary_comment <=> summaries = 1
    /\ inline # {} \/ output.formal_review => Len(reviews) = 1 /\ reviews[1].places = inline

\* While the head stays and calls succeed, no verdict, no finding, no blank summary
\* and no authorship makes the posting fail: "so findings are still posted when
\* reviewer == PR author", and a blank summary is replaced.
GoodWeatherSucceeds == ~world.mayFail /\ pushes = 0 => outcome \notin {"failed", "stale"}

\* Every run ends: a rejection is not retried for ever.
RunEnds == <>(outcome \notin Going)

-----------------------------------------------------------------------------
(* The run implements the await of the queue's model.  For ReviewQueue the *)
(* whole run is one call, "review", that job j awaits while every push     *)
(* makes a new commit and a cancellation comes from a closed pull request. *)
(* What the run has posted counts there once the run has ended.            *)

jobAt ==
  CASE outcome \in Going -> "review"       [] outcome = "ok" -> "saveCompleted"
    [] outcome = "stale" -> "saveStale"    [] outcome = "failed" -> "saveFailed"
    [] outcome = "cancelled" -> "saveCancelled"
jobStatus ==
  CASE outcome \in Going -> "in_progress"  [] outcome = "ok" -> "completed"
    [] outcome = "failed" -> "failed"      [] outcome \in {"stale", "cancelled"} -> "cancelled"
jobClosed == outcome \in {"cancelling", "cancelled"}
jobPosted ==
  IF outcome = "ok" \/ (outcome \notin Going /\ (reviews # <<>> \/ summaries > 0))
  THEN {"review"} ELSE {}

Awaiting == INSTANCE ReviewQueue
  WITH Jobs <- {"job"}, PRs <- {"pr"}, NoJob <- "none",
       prOf <- [j \in {"job"} |-> "pr"], shaOf <- [j \in {"job"} |-> 1],
       MaxSha <- MaxPush + 1, MaxCloses <- 1, MayStop <- FALSE, FailingCalls <- {"review"},
       at <- [j \in {"job"} |-> jobAt], status <- [j \in {"job"} |-> jobStatus],
       superseded <- [j \in {"job"} |-> FALSE],
       cancelReq <- [j \in {"job"} |-> outcome = "cancelling"],
       queue <- <<>>, unfinished <- 1, lock <- "none", pending <- [p \in {"pr"} |-> "none"],
       active <- [p \in {"pr"} |-> "job"], hand <- "job", alive <- TRUE,
       stopping <- "no", doomed <- {}, row <- [j \in {"job"} |-> "in_progress"],
       head <- [p \in {"pr"} |-> pushes + 1],
       commit <- [p \in {"pr"} |-> [s \in 1..(MaxPush + 1) |-> IF s = 1 THEN "pending" ELSE "none"]],
       posted <- [j \in {"job"} |-> jobPosted],
       closes <- IF jobClosed THEN 1 ELSE 0,
       wanted <- [p \in {"pr"} |-> IF jobClosed THEN "none" ELSE "job"],
       missed <- [j \in {"job"} |-> {}]

\* Each step of a run is one that the queue's model allows to the call it awaits, or
\* invisible to it: a run returns, fails, is cancelled as it was asked to be, or is
\* stale while the head is elsewhere, and then it has posted nothing.
IsTheQueuesAwait == [][Awaiting!Next]_(Awaiting!vars)

=============================================================================
