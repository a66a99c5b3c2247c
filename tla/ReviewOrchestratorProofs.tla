----------------------- MODULE ReviewOrchestratorProofs -----------------------
(***************************************************************************)
(* Proofs about ReviewOrchestrator, for any history of the pull request,   *)
(* any diffs and any bound on pushes.  The invariant says, for each place  *)
(* of the run, where the diff came from, what the payload is made of and   *)
(* what has been posted.                                                   *)
(***************************************************************************)
EXTENDS ReviewOrchestrator, TLAPS

Before == {"head", "config", "diff", "standards", "issues", "analysis", "context", "model",
           "llm", "prepost"}
Posting == {"submit", "resubmit", "diagnose", "summary"}

\* Where the fetched pages come from.
Reading ==
  /\ \A s \in sources : \E n \in 0..pushes : s = shaAt[n]
  /\ \A l \in lines : \E s \in sources : l \in Diff(s)
  /\ phase \notin {"head", "config", "diff", "end"} => sources # {}

\* Nothing is posted that was not checked.
Checked ==
  NeverReturns /\ (phase \in Posting \/ reviews # <<>> \/ summaries > 0) => sources = {JobSha}

Payload ==
  /\ inline \subseteq lines
  /\ phase = "prepost" => SubmitsReview \/ output.summary_comment
  /\ phase \in {"prepost", "submit", "resubmit"} =>
       event \in Events /\ (event = "APPROVE" \/ hasBody)
  /\ phase \in {"submit", "resubmit", "diagnose"} => SubmitsReview
  /\ phase = "resubmit" => event = "COMMENT"
  /\ phase = "summary" => output.summary_comment

Posted ==
  /\ outcome \in Going <=> phase # "end"
  /\ phase \in Before \cup {"submit", "resubmit", "diagnose"} => reviews = <<>> /\ summaries = 0
  /\ phase = "summary" => summaries = 0 /\ (SubmitsReview <=> reviews # <<>>)
  /\ Len(reviews) <= 1 /\ summaries <= 1
  /\ reviews # <<>> => Len(reviews) = 1 /\ reviews[1].places = inline
  /\ summaries > 0 /\ SubmitsReview => reviews # <<>>

Weather == ~world.mayFail /\ pushes = 0 => phase # "diagnose"

USE DEF Going

IInv ==
  /\ TypeOK /\ Reading /\ Checked /\ Payload /\ Posted /\ Weather
  /\ StaleIsTrue /\ OkIsComplete /\ GoodWeatherSucceeds

-----------------------------------------------------------------------------
LEMMA Commits ==
  ASSUME TypeOK
  PROVE  /\ JobSha \in Shas /\ HeadSha \in Shas
         /\ NeverReturns => (HeadSha = JobSha <=> pushes = 0)
         /\ pushes = 0 => HeadSha = JobSha
  BY HistoryAssumption DEF TypeOK, JobSha, HeadSha, NeverReturns

LEMMA DiffLines ==
  ASSUME NEW s \in Shas
  PROVE  /\ \A n \in DOMAIN pages[s] : pages[s][n] \subseteq Places /\ pages[s][n] \subseteq Diff(s)
         /\ Len(pages[s]) \in Nat
  BY DiffAssumption DEF Diff

LEMMA InitInv == Init => IInv
<1> SUFFICES ASSUME Init PROVE IInv
  OBVIOUS
<1>1. TypeOK
  BY HistoryAssumption DEF Init, TypeOK, Events, Phases, Outcomes
<1>2. Reading /\ Checked /\ Payload /\ Posted /\ Weather
  BY DEF Init, Reading, Checked, Payload, Posted, Weather, Posting, Before
<1>3. StaleIsTrue /\ OkIsComplete /\ GoodWeatherSucceeds
  BY DEF Init, StaleIsTrue, OkIsComplete, GoodWeatherSucceeds
<1> QED
  BY <1>1, <1>2, <1>3 DEF IInv

\* The run ends without having posted more, or after a post that is accounted for.
LEMMA EndKeepsInv ==
  ASSUME IInv, phase # "end", UNCHANGED <<world, pushes, output, diff, inline>>,
         NEW how \in {"ok", "stale", "failed", "cancelled"}, End(how),
         hasBody' \in BOOLEAN,
         reviews' \in Seq([event : Events, places : SUBSET Places]), summaries' \in Nat,
         Len(reviews') <= 1, summaries' <= 1,
         reviews' # <<>> => Len(reviews') = 1 /\ reviews'[1].places = inline,
         summaries' > 0 /\ SubmitsReview => reviews' # <<>>,
         reviews' # <<>> \/ summaries' > 0 => phase \in Posting \/ reviews # <<>> \/ summaries > 0,
         how = "stale" => HeadSha # JobSha,
         how = "failed" => world.mayFail \/ pushes # 0,
         how = "ok" => (output.summary_comment <=> summaries' = 1)
                       /\ (SubmitsReview => reviews' # <<>>)
  PROVE  IInv'
<1>1. TypeOK'
  BY DEF IInv, TypeOK, End, Phases, Outcomes, diff
<1>2. Reading'
  BY DEF IInv, Reading, End, diff, Diff
<1>3. Checked'
  BY DEF IInv, Checked, End, diff, Posting, JobSha, NeverReturns
<1>4. Payload'
  BY DEF IInv, Payload, End, diff
<1>5. Posted' /\ Weather'
  BY DEF Posted, Weather, End, SubmitsReview, Before
<1>6. StaleIsTrue'
  BY HistoryAssumption DEF IInv, TypeOK, StaleIsTrue, End, HeadSha, JobSha
<1>7. OkIsComplete'
  BY DEF OkIsComplete, End, SubmitsReview
<1>8. GoodWeatherSucceeds'
  <2>1. world.mayFail' <=> world.mayFail
    OBVIOUS
  <2>2. how = "stale" => pushes # 0
    BY Commits DEF IInv
  <2> QED
    BY <2>1, <2>2 DEF GoodWeatherSucceeds, End
<1> QED
  BY <1>1, <1>2, <1>3, <1>4, <1>5, <1>6, <1>7, <1>8 DEF IInv

\* An end that posts nothing.
LEMMA QuietEnd ==
  ASSUME IInv, phase # "end",
         UNCHANGED <<world, pushes, output, diff, inline, reviews, summaries>>,
         hasBody' \in BOOLEAN,
         \/ End("stale") /\ HeadSha # JobSha
         \/ End("failed") /\ (world.mayFail \/ pushes # 0)
         \/ End("cancelled")
  PROVE  IInv'
<1>1. /\ reviews \in Seq([event : Events, places : SUBSET Places]) /\ summaries \in Nat
      /\ Len(reviews) <= 1 /\ summaries <= 1
      /\ reviews # <<>> => Len(reviews) = 1 /\ reviews[1].places = inline
      /\ summaries > 0 /\ SubmitsReview => reviews # <<>>
  BY DEF IInv, TypeOK, Posted
<1> QED
  BY <1>1, EndKeepsInv

\* The run moves on between two awaits before any posting.
LEMMA EarlyMove ==
  ASSUME IInv, phase \in Before \ {"llm", "prepost"},
         UNCHANGED <<world, pushes, output, payload, posted>>,
         NEW next \in Before \ {"prepost"}, Goto(next),
         sources' \subseteq Shas, lines' \subseteq Places, fetched' \in Nat,
         Reading', lines \subseteq lines'
  PROVE  IInv'
<1>1. TypeOK'
  BY DEF IInv, TypeOK, Goto, payload, posted, Before, Phases
<1>2. reviews = <<>> /\ summaries = 0 /\ outcome \in Going
  BY DEF IInv, Posted, Before
<1>3. Checked'
  BY <1>2 DEF Checked, Goto, posted, Before, Posting
<1>4. Payload'
  BY DEF IInv, Payload, Goto, payload, Before
<1>5. Posted' /\ Weather'
  BY <1>2 DEF IInv, Posted, Weather, Goto, payload, posted, Before
<1>6. StaleIsTrue' /\ OkIsComplete' /\ GoodWeatherSucceeds'
  BY <1>2 DEF StaleIsTrue, OkIsComplete, GoodWeatherSucceeds, Goto
<1> QED
  BY <1>1, <1>3, <1>4, <1>5, <1>6 DEF IInv

\* The run moves on, nothing else changes.
LEMMA PlainMove ==
  ASSUME IInv, phase \in Before \ {"diff", "llm", "prepost"},
         UNCHANGED <<world, pushes, output, diff, payload, posted>>,
         NEW next \in Before \ {"prepost"}, Goto(next),
         next \notin {"config", "diff"} => phase \notin {"head", "config"}
  PROVE  IInv'
<1>1. Reading'
  BY DEF IInv, Reading, Goto, diff, Diff, Before
<1> QED
  BY <1>1, EarlyMove DEF IInv, TypeOK, diff, Before

\* A review is accepted: the run posts the summary or ends.
LEMMA AcceptedKeepsInv ==
  ASSUME IInv, phase \in {"submit", "resubmit"}, NEW ev \in Events, Accept(ev), AfterReview,
         UNCHANGED <<world, pushes, output, diff, payload, summaries>>
  PROVE  IInv'
<1>1. reviews = <<>> /\ summaries = 0 /\ SubmitsReview
  BY DEF IInv, Posted, Payload
<1>2. /\ reviews' \in Seq([event : Events, places : SUBSET Places]) /\ Len(reviews') = 1
      /\ reviews'[1].places = inline /\ reviews' # <<>>
  BY <1>1 DEF Accept, IInv, TypeOK
<1>3. CASE End("ok") /\ ~output.summary_comment
  <2>1. hasBody' \in BOOLEAN
    BY DEF IInv, TypeOK, payload
  <2> QED
    BY <1>1, <1>2, <1>3, <2>1, EndKeepsInv DEF Posting, payload
<1>4. CASE Goto("summary") /\ output.summary_comment
  <2>1. TypeOK'
    BY <1>2, <1>4 DEF IInv, TypeOK, Goto, diff, payload, Phases
  <2>2. Reading'
    BY <1>4 DEF IInv, Reading, Goto, diff, Diff
  <2>3. Checked'
    BY DEF IInv, Checked, diff, Posting, JobSha, NeverReturns
  <2>4. Payload'
    BY <1>4 DEF IInv, Payload, Goto, diff, payload
  <2>5. Posted' /\ Weather'
    BY <1>1, <1>2, <1>4 DEF IInv, Posted, Weather, Goto, payload, SubmitsReview, Before
  <2>6. outcome' \in Going
    BY <1>4 DEF IInv, Posted, Goto
  <2>7. StaleIsTrue' /\ OkIsComplete' /\ GoodWeatherSucceeds'
    BY <2>6 DEF StaleIsTrue, OkIsComplete, GoodWeatherSucceeds
  <2> QED
    BY <2>1, <2>2, <2>3, <2>4, <2>5, <2>7 DEF IInv
<1> QED
  BY <1>3, <1>4 DEF AfterReview

\* A review is rejected: why is looked into, which good weather never needs.
LEMMA RejectedKeepsInv ==
  ASSUME IInv, phase \in {"submit", "resubmit"}, Goto("diagnose"),
         world.mayFail \/ pushes # 0,
         UNCHANGED <<world, pushes, output, diff, payload, reviews, summaries>>
  PROVE  IInv'
<1>1. TypeOK'
  BY DEF IInv, TypeOK, Goto, diff, payload, Phases
<1>2. Reading' /\ Payload' /\ Weather'
  BY DEF IInv, Reading, Payload, Weather, Goto, diff, Diff, payload, SubmitsReview
<1>3. Checked'
  BY DEF IInv, Checked, diff, Posting, JobSha, NeverReturns
<1>4. Posted' /\ outcome' \in Going
  BY DEF IInv, Posted, Goto, payload, SubmitsReview, Before
<1>5. StaleIsTrue' /\ OkIsComplete' /\ GoodWeatherSucceeds'
  BY <1>4 DEF StaleIsTrue, OkIsComplete, GoodWeatherSucceeds
<1> QED
  BY <1>1, <1>2, <1>3, <1>4, <1>5 DEF IInv

\* While nobody pushes, every inline comment is on the job's diff.
LEMMA OnTheDiff ==
  ASSUME TypeOK, Reading, Payload, sources \subseteq {JobSha}
  PROVE  inline \subseteq Diff(JobSha)
  BY DEF Reading, Payload

\* A post that fails for the run may have been made all the same.
LEMMA MaybeAccepted ==
  ASSUME IInv, reviews = <<>>, NEW ev \in Events, Accept(ev) \/ UNCHANGED reviews
  PROVE  /\ reviews' \in Seq([event : Events, places : SUBSET Places]) /\ Len(reviews') <= 1
         /\ reviews' # <<>> => Len(reviews') = 1 /\ reviews'[1].places = inline
<1>1. CASE Accept(ev)
  BY <1>1 DEF Accept, IInv, TypeOK
<1>2. CASE UNCHANGED reviews
  BY <1>2 DEF IInv, TypeOK
<1> QED
  BY <1>1, <1>2

LEMMA SubmitKeepsInv == IInv /\ Submit => IInv'
<1> SUFFICES ASSUME IInv, Submit PROVE IInv'
  OBVIOUS
<1>1. /\ phase = "submit" /\ UNCHANGED <<world, pushes, output, diff, summaries>>
      /\ event \in Events /\ hasBody \in BOOLEAN
      /\ reviews = <<>> /\ summaries = 0 /\ outcome \in Going
  BY DEF Submit, IInv, TypeOK, Posted
<1>2. PICK answer \in {"accepted", "own", "rejected", "error"} :
        /\ Answer(event, hasBody, answer)
        /\ \/ Retryable(answer) /\ RetryAsComment
           \/ /\ ~Retryable(answer) /\ UNCHANGED payload
              /\ CASE answer = "accepted" -> AfterReview
                   [] answer = "error" -> End("failed")
                   [] OTHER -> OnRejection
  BY DEF Submit
<1>3. CASE answer = "accepted"
  <2>1. Accept(event) /\ UNCHANGED payload /\ AfterReview
    BY <1>2, <1>3 DEF Answer, Retryable
  <2> QED
    BY <1>1, <2>1, AcceptedKeepsInv
<1>4. CASE answer = "own"
  <2>1. UNCHANGED reviews /\ RetryAsComment
    BY <1>2, <1>4 DEF Answer, Retryable
  <2>2. TypeOK'
    BY <1>1, <2>1 DEF IInv, TypeOK, RetryAsComment, Goto, diff, Phases, Events
  <2>3. Reading' /\ Weather'
    BY <1>1, <2>1 DEF IInv, Reading, Weather, RetryAsComment, Goto, diff, Diff
  <2>4. Checked'
    BY <1>1, <2>1 DEF IInv, Checked, diff, Posting, JobSha, NeverReturns
  <2>5. Payload'
    BY <1>1, <2>1 DEF IInv, Payload, RetryAsComment, Goto, diff, SubmitsReview, Events
  <2>6. Posted' /\ outcome' \in Going
    BY <1>1, <2>1 DEF IInv, Posted, RetryAsComment, Goto, SubmitsReview, Before
  <2>7. StaleIsTrue' /\ OkIsComplete' /\ GoodWeatherSucceeds'
    BY <2>6 DEF StaleIsTrue, OkIsComplete, GoodWeatherSucceeds
  <2> QED
    BY <2>2, <2>3, <2>4, <2>5, <2>6, <2>7 DEF IInv
<1>5. CASE answer = "rejected"
  <2>1. UNCHANGED <<reviews, payload>> /\ Goto("diagnose")
    BY <1>2, <1>5 DEF Answer, Retryable, OnRejection
  <2>2. world.mayFail \/ pushes # 0
    <3>1. SUFFICES ASSUME ~world.mayFail, pushes = 0 PROVE FALSE
      OBVIOUS
    <3>2. HeadSha = JobSha /\ sources \subseteq {JobSha}
      BY <3>1, Commits DEF IInv, Reading, JobSha
    <3>3. inline \subseteq Diff(JobSha) /\ (event = "APPROVE" \/ hasBody)
      BY <1>1, <3>2, OnTheDiff DEF IInv, Payload
    <3> QED
      BY <1>2, <1>5, <3>1, <3>2, <3>3 DEF Answer, Acceptable
  <2> QED
    BY <1>1, <2>1, <2>2, RejectedKeepsInv
<1>6. CASE answer = "error"
  <2>1. UNCHANGED payload /\ End("failed") /\ world.mayFail /\ (Accept(event) \/ UNCHANGED reviews)
    BY <1>2, <1>6 DEF Answer, Retryable
  <2>2. /\ reviews' \in Seq([event : Events, places : SUBSET Places]) /\ Len(reviews') <= 1
        /\ reviews' # <<>> => Len(reviews') = 1 /\ reviews'[1].places = inline
    BY <1>1, <2>1, MaybeAccepted
  <2> QED
    BY <1>1, <2>1, <2>2, EndKeepsInv DEF Posting, payload
<1> QED
  BY <1>3, <1>4, <1>5, <1>6

LEMMA ResubmitKeepsInv == IInv /\ Resubmit => IInv'
<1> SUFFICES ASSUME IInv, Resubmit PROVE IInv'
  OBVIOUS
<1>1. /\ phase = "resubmit" /\ UNCHANGED <<world, pushes, output, diff, payload, summaries>>
      /\ event = "COMMENT" /\ hasBody \in BOOLEAN
      /\ reviews = <<>> /\ summaries = 0 /\ outcome \in Going
  BY DEF Resubmit, IInv, TypeOK, Payload, Posted
<1>2. PICK answer \in {"accepted", "own", "rejected", "error"} :
        /\ Answer(event, hasBody, answer)
        /\ CASE answer = "accepted" -> AfterReview
             [] answer = "error" -> End("failed")
             [] OTHER -> OnRejection
  BY DEF Resubmit
<1>3. CASE answer = "accepted"
  <2>1. Accept(event) /\ AfterReview
    BY <1>2, <1>3 DEF Answer
  <2> QED
    BY <1>1, <2>1, AcceptedKeepsInv DEF Events
<1>4. CASE answer \in {"own", "rejected"}
  <2>1. UNCHANGED reviews /\ Goto("diagnose")
    BY <1>2, <1>4 DEF Answer, OnRejection
  <2>2. world.mayFail \/ pushes # 0
    <3>1. SUFFICES ASSUME ~world.mayFail, pushes = 0 PROVE FALSE
      OBVIOUS
    <3>2. HeadSha = JobSha /\ sources \subseteq {JobSha}
      BY <3>1, Commits DEF IInv, Reading, JobSha
    <3>3. inline \subseteq Diff(JobSha) /\ hasBody
      BY <1>1, <3>2, OnTheDiff DEF IInv, Payload
    <3> QED
      BY <1>1, <1>2, <1>4, <3>1, <3>2, <3>3 DEF Answer, Acceptable, OwnPR
  <2> QED
    BY <1>1, <2>1, <2>2, RejectedKeepsInv
<1>5. CASE answer = "error"
  <2>1. End("failed") /\ world.mayFail /\ (Accept(event) \/ UNCHANGED reviews)
    BY <1>2, <1>5 DEF Answer
  <2>2. /\ reviews' \in Seq([event : Events, places : SUBSET Places]) /\ Len(reviews') <= 1
        /\ reviews' # <<>> => Len(reviews') = 1 /\ reviews'[1].places = inline
    BY <1>1, <2>1, MaybeAccepted DEF Events
  <2> QED
    BY <1>1, <2>1, <2>2, EndKeepsInv DEF Posting, payload
<1> QED
  BY <1>3, <1>4, <1>5

-----------------------------------------------------------------------------
LEMMA CheckHeadKeepsInv == IInv /\ CheckHead => IInv'
<1> SUFFICES ASSUME IInv, CheckHead PROVE IInv'
  OBVIOUS
<1>1. /\ phase = "head" /\ hasBody' \in BOOLEAN
      /\ UNCHANGED <<world, pushes, output, diff, payload, posted, inline, reviews, summaries>>
  BY DEF CheckHead, IInv, TypeOK, payload, posted
<1>2. CASE Goto("config")
  BY <1>1, <1>2, PlainMove DEF Before
<1>3. CASE ~Goto("config")
  <2>1. (HeadSha # JobSha /\ End("stale")) \/ (world.mayFail /\ End("failed"))
    BY <1>3 DEF CheckHead
  <2> QED
    BY <1>1, <2>1, QuietEnd
<1> QED
  BY <1>2, <1>3

\* A step that goes on or fails.
LEMMA RequireKeepsInv ==
  ASSUME IInv, NEW from \in Before \ {"diff", "llm", "prepost"}, phase = from,
         NEW next \in Before \ {"prepost"}, next = "diff" \/ from \notin {"head", "config"},
         Goto(next) \/ (world.mayFail /\ End("failed")),
         UNCHANGED <<world, pushes, output, diff, payload, posted>>
  PROVE  IInv'
<1>1. UNCHANGED <<inline, reviews, summaries>> /\ hasBody' \in BOOLEAN
  BY DEF IInv, TypeOK, payload, posted
<1>2. CASE Goto(next)
  BY <1>2, PlainMove
<1>3. CASE world.mayFail /\ End("failed")
  BY <1>1, <1>3, QuietEnd DEF Before
<1> QED
  BY <1>2, <1>3

LEMMA GatherKeepsInv ==
  ASSUME IInv, \/ LoadConfig \/ DetectStandards \/ SelectModel
               \/ ResolveIssues \/ Analyze \/ BuildContext
  PROVE  IInv'
<1>1. CASE LoadConfig
  BY <1>1, RequireKeepsInv DEF LoadConfig, Before
<1>2. CASE DetectStandards
  BY <1>2, RequireKeepsInv DEF DetectStandards, Require, Before
<1>3. CASE SelectModel
  BY <1>3, RequireKeepsInv DEF SelectModel, Require, Before
<1>4. CASE ResolveIssues
  BY <1>4, RequireKeepsInv DEF ResolveIssues, Degrade, Before
<1>5. CASE Analyze
  BY <1>5, RequireKeepsInv DEF Analyze, Degrade, Before
<1>6. CASE BuildContext
  BY <1>6, RequireKeepsInv DEF BuildContext, Degrade, Before
<1> QED
  BY <1>1, <1>2, <1>3, <1>4, <1>5, <1>6

LEMMA FetchPageKeepsInv == IInv /\ FetchPage => IInv'
<1> SUFFICES ASSUME IInv, FetchPage PROVE IInv'
  OBVIOUS
<1>1. /\ phase = "diff" /\ hasBody' \in BOOLEAN
      /\ UNCHANGED <<world, pushes, output, payload, posted, inline, reviews, summaries>>
  BY DEF FetchPage, IInv, TypeOK, payload, posted
<1>2. CASE world.mayFail /\ End("failed") /\ UNCHANGED diff
  BY <1>1, <1>2, QuietEnd
<1>3. CASE ~(world.mayFail /\ End("failed") /\ UNCHANGED diff)
  <2> DEFINE page == IF fetched + 1 \in DOMAIN pages[HeadSha] THEN pages[HeadSha][fetched + 1] ELSE {}
             next == IF fetched + 1 < Len(pages[HeadSha]) THEN "diff" ELSE "standards"
  <2>1. /\ fetched' = fetched + 1 /\ sources' = sources \cup {HeadSha}
        /\ lines' = lines \cup page /\ Goto(next)
    BY <1>3 DEF FetchPage
  <2>2. HeadSha \in Shas /\ page \subseteq Places /\ page \subseteq Diff(HeadSha)
    BY Commits, DiffLines DEF IInv
  <2> HIDE DEF page
  <2>3. next \in {"diff", "standards"}
    OBVIOUS
  <2> HIDE DEF next
  <2>4. Reading'
    <3>1. \A s \in sources' : \E n \in 0..pushes' : s = shaAt[n]
      BY <1>1, <2>1 DEF IInv, Reading, HeadSha, TypeOK
    <3>2. \A l \in lines' : \E s \in sources' : l \in Diff(s)
      BY <2>1, <2>2 DEF IInv, Reading
    <3> QED
      BY <2>1, <3>1, <3>2 DEF Reading, Diff
  <2>5. sources' \subseteq Shas /\ lines' \subseteq Places /\ fetched' \in Nat /\ lines \subseteq lines'
    BY <2>1, <2>2 DEF IInv, TypeOK
  <2> QED
    BY <1>1, <2>1, <2>3, <2>4, <2>5, EarlyMove DEF Before
<1> QED
  BY <1>2, <1>3

LEMMA ReviewKeepsInv == IInv /\ Review => IInv'
<1> SUFFICES ASSUME IInv, Review PROVE IInv'
  OBVIOUS
<1>1. /\ phase = "llm" /\ outcome \in Going /\ reviews = <<>> /\ summaries = 0
      /\ UNCHANGED <<world, pushes, output, diff, posted, reviews, summaries>>
  BY DEF Review, IInv, Posted, Before, posted
<1>2. CASE world.mayFail /\ End("failed") /\ UNCHANGED payload
  <2>1. UNCHANGED inline /\ hasBody' \in BOOLEAN
    BY <1>2 DEF IInv, TypeOK, payload
  <2> QED
    BY <1>1, <1>2, <2>1, QuietEnd
<1>3. CASE ~(world.mayFail /\ End("failed") /\ UNCHANGED payload)
  <2>1. PICK found \in SUBSET Places, verdict \in Verdicts, text \in BOOLEAN :
          /\ inline' = IF output.inline_comments THEN OnDiff(found) ELSE {}
          /\ event' = SubmitEvent(verdict)
          /\ hasBody' = Body(event', output.formal_review /\ text)
          /\ IF ReviewDue \/ output.summary_comment THEN Goto("prepost") ELSE End("ok")
    BY <1>3 DEF Review
  <2>2. /\ inline' \subseteq lines /\ inline' \subseteq Places
        /\ event' \in Events /\ hasBody' \in BOOLEAN /\ (event' = "APPROVE" \/ hasBody')
    BY <2>1 DEF OnDiff, SubmitEvent, EventOf, Events, Body, IInv, TypeOK
  <2>3. (phase' = "prepost" /\ outcome' \in Going /\ (SubmitsReview' \/ output.summary_comment))
        \/ (End("ok") /\ ~SubmitsReview' /\ ~output.summary_comment)
    BY <1>1, <2>1 DEF ReviewDue, SubmitsReview, Goto
  <2>4. TypeOK'
    BY <1>1, <2>2, <2>3 DEF IInv, TypeOK, End, diff, Phases, Outcomes
  <2>5. Reading'
    BY <1>1, <2>3 DEF IInv, Reading, End, diff, Diff
  <2>6. Checked' /\ Weather'
    BY <1>1, <2>3 DEF Checked, Weather, End, Posting
  <2>7. Payload'
    BY <1>1, <2>2, <2>3 DEF Payload, End, diff
  <2>8. Posted'
    BY <1>1, <2>3 DEF Posted, End, Before
  <2>9. StaleIsTrue' /\ OkIsComplete' /\ GoodWeatherSucceeds'
    BY <1>1, <2>3 DEF StaleIsTrue, OkIsComplete, GoodWeatherSucceeds, End, SubmitsReview
  <2> QED
    BY <2>4, <2>5, <2>6, <2>7, <2>8, <2>9 DEF IInv
<1> QED
  BY <1>2, <1>3

LEMMA CheckBeforePostingKeepsInv == IInv /\ CheckBeforePosting => IInv'
<1> SUFFICES ASSUME IInv, CheckBeforePosting PROVE IInv'
  OBVIOUS
<1>1. /\ phase = "prepost" /\ outcome \in Going /\ reviews = <<>> /\ summaries = 0
      /\ UNCHANGED <<world, pushes, output, diff, payload, inline, reviews, summaries>>
      /\ hasBody' \in BOOLEAN
  BY DEF CheckBeforePosting, IInv, TypeOK, Posted, Before, posted, payload
<1>2. CASE MayPost /\ Goto(IF SubmitsReview THEN "submit" ELSE "summary")
  <2>1. TypeOK'
    <3>1. event \in Events
      BY <1>1 DEF IInv, Payload
    <3> QED
      BY <1>1, <1>2, <3>1 DEF IInv, TypeOK, Goto, diff, payload, Phases
  <2>2. Reading'
    BY <1>1, <1>2 DEF IInv, Reading, Goto, diff, Diff
  <2>3. Checked'
    <3>1. SUFFICES ASSUME NeverReturns PROVE sources = {JobSha}
      BY <1>1 DEF Checked, diff, JobSha
    <3>2. pushes = 0
      BY <1>2, <3>1, Commits DEF IInv, MayPost
    <3> QED
      BY <1>1, <3>2 DEF IInv, Reading, JobSha
  <2>4. Payload' /\ Weather'
    BY <1>1, <1>2 DEF IInv, Payload, Weather, Goto, diff, payload, SubmitsReview
  <2>5. Posted' /\ outcome' \in Going
    BY <1>1, <1>2 DEF Posted, Goto, SubmitsReview, Before
  <2>6. StaleIsTrue' /\ OkIsComplete' /\ GoodWeatherSucceeds'
    BY <2>5 DEF StaleIsTrue, OkIsComplete, GoodWeatherSucceeds
  <2> QED
    BY <2>1, <2>2, <2>3, <2>4, <2>5, <2>6 DEF IInv
<1>3. CASE ~(MayPost /\ Goto(IF SubmitsReview THEN "submit" ELSE "summary"))
  <2>1. (HeadSha # JobSha /\ End("stale")) \/ (world.mayFail /\ End("failed"))
    BY <1>3 DEF CheckBeforePosting, MayPost
  <2> QED
    BY <1>1, <2>1, QuietEnd
<1> QED
  BY <1>2, <1>3

LEMMA DiagnoseKeepsInv == IInv /\ Diagnose => IInv'
<1> SUFFICES ASSUME IInv, Diagnose PROVE IInv'
  OBVIOUS
<1>1. /\ phase = "diagnose" /\ hasBody' \in BOOLEAN
      /\ UNCHANGED <<world, pushes, output, diff, inline, reviews, summaries>>
  BY DEF Diagnose, IInv, TypeOK, payload, posted
<1>2. world.mayFail \/ pushes # 0
  BY <1>1 DEF IInv, Weather
<1>3. (End("stale") /\ HeadSha # JobSha) \/ End("failed")
  BY DEF Diagnose, UnknownHead
<1> QED
  BY <1>1, <1>2, <1>3, QuietEnd

LEMMA PostSummaryKeepsInv == IInv /\ PostSummary => IInv'
<1> SUFFICES ASSUME IInv, PostSummary PROVE IInv'
  OBVIOUS
<1>1. /\ phase = "summary" /\ hasBody' \in BOOLEAN
      /\ UNCHANGED <<world, pushes, output, diff, inline, reviews>>
      /\ reviews \in Seq([event : Events, places : SUBSET Places])
  BY DEF PostSummary, IInv, TypeOK, payload
<1>2. /\ summaries = 0 /\ output.summary_comment /\ (SubmitsReview <=> reviews # <<>>)
      /\ Len(reviews) <= 1
      /\ reviews # <<>> => Len(reviews) = 1 /\ reviews[1].places = inline
  BY <1>1 DEF IInv, Payload, Posted
<1>3. CASE summaries' = 1 /\ End("ok")
  BY <1>1, <1>2, <1>3, EndKeepsInv DEF Posting
<1>4. CASE world.mayFail /\ summaries' \in {0, 1} /\ End("failed")
  BY <1>1, <1>2, <1>4, EndKeepsInv DEF Posting
<1> QED
  BY <1>2, <1>3, <1>4 DEF PostSummary

LEMMA CancelledKeepsInv == IInv /\ Cancelled => IInv'
<1> SUFFICES ASSUME IInv, Cancelled PROVE IInv'
  OBVIOUS
<1>1. /\ phase # "end" /\ hasBody' \in BOOLEAN /\ End("cancelled")
      /\ UNCHANGED <<world, pushes, output, diff, inline>>
      /\ reviews \in Seq([event : Events, places : SUBSET Places])
  BY DEF Cancelled, OnCancelled, IInv, TypeOK, Posted, payload
<1>2. CASE UNCHANGED posted
  BY <1>1, <1>2, QuietEnd DEF posted
<1>3. CASE phase \in {"submit", "resubmit"} /\ Accept(event) /\ UNCHANGED summaries
  <2>1. reviews = <<>> /\ summaries = 0 /\ event \in Events
    BY <1>3 DEF IInv, Posted, TypeOK
  <2>2. /\ reviews' \in Seq([event : Events, places : SUBSET Places]) /\ Len(reviews') <= 1
        /\ reviews' # <<>> => Len(reviews') = 1 /\ reviews'[1].places = inline
    BY <1>3, <2>1, MaybeAccepted
  <2> QED
    BY <1>1, <1>3, <2>1, <2>2, EndKeepsInv DEF Posting
<1>4. CASE phase = "summary" /\ summaries' = summaries + 1 /\ UNCHANGED reviews
  <2>1. /\ summaries = 0 /\ (SubmitsReview <=> reviews # <<>>) /\ Len(reviews) <= 1
        /\ reviews # <<>> => Len(reviews) = 1 /\ reviews[1].places = inline
    BY <1>4 DEF IInv, Posted
  <2> QED
    BY <1>1, <1>4, <2>1, EndKeepsInv DEF Posting
<1> QED
  BY <1>2, <1>3, <1>4 DEF Cancelled

LEMMA RequestKeepsInv == IInv /\ RequestCancel => IInv'
<1> SUFFICES ASSUME IInv, RequestCancel PROVE IInv'
  OBVIOUS
<1>1. /\ outcome \in Going /\ outcome' \in Going /\ outcome' \in Outcomes
      /\ UNCHANGED <<world, pushes, phase, output, diff, payload, posted>>
  BY DEF RequestCancel, Outcomes
<1>2. TypeOK' /\ Reading' /\ Checked'
  BY <1>1 DEF IInv, TypeOK, Reading, Checked, diff, payload, posted, Diff, JobSha, NeverReturns
<1>3. Payload' /\ Posted' /\ Weather'
  BY <1>1 DEF IInv, Payload, Posted, Weather, SubmitsReview, diff, payload, posted
<1>4. StaleIsTrue' /\ OkIsComplete' /\ GoodWeatherSucceeds'
  BY <1>1 DEF StaleIsTrue, OkIsComplete, GoodWeatherSucceeds
<1> QED
  BY <1>2, <1>3, <1>4 DEF IInv

LEMMA PushKeepsInv == IInv /\ Push => IInv'
<1> SUFFICES ASSUME IInv, Push PROVE IInv'
  OBVIOUS
<1>1. /\ pushes' = pushes + 1 /\ pushes' \in 0..MaxPush /\ pushes' # 0 /\ outcome \in Going
      /\ UNCHANGED <<world, phase, output, diff, payload, posted, outcome>>
  BY HistoryAssumption DEF Push, IInv, TypeOK
<1>2. TypeOK'
  BY <1>1 DEF IInv, TypeOK, diff, payload, posted
<1>3. Reading'
  BY <1>1 DEF IInv, TypeOK, Reading, diff, Diff
<1>4. Checked'
  BY <1>1 DEF IInv, Checked, diff, posted, JobSha, NeverReturns
<1>5. Payload' /\ Posted' /\ Weather'
  BY <1>1 DEF IInv, Payload, Posted, Weather, SubmitsReview, diff, payload, posted
<1>6. StaleIsTrue' /\ OkIsComplete' /\ GoodWeatherSucceeds'
  BY <1>1 DEF StaleIsTrue, OkIsComplete, GoodWeatherSucceeds
<1> QED
  BY <1>2, <1>3, <1>4, <1>5, <1>6 DEF IInv

LEMMA StutterKeepsInv == IInv /\ UNCHANGED vars => IInv'
<1> SUFFICES ASSUME IInv, UNCHANGED vars PROVE IInv'
  OBVIOUS
<1>1. TypeOK' /\ Reading' /\ Checked'
  BY DEF IInv, TypeOK, Reading, Checked, vars, diff, payload, posted, Diff, JobSha, NeverReturns
<1>2. Payload' /\ Posted' /\ Weather'
  BY DEF IInv, Payload, Posted, Weather, SubmitsReview, vars, diff, payload, posted
<1>3. StaleIsTrue' /\ OkIsComplete' /\ GoodWeatherSucceeds'
  BY DEF IInv, StaleIsTrue, OkIsComplete, GoodWeatherSucceeds, vars, payload, posted, JobSha
<1> QED
  BY <1>1, <1>2, <1>3 DEF IInv

LEMMA NextKeepsInv == IInv /\ [Next]_vars => IInv'
<1> SUFFICES ASSUME IInv, [Next]_vars PROVE IInv'
  OBVIOUS
<1>1. CASE Proceed
  BY <1>1, CheckHeadKeepsInv, GatherKeepsInv, FetchPageKeepsInv, ReviewKeepsInv,
     CheckBeforePostingKeepsInv, SubmitKeepsInv, ResubmitKeepsInv, DiagnoseKeepsInv,
     PostSummaryKeepsInv DEF Proceed
<1> QED
  BY <1>1, PushKeepsInv, RequestKeepsInv, CancelledKeepsInv, StutterKeepsInv DEF Next, Step

\* The invariant holds in every state of every run.
THEOREM Invariance == Spec => []IInv
<1> QED
  BY InitInv, NextKeepsInv, PTL DEF Spec

-----------------------------------------------------------------------------
\* Every variable keeps its type: in particular every submitted event is one of
\* GitHub's three, and the run posts what the formatter made.
THEOREM TypeCorrect == Spec => []TypeOK
<1>1. IInv => TypeOK
  BY DEF IInv
<1> QED
  BY <1>1, Invariance, PTL

\* Whatever is posted was made from the job's commit, whenever and however often
\* the pull request moves while its diff is read.
THEOREM PostsAboutTheirCommit == Spec => []PostsAreAboutTheirCommit
<1>1. IInv => PostsAreAboutTheirCommit
  BY DEF IInv, Checked, PostsAreAboutTheirCommit
<1> QED
  BY <1>1, Invariance, PTL

\* No review is submitted with a comment outside its commit's diff.
THEOREM CommentsOnTheDiff == Spec => []CommentsAreOnTheDiff
<1>1. ASSUME IInv PROVE CommentsAreOnTheDiff
  <2>1. SUFFICES ASSUME NeverReturns, phase \in {"submit", "resubmit"}
                 PROVE  inline \subseteq Diff(JobSha)
    BY DEF CommentsAreOnTheDiff
  <2>2. sources = {JobSha}
    BY <1>1, <2>1 DEF IInv, Checked, Posting
  <2> QED
    BY <1>1, <2>2, OnTheDiff DEF IInv
<1> QED
  BY <1>1, Invariance, PTL

\* A run posts one review and one summary at most, and no summary without the review
\* it goes with.
THEOREM ReviewThenSummary == Spec => []OneReviewThenSummary
<1>1. IInv => OneReviewThenSummary
  BY DEF IInv, Posted, SubmitsReview, OneReviewThenSummary
<1> QED
  BY <1>1, Invariance, PTL

\* A run that ends "stale" does so because the head was moved away from the job's
\* commit, never because a call failed.
THEOREM StaleMeansMoved == Spec => []StaleIsTrue
<1>1. IInv => StaleIsTrue
  BY DEF IInv
<1> QED
  BY <1>1, Invariance, PTL

\* A run that ends "ok" has posted all that its configuration and findings make due.
THEOREM OkMeansPosted == Spec => []OkIsComplete
<1>1. IInv => OkIsComplete
  BY DEF IInv
<1> QED
  BY <1>1, Invariance, PTL

\* Without failing calls, pushes or cancellations a run ends neither failed nor stale,
\* also when the reviewer may not give a verdict on the pull request.
THEOREM GoodWeather == Spec => []GoodWeatherSucceeds
<1>1. IInv => GoodWeatherSucceeds
  BY DEF IInv
<1> QED
  BY <1>1, Invariance, PTL

-----------------------------------------------------------------------------
(* The run as the await of the queue's model.                              *)

\* The queue sees nothing of a step that neither ends the run nor moves the head.
LEMMA Unseen ==
  ASSUME UNCHANGED <<pushes, outcome>>, outcome \in Going \/ UNCHANGED posted
  PROVE  UNCHANGED Awaiting!vars
<1>1. UNCHANGED <<jobAt, jobStatus, jobClosed, jobPosted>>
  BY DEF jobAt, jobStatus, jobClosed, jobPosted, posted
<1> QED
  BY <1>1 DEF Awaiting!vars, Awaiting!queueVars, Awaiting!stopVars, Awaiting!github,
              Awaiting!events

\* What the end of the await, or its cancellation, leaves alone.
LEMMA Frame ==
  ASSUME UNCHANGED pushes
  PROVE  /\ UNCHANGED <<Awaiting!queueVars, Awaiting!stopVars>>
         /\ UNCHANGED [p \in {"pr"} |-> pushes + 1]
         /\ UNCHANGED [p \in {"pr"} |->
                         [s \in 1..(MaxPush + 1) |-> IF s = 1 THEN "pending" ELSE "none"]]
         /\ UNCHANGED [j \in {"job"} |-> "in_progress"]
BY DEF Awaiting!queueVars, Awaiting!stopVars

\* What the end of the await does to the job.
LEMMA Settles ==
  ASSUME outcome \in Going, outcome' \notin Going, UNCHANGED jobClosed
  PROVE  /\ \A to : jobAt' = to => Awaiting!Goto("job", to)
         /\ \A how : jobStatus' = how =>
              [j \in {"job"} |-> jobStatus]'
                = [[j \in {"job"} |-> jobStatus] EXCEPT !["job"] = how]
         /\ [j \in {"job"} |-> outcome = "cancelling"]'
              = [[j \in {"job"} |-> outcome = "cancelling"] EXCEPT !["job"] = FALSE]
         /\ outcome # "cancelling" => UNCHANGED [j \in {"job"} |-> outcome = "cancelling"]
         /\ UNCHANGED Awaiting!events
<1>1. ~(outcome = "cancelling")'
  OBVIOUS
<1>2. [j \in {"job"} |-> outcome = "cancelling"]'
        = [[j \in {"job"} |-> outcome = "cancelling"] EXCEPT !["job"] = FALSE]
  BY <1>1
<1>3. outcome # "cancelling" => UNCHANGED [j \in {"job"} |-> outcome = "cancelling"]
  BY <1>1
<1>4. \A to : jobAt' = to => Awaiting!Goto("job", to)
  BY DEF Awaiting!Goto
<1>5. \A how : jobStatus' = how =>
              [j \in {"job"} |-> jobStatus]'
                = [[j \in {"job"} |-> jobStatus] EXCEPT !["job"] = how]
  OBVIOUS
<1>6. UNCHANGED Awaiting!events
  BY DEF Awaiting!events
<1> QED
  BY <1>2, <1>3, <1>4, <1>5, <1>6

LEMMA PushIsPush == TypeOK /\ Push => Awaiting!Push("pr")
<1> SUFFICES ASSUME TypeOK, Push PROVE Awaiting!Push("pr")
  OBVIOUS
<1>1. UNCHANGED <<jobAt, jobStatus, jobClosed, jobPosted>>
  BY DEF Push, jobAt, jobStatus, jobClosed, jobPosted, posted
<1> QED
  BY <1>1, HistoryAssumption
  DEF Push, TypeOK, Awaiting!Push, Awaiting!queueVars, Awaiting!stopVars, Awaiting!events

LEMMA RequestIsClose == RequestCancel => Awaiting!CancelPR("pr")
<1> SUFFICES ASSUME RequestCancel PROVE Awaiting!CancelPR("pr")
  OBVIOUS
<1>1. outcome = "running" /\ outcome' = "cancelling" /\ UNCHANGED pushes
  BY DEF RequestCancel
<1>2. /\ jobAt = "review" /\ UNCHANGED <<jobAt, jobStatus, jobPosted>>
      /\ ~jobClosed /\ jobClosed'
  BY <1>1 DEF jobAt, jobStatus, jobPosted, jobClosed
<1>3. Awaiting!Displace("pr")
  BY <1>1, <1>2 DEF Awaiting!Displace, Awaiting!Cancellable, Awaiting!Running, Awaiting!Body
<1>4. UNCHANGED <<[j \in {"job"} |-> jobAt], [j \in {"job"} |-> jobStatus]>>
  BY <1>2
<1>5. UNCHANGED Awaiting!github
  BY <1>1, <1>2 DEF Awaiting!github
<1>6. /\ (IF jobClosed THEN 1 ELSE 0) < 1
      /\ (IF jobClosed THEN 1 ELSE 0)' = (IF jobClosed THEN 1 ELSE 0) + 1
      /\ [p \in {"pr"} |-> IF jobClosed THEN "none" ELSE "job"]'
           = [[p \in {"pr"} |-> IF jobClosed THEN "none" ELSE "job"] EXCEPT !["pr"] = "none"]
  BY <1>2
<1> QED
  BY <1>3, <1>4, <1>5, <1>6 DEF Awaiting!CancelPR, Awaiting!stopVars

LEMMA EndIsReturn ==
  ASSUME outcome = "running", End("ok"), UNCHANGED pushes
  PROVE  Awaiting!CallReturns("job")
<1> DEFINE call == [j \in {"job"} |-> jobAt]["job"]
<1>1. /\ jobAt = "review" /\ call = "review" /\ jobAt' = "saveCompleted" /\ jobStatus' = "completed"
      /\ jobPosted = {} /\ jobPosted' = {"review"} /\ UNCHANGED jobClosed
      /\ outcome \in Going /\ outcome' \notin Going /\ outcome # "cancelling"
  BY DEF End, jobAt, jobStatus, jobPosted, jobClosed
<1> HIDE DEF call
<1>2. Awaiting!After(call) = "saveCompleted"
  BY <1>1 DEF Awaiting!After, Awaiting!NextAwait
<1>3. Awaiting!Goto("job", "saveCompleted")
  BY <1>1, Settles
<1>4. [j \in {"job"} |-> jobStatus]'
        = [[j \in {"job"} |-> jobStatus] EXCEPT !["job"] = "completed"]
  BY <1>1, Settles
<1>5. Awaiting!Effect("job", call)
  BY <1>1, Frame DEF Awaiting!Effect, Awaiting!Saves
<1> QED
  BY <1>1, <1>2, <1>3, <1>4, <1>5, Frame, Settles DEF call, Awaiting!CallReturns, Awaiting!Body

LEMMA EndIsStale ==
  ASSUME TypeOK, outcome = "running", End("stale"), UNCHANGED pushes, HeadSha # JobSha,
         reviews' = <<>>, summaries' = 0
  PROVE  Awaiting!CallStale("job")
<1>1. /\ jobAt = "review" /\ jobAt' = "saveStale" /\ jobStatus' = "cancelled"
      /\ jobPosted = {} /\ jobPosted' = {} /\ UNCHANGED jobClosed
      /\ outcome \in Going /\ outcome' \notin Going /\ outcome # "cancelling"
  BY DEF End, jobAt, jobStatus, jobPosted, jobClosed
<1>2. pushes \in Nat /\ pushes # 0
  BY Commits DEF TypeOK
<1>3. Awaiting!Goto("job", "saveStale")
  BY <1>1, Settles
<1>4. [j \in {"job"} |-> jobStatus]'
        = [[j \in {"job"} |-> jobStatus] EXCEPT !["job"] = "cancelled"]
  BY <1>1, Settles
<1>5. Awaiting!NoEffect
  BY <1>1, Frame DEF Awaiting!NoEffect, Awaiting!github
<1> QED
  BY <1>1, <1>2, <1>3, <1>4, <1>5, Frame, Settles DEF Awaiting!CallStale

LEMMA EndIsFailure ==
  ASSUME outcome = "running", End("failed"), UNCHANGED pushes
  PROVE  Awaiting!CallFails("job")
<1> DEFINE call == [j \in {"job"} |-> jobAt]["job"]
<1>1. /\ jobAt = "review" /\ call = "review" /\ jobAt' = "saveFailed" /\ jobStatus' = "failed"
      /\ jobPosted = {} /\ jobPosted' \in {{}, {"review"}} /\ UNCHANGED jobClosed
      /\ outcome \in Going /\ outcome' \notin Going /\ outcome # "cancelling"
  BY DEF End, jobAt, jobStatus, jobPosted, jobClosed
<1> HIDE DEF call
<1>2. Awaiting!Goto("job", "saveFailed")
  BY <1>1, Settles
<1>3. [j \in {"job"} |-> jobStatus]'
        = [[j \in {"job"} |-> jobStatus] EXCEPT !["job"] = "failed"]
  BY <1>1, Settles
<1>4. Awaiting!NoEffect \/ Awaiting!Effect("job", call)
  BY <1>1, Frame DEF Awaiting!NoEffect, Awaiting!github, Awaiting!Effect, Awaiting!Saves
<1> QED
  BY <1>1, <1>2, <1>3, <1>4, Frame, Settles
  DEF call, Awaiting!CallFails, Awaiting!Body, Awaiting!Posts

LEMMA EndIsCancel ==
  ASSUME outcome = "cancelling", End("cancelled"), UNCHANGED pushes
  PROVE  Awaiting!CancelDelivered("job")
<1> DEFINE call == [j \in {"job"} |-> jobAt]["job"]
<1>1. /\ jobAt = "review" /\ call = "review" /\ jobAt' = "saveCancelled" /\ jobStatus' = "cancelled"
      /\ jobPosted = {} /\ jobPosted' \in {{}, {"review"}} /\ UNCHANGED jobClosed
      /\ outcome \in Going /\ outcome' \notin Going
  BY DEF End, jobAt, jobStatus, jobPosted, jobClosed
<1> HIDE DEF call
<1>2. Awaiting!Goto("job", "saveCancelled")
  BY <1>1, Settles
<1>3. [j \in {"job"} |-> jobStatus]'
        = [[j \in {"job"} |-> jobStatus] EXCEPT !["job"] = "cancelled"]
  BY <1>1, Settles
<1>4. Awaiting!NoEffect \/ Awaiting!Effect("job", call)
  BY <1>1, Frame DEF Awaiting!NoEffect, Awaiting!github, Awaiting!Effect, Awaiting!Saves
<1> QED
  BY <1>1, <1>2, <1>3, <1>4, Frame, Settles
  DEF call, Awaiting!CancelDelivered, Awaiting!OnCancel, Awaiting!Body

\* How an await of the run can end.
Goes ==
  \/ UNCHANGED outcome
  \/ End("ok") \/ End("failed")
  \/ End("stale") /\ HeadSha # JobSha /\ reviews' = <<>> /\ summaries' = 0

LEMMA ProceedGoes == IInv /\ Proceed => UNCHANGED pushes /\ Goes
<1> SUFFICES ASSUME IInv, Proceed PROVE UNCHANGED pushes /\ Goes
  OBVIOUS
<1>1. phase \in Before \cup {"submit", "resubmit", "diagnose"} => reviews = <<>> /\ summaries = 0
  BY DEF IInv, Posted
<1> USE DEF Goes, Goto
<1>2. CASE CheckHead
  BY <1>1, <1>2 DEF CheckHead, posted, Before
<1>3. CASE LoadConfig \/ DetectStandards \/ SelectModel
  BY <1>3 DEF LoadConfig, DetectStandards, SelectModel, Require
<1>4. CASE ResolveIssues \/ Analyze \/ BuildContext
  BY <1>4 DEF ResolveIssues, Analyze, BuildContext, Degrade
<1>5. CASE FetchPage
  BY <1>5 DEF FetchPage
<1>6. CASE Review
  BY <1>6 DEF Review
<1>7. CASE CheckBeforePosting
  BY <1>1, <1>7 DEF CheckBeforePosting, MayPost, posted, Before
<1>8. CASE Submit
  BY <1>8 DEF Submit, RetryAsComment, AfterReview, OnRejection
<1>9. CASE Resubmit
  BY <1>9 DEF Resubmit, AfterReview, OnRejection
<1>10. CASE Diagnose
  BY <1>1, <1>10 DEF Diagnose, UnknownHead, posted
<1>11. CASE PostSummary
  BY <1>11 DEF PostSummary
<1> QED
  BY <1>2, <1>3, <1>4, <1>5, <1>6, <1>7, <1>8, <1>9, <1>10, <1>11 DEF Proceed

LEMMA StepIsAwaits == IInv /\ [Next]_vars => [Awaiting!Next]_(Awaiting!vars)
<1> SUFFICES ASSUME IInv, [Next]_vars PROVE Awaiting!Next \/ UNCHANGED Awaiting!vars
  OBVIOUS
<1>0. TypeOK
  BY DEF IInv
<1>1. CASE Push
  BY <1>0, <1>1, PushIsPush DEF Awaiting!Next
<1>2. CASE RequestCancel
  BY <1>2, RequestIsClose DEF Awaiting!Next
<1>3. CASE Cancelled
  <2>1. Awaiting!CancelDelivered("job")
    BY <1>3, EndIsCancel DEF Cancelled, OnCancelled
  <2> QED
    BY <2>1 DEF Awaiting!Next, Awaiting!TaskStep
<1>4. CASE Proceed
  <2>1. outcome = "running" /\ UNCHANGED pushes /\ Goes
    BY <1>4, ProceedGoes DEF Proceed
  <2>2. CASE UNCHANGED outcome
    BY <2>1, <2>2, Unseen
  <2>3. CASE End("ok")
    BY <2>1, <2>3, EndIsReturn DEF Awaiting!Next, Awaiting!TaskStep
  <2>4. CASE End("failed")
    BY <2>1, <2>4, EndIsFailure DEF Awaiting!Next, Awaiting!TaskStep
  <2>5. CASE End("stale") /\ HeadSha # JobSha /\ reviews' = <<>> /\ summaries' = 0
    BY <1>0, <2>1, <2>5, EndIsStale DEF Awaiting!Next, Awaiting!TaskStep
  <2> QED
    BY <2>1, <2>2, <2>3, <2>4, <2>5 DEF Goes
<1>5. CASE UNCHANGED vars
  BY <1>5, Unseen DEF vars, posted
<1> QED
  BY <1>1, <1>2, <1>3, <1>4, <1>5 DEF Next, Step

\* For any history of the pull request and any diff, a run is what the queue's model
\* takes it for: one await of job j that returns, fails, is cancelled once it was
\* asked to be, or finds the head elsewhere and has then posted nothing.
THEOREM RunIsAwait == Spec => IsTheQueuesAwait
<1> QED
  BY Invariance, StepIsAwaits, PTL DEF Spec, IsTheQueuesAwait

-----------------------------------------------------------------------------
(* Progress: the safety half of RunEnds.                                   *)

\* The awaits of run() in the order of the code.
Rank ==
  [head |-> 1, config |-> 2, diff |-> 3, standards |-> 4, issues |-> 5, analysis |-> 6,
   context |-> 7, model |-> 8, llm |-> 9, prepost |-> 10, submit |-> 11, resubmit |-> 12,
   diagnose |-> 13, summary |-> 14, end |-> 15]

\* A later await, or the next page of some commit's diff.
Advances ==
  \/ Rank[phase'] > Rank[phase]
  \/ /\ phase = "diff" /\ phase' = "diff" /\ fetched' = fetched + 1
     /\ \E s \in Shas : fetched' < Len(pages[s])

EachAwaitAdvances ==
  [][(Step => Advances) /\ (~Step => UNCHANGED <<phase, fetched>>)]_vars

LEMMA StepAdvances == IInv /\ Step => Advances
<1> SUFFICES ASSUME IInv, Step PROVE Advances
  OBVIOUS
<1> USE DEF Advances, Rank, Goto, End
<1>1. TypeOK /\ HeadSha \in Shas
  BY Commits DEF IInv
<1>2. CASE Cancelled
  BY <1>2 DEF Cancelled, OnCancelled, IInv, TypeOK, Posted, Phases
<1>3. CASE CheckHead
  BY <1>3 DEF CheckHead
<1>4. CASE LoadConfig \/ DetectStandards \/ SelectModel
  BY <1>4 DEF LoadConfig, DetectStandards, SelectModel, Require
<1>5. CASE ResolveIssues \/ Analyze \/ BuildContext
  BY <1>5 DEF ResolveIssues, Analyze, BuildContext, Degrade
<1>6. CASE FetchPage
  BY <1>1, <1>6 DEF FetchPage
<1>7. CASE Review
  BY <1>7 DEF Review
<1>8. CASE CheckBeforePosting
  BY <1>8 DEF CheckBeforePosting
<1>9. CASE Submit
  BY <1>9 DEF Submit, RetryAsComment, AfterReview, OnRejection
<1>10. CASE Resubmit
  BY <1>10 DEF Resubmit, AfterReview, OnRejection
<1>11. CASE Diagnose
  BY <1>11 DEF Diagnose
<1>12. CASE PostSummary
  BY <1>12 DEF PostSummary
<1> QED
  BY <1>2, <1>3, <1>4, <1>5, <1>6, <1>7, <1>8, <1>9, <1>10, <1>11, <1>12 DEF Step, Proceed

\* ReviewOrchestrator.run: for any history and any diffs, each await that ends takes
\* the run to a later one or to the next page of a diff, never back: no run can go on
\* for ever, and the head moving page by page does not prolong it beyond the longest
\* diff.
THEOREM AlwaysForward == Spec => EachAwaitAdvances
<1>1. IInv /\ [Next]_vars
        => [(Step => Advances) /\ (~Step => UNCHANGED <<phase, fetched>>)]_vars
  <2> SUFFICES ASSUME IInv, Next
               PROVE  (Step => Advances) /\ (~Step => UNCHANGED <<phase, fetched>>)
    OBVIOUS
  <2>1. Step => Advances
    BY StepAdvances
  <2>2. ~Step => UNCHANGED <<phase, fetched>>
    BY DEF Next, Push, RequestCancel, diff
  <2> QED
    BY <2>1, <2>2
<1> QED
  BY <1>1, Invariance, PTL DEF Spec, EachAwaitAdvances

=============================================================================
