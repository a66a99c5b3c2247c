------------------------------ MODULE ReviewQueue ------------------------------
(***************************************************************************)
(* The review queue of pr_checker/queue.py: webhook handlers enqueue and   *)
(* cancel review jobs, one worker coroutine runs them one at a time, each  *)
(* in a task of its own, and every job keeps a row in the database.        *)
(*                                                                         *)
(* Everything runs on one asyncio event loop: the code between two awaits  *)
(* is one atomic action here.  at[j] names the await the coroutine that    *)
(* owns job j is suspended in, so an action of a task is "the awaited call *)
(* returns (or raises) and the task runs up to its next await".            *)
(***************************************************************************)
EXTENDS Integers, Sequences, FiniteSets

CONSTANTS Jobs,          \* the webhook events that ask for a review (PRJob)
          PRs,           \* the pull requests, keys (repo_full_name, pr_number)
          NoJob,         \* None
          prOf,          \* the pull request of a job
          shaOf,         \* the head_sha a job was created for
          MaxSha,        \* bound: commits 1..MaxSha are pushed to a PR, in order
          MaxCloses,     \* bound: how many "closed" events are delivered
          MayStop,       \* whether the application may shut down
          FailingCalls   \* the awaited calls that may raise an Exception

Body == {"saveStarted", "checkHead", "postPending", "review", "saveCompleted",
         "postSuccess"}
Cleanup == {"saveCancelled", "saveStale", "saveFailed", "postError", "postComment"}
Calls == {"create", "saveSkipped"} \cup Body \cup Cleanup

\* Where a job can lose a step that nobody makes up for.
Owed == Cleanup \cup {"held", "starting", "saveSkipped"}

ASSUME JobsAssumption == NoJob \notin Jobs
ASSUME PRAssumption == prOf \in [Jobs -> PRs]
ASSUME ShaAssumption == MaxSha \in Nat /\ shaOf \in [Jobs -> 1..MaxSha]
ASSUME BoundsAssumption == MaxCloses \in Nat /\ MayStop \in BOOLEAN
ASSUME FailingAssumption == FailingCalls \subseteq Calls

JobStatus == {"pending", "in_progress", "completed", "failed", "cancelled"}
Terminal == {"completed", "failed", "cancelled"}
CommitState == {"none", "pending", "success", "error"}

\* The calls that update the job's row, and those GitHub sees.
Saves == {"saveStarted", "saveCompleted", "saveCancelled", "saveStale", "saveFailed"}
Posts == {"postPending", "review", "postSuccess", "postError", "postComment"}

\* A task between its creation and its end, and a task that has ended but that
\* the worker has not yet seen end (its _active_tasks entry is still there).
Running == {"starting"} \cup Body \cup Cleanup
Ended == {"returned", "cancelled"}
InTask == Running \cup Ended
At == {"new", "create", "rejected", "queued", "held", "saveSkipped", "settled"}
        \cup InTask

VARIABLES
  at,          \* where the coroutine that owns each job is suspended
  status,      \* job.status, in memory
  superseded,  \* job.superseded
  cancelReq,   \* task.cancel() was called and CancelledError not yet delivered
  queue,       \* _queue
  unfinished,  \* the queue's count of tasks not yet task_done()
  lock,        \* the job whose enqueue holds _enqueue_lock, or NoJob
  pending,     \* _pending: the newest unstarted job of each PR
  active,      \* _active_tasks: the job whose task is registered for each PR
  hand,        \* the job the worker is working on, or NoJob
  alive,       \* the worker coroutine has not ended
  stopping,    \* progress of stop()
  doomed,      \* the active tasks stop() is gathering
  row,         \* the status column of each job's row, "none" before the insert
  head,        \* GitHub: the newest commit of each PR
  commit,      \* GitHub: the commit status of each commit
  posted,      \* GitHub: what each job has posted to the PR
  closes,      \* "closed" events delivered so far
  wanted,      \* history: the newest accepted job of a PR not closed since
  missed       \* history: the best-effort steps of each job that raised or were cut off

queueVars == <<superseded, queue, unfinished, lock, pending, active, hand, alive>>
stopVars == <<stopping, doomed>>
github == <<head, commit, posted>>
events == <<closes, wanted, missed>>
vars == <<at, status, cancelReq, queueVars, stopVars, row, github, events>>

TypeOK ==
  /\ at \in [Jobs -> At]
  /\ status \in [Jobs -> JobStatus]
  /\ superseded \in [Jobs -> BOOLEAN]
  /\ cancelReq \in [Jobs -> BOOLEAN]
  /\ queue \in Seq(Jobs)
  /\ unfinished \in Nat
  /\ lock \in Jobs \cup {NoJob}
  /\ pending \in [PRs -> Jobs \cup {NoJob}]
  /\ active \in [PRs -> Jobs \cup {NoJob}]
  /\ hand \in Jobs \cup {NoJob}
  /\ alive \in BOOLEAN
  /\ stopping \in {"no", "draining", "gathering", "ending", "stopped"}
  /\ doomed \in SUBSET Jobs
  /\ row \in [Jobs -> JobStatus \cup {"none"}]
  /\ head \in [PRs -> 0..MaxSha]
  /\ commit \in [PRs -> [1..MaxSha -> CommitState]]
  /\ posted \in [Jobs -> SUBSET {"review", "errorComment"}]
  /\ closes \in 0..MaxCloses
  /\ wanted \in [PRs -> Jobs \cup {NoJob}]
  /\ missed \in [Jobs -> SUBSET Owed]

Init ==
  /\ at = [j \in Jobs |-> "new"]
  /\ status = [j \in Jobs |-> "pending"]
  /\ superseded = [j \in Jobs |-> FALSE]
  /\ cancelReq = [j \in Jobs |-> FALSE]
  /\ queue = <<>> /\ unfinished = 0 /\ lock = NoJob
  /\ pending = [p \in PRs |-> NoJob]
  /\ active = [p \in PRs |-> NoJob]
  /\ hand = NoJob /\ alive = TRUE
  /\ stopping = "no" /\ doomed = {}
  /\ row = [j \in Jobs |-> "none"]
  /\ head = [p \in PRs |-> 0]
  /\ commit = [p \in PRs |-> [s \in 1..MaxSha |-> "none"]]
  /\ posted = [j \in Jobs |-> {}]
  /\ closes = 0
  /\ wanted = [p \in PRs |-> NoJob]
  /\ missed = [j \in Jobs |-> {}]

Goto(j, place) == at' = [at EXCEPT ![j] = place]

\* What job j was doing is logged or lost, and not tried again.
Miss(j) == missed' = [missed EXCEPT ![j] = @ \cup {at[j]}]

-----------------------------------------------------------------------------
(* The webhook handlers: enqueue and cancel_pr.                            *)

\* GitHub: a commit is pushed; its webhook may be delivered any time later.
Push(p) ==
  /\ head[p] < MaxSha
  /\ head' = [head EXCEPT ![p] = @ + 1]
  /\ UNCHANGED <<at, status, cancelReq, queueVars, stopVars, row, commit, posted, events>>

\* Faulty variants: cancel() never called; called on the tasks of every PR.
CancellableNone(p) == {}
CancellableAnyPR(p) == {j \in Jobs : active[prOf[j]] = j /\ at[j] \in Running}

\* A handler for PR p displaces the job it finds in _pending and calls cancel()
\* on the task it finds in _active_tasks, unless that one is done.
Cancellable(p) == {j \in Jobs : active[p] = j /\ at[j] \in Running}

\* Faulty variant: the job found in _pending is not marked superseded.
DisplaceActiveOnly(p) ==
  /\ UNCHANGED superseded
  /\ cancelReq' = [i \in Jobs |-> cancelReq[i] \/ i \in Cancellable(p)]

Displace(p) ==
  /\ superseded' = [i \in Jobs |-> superseded[i] \/ i = pending[p]]
  /\ cancelReq' = [i \in Jobs |-> cancelReq[i] \/ i \in Cancellable(p)]

\* Faulty variant: the lock is kept on the way out.
KeepLock == UNCHANGED lock

Release == lock' = NoJob

\* Faulty variant: the previous job is displaced before the new one is stored.
DisplaceEarly(p) == Displace(p)

\* The state of enqueue while create_job is awaited: nothing but the lock.
BeforePersisting(p) == UNCHANGED <<superseded, cancelReq>>

\* enqueue takes the lock and awaits create_job.
EnqueueBegin(j) ==
  /\ at[j] = "new" /\ stopping = "no"
  /\ shaOf[j] <= head[prOf[j]]
  /\ lock = NoJob
  /\ lock' = j
  /\ Goto(j, "create")
  /\ BeforePersisting(prOf[j])
  /\ UNCHANGED <<status, queue, unfinished, pending, active,
                 hand, alive, stopVars, row, github, events>>

\* create_job has committed.  The first step of a task created before the lock
\* was taken is ahead of this one in the event loop's ready queue: no task is
\* still "starting".  The rest of enqueue has no await that suspends.
EnqueueStored(j) ==
  LET p == prOf[j] IN
  /\ at[j] = "create"
  /\ \A i \in Jobs : at[i] # "starting"
  /\ row' = [row EXCEPT ![j] = status[j]]
  /\ Displace(p)
  /\ pending' = [pending EXCEPT ![p] = j]
  /\ queue' = Append(queue, j)
  /\ unfinished' = unfinished + 1
  /\ Release
  /\ Goto(j, "queued")
  /\ wanted' = [wanted EXCEPT ![p] = j]
  /\ UNCHANGED <<status, active, hand, alive, stopVars, github, closes, missed>>

\* create_job raises: the lock is released and nothing else has changed.
EnqueueFails(j) ==
  /\ at[j] = "create" /\ "create" \in FailingCalls
  /\ Release
  /\ Goto(j, "rejected")
  /\ UNCHANGED <<status, cancelReq, superseded, queue, unfinished, pending, active,
                 hand, alive, stopVars, row, github, events>>

CancelPR(p) ==
  /\ stopping = "no" /\ closes < MaxCloses
  /\ lock = NoJob
  /\ Displace(p)
  /\ pending' = [pending EXCEPT ![p] = NoJob]
  /\ closes' = closes + 1
  /\ wanted' = [wanted EXCEPT ![p] = NoJob]
  /\ UNCHANGED <<at, status, queue, unfinished, lock, active, hand, alive, stopVars,
                 row, github, missed>>

-----------------------------------------------------------------------------
(* The worker.                                                             *)

WorkerGet ==
  /\ alive /\ hand = NoJob /\ queue # <<>> /\ stopping # "ending"
  /\ hand' = Head(queue)
  /\ queue' = Tail(queue)
  /\ Goto(Head(queue), "held")
  /\ UNCHANGED <<status, cancelReq, superseded, unfinished, lock, pending, active, alive,
                 stopVars, row, github, events>>

\* Faulty variants: the task is created and not awaited; its entry is kept.
ForgetTask == hand' = NoJob
KeepRegistered(p) == UNCHANGED active

\* The worker awaits the task it created: it keeps the job in hand.
AwaitTask == UNCHANGED hand

\* The finally clause forgets the task that has ended.
Unregister(p) == active' = [active EXCEPT ![p] = NoJob]

\* Under the lock: the job becomes the registered task of its PR.
WorkerStart(j) ==
  LET p == prOf[j] IN
  /\ at[j] = "held" /\ lock = NoJob /\ ~superseded[j] /\ stopping # "ending"
  /\ pending' = [pending EXCEPT ![p] = IF @ = j THEN NoJob ELSE @]
  /\ active' = [active EXCEPT ![p] = j]
  /\ Goto(j, "starting")
  /\ AwaitTask
  /\ UNCHANGED <<status, cancelReq, superseded, queue, unfinished, lock, alive, stopVars,
                 row, github, events>>

WorkerSkip(j) ==
  /\ at[j] = "held" /\ lock = NoJob /\ superseded[j] /\ stopping # "ending"
  /\ status' = [status EXCEPT ![j] = "cancelled"]
  /\ Goto(j, "saveSkipped")
  /\ UNCHANGED <<cancelReq, queueVars, stopVars, row, github, events>>

\* The worker is done with job j: task_done().
TaskDone(j) ==
  /\ Goto(j, "settled")
  /\ unfinished' = unfinished - 1
  /\ hand' = NoJob

\* update_job for a skipped job returns, or raises and is logged.
WorkerSkipped(j) ==
  /\ at[j] = "saveSkipped" /\ stopping # "ending"
  /\ \/ row' = [row EXCEPT ![j] = status[j]] /\ UNCHANGED missed
     \/ "saveSkipped" \in FailingCalls /\ UNCHANGED row /\ Miss(j)
  /\ TaskDone(j)
  /\ UNCHANGED <<status, cancelReq, superseded, queue, lock, pending, active, alive,
                 stopVars, github, closes, wanted>>

\* The awaited task has ended.  A cancelled task ends the worker only during
\* shutdown; a worker that was itself cancelled ends in any case.
WorkerReap(j) ==
  /\ hand = j /\ at[j] \in Ended
  /\ Unregister(prOf[j])
  /\ TaskDone(j)
  /\ alive' = ~((at[j] = "cancelled" /\ stopping # "no") \/ stopping = "ending")
  /\ UNCHANGED <<status, cancelReq, superseded, queue, lock, pending, stopVars, row,
                 github, events>>

-----------------------------------------------------------------------------
(* The task of a job: _process and _run_job.                               *)

\* A task cancelled before its first step never enters _run_job.
TaskStart(j) ==
  /\ at[j] = "starting"
  /\ IF cancelReq[j]
     THEN Goto(j, "cancelled") /\ Miss(j) /\ UNCHANGED status
     ELSE /\ Goto(j, "saveStarted")
          /\ status' = [status EXCEPT ![j] = "in_progress"]
          /\ UNCHANGED missed
  /\ cancelReq' = [cancelReq EXCEPT ![j] = FALSE]
  /\ UNCHANGED <<queueVars, stopVars, row, github, closes, wanted>>

\* What the call awaited at `call` does to the database and to GitHub.
Effect(j, call) ==
  /\ row' = IF call \in Saves THEN [row EXCEPT ![j] = status[j]] ELSE row
  /\ commit' = IF call \in {"postPending", "postSuccess", "postError"}
               THEN [commit EXCEPT ![prOf[j]][shaOf[j]] =
                       CASE call = "postPending" -> "pending"
                         [] call = "postSuccess" -> "success"
                         [] call = "postError" -> "error"]
               ELSE commit
  /\ posted' = [posted EXCEPT ![j] =
                  @ \cup (IF call = "review" THEN {"review"} ELSE {})
                    \cup (IF call = "postComment" THEN {"errorComment"} ELSE {})]
  /\ UNCHANGED head

NoEffect == UNCHANGED <<row, github>>

\* The await that follows a call of the try body or of an except block.
NextAwait ==
  [saveStarted |-> "checkHead", checkHead |-> "postPending", postPending |-> "review",
   review |-> "saveCompleted", saveCompleted |-> "postSuccess", postSuccess |-> "returned",
   saveCancelled |-> "cancelled", saveStale |-> "returned",
   saveFailed |-> "postError", postError |-> "postComment", postComment |-> "returned"]

\* Faulty variants: COMPLETED is not saved; the review is skipped; a cancellation
\* is reported as an error.
AfterUnsaved(call) == [NextAwait EXCEPT !.review = "postSuccess"][call]
AfterUnreviewed(call) == [NextAwait EXCEPT !.postPending = "saveCompleted"][call]
AfterReportsAlways(call) == [NextAwait EXCEPT !.saveCancelled = "postError"][call]

After(call) == NextAwait[call]

\* Faulty variant: the first best-effort step that raises ends the except block.
GivesUp(call) == IF call = "saveCancelled" THEN "cancelled" ELSE "returned"

\* A best-effort call that raises is logged, and the block goes on.
Logged(call) == After(call)

\* The awaited call returns and the task runs to its next await.
CallReturns(j) ==
  LET call == at[j] IN
  /\ call \in Body \cup Cleanup /\ ~cancelReq[j]
  /\ call = "checkHead" => head[prOf[j]] = shaOf[j]
  /\ Effect(j, call)
  /\ Goto(j, After(call))
  /\ status' = IF call = "review" THEN [status EXCEPT ![j] = "completed"] ELSE status
  /\ UNCHANGED <<cancelReq, queueVars, stopVars, events>>

\* StalePRError, from the check before the review or from the orchestrator.
CallStale(j) ==
  /\ at[j] \in {"checkHead", "review"} /\ ~cancelReq[j]
  /\ head[prOf[j]] # shaOf[j]
  /\ NoEffect
  /\ Goto(j, "saveStale")
  /\ status' = [status EXCEPT ![j] = "cancelled"]
  /\ UNCHANGED <<cancelReq, queueVars, stopVars, events>>

\* The awaited call raises.  A failed request to GitHub may have been served, a
\* failed database update has not.
CallFails(j) ==
  LET call == at[j] IN
  /\ call \in FailingCalls \cap (Body \cup Cleanup) /\ ~cancelReq[j]
  /\ \/ NoEffect
     \/ call \in Posts /\ Effect(j, call)
  /\ IF call \in Body
     THEN /\ Goto(j, "saveFailed")
          /\ status' = [status EXCEPT ![j] = "failed"]
          /\ UNCHANGED missed
     ELSE Goto(j, Logged(call)) /\ Miss(j) /\ UNCHANGED status
  /\ UNCHANGED <<cancelReq, queueVars, stopVars, closes, wanted>>

\* Faulty variant: an except block handles CancelledError as the try body does.
OnCancelAgain(j) ==
  /\ Goto(j, "saveCancelled")
  /\ status' = [status EXCEPT ![j] = "cancelled"]
  /\ UNCHANGED missed

\* CancelledError in the try body runs its handler; in an except block it skips
\* whatever that block had left to do.
OnCancel(j) ==
  IF at[j] \in Body
  THEN /\ Goto(j, "saveCancelled")
       /\ status' = [status EXCEPT ![j] = "cancelled"]
       /\ UNCHANGED missed
  ELSE Goto(j, "cancelled") /\ Miss(j) /\ UNCHANGED status

\* It is thrown at the await, whether or not the awaited call took effect.
CancelDelivered(j) ==
  LET call == at[j] IN
  /\ call \in Body \cup Cleanup /\ cancelReq[j]
  /\ NoEffect \/ Effect(j, call)
  /\ OnCancel(j)
  /\ cancelReq' = [cancelReq EXCEPT ![j] = FALSE]
  /\ UNCHANGED <<queueVars, stopVars, closes, wanted>>

-----------------------------------------------------------------------------
(* stop(), called by the application's lifespan once no request is served. *)

StopBegin ==
  /\ MayStop /\ stopping = "no" /\ lock = NoJob
  /\ stopping' = "draining"
  /\ UNCHANGED <<at, status, cancelReq, queueVars, doomed, row, github, events>>

\* Faulty variants: stop() waits for the tasks without cancelling them; it does
\* not wait for the worker.
LetTasksRun(S) == UNCHANGED cancelReq
WorkerIgnored == TRUE

CancelTasks(S) == cancelReq' = [j \in Jobs |-> cancelReq[j] \/ j \in S]

\* The drain wait ends, by join() returning or by its 5 s timeout, and the
\* registered tasks are cancelled.
StopDrained ==
  /\ stopping = "draining"
  /\ stopping' = "gathering"
  /\ doomed' = {j \in Jobs : active[prOf[j]] = j}
  /\ CancelTasks({j \in doomed' : at[j] \in Running})
  /\ UNCHANGED <<at, status, queueVars, row, github, events>>

\* The gathered tasks have ended; cancelling the worker cancels the task it
\* awaits, if that one has not ended.
StopGathered ==
  /\ stopping = "gathering"
  /\ \A j \in doomed : at[j] \notin Running
  /\ stopping' = "ending"
  /\ CancelTasks({j \in Jobs : hand = j /\ at[j] \in Running})
  /\ UNCHANGED <<at, status, queueVars, doomed, row, github, events>>

\* CancelledError in a worker that awaits the queue, the lock or the update of
\* a skipped job.
WorkerCancelled ==
  /\ stopping = "ending" /\ alive
  /\ alive' = FALSE
  /\ \/ /\ hand = NoJob
        /\ UNCHANGED <<at, unfinished, hand, row, missed>>
     \/ \E j \in Jobs :
          /\ hand = j /\ at[j] \in {"held", "saveSkipped"}
          /\ \/ UNCHANGED row
             \/ at[j] = "saveSkipped" /\ row' = [row EXCEPT ![j] = status[j]]
          /\ TaskDone(j)
          /\ Miss(j)
  /\ UNCHANGED <<status, cancelReq, superseded, queue, lock, pending, active, stopVars,
                 github, closes, wanted>>

\* stop() awaits the worker before it returns.
WorkerEnded == ~alive

StopReturns ==
  /\ stopping = "ending" /\ WorkerEnded
  /\ stopping' = "stopped"
  /\ UNCHANGED <<at, status, cancelReq, queueVars, doomed, row, github, events>>

-----------------------------------------------------------------------------
TaskStep(j) ==
  \/ TaskStart(j) \/ CallReturns(j) \/ CallStale(j) \/ CallFails(j) \/ CancelDelivered(j)

EnqueueStep(j) == EnqueueStored(j) \/ EnqueueFails(j)

WorkerStep ==
  \/ WorkerGet
  \/ \E j \in Jobs : WorkerStart(j) \/ WorkerSkip(j) \/ WorkerSkipped(j) \/ WorkerReap(j)
  \/ WorkerCancelled

StopStep == StopDrained \/ StopGathered \/ StopReturns

Next ==
  \/ \E p \in PRs : Push(p) \/ CancelPR(p)
  \/ \E j \in Jobs : EnqueueBegin(j) \/ EnqueueStep(j) \/ TaskStep(j)
  \/ WorkerStep
  \/ StopBegin \/ StopStep

\* Nothing obliges GitHub to send an event or the operator to stop the program;
\* every awaited call ends, since each client has a timeout, and a ready
\* coroutine is eventually run by the event loop.
Fairness ==
  /\ \A j \in Jobs : WF_vars(EnqueueStep(j)) /\ WF_vars(TaskStep(j))
  /\ WF_vars(WorkerStep)
  /\ WF_vars(StopStep)

Spec == Init /\ [][Next]_vars /\ Fairness

\* The same with reviews that may never end by themselves: a language model
\* answers as slowly as it likes, but a cancelled review ends.
PromptFairness ==
  /\ \A j \in Jobs :
       /\ WF_vars(EnqueueStep(j))
       /\ WF_vars((at[j] # "review" \/ cancelReq[j]) /\ TaskStep(j))
  /\ WF_vars(WorkerStep)
  /\ WF_vars(StopStep)

PromptSpec == Init /\ [][Next]_vars /\ PromptFairness

-----------------------------------------------------------------------------
(* Safety.                                                                 *)

\* A job that may still review its PR: accepted, and neither marked superseded
\* nor cancelled nor already past its review's fate.
Live(j) ==
  \/ at[j] \in {"queued", "held"} /\ ~superseded[j]
  \/ at[j] \in {"starting"} \cup Body /\ ~cancelReq[j]

\* While the queue accepts work, only the newest accepted job of an open PR can
\* still review it: enqueue and cancel_pr leave no older job behind, whichever
\* await it was suspended in (queue.py enqueue, cancel_pr, _worker).
OnlyWantedLive ==
  \A j \in Jobs : Live(j) => wanted[prOf[j]] = j

\* ... and that newest job is never the one that is dropped: it is in the queue,
\* in the worker's hand or in a task nobody cancelled, or it is settled
\* (the identity check on _pending, the done() check on _active_tasks).
WantedIsKept ==
  \A p \in PRs : \A j \in Jobs :
    wanted[p] = j /\ stopping = "no" => ~superseded[j] /\ ~cancelReq[j]

\* "The ReviewQueue processes one job at a time": no two tasks are under way,
\* the clean-up of a cancelled one included.
OneTaskAtATime ==
  \A i, j \in Jobs : at[i] \in Running /\ at[j] \in Running => i = j

\* join() tells the truth: with no unfinished item nothing is queued, running or
\* registered, and every job that was accepted is settled.
DrainedMeansSettled ==
  unfinished = 0 /\ alive =>
    /\ \A j \in Jobs : at[j] \in {"new", "create", "rejected", "settled"}
    /\ \A p \in PRs : pending[p] = NoJob /\ active[p] = NoJob

\* A row is left pending or in_progress for one of six reasons only: shutdown took the
\* job from the worker's hand, its task was cancelled before its first step, or the
\* update that an except block or the worker owes it raised or was cut off.  The job
\* that matters loses its final row only to a database that fails at that update,
\* whichever other call failed before (queue.py _worker, _run_job).
RowsAreFinal ==
  \A j \in Jobs :
    at[j] = "settled" /\ row[j] \notin Terminal =>
      /\ missed[j] \cap {"held", "starting", "saveSkipped",
                         "saveCancelled", "saveStale", "saveFailed"} # {}
      /\ wanted[prOf[j]] = j /\ stopping = "no" =>
           missed[j] \cap {"saveStale", "saveFailed"} # {}

\* "If anything throws, the job is marked failed and a brief error comment is
\* posted": the three best-effort steps do not depend on one another.  The comment
\* is missing only if posting it raised, and the commit stays pending only if
\* posting "error" raised, whichever of the other two raised as well.
FailureIsReported ==
  \A j \in Jobs :
    at[j] = "settled" /\ status[j] = "failed" /\ wanted[prOf[j]] = j /\ stopping = "no" =>
      /\ "errorComment" \in posted[j] \/ "postComment" \in missed[j]
      /\ commit[prOf[j]][shaOf[j]] # "pending" \/ "postError" \in missed[j]

\* No error is ever reported for a job that did not fail: cancelled, stale and
\* superseded jobs post no error comment, whenever the cancellation strikes.
NoErrorForCancelled ==
  \A j \in Jobs : "errorComment" \in posted[j] => status[j] = "failed"

\* A green commit status is backed by a review of that very commit.
GreenMeansReviewed ==
  \A p \in PRs : \A s \in 1..MaxSha :
    commit[p][s] = "success" =>
      \E j \in Jobs : prOf[j] = p /\ shaOf[j] = s /\ "review" \in posted[j]

\* After stop() returns the resources are closed: no task, no worker and no
\* handler is left that would use them.
NothingRunsAfterStop ==
  stopping = "stopped" =>
    ~alive /\ hand = NoJob /\ \A j \in Jobs : at[j] \notin InTask \cup {"create", "held"}

-----------------------------------------------------------------------------
(* What a step may never do.                                               *)

\* A row that says failed or cancelled is final; one that says completed can
\* only be overwritten by the task that wrote it, before it is settled.
FinalRowsStay ==
  [][\A j \in Jobs :
       /\ row[j] \in {"failed", "cancelled"} => row'[j] = row[j]
       /\ row[j] \in Terminal => row'[j] \in Terminal
       /\ at[j] = "settled" => row'[j] = row[j] /\ posted'[j] = posted[j]]_vars

-----------------------------------------------------------------------------
(* Liveness.                                                               *)

\* The job that is wanted and was created for the newest commit gets its verdict,
\* whatever happens to other pull requests: it is completed and its commit turns
\* green, or the review or the green status failed and the failure is on record,
\* unless a push, a close or a stop intervenes.  It is never dropped or stale.
WantedGetsReviewed ==
  \A p \in PRs : \A j \in Jobs :
    (wanted[p] = j /\ head[p] = shaOf[j]) ~>
      ( \/ row[j] = "completed" /\ commit[p][shaOf[j]] = "success"
        \/ row[j] = "failed" /\ FailingCalls \cap {"review", "postSuccess"} # {}
        \/ wanted[p] # j
        \/ head[p] # shaOf[j]
        \/ stopping # "no" )

\* stop() returns, whatever the worker and its task are doing.
StopTerminates == stopping = "draining" ~> stopping = "stopped"

-----------------------------------------------------------------------------
(* The queue implements its promise.                                       *)

PhaseOf(place) ==
  CASE place \in {"new", "create"} -> "new"
    [] place = "rejected" -> "rejected"
    [] place \in {"queued", "held", "saveSkipped"} -> "waiting"
    [] place \in InTask -> "running"
    [] place = "settled" -> "over"

Slots == INSTANCE ReviewSlots
           WITH phase <- [j \in Jobs |-> PhaseOf(at[j])], open <- (stopping = "no")

\* Whatever the interleaving of handlers, worker, tasks and stop(), the queue
\* behaves as one newest-wins slot per PR served by one reviewer at a time.
KeepsItsPromise == Slots!Spec

-----------------------------------------------------------------------------
(* Two statements of the repository that the code does not keep.           *)

\* tests/test_queue.py asserts that once the queue is drained a job that was
\* accepted has its final status in the database.
DrainedRowsAreFinal ==
  unfinished = 0 => \A j \in Jobs : at[j] = "settled" => row[j] \in Terminal

\* queue.py: a job task cancelled by a newer push lets the worker continue; the
\* worker ends only when it was itself cancelled, after the drain.
DrainKeepsWorker == stopping = "draining" => alive

=============================================================================
