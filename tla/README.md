# A TLA+ verification of pr_checker

pr_checker is a server that reviews GitHub pull requests with a language model.
GitHub sends it webhooks; for a pull request it queues a review job, reads the
diff and what surrounds it, lets the model review it in a conversation with
tools, and posts the result. For a push to a branch it keeps a Qdrant index of
the branch's code, which the reviews search. All of it runs on one asyncio event
loop: code between two awaits is atomic, and everything that can go wrong goes
wrong at an await.

The modules here model that program await by await, TLC checks them on small
instances, and TLAPS proves the main invariants for all of them. Line numbers
below are those of `pr_checker/`; `PROJECT.json` gives the lines of every
definition, the hazards at their lines, the runs and the theorems.

## 1. The system

| part (`pr_checker/`) | state | operations | what makes it correct |
|---|---|---|---|
| `queue.py` ReviewQueue | `_queue`, `_pending`, `_active_tasks`, `_enqueue_lock`, `_shutdown`, the worker task, one task per started job; a job's row, commit status and comments | `enqueue`, `cancel_pr`, `_worker`, `_process`, `_run_job`, `start`, `stop` | the newest commit of an open PR is reviewed, older ones are not; one job at a time; every job reaches a final row and reports its failure; `stop()` returns and leaves nothing running |
| `review_orchestrator.py`, `review_formatter.py` | the locals of `run()`; what is on GitHub | `run`, `_raise_stale_or_reraise`, `format` | what is posted is about the job's commit; all or nothing; posted once; stale is told apart from failed |
| `llm_client.py` LLMClient | the message history, the streamed answer, the reminder and force flags | `review`, `_stream_turn`, `_dispatch_tool`, text tool calls, fallback | every request is valid; calls are put together whole; the review ends and keeps what the model said |
| `code_indexer.py` and the index tasks of `main.py` | the points of each branch in Qdrant, `indexed_branches`, `in_flight_indexes` | `index_branch`, `index_files`, `delete_branch`, push / delete / `/admin/index` | the recorded commit is indexed completely; a re-index repairs anything, never empties the index, runs once at a time and releases its key |
| `qdrant_gateway.py` | `_known_collections` | upsert, three deletions, search | 404 of a deleted collection and creation races are absorbed |
| `model_manager.py`, `lm_studio_client.py` | the models loaded in VRAM (LM Studio) | `get_model_for_task` | the budget is respected, the model's context suffices |
| `reviewer_config.py` | the server's settings | `for_repo`, `_deep_merge`, `_enforce_limits` | a repository cannot exceed the server's limits |
| `context_builder.py`, `embedding_service.py` | a semaphore | `build`, `search`, `embed` | partial failures degrade; duplicates are merged, the best is kept |
| `code_chunker.py` | the loop of `split_to_fit` | `chunk_file` | no line is lost, chunks fit, ids are unique |
| `static_analyzer.py` | a temporary directory, a process per tool | `run` | no process is left behind |
| `standards_detector.py`, `issue_resolver.py`, `identifier_extractor.py` | none | pure functions around requests | best effort does not stop a review |
| `db.py` | `review_jobs`, `indexed_branches` | insert, update, upsert, delete | - |
| `main.py`, `webhook.py` | `bg_tasks`, `in_flight_indexes` | routing, lifespan | index tasks end before the clients close |
| `github_client.py` | none | REST calls, paged diffs | - |

How they interact: webhook handlers call the queue and fire index tasks. The
queue's worker starts a task for a job, which awaits the orchestrator. The
orchestrator awaits the GitHub client, the configuration, the detectors, the
context builder, the model manager and the LLM client, one after the other.
The LLM client's tools search the index that index tasks are writing. Nobody
locks the index; the queue has one lock, around `_pending` and `_active_tasks`.

What is hard in it:

- **Cancellation.** A push or a close cancels a task at any await, before its
  first step included, and a second cancellation may interrupt the clean-up of
  the first. `stop()` cancels tasks and the worker on top of that.
- **A world that moves.** The head of the PR moves while its diff is read page by
  page and while the model thinks for minutes; events are delivered late, out of
  order and twice.
- **Partial failure.** Every call may raise, before or after it took effect at
  GitHub. Some failures are swallowed, some end the run, some are retried.
- **Unserialised index tasks**, that interleave per file.
- **A peer that says anything**: the model interleaves, cuts off and malforms its
  calls, or never calls what it should.

- **Stop, crash and restart.** The index outlives the process, the keys and tasks that
  guard it do not. The queue has no recovery at all: it is in memory and startup reads no
  rows, so after a crash pending rows stay pending. There is no behaviour of it to state,
  and none is modelled; what a restarted process makes of the index is.

## 2. The modules

| module | what it is |
|---|---|
| `ReviewQueue` | `queue.py`, one action per stretch between two awaits |
| `ReviewSlots` | what the queue promises: a newest-wins slot per PR, one reviewer |
| `MCReviewQueue`, `ReviewQueueProofs` | its instances, and its proofs with the refinement of ReviewSlots |
| `ReviewOrchestrator` | `run()`: the task's await named `review` in ReviewQueue, opened up |
| `MCReviewOrchestrator`, `ReviewOrchestratorProofs` | its instance and proofs |
| `LlmReview` | `review()`: the await named `llm` in ReviewOrchestrator, opened up |
| `MCLlmReview`, `LlmReviewProofs` | its instance and proofs |
| `CodeIndex` | the index of one branch and the tasks that write it |
| `MCCodeIndex`, `CodeIndexProofs` | its instances and proofs |
| `Lifespan` | CodeIndex inside the process: shutdown, crash, restart, lost and ignored events |
| `MCLifespan`, `LifespanProofs` | its instances and proofs |
| `PushFiles` | `aggregate_push_files`: where CodeIndex's `Edited` and `Removed` come from |
| `Collections` | the gateway's cache of known collections against one collection in Qdrant |
| `ModelManager` | choosing a model and making room for it in LM Studio |
| `CodeChunker` | cutting a file into chunks, and a chunk into parts |
| `Prefetch` | the searches for a review's context, and what is made of their results |
| `Analysis` | ruff and mypy as processes with a timeout |
| `MCParts` | one instance of these six, which share no state |
| `PartsProofs`, `CodeChunkerProofs` | their proofs |
| `ReviewerConfig` | the settings, with their theorems; it has no state and no run |

The three review modules are layers: each action of the outer one that names an
await of the inner one takes exactly the outcomes the inner one shows possible.
ReviewQueue lets `review` return, raise `StalePRError` only when the head has
moved, raise, or be cancelled; ReviewOrchestrator is shown to do nothing else
(`IsTheQueuesAwait`), to end (`RunEnds`), and in good weather to succeed.
ReviewOrchestrator lets `llm` return any verdict and findings or raise;
LlmReview shows that it ends (`ReviewEnds`). Its `context`, `analysis` and `model`
awaits are opened up in Prefetch, Analysis and ModelManager. CodeIndex's single
action for an upsert or a deletion is opened up in Collections.

### ReviewQueue

`at[j]` is the await that the coroutine owning job `j` is suspended in: `create`
(`enqueue` awaits `create_job` under the lock), `queued`, `held` (the worker has
it and wants the lock), `saveSkipped`, then the task's own awaits. `starting` is
a task created whose first step has not run. The names of the task's awaits are
those of the calls: `saveStarted`, `checkHead`, `postPending`, `review`,
`saveCompleted`, `postSuccess`, and in the except blocks `saveCancelled`,
`saveStale`, `saveFailed`, `postError`, `postComment`. `returned` and
`cancelled` are tasks that ended and whose entry in `_active_tasks` is still there.

- `cancelReq[j]` is a `task.cancel()` not delivered yet. `TaskStart` delivers it
  to a task that never ran, which then never enters `_run_job`; `CancelDelivered`
  delivers it at an await, with or without the effect of the call awaited.
- `CallReturns`, `CallStale`, `CallFails` are the three ways out of a call.
  `FailingCalls` says which may raise; a failing call to GitHub may have had its
  effect, a failing database update has not.
- `Displace` is what `enqueue` and `cancel_pr` share: mark the pending job
  superseded, cancel the active task unless it is done.
- `WorkerReap` is the `finally` of the worker, with its distinction between a
  cancelled job and a cancelled worker.
- `EnqueueStored` waits for tasks that are `starting`: their first step is ahead
  of it in the loop's ready queue. Without that conjunct the model would show
  interleavings asyncio does not have.
- `Logged` is what follows a best-effort call that raises: the next call of the block.
- `wanted[p]` and `missed[j]` are history variables: the newest accepted job of an open
  PR, and the best-effort steps (`Owed`) of a job that raised or that a cancellation cut
  off. A property that allows for a failing step names the step in `missed`.

Rows, commit statuses and comments appear by their last value; messages by their
kind. The head of a PR only advances here (`shaOf` may repeat: a redelivery).

### ReviewOrchestrator

One action per await of `run()`. `FetchPage` reads one page of whatever commit is
the head at that moment, since `get_pr_diff` names no commit; `sources` records
which commits were read. `OnDiff` is the filter by `valid_diff_lines`, `Body` and
`SubmitEvent` the choice of event and body, `Answer` GitHub's rules for accepting
a review (external). `Retryable` and `RetryAsComment` are the own-PR retry,
`Diagnose` is `_raise_stale_or_reraise`. The three output switches take every
combination; `world` says whether calls may fail and whether the reviewer is the
author. Best-effort steps (`Degrade`) cannot end the run, others (`Require`) can.
The pull request can move at any point and the queue can cancel at any point:
`RequestCancel` is its `task.cancel()`, `Cancelled` the exception at the await, with or
without the effect of the request that was under way; between the two the head may move.

`Awaiting` is ReviewQueue seen from inside this one await. One job, `"job"`, is in its
task and in the worker's hand; every push makes a new commit, a cancellation is a close,
and the run's outcome says which await of `_run_job` comes next (`jobAt`, `jobStatus`:
returned, stale, failed, cancelled). What the run has posted counts, as it does in
ReviewQueue, when the await is over. `IsTheQueuesAwait` says that each step of the run is
then a step of ReviewQueue (`Push`, `CancelPR`, `CallReturns`, `CallStale`, `CallFails`,
`CancelDelivered`) or leaves its variables alone. It is a statement about steps: the run
starts where the queue's model is in the middle.

### LlmReview

A request (`Ask`) chooses what the model will answer: up to `MaxCalls` calls,
each with a name and arguments in pieces. `Delta(i)` delivers the next piece of
call `i`; pieces of different calls alternate freely, and `Finish`, `Timeout` or
`Break` may come between any two. `Finish` puts the answer together: calls
without a name are dropped, a cut-off argument does not parse, and calls written
as markup in the text count when there are no others. `pending` is then handled
call by call (`RunTool`, `RefuseCall`, `SubmitReview`). `Remind` is the single
reminder with its trimmed history and the forced `submit_review`. A message's text
is the number of the turn it was said in, which is all the properties need.

### CodeIndex

A file is cut into slots, as `point_id` depends on the place of a chunk and not on
its text. A point carries the commit its text is from (`ver`) and the commit it
was indexed for (`tag`, the sha payload): this is what tells a stale point with
the right text from one with the wrong text. A task's `stage` is its await;
`calls` are the per-file calls it has still to make, in any order, since they are
gathered. `Advance` is a push reaching GitHub, `PushWebhook` its webhook, any time
later and, unless `InOrder` holds, in any order. `fired` and `begin` are tasks that
were scheduled and have not had their first step, for a push (which then asks for the
key, `Skipped`) and for a request to `/admin/index` (which has it). `FailingCalls` says
which calls may raise. `failed` and `wrote` are the gates of `index_branch`. One
branch is enough: points, rows and keys of different branches are never read
together.

### Lifespan

`lifespan` and `_fire` of `main.py` around the tasks of CodeIndex, which it extends.
`bg_tasks` is what was fired and has not ended; a request to `/admin/index` that is
still reading the branch's commit is not among them, and the server lets it end first
(`ShutdownBegins`). `DrainEnds` may come as soon as every task has begun (`Unbegun`:
first steps are ahead of it in the loop's ready queue), since 30 seconds may be short,
and fixes `pending`; `CancelPending` is one turn of the loop that cancels and awaits;
`CloseClients` follows the last. A cancelled task runs its `finally`; one that had not
begun would not and would keep the key, which is why it matters that none is left.
`Crash` runs nothing, and `Restart` starts with no task and no key but with the points
and the row as they are. `EventLost` is a push while the process is down, which GitHub
does not deliver again. `PushIgnored` is a push that lists no commits, for which no task
is fired (`main.py:222`): a re-push of the head, but also a forced push that takes
commits back, or a new branch of commits that exist already.

`intact` is a history variable: a full re-index has made the index whole, and since then
every task continued where the index was, undisturbed, and neither failed nor was cut
short. A webhook that is delivered out of order does not continue where the index was.

### PushFiles

Each step is a commit of the push: any change to the tree, the lists GitHub makes of it,
and what the loop does with them. The commits follow one another; what GitHub lists for
a merge is not modelled. `AggregateIsNet` says of the two resulting lists what CodeIndex
takes for granted, except that a file added and removed again within a push is among the
removed, where it does no harm.

### Collections

One action is one request to Qdrant, with the code up to the next one: the check for the
collection, its creation, the second check after a conflict, a batch of an upsert, a
deletion or search. `known` is the entry of `_known_collections`; the collection may be
deleted by others at any time (`DeletedOutside`), and any request may fail, with or
without its effect (one that Qdrant carries out only later is left out). `RetryAll`
is the second round of an upsert after a 404. `struck` is a history variable: a deletion
overlapped the coroutine since it began its round.

### ModelManager

`list_models` is one await, whose answer is used for all that follows; each unload is
one, and the load. In between other users load and unload. `Entries` is what
`_parse_model` makes of the answer (one entry per instance, one for a model without
any), `Selectable` the choice among them, `OverBudget` both of the budget's checks.
`disturbed` and `broken` are history variables that the two properties need to say when
the code can keep its promise. A load or unload that LM Studio carries out after the
client's timeout is a step of `OtherUser`. An instance without an `instance_id`
(`model_manager.py:48`) does not occur: `lm_studio_client.py` gives every instance one.
The sum of the instances' sizes (`Vram`) is the number of the bytes they hold (`Held`),
which is a sum that proofs can use without induction.

### CodeChunker

A file is the positions of its line ends, whether it is Python that parses, and its
top-level statements; that is all the cutting depends on. The first cut is a set of
chunks (`Windows`, `PythonChunks`); `split_to_fit` is a loop, one action per part. A
chunk's name is its base name, the lines in it (`lines_a_b`) and its part, so that
equal names are equal for the reason the code makes them equal.

### Prefetch

Batches of embeddings, then one search per identifier and branch through a semaphore,
in any order, any of which may fail. `_deduplicate` is by what it keeps (`OneEach`) and
joins (`Merged`), not by its dictionaries; which of two equal scores comes first is left
open, as the order of the answers leaves it.

### Analysis

The reading of the files, then the two tools one after the other. `proc` is the operating
system's view of each tool: running, killed but not ended, exited but not waited for,
reaped. `ToolTimesOut` is `wait_for` giving up, also when the process has just ended.
`ToolRaises` is any other exception of the talk with the process, after which the code
goes on without waiting for it; `unheard` is a history variable, the tools this happened
to. `AnalysisCancelled` is the cancellation of the review, for which the code has no clause.

### ReviewerConfig

An entry of a settings file is absent, null, refused by validation, or a value.
A float is NaN or a number: `min` and `max` let a repository's NaN through, since it
compares with nothing (`MinFloat`, `MaxFloat`). `DeepMerge`, `EnforceLimits`, `ForRepo`,
`LoadFile` and `ServerConfig` are functions of such files, and the theorems speak of all
of them.

## 3. The runs

Each run's bound is chosen as the smallest at which its question is not trivial.

| run | distinct states | instance | shows |
|---|---|---|---|
| `queue_events` | 1 690 000 | 3 jobs of one PR, two for the same commit, 2 pushes, 1 close; every call but the two reports of a failure may fail | supersession at every await: `OnlyWantedLive`, `WantedIsKept`, `DrainedMeansSettled`, `GreenMeansReviewed` |
| `queue_stop` | 1 007 000 | 2 jobs, a close, `stop()` at any moment, every call may fail, reviews that never end by themselves | `StopTerminates`, `NothingRunsAfterStop`, `RowsAreFinal`, `FailureIsReported`, `FinalRowsStay` |
| `queue_promise` | 411 000 | 2 PRs, 3 jobs, `stop()`; inserts, reviews and green statuses may fail | `KeepsItsPromise` (ReviewSlots with its fairness), `WantedGetsReviewed` |
| `queue_early_cancel` | violation | 1 job, 1 close | `DrainedRowsAreFinal` fails |
| `queue_drain_worker` | violation | 2 jobs, `stop()` | `DrainKeepsWorker` fails |
| `index_races` | 1 225 000 | 2 pushes in any order (one forced), an admin request and a deletion in any overlap, so two full re-indexes; an admin request's read of the commit and a sweep may fail; a shutdown or crash at any moment, a restart | `FullIndexRepairs`, `NeverEmptyMidReindex`, `OneFullIndex`, `NothingUsesClosedClients`, `ShutdownEnds` |
| `index_serial` | 1 387 000 | 3 pushes in any order (one forced), an admin request and a deletion, one task at a time; failures, shutdown and crash; files grow, shrink, empty, vanish and return | `RepairedStaysComplete`, `KeyIsReleased` |
| `index_partial` | violation | 3 pushes one at a time, failures | `RecordedIsComplete` fails |
| `index_lost_push` | violation | 2 pushes and an admin request, no failures | `NoPushIsLost` fails |
| `review_posting` | 18 000 | a PR that moves up to twice, a two-page diff, all output settings, a cancellation at any await | eight properties of ReviewOrchestrator, `IsTheQueuesAwait` among them |
| `llm_turns` | 309 000 | 3 turns, 2 calls per answer, names and 2 pieces of arguments | six properties of LlmReview |
| `small_parts` | 286 000 | 5 models of known, estimated and unknown size; 4 coroutines on one collection, deleted twice; files of 5 and 6 lines; 2 identifiers, 5 chunks in 2 branches; 3 commits over 2 files; 2 files for the tools | `BudgetHolds`, `RaisesForCause`, `OutsideDeletionIsHarmless`, `NoLineIsLost`, `IdsAreUnique`, `SplittingEnds`, `ContextIsBest`, `AggregateIsNet` |

Why these bounds are enough to be interesting. Displacement needs an active job, a
pending one and a newcomer: three jobs, which also gives two events for one commit. The
hazards of the second PR are in the worker's order, so one job there is enough. How a
job ends is a matter of its own failures and cancellations, and of a newcomer: two jobs,
and there every call may fail. With three jobs the two reports of a failure are left to
succeed, as what follows them is the same either way. The races of the index involve two
writers and what a third left behind, with a deletion among them, and two files since
the gates look at all of them; a second start is enough, since a process knows nothing
of those before it. In `index_races` a sweep may fail, which leaves behind what only the
next full re-index removes, and a request may fail before it holds the key; a call that
writes points fails there as it is cut off, by a cancellation or a crash. In
`index_serial` the calls fail whose failure the code swallows or notes, and the crash
stands for the others. The diff needs two pages for a push between them, a second push
for a head that moved before the second check and again before the post. The
conversation needs a turn for tools, one for the prose that is reminded of, one for the
answer, and two calls to interleave. A second deletion of the collection is one after
the retry has begun. Lines are empty, short or longer than a chunk may be. Two
identifiers find a chunk twice with different scores; a second chunk of one name in one
branch, and equal and different texts in both, take every way through `_deduplicate`.
The third commit touches a file that the first two removed and added.

Deadlock checking is off in all of them, since all of these end: no more events, no
more turns, stopped. That they end where they should is what the liveness
properties say, and for the queue and the index tasks the theorems `NoDeadlock` and
`TasksAreNeverStuck`.

For every property of a passing run there is a faulty variant of one definition,
written above the definition it replaces (`CancellableNone`, `PreDeleteAlways`,
`AfterUnsaved`, ...), that stands for a plausible mistake in the code; the run with
the variant in place reports that property violated.

### Fairness

- Nothing obliges GitHub to push, to deliver, or the operator to stop: these
  actions have no fairness.
- A coroutine that can run is run by the event loop, and every awaited call ends:
  the HTTP clients, Qdrant, the database and the language model's stream have
  timeouts (`LLM_TIMEOUT` bounds the wait between two chunks, `docs/deployment.md`).
  Hence weak fairness of `EnqueueStep(j)`, `TaskStep(j)`, `WorkerStep` and
  `StopStep`, of each index task's `TaskRuns(t)` in `FairLifeSpec`, of `Step` in the orchestrator and
  of `Next` in the conversation, which has no step of the environment that the
  client does not wait for. `LLM_TIMEOUT` can be switched off, and then only the
  safety properties are claimed.
- `queue_stop` takes nothing of that for the review itself (`PromptFairness`): a
  review may go on for ever unless it is cancelled.
- `LifeSpec`, which `index_races` uses, takes nothing of that for index tasks: one may
  hang for ever, and shutdown must end all the same. Only `lifespan` itself is fair
  (`ShutdownStep`): its timeout expires and an awaited cancellation is delivered. The
  event loop also gives every scheduled task its first step, which `DrainEnds` waits for.
- `Crash` and `Restart` have no fairness.
- No strong fairness is used. The worker and the handlers contend for the lock,
  but in the instances handlers are finitely many.
- Liveness of the index tasks does not rest on the order in which per-file calls
  end; each is made once.

## 4. What the checks found

Four statements of the repository that the code does not keep:

1. **A job closed before its first step keeps its row pending**
   (`queue_early_cancel`). `cancel_pr` cancels the task between its creation and its
   first step; `_run_job` never runs, so no except block writes `cancelled`.
   `tests/test_queue.py:283` asserts the cancelled status after `join()`. For the
   newest job of an open PR this cannot happen: its row stays open only if saving it
   raised (`RowsAreFinal`).
2. **A superseded job ends the worker during the drain** (`queue_drain_worker`).
   `queue.py:161` re-raises when `_shutdown` is set, whoever was cancelled; the
   comment there says that the worker goes on after a job that a push cancelled. Jobs
   still queued are then not run although the drain had time for them.
3. **A partial index is recorded as complete** (`index_partial`). The failure of a
   file gates the commit of its own push only; the next push records its commit over
   the gap, and nothing reads that file again. `code_indexer.py:192` says that callers
   keep retrying.
4. **A push during a re-index of an older commit is lost** (`index_lost_push`). It is
   skipped because the re-index "will produce a complete, consistent snapshot"
   (`main.py:242`), which is a snapshot of a commit before it.

Further weaknesses have no statement in the repository to compare with, and are listed
as hazards with a note: a force-push away and back between the two head checks, the
text lost when the answer to a reminder is empty, a review that fails as a whole for
one malformed finding, a branch deletion that races an index task, ruff and mypy that
outlive a cancelled review in a directory that is gone, lines cut at form feeds. One more
is a comment the code contradicts without a run of its own: `main.py:220` says of a push
without commits that it "advanced nothing", which a forced push back to an earlier commit
is an exception to; `PushIgnored` has it, and `RepairedStaysComplete` shows that the
index stays at least that of its recorded commit.

## 5. What is proved

The theorems hold for every value of the constants that satisfies the modules' named
assumptions (which jobs belong to which PR and commit, what a commit changes, what a diff
looks like, which calls fail): any number of jobs, PRs, files, tasks, pushes, pages,
turns and calls. TLC evaluates each assumption in the runs.

**The queue.** `Spec => []IInv`, from `InitIInv` and one lemma per action. None of the
safety properties is inductive: they speak of `wanted` and of `at`, while the code
only looks at its maps and the lock. `IInv` says what each of these means: the lock is
held exactly during `create`; the queue has exactly the queued jobs, each once; the
worker's hand is the one job taken and not settled; `_pending` is the unstarted job
that is not superseded; `_active_tasks` is the task, ended or not; a cancellation is
only ever requested of a running task whose job is not wanted (or at shutdown); the
count of `join()` is the queue's length plus the hand. From it: `TypeCorrect`,
`Supersession`, `NewestIsKept`, `Serial`, `JoinIsTruthful`, `ErrorsAreFailures`,
`StopIsClean`, `FinalIsFinal`. What is on GitHub and in the database needs more:
`ResultInv` adds what the row must be at each place of a job, and that a wanted job in its
task has no other task of its PR beside it, so that nobody overwrites its commit's status.
From it: `RowsBecomeFinal` and `FailuresAreReported`, for which it adds that whatever a
row or a report lacks is in `missed`, and `GreenIsReviewed`. `Implements` maps `at`
to the phases of ReviewSlots and shows that every step of the queue is a step of
ReviewSlots or a stutter; that a push cannot start an outdated job is where `WantedInv` is
needed.

Two theorems are the part of the queue's liveness that needs no fairness.
`NothingIsRunTwice`: each step of a coroutine moves one job to a later await (`Rank`), and
every other step is an event, a stage of `stop()` or the end of an idle worker, so no
interleaving of handlers and cancellations makes a job run again. `NoDeadlock`: as long as
an accepted job is not settled or `stop()` has not returned, some coroutine is ready. That
is not obvious, since the worker waits for the lock, its holder for tasks that are about
to start, `stop()` for the tasks and then for the worker; `LockInv` and `HandInv` break
the circle. `Ready` lists the guards of the actions instead of their ENABLED.

**The index.** Three invariants, each used by the next: the types; `OneFullIndex`,
which is inductive given the types; and `ReindexInv`. The two properties of a full
re-index say nothing of how it gets there, so `ReindexInv` adds it: every point that exists
has the text and the place its commit gives it, whatever raced (`PointsAreTrue`); a task
that is `alone` is the only active one (`AloneIsAlone`); and an undisturbed full re-index
has put every file that it is not still going to put or has noted as failed
(`Progress`). From it: `Repairs` (whatever ghosts and gaps earlier races and failures left,
the re-index leaves the exact index), `NeverEmpty`, and `IndexHoldsOnlyTruth`, which is
`PointsAreTrue` itself. For the safety half of `KeyIsReleased`: `NoCallIsRepeated` (each
step uses up a stage or a per-file call of one task) and `TasksAreNeverStuck` (an active
task waits for an answer that a step gives, and the key is held by such a task), which
needs that a task has only calls of the kind its stage makes (`CallsFit`).

**The process.** `LifeInv` is the index's invariant, which survives because cancelling,
crashing and restarting change no points and let go of the key with the task, and
`ProcessInv`: once the loop cancels, it has every task that is left and each of them has
begun, and none is left at the end. From it:
`ClosedMeansQuiet`, and the properties of the index again, now through restarts:
`KeySurvivesRestarts`, `RepairsAfterCrash`, `NeverEmptyAfterCrash`, `TruthSurvivesCrashes`
and `NeverStuckAfterCrash`.
`RepairLasts` needs an invariant of its own, `WholeInv`: an update that continues from an
exact index has made each file exact for the new commit or has still to call for it
(`UpdateProgress`), and a file that a commit does not touch is exact for both.

**The run.** `IInv` of ReviewOrchestrator says, for each place of the run, where the
diff's pages come from (`Reading`), that nothing was posted that the second check had
not seen (`Checked`), what the payload is made of (`Payload`), what is posted
(`Posted`), and that the diagnosis is not reached in good weather (`Weather`). The
argument for `PostsAboutTheirCommit`: a head that never returns to the job's commit
and is there at the second check was there all along. That assumption
(`NeverReturns`) is in the property, not in the specification. `ReviewThenSummary`,
`StaleMeansMoved`, `OkMeansPosted` and `GoodWeather` follow from the same invariant.
`RunIsAwait` is the refinement of the queue's await, for every history, diff, settings and
failure. Its argument is one lemma per way a step looks from the queue: `PushIsPush`,
`RequestIsClose`, and for the end of the await `EndIsReturn`, `EndIsStale` (where the
invariant is needed: a stale run has posted nothing, and there was a push),
`EndIsFailure` and `EndIsCancel`; all other steps are invisible. `AlwaysForward` is the
safety half of `RunEnds`: each await leads to a later one, to a later page of the diff or
to the end, the retry included.

**The conversation.** `LlmInv`: what was received of each call is what was sent of it so
far, in order (`Accumulated`); the history begins with the two first messages and every
answer in it is followed by the replies to its calls, the last perhaps by some of them,
with `pending` the rest (`History`); a reminder is the last message exactly when its
answer is forced (`Forcing`); the text it set aside is one the model said (`Ongoing`). All
of LlmReview's safety properties follow, and `ReminderForcesOnce`. `NothingIsFree` is the
safety half of `ReviewEnds`: a step spends a turn, a piece of the answer, the answer, the
one reminder or a call still to be handled, whatever the model says.

**The parts.** Collections: an upsert that nothing has struck has its batches so far
stored, and the collection is there once it has seen or made it (`Undamaged`); on the
word of the cache alone it may begin, but not go on. CodeChunker: everything in `out`
comes from a chunk of the first cut that was taken (`Origins`), and that chunk is
returned up to where the next part begins (`Kept`), so that a line is in a part that
fits, or is alone in it; that windows leave no gap takes a lemma on division and a least
element. Prefetch: `ContextIsBest` is the effect of one step, on any set of found
snippets: merging loses nothing (`MergedCovers`), says nothing untrue (`MergedParts`)
and repeats nothing (`MergedApart`), and a cut by score keeps the best. PushFiles: the
property is inductive as it stands. Analysis: a process is alive only while its tool is
awaited, and the directory is there, unless its talk with the tool raised (`ToolInv`).
ModelManager: while it makes room undisturbed, the instances listed are those unloaded
so far, whose bytes add up to `freed`, and those still in VRAM (`Underway`); so the
budget check on the list read at the start is one on what is really loaded, and the loop
stops at the first instance with which the model fits (`MakingRoom`). From it:
`BudgetIsKept`, `GivesUpForCause`, `NothingIsUnloadedInVain`. They assume finitely many
instance names, as a server has.

**The settings.** `RepoCannotEscalate`: whatever a repository's file holds, the result is a
valid configuration within the server's. NaN in place of the memory budget or of the bytes
per parameter is the exception `Within` names; it grants nothing, as `get_model_for_task`
turns both into an int and raises. `EnvironmentBinds`: a cap of the server's
environment binds every review, whatever both files say.

Theorems without a run: the types, `Serial`, `ErrorsAreFailures`, `ReminderForcesOnce`,
`AllFit`, `ToolsAreReaped`, `NothingIsUnloadedInVain`, the truth of the points, the
progress theorems, and the two of ReviewerConfig, which has no behaviour to run.

Only model-checked: the liveness properties and the fairness part of `KeepsItsPromise`,
as ENABLED and with it the fairness of a system is beyond the prover. Every invariant and
every action property that a passing run checks is stated by a theorem. What the progress
theorems leave to TLC is the step from "finitely many steps, and one always ready" to "it
ends". No module has a recursive operator.

## 6. Not modelled, and why

- **Recovery of the queue after a crash**: the code has none.
- **Texts**: prompts, formatting, truncation, token estimates, debug dumps. They decide
  nothing the properties speak of, except a prompt that outgrows the model's context
  (a hazard with a note).
- **Parsing**: patches, standards, issue references, identifiers, the answers of LM Studio,
  the output of ruff and mypy, YAML. Pure functions of a text, whose results the models take
  as given. `splitlines()` cuts at more than newlines; the chunker is given its lines.
- **Numbers**: pydantic's conversions; rounding. ModelManager is given numbers for its
  budget, as NaN raises before anything is loaded or unloaded.
- **Identifier extraction, settings, logging, the entry point**: no state, or no behaviour.
- **Signature checks and payload parsing** of webhooks: they select the events the
  models start from.
- **Duplicate deliveries** of the same event create a job of their own: that is a second
  job for the same commit, which `queue_events` has.
- **The schema and sessions of the database**: rows appear by what the calls do to them.

## 7. Plan

Done: the queue with its abstract specification, the index, the run, the conversation,
the lifespan with crash and restart, the gateway's cache, the model manager, the settings,
the chunker, the merging of snippets, the reading of a push, the static analysis, and their
proofs.

What would add most next, in order:

1. An abstract index (a map from files to versions, replaced whole), with CodeIndex
   restricted to serial tasks as its implementation; `RepairLasts` is the step of that proof.
2. The refinement of the `llm` await of ReviewOrchestrator by LlmReview, as `RunIsAwait`
   does it for the await above; findings and verdicts would have to be added to LlmReview.
3. The numbering of `_parse_patch` against a reference definition.
