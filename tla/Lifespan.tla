-------------------------------- MODULE Lifespan --------------------------------
(***************************************************************************)
(* The process around the index tasks (main.py, lifespan and _fire): it    *)
(* stops accepting events, gives the tasks in bg_tasks some time to end,   *)
(* cancels those that have not, one after the other, and only then closes  *)
(* the clients they use.  It may also crash.  Either way the process that  *)
(* is started next finds the points and the row as they were left, and     *)
(* knows of no task and of no key; events of the meantime are lost.        *)
(*                                                                         *)
(* A cancelled task stops at the call it awaits.  That the call may have   *)
(* taken effect all the same is the behaviour in which it is cancelled     *)
(* right after that call; part of an upsert is there if the upsert failed. *)
(***************************************************************************)
EXTENDS CodeIndex

CONSTANT MaxStarts   \* bound: how often the process is started

ASSUME StartsAssumption == MaxStarts \in Nat

VARIABLES
  phase,     \* where lifespan is
  pending,   \* the tasks that have not ended within the drain's timeout
  starts,    \* how often the process has been started
  intact     \* history: nothing has damaged the index since it was last rebuilt

process == <<phase, pending, starts>>
lifeVars == <<vars, process, intact>>

Phases == {"serving", "draining", "cancelling", "closed"}

LifeTypeOK ==
  /\ TypeOK
  /\ phase \in Phases /\ pending \in SUBSET Tasks /\ starts \in Nat /\ intact \in BOOLEAN

LifeInit == Init /\ phase = "serving" /\ pending = {} /\ starts = 1 /\ intact = TRUE

\* bg_tasks: what _fire scheduled and has not ended.  A request to /admin/index
\* is handled by the server itself until it has read the branch's commit.
bg_tasks == {t \in Tasks : Active(t) /\ stage[t] # "sha"}

\* A task that was fired and has not had its first step.
Unbegun(t) == stage[t] \in {"fired", "begin"}

-----------------------------------------------------------------------------
\* The server has stopped: it lets running requests end before lifespan resumes,
\* and queue.stop() has returned.
ShutdownBegins ==
  /\ phase = "serving"
  /\ \A t \in Tasks : stage[t] # "sha"
  /\ phase' = IF bg_tasks = {} THEN "closed" ELSE "draining"
  /\ UNCHANGED <<vars, pending, starts, intact>>

\* asyncio.wait returns: all tasks have ended, or 30 s have passed.  The first step
\* of every task is ahead of that in the event loop's ready queue.
DrainEnds ==
  /\ phase = "draining"
  /\ \A t \in Tasks : ~Unbegun(t)
  /\ pending' = bg_tasks
  /\ phase' = "cancelling"
  /\ UNCHANGED <<vars, starts, intact>>

\* CancelledError leaves the task and its finally clause runs; it never runs in a
\* task that has not had its first step.
Cancelled(t) ==
  /\ IF Unbegun(t) THEN Goto(t, "done") /\ UNCHANGED inFlight ELSE End(t)
  /\ UNCHANGED <<head, store, indexed, target, progress, alone>>

\* Faulty variant: task.cancel() is left out.
AwaitOnly(t) == ~Active(t) /\ UNCHANGED vars

\* task.cancel(), then await task; it may have ended by itself meanwhile.
CancelAndAwait(t) == IF Active(t) THEN Cancelled(t) ELSE UNCHANGED vars

CancelPending(t) ==
  /\ phase = "cancelling" /\ t \in pending
  /\ CancelAndAwait(t)
  /\ pending' = pending \ {t}
  /\ intact' = (intact /\ ~Active(t))
  /\ UNCHANGED <<phase, starts>>

\* Faulty variant: the tasks are cancelled but not awaited.
CloseEarly == phase = "cancelling"

\* The loop over the pending tasks is over.
AllAwaited == phase = "cancelling" /\ pending = {}

CloseClients ==
  /\ AllAwaited
  /\ phase' = "closed"
  /\ UNCHANGED <<vars, pending, starts, intact>>

\* The process dies: no finally clause runs, and there is no need for any.
Crash ==
  /\ phase # "closed"
  /\ phase' = "closed" /\ pending' = {}
  /\ stage' = [t \in Tasks |-> IF Active(t) THEN "done" ELSE stage[t]]
  /\ inFlight' = FALSE
  /\ intact' = (intact /\ Quiet)
  /\ UNCHANGED <<head, store, indexed, target, progress, alone, starts>>

Restart ==
  /\ phase = "closed" /\ starts < MaxStarts
  /\ phase' = "serving" /\ starts' = starts + 1
  /\ UNCHANGED <<vars, pending, intact>>

\* GitHub does not deliver a push event again.
EventLost(t) ==
  /\ phase = "closed"
  /\ kind[t] \in {"push", "forced"} /\ commitOf[t] <= head
  /\ stage[t] = "idle" /\ Goto(t, "done")
  /\ UNCHANGED <<head, store, indexed, inFlight, target, progress, alone, process, intact>>

\* A push that lists no commits is taken to have advanced nothing, and fires no
\* task; so is a forced push that takes commits back, and the push that makes a
\* branch of commits that exist already.
PushIgnored(t) ==
  /\ phase = "serving"
  /\ kind[t] \in {"push", "forced"} /\ commitOf[t] <= head
  /\ stage[t] = "idle" /\ Goto(t, "done")
  /\ UNCHANGED <<head, store, indexed, inFlight, target, progress, alone, process, intact>>

-----------------------------------------------------------------------------
Event(t) == phase = "serving" /\ (PushWebhook(t) \/ AdminRequest(t) \/ DeleteWebhook(t))

\* What the step that ends task t means for the index: an undisturbed full
\* re-index with content makes it whole, an update keeps it so if it continues
\* where the index was, and so does the deletion of everything.
Outcome(t) ==
  /\ alone[t]
  /\ \/ stage[t] = "save" /\ IsFull(t) /\ wrote[t]
     \/ stage[t] = "save" /\ ~IsFull(t) /\ intact /\ target[t] \in {indexed, indexed + 1}
     \/ stage[t] = "forget"
  /\ indexed' = IF stage[t] = "save" THEN target[t] ELSE 0

TaskRuns(t) ==
  /\ TaskStep(t)
  /\ intact' = IF Active(t) /\ stage'[t] = "done" THEN Outcome(t) ELSE intact
  /\ UNCHANGED process

ShutdownStep == DrainEnds \/ CloseClients \/ \E t \in Tasks : CancelPending(t)

LifeNext ==
  \/ Advance /\ UNCHANGED <<process, intact>>
  \/ \E t \in Tasks : Event(t) /\ UNCHANGED <<process, intact>>
  \/ \E t \in Tasks : TaskRuns(t)
  \/ ShutdownBegins \/ ShutdownStep \/ Crash \/ Restart
  \/ \E t \in Tasks : EventLost(t) \/ PushIgnored(t)

\* Index tasks may go on for ever, or hang; lifespan does not, and the event loop
\* begins every task that was fired.
LifeSpec ==
  /\ LifeInit /\ [][LifeNext]_lifeVars
  /\ WF_lifeVars(ShutdownStep \/ \E t \in Tasks : Unbegun(t) /\ TaskRuns(t))

\* ... and every call of an index task ends, by an answer or a timeout.
FairLifeSpec == LifeSpec /\ \A t \in Tasks : WF_lifeVars(TaskRuns(t))

-----------------------------------------------------------------------------
\* "to avoid use-after-close crashes": when the clients are closed no task is
\* left that would use them, and no request is being handled.
NothingUsesClosedClients == phase = "closed" => bg_tasks = {} /\ ~inFlight

\* What a full re-index has made whole stays whole: while the pushes that follow
\* are handled one at a time and in order, and none fails, is cut short by a
\* shutdown or a crash or is lost or ignored, the index is exactly that of its recorded
\* commit whenever no task is under way.
RepairedStaysComplete == Quiet /\ intact => Complete(indexed)

\* Shutdown ends even when an index task does not end by itself.
ShutdownEnds == phase = "draining" ~> phase = "closed"
=============================================================================
