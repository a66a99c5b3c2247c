-------------------------- MODULE ReviewQueueProofs --------------------------
(***************************************************************************)
(* Proofs about ReviewQueue, for any set of jobs and pull requests, any    *)
(* bounds and any choice of failing calls.                                 *)
(*                                                                         *)
(* The safety invariants are not inductive: they speak of the history      *)
(* variable `wanted` and of at[j], while the handlers and the worker only  *)
(* look at _pending, _active_tasks and the lock.  IInv adds what ties the  *)
(* two together: each map holds exactly the jobs that are in the states it *)
(* stands for.                                                             *)
(***************************************************************************)
EXTENDS ReviewQueue, TLAPS

\* The lock is held exactly while create_job is awaited, and never once stop()
\* has begun.
LockInv ==
  /\ \A j \in Jobs : at[j] = "create" <=> lock = j
  /\ stopping # "no" => lock = NoJob

\* The queue holds the queued jobs, each once.
QueueInv ==
  /\ \A j \in Jobs : at[j] = "queued" <=> \E i \in 1..Len(queue) : queue[i] = j
  /\ \A i, k \in 1..Len(queue) : queue[i] = queue[k] => i = k

\* The worker's job is the one job taken from the queue and not settled.
InHand == {"held", "saveSkipped"} \cup InTask

HandInv ==
  /\ \A j \in Jobs : at[j] \in InHand <=> hand = j
  /\ hand # NoJob => alive
  /\ stopping = "no" => alive
  /\ stopping = "stopped" => ~alive

\* _pending holds the unstarted jobs that are not superseded, and perhaps one a
\* worker cancelled by stop() let go of.
PendingInv ==
  \A p \in PRs : \A j \in Jobs :
    /\ prOf[j] = p /\ at[j] \in {"queued", "held"} /\ ~superseded[j] => pending[p] = j
    /\ pending[p] = j =>
         /\ prOf[j] = p /\ ~superseded[j]
         /\ at[j] = "settled" => ~alive
         /\ at[j] \in {"queued", "held", "settled"}

\* _active_tasks holds the jobs in a task, whether or not it has ended.
ActiveInv ==
  \A p \in PRs : \A j \in Jobs : active[p] = j <=> prOf[j] = p /\ at[j] \in InTask

\* What the maps mean for the job that is wanted.
Unaccepted == {"new", "create", "rejected"}

WantedInv ==
  /\ \A p \in PRs : \A j \in Jobs :
       wanted[p] = j => prOf[j] = p /\ at[j] \notin Unaccepted
  /\ \A j \in Jobs :
       superseded[j] => wanted[prOf[j]] # j /\ at[j] \notin Unaccepted
  /\ \A j \in Jobs :
       cancelReq[j] => at[j] \in Running /\ (stopping = "no" => wanted[prOf[j]] # j)
  /\ \A j \in Jobs : at[j] = "saveSkipped" => superseded[j]
  /\ OnlyWantedLive

\* The count join() waits on is the number of jobs queued or in hand.
CountInv == unfinished = Len(queue) + IF hand = NoJob THEN 0 ELSE 1

\* Where an error comment and a review may have been posted.
ReportInv ==
  \A j \in Jobs :
    /\ at[j] \in {"saveFailed", "postError", "postComment"} => status[j] = "failed"
    /\ "errorComment" \in posted[j] =>
         status[j] = "failed" /\ at[j] \in {"returned", "cancelled", "settled"}
    /\ at[j] \in {"saveCompleted", "postSuccess"} => "review" \in posted[j]

IInv ==
  /\ TypeOK /\ LockInv /\ QueueInv /\ HandInv /\ PendingInv /\ ActiveInv
  /\ WantedInv /\ CountInv /\ ReportInv

-----------------------------------------------------------------------------
USE JobsAssumption, PRAssumption, ShaAssumption, BoundsAssumption

\* The initial state satisfies the invariant.
LEMMA InitIInv == Init => IInv
<1> SUFFICES ASSUME Init PROVE IInv
  OBVIOUS
<1>1. TypeOK
  BY DEF Init, TypeOK, At, JobStatus, CommitState
<1>2. LockInv /\ HandInv /\ ActiveInv /\ PendingInv
  BY DEF Init, LockInv, HandInv, ActiveInv, PendingInv, InHand, InTask, Running, Ended,
         Body, Cleanup
<1>3. QueueInv /\ CountInv
  BY DEF Init, QueueInv, CountInv
<1>4. WantedInv
  BY DEF Init, WantedInv, OnlyWantedLive, Live, Unaccepted, Running, Body, Cleanup
<1>5. ReportInv
  BY DEF Init, ReportInv
<1> QED
  BY <1>1, <1>2, <1>3, <1>4, <1>5 DEF IInv

\* The actions of a task move its job between the awaits of a task and touch
\* neither the queue nor the maps; the job stays on its way to a review only if
\* it was and no cancellation is due, and no cancellation outlives the task.
Moves(j, place) ==
  /\ at[j] \in Running /\ place \in InTask
  /\ at' = [at EXCEPT ![j] = place]
  /\ cancelReq' \in {cancelReq, [cancelReq EXCEPT ![j] = FALSE]}
  /\ place \in Body => at[j] \in {"starting"} \cup Body /\ ~cancelReq[j]
  /\ place \in Ended \cup {"starting"} => ~cancelReq'[j] /\ place # "starting"
  /\ UNCHANGED <<queueVars, stopVars, closes, wanted>>

LEMMA TaskMoves ==
  ASSUME IInv, NEW j \in Jobs, TaskStep(j)
  PROVE  \E place \in InTask : Moves(j, place)
<1> USE DEF IInv, TypeOK, Moves, InTask, Running, Ended, Body, Cleanup, Goto, Logged, events
<1>1. CASE TaskStart(j)
  BY <1>1 DEF TaskStart
<1>2. CASE CallReturns(j)
  <2>1. /\ After(at[j]) \in InTask \ {"starting"}
        /\ After(at[j]) \in Body => at[j] \in Body
    BY <1>2 DEF CallReturns, After, NextAwait
  <2> QED
    BY <1>2, <2>1 DEF CallReturns
<1>3. CASE CallStale(j)
  BY <1>3 DEF CallStale
<1>4. CASE CallFails(j)
  <2>1. at[j] \in Cleanup => After(at[j]) \in Ended \cup Cleanup
    BY DEF After, NextAwait
  <2> QED
    BY <1>4, <2>1 DEF CallFails
<1>5. CASE CancelDelivered(j)
  BY <1>5 DEF CancelDelivered, OnCancel
<1> QED
  BY <1>1, <1>2, <1>3, <1>4, <1>5 DEF TaskStep

LEMMA MovesKeepMaps ==
  ASSUME IInv, NEW j \in Jobs, NEW place \in InTask, Moves(j, place)
  PROVE  LockInv' /\ QueueInv' /\ HandInv' /\ PendingInv' /\ ActiveInv' /\ CountInv'
<1> USE DEF IInv, TypeOK, Moves, InTask, Running, Ended, Body, Cleanup, queueVars, stopVars
<1>1. LockInv' /\ HandInv'
  BY DEF LockInv, HandInv, InHand
<1>2. QueueInv' /\ CountInv'
  BY DEF QueueInv, CountInv
<1>3. PendingInv' /\ ActiveInv'
  BY DEF PendingInv, ActiveInv
<1> QED
  BY <1>1, <1>2, <1>3

LEMMA MovesKeepWanted ==
  ASSUME IInv, NEW j \in Jobs, NEW place \in InTask, Moves(j, place)
  PROVE  WantedInv'
<1> USE DEF IInv, TypeOK, Moves, InTask, Running, Ended, Body, Cleanup, queueVars, stopVars,
            events, WantedInv, Unaccepted
<1>1. \A i \in Jobs : cancelReq'[i] => cancelReq[i] /\ (i = j => place \notin Ended)
  OBVIOUS
<1>2. OnlyWantedLive'
  BY DEF OnlyWantedLive, Live
<1>3. \A i \in Jobs :
        cancelReq'[i] => at'[i] \in Running /\ (stopping' = "no" => wanted'[prOf[i]] # i)
  BY <1>1
<1>4. \A p \in PRs : \A i \in Jobs :
        wanted'[p] = i => prOf[i] = p /\ at'[i] \notin Unaccepted
  OBVIOUS
<1>5. \A i \in Jobs :
        superseded'[i] => wanted'[prOf[i]] # i /\ at'[i] \notin Unaccepted
  OBVIOUS
<1> QED
  BY <1>2, <1>3, <1>4, <1>5

\* A job that misses a step is in a place where it can.
LEMMA MissType ==
  ASSUME TypeOK, NEW j \in Jobs, at[j] \in Owed, Miss(j) \/ UNCHANGED missed
  PROVE  /\ missed' \in [Jobs -> SUBSET Owed]
         /\ missed[j] \subseteq missed'[j]
         /\ \A i \in Jobs \ {j} : missed'[i] = missed[i]
<1>1. missed \in [Jobs -> SUBSET Owed]
  BY DEF TypeOK
<1>2. CASE UNCHANGED missed
  BY <1>1, <1>2
<1>3. CASE Miss(j)
  <2>1. missed[j] \cup {at[j]} \in SUBSET Owed
    BY <1>1
  <2>2. missed' = [missed EXCEPT ![j] = missed[j] \cup {at[j]}]
    BY <1>3 DEF Miss
  <2> QED
    BY <1>1, <2>1, <2>2
<1> QED
  BY <1>2, <1>3

LEMMA TaskMisses ==
  ASSUME TypeOK, NEW j \in Jobs, TaskStep(j)
  PROVE  /\ missed' \in [Jobs -> SUBSET Owed]
         /\ missed[j] \subseteq missed'[j]
         /\ \A i \in Jobs \ {j} : missed'[i] = missed[i]
<1>1. UNCHANGED missed \/ (at[j] \in Owed /\ Miss(j))
  BY DEF TaskStep, TaskStart, CallReturns, CallStale, CallFails, CancelDelivered, OnCancel, Owed, events
<1>2. CASE UNCHANGED missed
  BY <1>2 DEF TypeOK
<1>3. CASE at[j] \in Owed /\ Miss(j)
  BY <1>3, MissType
<1> QED
  BY <1>1, <1>2, <1>3

\* Every step keeps the types: the tasks', the handlers', the worker's, stop()'s.
LEMMA TypeTask ==
  ASSUME IInv, NEW j \in Jobs, TaskStep(j)
  PROVE  TypeOK'
<1> USE DEF IInv, TypeOK, Goto, queueVars, stopVars, events, github, At, InTask, Running,
            Ended, Body, Cleanup, JobStatus, CommitState
<1>1. \A call \in Body \cup Cleanup : After(call) \in At
  BY DEF After, NextAwait
<1>0. missed' \in [Jobs -> SUBSET Owed]
  BY TaskMisses
<1>2. ASSUME NEW call, Effect(j, call)
      PROVE  /\ row' \in [Jobs -> JobStatus \cup {"none"}]
             /\ commit' \in [PRs -> [1..MaxSha -> CommitState]]
             /\ posted' \in [Jobs -> SUBSET {"review", "errorComment"}]
             /\ head' = head
  BY <1>2 DEF Effect
<1>3. CASE TaskStart(j)
  BY <1>0, <1>3 DEF TaskStart
<1>4. CASE CallReturns(j)
  <2>1. /\ row' \in [Jobs -> JobStatus \cup {"none"}]
        /\ commit' \in [PRs -> [1..MaxSha -> CommitState]]
        /\ posted' \in [Jobs -> SUBSET {"review", "errorComment"}]
        /\ head' = head
    BY <1>2, <1>4 DEF CallReturns
  <2>2. at' \in [Jobs -> At] /\ status' \in [Jobs -> JobStatus]
    BY <1>1, <1>4 DEF CallReturns
  <2>3. UNCHANGED <<cancelReq, queueVars, stopVars, events>>
    BY <1>4 DEF CallReturns
  <2> QED
    BY <1>0, <2>1, <2>2, <2>3
<1>5. CASE CallStale(j)
  BY <1>0, <1>5 DEF CallStale, NoEffect
<1>6. CASE CallFails(j)
  <2>1. /\ row' \in [Jobs -> JobStatus \cup {"none"}]
        /\ commit' \in [PRs -> [1..MaxSha -> CommitState]]
        /\ posted' \in [Jobs -> SUBSET {"review", "errorComment"}]
        /\ head' = head
    BY <1>2, <1>6 DEF CallFails, NoEffect
  <2>2. at' \in [Jobs -> At] /\ status' \in [Jobs -> JobStatus]
    <3>1. CASE at[j] \in Body
      BY <1>6, <3>1 DEF CallFails
    <3>2. CASE at[j] \in Cleanup
      <4>1. Goto(j, After(at[j])) /\ UNCHANGED status
        BY <1>6, <3>2 DEF CallFails, Logged
      <4>2. After(at[j]) \in At
        BY <1>1, <3>2
      <4> QED
        BY <4>1, <4>2
    <3> QED
      BY <1>6, <3>1, <3>2 DEF CallFails
  <2> QED
    BY <1>0, <2>1, <2>2, <1>6 DEF CallFails
<1>7. CASE CancelDelivered(j)
  <2>1. /\ row' \in [Jobs -> JobStatus \cup {"none"}]
        /\ commit' \in [PRs -> [1..MaxSha -> CommitState]]
        /\ posted' \in [Jobs -> SUBSET {"review", "errorComment"}]
        /\ head' = head
    BY <1>2, <1>7 DEF CancelDelivered, NoEffect
  <2>2. at' \in [Jobs -> At] /\ status' \in [Jobs -> JobStatus]
    BY <1>7 DEF CancelDelivered, OnCancel
  <2> QED
    BY <1>0, <2>1, <2>2, <1>7 DEF CancelDelivered
<1> QED
  BY <1>3, <1>4, <1>5, <1>6, <1>7 DEF TaskStep

LEMMA TypeEvents ==
  ASSUME IInv, NEW p \in PRs, Push(p) \/ CancelPR(p)
  PROVE  TypeOK'
<1> USE DEF IInv, TypeOK, queueVars, stopVars, events, github, Displace
<1>1. CASE Push(p)
  BY <1>1 DEF Push
<1>2. CASE CancelPR(p)
  BY <1>2 DEF CancelPR
<1> QED
  BY <1>1, <1>2

LEMMA TypeEnqueue ==
  ASSUME IInv, NEW j \in Jobs, EnqueueBegin(j) \/ EnqueueStep(j)
  PROVE  TypeOK'
<1> USE DEF IInv, TypeOK, Goto, queueVars, stopVars, events, github, At, JobStatus, Displace,
            Release
<1>1. CASE EnqueueBegin(j)
  BY <1>1 DEF EnqueueBegin, BeforePersisting
<1>2. CASE EnqueueStored(j)
  BY <1>2 DEF EnqueueStored
<1>3. CASE EnqueueFails(j)
  BY <1>3 DEF EnqueueFails
<1> QED
  BY <1>1, <1>2, <1>3 DEF EnqueueStep

\* The worker takes the head of the queue: what that does to the sequence.
LEMMA HeadTail ==
  ASSUME NEW S, NEW q \in Seq(S), q # <<>>
  PROVE  /\ Head(q) \in S /\ Head(q) = q[1]
         /\ Tail(q) \in Seq(S) /\ Len(q) \in Nat \ {0}
         /\ Len(Tail(q)) = Len(q) - 1
         /\ \A i \in 1..Len(Tail(q)) : Tail(q)[i] = q[i + 1]
OBVIOUS

LEMMA TypeTaskDone ==
  ASSUME IInv, NEW j \in Jobs, at[j] \in InHand, TaskDone(j)
  PROVE  /\ at' \in [Jobs -> At]
         /\ unfinished' \in Nat
         /\ hand' \in Jobs \cup {NoJob}
<1>1. hand = j
  BY DEF IInv, HandInv
<1>2. unfinished = Len(queue) + 1 /\ Len(queue) \in Nat
  BY <1>1 DEF IInv, TypeOK, CountInv
<1> QED
  BY <1>2 DEF IInv, TypeOK, TaskDone, Goto, At

LEMMA TypeWorker ==
  ASSUME IInv, WorkerStep
  PROVE  TypeOK'
<1> USE DEF IInv, TypeOK, Goto, queueVars, stopVars, events, github, At, InTask, Running,
            Ended, Body, Cleanup, JobStatus, Unregister, AwaitTask
<1>1. CASE WorkerGet
  BY <1>1, HeadTail DEF WorkerGet
<1>2. ASSUME NEW j \in Jobs, WorkerStart(j) PROVE TypeOK'
  BY <1>2 DEF WorkerStart
<1>3. ASSUME NEW j \in Jobs, WorkerSkip(j) PROVE TypeOK'
  BY <1>3 DEF WorkerSkip
<1>4. ASSUME NEW j \in Jobs, WorkerSkipped(j) PROVE TypeOK'
  <2>1. /\ at' \in [Jobs -> At] /\ unfinished' \in Nat /\ hand' \in Jobs \cup {NoJob}
    BY <1>4, TypeTaskDone DEF WorkerSkipped, InHand
  <2>2. row' \in [Jobs -> JobStatus \cup {"none"}]
    BY <1>4 DEF WorkerSkipped
  <2>3. missed' \in [Jobs -> SUBSET Owed]
    BY <1>4, MissType DEF WorkerSkipped, Owed
  <2> QED
    BY <1>4, <2>1, <2>2, <2>3 DEF WorkerSkipped
<1>5. ASSUME NEW j \in Jobs, WorkerReap(j) PROVE TypeOK'
  <2>1. /\ at' \in [Jobs -> At] /\ unfinished' \in Nat /\ hand' \in Jobs \cup {NoJob}
    BY <1>5, TypeTaskDone DEF WorkerReap, InHand
  <2> QED
    BY <1>5, <2>1 DEF WorkerReap
<1>6. CASE WorkerCancelled
  <2>1. CASE hand = NoJob
    BY <1>6, <2>1 DEF WorkerCancelled
  <2>2. ASSUME NEW j \in Jobs, hand = j, at[j] \in {"held", "saveSkipped"}, TaskDone(j),
               row' \in {row, [row EXCEPT ![j] = status[j]]}, Miss(j)
        PROVE  TypeOK'
    <3>1. /\ at' \in [Jobs -> At] /\ unfinished' \in Nat /\ hand' \in Jobs \cup {NoJob}
      BY <2>2, TypeTaskDone DEF InHand
    <3>2. row' \in [Jobs -> JobStatus \cup {"none"}]
      BY <2>2
    <3>3. missed' \in [Jobs -> SUBSET Owed]
      BY <2>2, MissType DEF Owed
    <3> QED
      BY <1>6, <3>1, <3>2, <3>3 DEF WorkerCancelled
  <2> QED
    BY <1>6, <2>1, <2>2 DEF WorkerCancelled
<1> QED
  BY <1>1, <1>2, <1>3, <1>4, <1>5, <1>6 DEF WorkerStep

LEMMA TypeStop ==
  ASSUME IInv, StopBegin \/ StopStep
  PROVE  TypeOK'
<1> USE DEF IInv, TypeOK, queueVars, events, github, CancelTasks
<1>1. CASE StopBegin
  BY <1>1 DEF StopBegin
<1>2. CASE StopDrained
  BY <1>2 DEF StopDrained
<1>3. CASE StopGathered
  BY <1>3 DEF StopGathered, stopVars
<1>4. CASE StopReturns
  BY <1>4 DEF StopReturns
<1> QED
  BY <1>1, <1>2, <1>3, <1>4 DEF StopStep

-----------------------------------------------------------------------------
(* The handlers.                                                           *)

LEMMA PushStep ==
  ASSUME IInv, NEW p \in PRs, Push(p)
  PROVE  IInv'
<1>1. UNCHANGED <<at, status, cancelReq, queueVars, stopVars, posted, wanted>>
  BY DEF Push, events
<1>2. TypeOK'
  BY TypeEvents
<1>3. /\ LockInv' /\ QueueInv' /\ HandInv' /\ PendingInv' /\ ActiveInv' /\ WantedInv'
      /\ CountInv' /\ ReportInv'
  BY <1>1 DEF IInv, LockInv, QueueInv, HandInv, PendingInv, ActiveInv, WantedInv, CountInv,
       ReportInv, OnlyWantedLive, Live, queueVars, stopVars
<1> QED
  BY <1>2, <1>3 DEF IInv

\* What a handler does to the flags, job by job.
LEMMA Displaced ==
  ASSUME IInv, NEW p \in PRs, Displace(p), NEW i \in Jobs
  PROVE  /\ superseded'[i] <=> superseded[i] \/ i = pending[p]
         /\ cancelReq'[i] <=> cancelReq[i] \/ (active[p] = i /\ at[i] \in Running)
<1>1. superseded' = [k \in Jobs |-> superseded[k] \/ k = pending[p]]
  BY DEF Displace
<1>2. cancelReq' = [k \in Jobs |-> cancelReq[k] \/ k \in Cancellable(p)]
  BY DEF Displace
<1>3. i \in Cancellable(p) <=> active[p] = i /\ at[i] \in Running
  BY DEF Cancellable
<1>4. superseded'[i] <=> superseded[i] \/ i = pending[p]
  BY <1>1, Zenon
<1>5. cancelReq'[i] <=> cancelReq[i] \/ i \in Cancellable(p)
  BY <1>2, Zenon
<1> QED
  BY <1>3, <1>4, <1>5

LEMMA CancelPRStep ==
  ASSUME IInv, NEW p \in PRs, CancelPR(p)
  PROVE  IInv'
<1> USE DEF IInv, TypeOK, CancelPR, stopVars, github
<1>0. /\ \A i \in Jobs : superseded'[i] <=> superseded[i] \/ i = pending[p]
      /\ \A i \in Jobs : cancelReq'[i] <=> cancelReq[i] \/ (active[p] = i /\ at[i] \in Running)
  BY Displaced
<1>1. TypeOK'
  BY TypeEvents
<1>2. LockInv' /\ QueueInv' /\ HandInv' /\ CountInv'
  BY DEF LockInv, QueueInv, HandInv, CountInv
<1>3. PendingInv' /\ ActiveInv'
  BY <1>0 DEF PendingInv, ActiveInv, HandInv
<1>4. WantedInv'
  <2>1. \A j \in Jobs : superseded'[j] =>
          wanted'[prOf[j]] # j /\ at'[j] \notin Unaccepted
    <3> SUFFICES ASSUME NEW j \in Jobs, superseded'[j]
                 PROVE  wanted'[prOf[j]] # j /\ at'[j] \notin Unaccepted
      OBVIOUS
    <3>1. CASE superseded[j]
      BY <3>1 DEF WantedInv
    <3>2. CASE j = pending[p]
      BY <3>2 DEF PendingInv, Unaccepted
    <3> QED
      BY <1>0, <3>1, <3>2
  <2>2. \A j \in Jobs : cancelReq'[j] =>
          at'[j] \in Running /\ (stopping' = "no" => wanted'[prOf[j]] # j)
    BY <1>0 DEF WantedInv, ActiveInv
  <2>3. OnlyWantedLive'
    BY <1>0 DEF WantedInv, OnlyWantedLive, Live, PendingInv, ActiveInv, InTask, Running, Body
  <2>4. \A j \in Jobs : at'[j] = "saveSkipped" => superseded'[j]
    BY <1>0 DEF WantedInv
  <2> QED
    BY <2>1, <2>2, <2>3, <2>4 DEF WantedInv
<1>5. ReportInv'
  BY DEF ReportInv
<1> QED
  BY <1>1, <1>2, <1>3, <1>4, <1>5

LEMMA EnqueueBeginStep ==
  ASSUME IInv, NEW j \in Jobs, EnqueueBegin(j)
  PROVE  IInv'
<1> USE DEF IInv, TypeOK, EnqueueBegin, BeforePersisting, Goto, stopVars, github, events,
            InTask, Running, Ended, Body, Cleanup
<1>1. TypeOK'
  BY TypeEnqueue
<1>2. LockInv' /\ HandInv' /\ QueueInv' /\ CountInv'
  BY DEF LockInv, QueueInv, HandInv, CountInv, InHand
<1>3. PendingInv' /\ ActiveInv'
  BY DEF PendingInv, ActiveInv
<1>4. WantedInv'
  BY DEF WantedInv, OnlyWantedLive, Live, Unaccepted
<1>5. ReportInv'
  BY DEF ReportInv
<1> QED
  BY <1>1, <1>2, <1>3, <1>4, <1>5

LEMMA EnqueueFailsStep ==
  ASSUME IInv, NEW j \in Jobs, EnqueueFails(j)
  PROVE  IInv'
<1> USE DEF IInv, TypeOK, EnqueueFails, Release, Goto, stopVars, github, events,
            InTask, Running, Ended, Body, Cleanup
<1>1. TypeOK'
  BY TypeEnqueue DEF EnqueueStep
<1>2. LockInv' /\ HandInv' /\ QueueInv' /\ CountInv'
  BY DEF LockInv, QueueInv, HandInv, CountInv, InHand
<1>3. PendingInv' /\ ActiveInv'
  BY DEF PendingInv, ActiveInv
<1>4. WantedInv'
  BY DEF WantedInv, OnlyWantedLive, Live, Unaccepted
<1>5. ReportInv'
  BY DEF ReportInv
<1> QED
  BY <1>1, <1>2, <1>3, <1>4, <1>5

\* Accepting a job is where the maps and the history meet: the job in _pending
\* is marked, the task in _active_tasks is cancelled, so nothing older is live.
LEMMA EnqueueStoredStep ==
  ASSUME IInv, NEW j \in Jobs, EnqueueStored(j)
  PROVE  IInv'
<1> DEFINE p == prOf[j]
<1> USE DEF IInv, TypeOK, EnqueueStored, Release, Goto, stopVars, github, InTask,
            Running, Ended, Body, Cleanup
<1>0. /\ \A i \in Jobs : superseded'[i] <=> superseded[i] \/ i = pending[p]
      /\ \A i \in Jobs : cancelReq'[i] <=> cancelReq[i] \/ (active[p] = i /\ at[i] \in Running)
  BY Displaced
<1>1. TypeOK'
  BY TypeEnqueue DEF EnqueueStep
<1>2. lock = j /\ stopping = "no" /\ alive /\ lock' = NoJob
  BY DEF LockInv, HandInv
<1>3. LockInv' /\ HandInv' /\ CountInv'
  <2>1. LockInv' /\ HandInv'
    BY <1>2 DEF LockInv, HandInv, InHand
  <2>2. Len(queue') = Len(queue) + 1 /\ Len(queue) \in Nat
    OBVIOUS
  <2>3. CountInv'
    BY <2>2 DEF CountInv
  <2> QED
    BY <2>1, <2>3
<1>4. QueueInv'
  <2>1. /\ Len(queue') = Len(queue) + 1 /\ Len(queue) \in Nat /\ queue'[Len(queue')] = j
        /\ \A i \in 1..Len(queue) : queue'[i] = queue[i]
    OBVIOUS
  <2>2. \A i \in 1..Len(queue) : queue[i] # j
    BY DEF QueueInv
  <2>3. \A i \in Jobs : at'[i] = "queued" <=> i = j \/ at[i] = "queued"
    OBVIOUS
  <2>4. \A i \in Jobs :
          (\E n \in 1..Len(queue') : queue'[n] = i)
            <=> (i = j \/ \E n \in 1..Len(queue) : queue[n] = i)
    BY <2>1
  <2>5. QueueInv
    OBVIOUS
  <2> HIDE DEF IInv, TypeOK, EnqueueStored
  <2>6. \A i \in Jobs : at'[i] = "queued" <=> \E n \in 1..Len(queue') : queue'[n] = i
    BY <2>3, <2>4, <2>5 DEF QueueInv
  <2>7. ASSUME NEW i \in 1..Len(queue'), NEW k \in 1..Len(queue'), queue'[i] = queue'[k]
        PROVE  i = k
    <3>1. i \in 1..Len(queue) \/ i = Len(queue')
      BY <2>1
    <3>2. k \in 1..Len(queue) \/ k = Len(queue')
      BY <2>1
    <3> QED
      BY <2>1, <2>2, <2>5, <2>7, <3>1, <3>2 DEF QueueInv
  <2> QED
    BY <2>6, <2>7 DEF QueueInv
<1>5. PendingInv'
  BY <1>0, <1>2 DEF PendingInv, HandInv, WantedInv, Unaccepted
<1>6. ActiveInv'
  BY DEF ActiveInv
<1>7. WantedInv'
  <2>1. \A i \in Jobs : superseded'[i] => wanted'[prOf[i]] # i /\ at'[i] \notin Unaccepted
    BY <1>0 DEF WantedInv, PendingInv, Unaccepted
  <2>2. \A i \in Jobs : cancelReq'[i] =>
          at'[i] \in Running /\ (stopping' = "no" => wanted'[prOf[i]] # i)
    BY <1>0 DEF WantedInv, ActiveInv
  <2>3. OnlyWantedLive'
    BY <1>0 DEF WantedInv, OnlyWantedLive, Live, PendingInv, ActiveInv
  <2>4. \A q \in PRs : \A i \in Jobs :
          wanted'[q] = i => prOf[i] = q /\ at'[i] \notin Unaccepted
    BY DEF WantedInv, Unaccepted
  <2>5. \A i \in Jobs : at'[i] = "saveSkipped" => superseded'[i]
    BY <1>0 DEF WantedInv
  <2> QED
    BY <2>1, <2>2, <2>3, <2>4, <2>5 DEF WantedInv
<1>8. ReportInv'
  BY DEF ReportInv
<1> QED
  BY <1>1, <1>3, <1>4, <1>5, <1>6, <1>7, <1>8

-----------------------------------------------------------------------------
(* The worker.                                                             *)

LEMMA WorkerGetStep ==
  ASSUME IInv, WorkerGet
  PROVE  IInv'
<1> DEFINE j == Head(queue)
<1> USE DEF IInv, TypeOK, WorkerGet, Goto, stopVars, github, events, InTask, Running, Ended,
            Body, Cleanup
<1>1. TypeOK'
  BY TypeWorker DEF WorkerStep
<1>2. /\ j \in Jobs /\ j = queue[1] /\ queue' = Tail(queue) /\ Len(queue) \in Nat \ {0}
      /\ Len(queue') = Len(queue) - 1
      /\ \A i \in 1..Len(queue') : queue'[i] = queue[i + 1]
  BY HeadTail
<1>3. at[j] = "queued"
  BY <1>2 DEF QueueInv
<1>4. LockInv' /\ HandInv'
  BY <1>2, <1>3 DEF LockInv, HandInv, InHand
<1>5. CountInv'
  BY <1>2 DEF CountInv
<1>6. QueueInv'
  <2>1. \A i, k \in 1..Len(queue') : queue'[i] = queue'[k] => i = k
    BY <1>2 DEF QueueInv
  <2>2. \A i \in 1..Len(queue') : queue'[i] # j
    BY <1>2 DEF QueueInv
  <2>3. ASSUME NEW i \in Jobs, i # j
        PROVE  (\E n \in 1..Len(queue') : queue'[n] = i) <=> \E n \in 1..Len(queue) : queue[n] = i
    <3>1. ASSUME NEW n \in 1..Len(queue), queue[n] = i
          PROVE  \E m \in 1..Len(queue') : queue'[m] = i
      <4>1. n # 1
        BY <1>2, <2>3, <3>1
      <4>2. n - 1 \in 1..Len(queue') /\ queue'[n - 1] = i
        BY <1>2, <3>1, <4>1
      <4> QED
        BY <4>2
    <3>2. ASSUME NEW n \in 1..Len(queue'), queue'[n] = i
          PROVE  \E m \in 1..Len(queue) : queue[m] = i
      BY <1>2, <3>2
    <3> QED
      BY <3>1, <3>2
  <2>4. \A i \in Jobs : at'[i] = "queued" <=> i # j /\ at[i] = "queued"
    BY <1>2
  <2>5. ASSUME NEW i \in Jobs
        PROVE  at'[i] = "queued" <=> \E n \in 1..Len(queue') : queue'[n] = i
    <3>1. CASE i = j
      BY <2>2, <2>4, <3>1
    <3>2. CASE i # j
      <4>1. at[i] = "queued" <=> \E n \in 1..Len(queue) : queue[n] = i
        BY DEF QueueInv
      <4> HIDE DEF j
      <4> QED
        BY <2>3, <2>4, <3>2, <4>1
    <3> QED
      BY <3>1, <3>2
  <2> QED
    BY <2>1, <2>5 DEF QueueInv
<1>7. PendingInv' /\ ActiveInv'
  BY <1>2, <1>3 DEF PendingInv, ActiveInv
<1>8. WantedInv'
  BY <1>2, <1>3 DEF WantedInv, OnlyWantedLive, Live, Unaccepted
<1>9. ReportInv'
  BY <1>2, <1>3 DEF ReportInv
<1> QED
  BY <1>1, <1>4, <1>5, <1>6, <1>7, <1>8, <1>9

LEMMA WorkerStartStep ==
  ASSUME IInv, NEW j \in Jobs, WorkerStart(j)
  PROVE  IInv'
<1> USE DEF IInv, TypeOK, WorkerStart, AwaitTask, Goto, stopVars, github, events, InTask,
            Running, Ended, Body, Cleanup
<1>1. TypeOK'
  BY TypeWorker DEF WorkerStep
<1>2. LockInv' /\ HandInv' /\ QueueInv' /\ CountInv'
  BY DEF LockInv, HandInv, QueueInv, CountInv, InHand
<1>3. hand = j /\ pending[prOf[j]] = j
  BY DEF HandInv, InHand, PendingInv
<1>4. \A i \in Jobs : at[i] \notin InTask
  BY <1>3 DEF HandInv, InHand
<1>5. PendingInv'
  <2>1. pending' = [pending EXCEPT ![prOf[j]] = NoJob]
    BY <1>3
  <2> QED
    BY <2>1, <1>3 DEF PendingInv
<1>6. ActiveInv'
  BY <1>4 DEF ActiveInv
<1>7. WantedInv'
  BY <1>3 DEF WantedInv, OnlyWantedLive, Live, Unaccepted
<1>8. ReportInv'
  BY DEF ReportInv
<1> QED
  BY <1>1, <1>2, <1>5, <1>6, <1>7, <1>8

LEMMA WorkerSkipStep ==
  ASSUME IInv, NEW j \in Jobs, WorkerSkip(j)
  PROVE  IInv'
<1> USE DEF IInv, TypeOK, WorkerSkip, Goto, queueVars, stopVars, github, events, InTask,
            Running, Ended, Body, Cleanup
<1>1. TypeOK'
  BY TypeWorker DEF WorkerStep
<1>2. LockInv' /\ HandInv' /\ QueueInv' /\ CountInv'
  BY DEF LockInv, HandInv, QueueInv, CountInv, InHand
<1>3. PendingInv' /\ ActiveInv'
  BY DEF PendingInv, ActiveInv
<1>4. WantedInv'
  BY DEF WantedInv, OnlyWantedLive, Live, Unaccepted
<1>5. ReportInv'
  BY DEF ReportInv
<1> QED
  BY <1>1, <1>2, <1>3, <1>4, <1>5

\* task_done(): the job in hand is settled, by a live worker or by a dying one.
LEMMA TaskDoneKeeps ==
  ASSUME IInv, NEW j \in Jobs, TaskDone(j), at[j] \in InHand, alive' \in BOOLEAN,
         UNCHANGED <<cancelReq, superseded, queue, lock, pending, stopVars, wanted>>,
         stopping = "no" => alive', stopping = "stopped" => ~alive',
         at[j] = "held" => ~alive', at[j] \notin Running,
         \/ at[j] \in Ended /\ active' = [active EXCEPT ![prOf[j]] = NoJob]
         \/ at[j] \notin InTask /\ UNCHANGED active,
         ~alive => ~alive'
  PROVE  LockInv' /\ QueueInv' /\ HandInv' /\ PendingInv' /\ ActiveInv' /\ CountInv' /\ WantedInv'
<1> USE DEF IInv, TypeOK, TaskDone, Goto, stopVars, InTask, Running, Ended, Body, Cleanup, InHand
<1>1. hand = j
  BY DEF HandInv
<1>2. LockInv' /\ QueueInv'
  BY DEF LockInv, QueueInv
<1>3. HandInv'
  BY <1>1 DEF HandInv
<1>4. CountInv'
  BY <1>1 DEF CountInv
<1>5. PendingInv'
  BY DEF PendingInv
<1>6. ActiveInv'
  BY <1>1 DEF ActiveInv, HandInv
<1>7. WantedInv'
  BY DEF WantedInv, OnlyWantedLive, Live, Unaccepted
<1> QED
  BY <1>2, <1>3, <1>4, <1>5, <1>6, <1>7

LEMMA WorkerSkippedStep ==
  ASSUME IInv, NEW j \in Jobs, WorkerSkipped(j)
  PROVE  IInv'
<1>1. TypeOK'
  BY TypeWorker DEF WorkerStep
<1>2. /\ at[j] = "saveSkipped" /\ TaskDone(j)
      /\ UNCHANGED <<status, cancelReq, superseded, queue, lock, pending, active, alive, stopVars,
                     posted, wanted>>
  BY DEF WorkerSkipped, github, events
<1>3. LockInv' /\ QueueInv' /\ HandInv' /\ PendingInv' /\ ActiveInv' /\ CountInv' /\ WantedInv'
  BY <1>2, TaskDoneKeeps DEF IInv, TypeOK, HandInv, InHand, InTask, Running, Ended, Body, Cleanup
<1>4. ReportInv'
  BY <1>2 DEF IInv, TypeOK, ReportInv, TaskDone, Goto
<1> QED
  BY <1>1, <1>3, <1>4 DEF IInv

LEMMA WorkerReapStep ==
  ASSUME IInv, NEW j \in Jobs, WorkerReap(j)
  PROVE  IInv'
<1>1. TypeOK'
  BY TypeWorker DEF WorkerStep
<1>2. /\ at[j] \in Ended /\ TaskDone(j) /\ active' = [active EXCEPT ![prOf[j]] = NoJob]
      /\ UNCHANGED <<status, cancelReq, superseded, queue, lock, pending, stopVars, posted, wanted>>
  BY DEF WorkerReap, Unregister, github, events
<1>3. alive /\ hand = j /\ stopping # "stopped"
  BY DEF IInv, TypeOK, HandInv, WorkerReap
<1>4. stopping = "no" => alive'
  BY DEF WorkerReap
<1>5. alive' \in BOOLEAN
  BY <1>1 DEF TypeOK
<1>6. LockInv' /\ QueueInv' /\ HandInv' /\ PendingInv' /\ ActiveInv' /\ CountInv' /\ WantedInv'
  BY <1>2, <1>3, <1>4, <1>5, TaskDoneKeeps DEF InHand, InTask, Running, Ended, Body, Cleanup
<1>7. ReportInv'
  BY <1>2 DEF IInv, TypeOK, ReportInv, TaskDone, Goto, Ended
<1> QED
  BY <1>1, <1>6, <1>7 DEF IInv

LEMMA WorkerCancelledStep ==
  ASSUME IInv, WorkerCancelled
  PROVE  IInv'
<1>1. TypeOK'
  BY TypeWorker DEF WorkerStep
<1>2. CASE hand = NoJob /\ UNCHANGED <<at, unfinished, hand, row>>
  <2>1. stopping = "ending" /\ alive' = FALSE
    BY DEF WorkerCancelled
  <2>2. UNCHANGED <<at, unfinished, hand, status, cancelReq, superseded, queue, lock, pending,
                    active, stopVars, posted, wanted>>
    BY <1>2 DEF WorkerCancelled, github, events
  <2>3. LockInv' /\ QueueInv' /\ HandInv' /\ PendingInv' /\ ActiveInv' /\ CountInv'
    BY <1>2, <2>1, <2>2 DEF IInv, LockInv, QueueInv, HandInv, PendingInv, ActiveInv, CountInv,
         stopVars
  <2>4. WantedInv' /\ ReportInv'
    BY <2>2 DEF IInv, WantedInv, ReportInv, OnlyWantedLive, Live, stopVars
  <2> QED
    BY <1>1, <2>3, <2>4 DEF IInv
<1>3. ASSUME NEW j \in Jobs, at[j] \in {"held", "saveSkipped"}, TaskDone(j)
      PROVE  IInv'
  <2>1. /\ stopping = "ending" /\ alive' = FALSE
        /\ UNCHANGED <<status, cancelReq, superseded, queue, lock, pending, active, stopVars,
                       posted, wanted>>
    BY DEF WorkerCancelled, github, events
  <2>2. LockInv' /\ QueueInv' /\ HandInv' /\ PendingInv' /\ ActiveInv' /\ CountInv' /\ WantedInv'
    BY <1>3, <2>1, TaskDoneKeeps DEF InHand, InTask, Running, Ended, Body, Cleanup
  <2>3. ReportInv'
    BY <1>3, <2>1 DEF IInv, TypeOK, ReportInv, TaskDone, Goto
  <2> QED
    BY <1>1, <2>2, <2>3 DEF IInv
<1> QED
  BY <1>2, <1>3 DEF WorkerCancelled

-----------------------------------------------------------------------------
(* The tasks and stop().                                                   *)

LEMMA TaskReports ==
  ASSUME IInv, NEW j \in Jobs, TaskStep(j)
  PROVE  ReportInv'
<1> USE DEF IInv, TypeOK, Goto, github, InTask, Running, Ended, Body, Cleanup
<1>1. CASE TaskStart(j)
  BY <1>1 DEF TaskStart, ReportInv
<1>2. CASE CallReturns(j)
  <2>1. at' = [at EXCEPT ![j] = After(at[j])]
    BY <1>2 DEF CallReturns
  <2>2. status' = IF at[j] = "review" THEN [status EXCEPT ![j] = "completed"] ELSE status
    BY <1>2 DEF CallReturns
  <2>3. posted' = [posted EXCEPT ![j] =
                    @ \cup (IF at[j] = "review" THEN {"review"} ELSE {})
                      \cup (IF at[j] = "postComment" THEN {"errorComment"} ELSE {})]
    BY <1>2 DEF CallReturns, Effect
  <2>4. at[j] \in Body \cup Cleanup
    BY <1>2 DEF CallReturns
  <2> QED
    BY <2>1, <2>2, <2>3, <2>4 DEF ReportInv, After, NextAwait
<1>3. CASE CallStale(j)
  BY <1>3 DEF CallStale, NoEffect, ReportInv
<1>4. CASE CallFails(j)
  <2>1. \/ posted' = posted
        \/ posted' = [posted EXCEPT ![j] =
                        @ \cup (IF at[j] = "review" THEN {"review"} ELSE {})
                          \cup (IF at[j] = "postComment" THEN {"errorComment"} ELSE {})]
    BY <1>4 DEF CallFails, Effect, NoEffect
  <2>2. CASE at[j] \in Body
    <3>1. /\ at' = [at EXCEPT ![j] = "saveFailed"]
          /\ status' = [status EXCEPT ![j] = "failed"]
      BY <1>4, <2>2 DEF CallFails
    <3> QED
      BY <2>1, <2>2, <3>1 DEF ReportInv
  <2>3. CASE at[j] \in Cleanup
    <3>1. at' = [at EXCEPT ![j] = After(at[j])] /\ status' = status
      BY <1>4, <2>3 DEF CallFails, Logged
    <3> QED
      BY <2>1, <2>3, <3>1 DEF ReportInv, After, NextAwait
  <2> QED
    BY <1>4, <2>2, <2>3 DEF CallFails
<1>5. CASE CancelDelivered(j)
  <2>1. \/ posted' = posted
        \/ posted' = [posted EXCEPT ![j] =
                        @ \cup (IF at[j] = "review" THEN {"review"} ELSE {})
                          \cup (IF at[j] = "postComment" THEN {"errorComment"} ELSE {})]
    BY <1>5 DEF CancelDelivered, Effect, NoEffect
  <2>2. \/ /\ at[j] \in Body /\ at' = [at EXCEPT ![j] = "saveCancelled"]
           /\ status' = [status EXCEPT ![j] = "cancelled"]
        \/ at[j] \in Cleanup /\ at' = [at EXCEPT ![j] = "cancelled"] /\ status' = status
    BY <1>5 DEF CancelDelivered, OnCancel
  <2> QED
    BY <2>1, <2>2 DEF ReportInv
<1> QED
  BY <1>1, <1>2, <1>3, <1>4, <1>5 DEF TaskStep

LEMMA TaskStepKeeps ==
  ASSUME IInv, NEW j \in Jobs, TaskStep(j)
  PROVE  IInv'
<1>1. PICK place \in InTask : Moves(j, place)
  BY TaskMoves
<1>2. TypeOK' /\ ReportInv'
  BY TypeTask, TaskReports
<1> QED
  BY <1>1, <1>2, MovesKeepMaps, MovesKeepWanted DEF IInv

\* stop() only cancels tasks that are under way, and only once it has begun.
LEMMA StopKeeps ==
  ASSUME IInv, StopBegin \/ StopStep
  PROVE  IInv'
<1> USE DEF IInv, TypeOK, queueVars, github, events, StopStep
<1>1. TypeOK'
  BY TypeStop
<1>2. UNCHANGED <<at, status, queueVars, posted, wanted>>
  BY DEF StopBegin, StopDrained, StopGathered, StopReturns
<1>3. LockInv' /\ HandInv'
  BY DEF LockInv, HandInv, StopBegin, StopDrained, StopGathered, StopReturns, WorkerEnded
<1>4. QueueInv' /\ PendingInv' /\ ActiveInv' /\ CountInv' /\ ReportInv'
  BY <1>2 DEF QueueInv, PendingInv, ActiveInv, CountInv, ReportInv
<1>5. \A i \in Jobs : cancelReq'[i] => cancelReq[i] \/ (at[i] \in Running /\ stopping' # "no")
  <2>1. CASE StopBegin \/ StopReturns
    BY <2>1 DEF StopBegin, StopReturns
  <2>2. CASE StopDrained
    BY <2>2 DEF StopDrained, CancelTasks
  <2>3. CASE StopGathered
    BY <2>3 DEF StopGathered, CancelTasks
  <2> QED
    BY <2>1, <2>2, <2>3
<1>6. \A i \in Jobs : cancelReq[i] => cancelReq'[i]
  <2>1. CASE StopBegin \/ StopReturns
    BY <2>1 DEF StopBegin, StopReturns
  <2>2. CASE StopDrained
    BY <2>2 DEF StopDrained, CancelTasks
  <2>3. CASE StopGathered
    BY <2>3 DEF StopGathered, CancelTasks
  <2> QED
    BY <2>1, <2>2, <2>3
<1>7. stopping' = "no" => stopping = "no"
  BY DEF StopBegin, StopDrained, StopGathered, StopReturns
<1>8. OnlyWantedLive'
  BY <1>2, <1>6 DEF WantedInv, OnlyWantedLive, Live
<1>9. WantedInv'
  BY <1>2, <1>5, <1>7, <1>8 DEF WantedInv
<1> QED
  BY <1>1, <1>3, <1>4, <1>9

-----------------------------------------------------------------------------
(* The theorems.                                                           *)

LEMMA NextIInv == IInv /\ [Next]_vars => IInv'
<1> SUFFICES ASSUME IInv, [Next]_vars PROVE IInv'
  OBVIOUS
<1>1. ASSUME NEW p \in PRs, Push(p) \/ CancelPR(p) PROVE IInv'
  BY <1>1, PushStep, CancelPRStep
<1>2. ASSUME NEW j \in Jobs, EnqueueBegin(j) \/ EnqueueStep(j) PROVE IInv'
  BY <1>2, EnqueueBeginStep, EnqueueStoredStep, EnqueueFailsStep DEF EnqueueStep
<1>3. ASSUME NEW j \in Jobs, TaskStep(j) PROVE IInv'
  BY <1>3, TaskStepKeeps
<1>4. CASE WorkerStep
  BY <1>4, WorkerGetStep, WorkerStartStep, WorkerSkipStep, WorkerSkippedStep, WorkerReapStep,
     WorkerCancelledStep DEF WorkerStep
<1>5. CASE StopBegin \/ StopStep
  BY <1>5, StopKeeps
<1>6. CASE UNCHANGED vars
  BY <1>6 DEF IInv, TypeOK, LockInv, QueueInv, HandInv, PendingInv, ActiveInv, WantedInv, CountInv,
     ReportInv, OnlyWantedLive, Live, vars, queueVars, stopVars, github, events
<1> QED
  BY <1>1, <1>2, <1>3, <1>4, <1>5, <1>6 DEF Next

\* IInv holds in every reachable state.
THEOREM Invariance == Spec => []IInv
<1>1. Init => IInv
  BY InitIInv
<1>2. IInv /\ [Next]_vars => IInv'
  BY NextIInv
<1> QED
  BY <1>1, <1>2, PTL DEF Spec

\* Type correctness, for any jobs, pull requests, bounds and failing calls.
THEOREM TypeCorrect == Spec => []TypeOK
<1>1. IInv => TypeOK
  BY DEF IInv
<1> QED
  BY <1>1, Invariance, PTL

\* enqueue and cancel_pr leave nothing older than the newest accepted job of an
\* open PR on its way to a review.
THEOREM Supersession == Spec => []OnlyWantedLive
<1>1. IInv => OnlyWantedLive
  BY DEF IInv, WantedInv
<1> QED
  BY <1>1, Invariance, PTL

\* The newest accepted job of an open PR is never superseded nor cancelled.
THEOREM NewestIsKept == Spec => []WantedIsKept
<1>1. IInv => WantedIsKept
  <2> SUFFICES ASSUME IInv, NEW p \in PRs, NEW j \in Jobs, wanted[p] = j, stopping = "no"
               PROVE  ~superseded[j] /\ ~cancelReq[j]
    BY DEF WantedIsKept
  <2>1. prOf[j] = p
    BY DEF IInv, WantedInv
  <2> QED
    BY <2>1 DEF IInv, WantedInv
<1> QED
  BY <1>1, Invariance, PTL

\* The queue processes one job at a time: the worker's hand holds every job in
\* a task, and it holds one job.
THEOREM Serial == Spec => []OneTaskAtATime
<1>1. IInv => OneTaskAtATime
  BY DEF IInv, HandInv, InHand, InTask, OneTaskAtATime
<1> QED
  BY <1>1, Invariance, PTL

\* join() returns only when every accepted job is settled and the maps are empty.
THEOREM JoinIsTruthful == Spec => []DrainedMeansSettled
<1>1. IInv => DrainedMeansSettled
  <2> SUFFICES ASSUME IInv, unfinished = 0, alive
               PROVE  /\ \A j \in Jobs : at[j] \in {"new", "create", "rejected", "settled"}
                      /\ \A p \in PRs : pending[p] = NoJob /\ active[p] = NoJob
    BY DEF DrainedMeansSettled
  <2>1. Len(queue) = 0 /\ hand = NoJob
    BY DEF IInv, TypeOK, CountInv
  <2>2. \A j \in Jobs : at[j] # "queued" /\ at[j] \notin InHand
    BY <2>1 DEF IInv, QueueInv, HandInv
  <2>3. \A j \in Jobs : at[j] \in {"new", "create", "rejected", "settled"}
    BY <2>2 DEF IInv, TypeOK, At, InHand
  <2>4. \A p \in PRs : pending[p] \notin Jobs /\ active[p] \notin Jobs
    BY <2>2 DEF IInv, PendingInv, ActiveInv, InHand
  <2> QED
    BY <2>3, <2>4 DEF IInv, TypeOK
<1> QED
  BY <1>1, Invariance, PTL

\* Only a failed job reports an error, wherever a cancellation strikes it.
THEOREM ErrorsAreFailures == Spec => []NoErrorForCancelled
<1>1. IInv => NoErrorForCancelled
  BY DEF IInv, ReportInv, NoErrorForCancelled
<1> QED
  BY <1>1, Invariance, PTL

\* Nothing that uses the database or the clients is left when stop() returns.
THEOREM StopIsClean == Spec => []NothingRunsAfterStop
<1>1. IInv => NothingRunsAfterStop
  <2> SUFFICES ASSUME IInv, stopping = "stopped"
               PROVE  /\ ~alive /\ hand = NoJob
                      /\ \A j \in Jobs : at[j] \notin InTask \cup {"create", "held"}
    BY DEF NothingRunsAfterStop
  <2>1. ~alive /\ hand = NoJob /\ lock = NoJob
    BY DEF IInv, HandInv, LockInv
  <2> QED
    BY <2>1 DEF IInv, HandInv, LockInv, InHand
<1> QED
  BY <1>1, Invariance, PTL

-----------------------------------------------------------------------------
(* The rows, the green statuses and the error reports.                     *)

Unfinished == {"pending", "in_progress", "completed"}

\* The row behind each place of a job: why it may not be final.
FinalRow(j) == row[j] \in Terminal \/ missed[j] \cap {"saveStale", "saveFailed"} # {}

Accounted(j) ==
  \/ row[j] \in Terminal
  \/ missed[j] \cap {"held", "starting", "saveSkipped",
                    "saveCancelled", "saveStale", "saveFailed"} # {}

RowOk(j) ==
  /\ at[j] \in Unaccepted => status[j] = "pending" /\ row[j] = "none"
  /\ at[j] \in {"queued", "held", "starting"} => status[j] = "pending" /\ row[j] = "pending"
  /\ at[j] = "saveSkipped" => status[j] = "cancelled" /\ row[j] = "pending"
  /\ at[j] = "saveStarted" => status[j] = "in_progress" /\ row[j] = "pending"
  /\ at[j] \in {"checkHead", "postPending", "review"} => row[j] = "in_progress"
  /\ at[j] = "saveCompleted" => status[j] = "completed" /\ row[j] = "in_progress"
  /\ at[j] = "postSuccess" => status[j] = "completed" /\ row[j] = "completed"
  /\ at[j] \in {"saveCancelled", "saveStale"} => status[j] = "cancelled" /\ row[j] \in Unfinished
  /\ at[j] = "saveFailed" => status[j] = "failed" /\ row[j] \in Unfinished
  /\ at[j] \in {"postError", "postComment", "returned"} => FinalRow(j)
  /\ at[j] \in Ended \cup {"settled"} => Accounted(j)

\* A failure that was reported as far as the calls allow.
Reported(j) ==
  status[j] = "failed" =>
    /\ at[j] \in {"postComment", "returned", "settled"} =>
         commit[prOf[j]][shaOf[j]] # "pending" \/ "postError" \in missed[j]
    /\ at[j] \in {"returned", "settled"} =>
         "errorComment" \in posted[j] \/ "postComment" \in missed[j]

\* While the queue accepts work, the wanted job is not cancelled, and with a task of
\* its PR under way it is that task or behind it in the queue.
WantedOk(j) ==
  stopping = "no" /\ wanted[prOf[j]] = j =>
    /\ at[j] \notin {"cancelled", "saveCancelled"}
    /\ at[j] = "settled" => FinalRow(j)
    /\ Reported(j)
    /\ \A i \in Jobs : at[i] \in InTask /\ prOf[i] = prOf[j] => i = j \/ at[j] = "queued"

ResultInv == (\A j \in Jobs : RowOk(j) /\ WantedOk(j)) /\ GreenMeansReviewed

\* What a step of the task of job j leaves alone.
LEMMA TaskFrame ==
  ASSUME IInv, NEW j \in Jobs, TaskStep(j)
  PROVE  /\ at[j] \in Running /\ at'[j] \in InTask /\ UNCHANGED <<stopping, wanted>>
         /\ missed[j] \subseteq missed'[j]
         /\ at' \in [Jobs -> At] /\ status' \in [Jobs -> JobStatus]
         /\ \A i \in Jobs \ {j} : /\ at'[i] = at[i] /\ row'[i] = row[i]
                                  /\ status'[i] = status[i] /\ posted'[i] = posted[i]
                                  /\ missed'[i] = missed[i]
         /\ posted[j] \subseteq posted'[j]
         /\ \A p \in PRs, s \in 1..MaxSha :
              p # prOf[j] \/ s # shaOf[j] => commit'[p][s] = commit[p][s]
<1>1. PICK place \in InTask : Moves(j, place)
  BY TaskMoves
<1>2. TypeOK /\ TypeOK'
  BY TypeTask DEF IInv
<1>3. at[j] \in Running /\ at'[j] \in InTask /\ \A i \in Jobs \ {j} : at'[i] = at[i]
  BY <1>1, <1>2 DEF Moves, TypeOK
<1>4. UNCHANGED <<stopping, wanted>>
  BY <1>1 DEF Moves, stopVars, events
<1>5. status' \in [Jobs -> JobStatus] /\ \A i \in Jobs \ {j} : status'[i] = status[i]
  BY <1>2 DEF TypeOK, TaskStep, TaskStart, CallReturns, CallStale, CallFails, CancelDelivered, OnCancel
<1>6. NoEffect \/ Effect(j, at[j])
  BY DEF TaskStep, TaskStart, CallReturns, CallStale, CallFails, CancelDelivered, NoEffect
<1>7. \A i \in Jobs \ {j} : row'[i] = row[i] /\ posted'[i] = posted[i]
  BY <1>2, <1>6 DEF TypeOK, Effect, NoEffect, github
<1>8. posted[j] \subseteq posted'[j]
  BY <1>2, <1>6 DEF TypeOK, Effect, NoEffect, github
<1>9. ASSUME NEW p \in PRs, NEW s \in 1..MaxSha, p # prOf[j] \/ s # shaOf[j]
      PROVE  commit'[p][s] = commit[p][s]
  <2>1. commit \in [PRs -> [1..MaxSha -> CommitState]]
    BY <1>2 DEF TypeOK
  <2>2. CASE commit' = commit
    BY <2>2
  <2>3. ASSUME NEW c, commit' = [commit EXCEPT ![prOf[j]][shaOf[j]] = c]
        PROVE  commit'[p][s] = commit[p][s]
    BY <1>9, <2>1, <2>3
  <2> QED
    BY <1>6, <2>2, <2>3 DEF Effect, NoEffect, github
<1> QED
  BY <1>2, <1>3, <1>4, <1>5, <1>7, <1>8, <1>9, TaskMisses DEF TypeOK

\* A step of the task keeps its row what its place says, and no final row changes.
Final(j) ==
  /\ row[j] \in {"failed", "cancelled"} => row'[j] = row[j]
  /\ row[j] \in Terminal => row'[j] \in Terminal
  /\ at[j] = "settled" => row'[j] = row[j] /\ posted'[j] = posted[j]

LEMMA TaskRow ==
  ASSUME IInv, NEW j \in Jobs, TaskStep(j), RowOk(j)
  PROVE  RowOk(j)' /\ Final(j)
<1> USE DEF Unfinished, Terminal, Unaccepted
<1>0. TypeOK
  BY DEF IInv
<1>1. CASE TaskStart(j)
  <2>1. /\ at[j] = "starting" /\ at'[j] \in {"cancelled", "saveStarted"} /\ row' = row
        /\ at'[j] = "saveStarted" => status'[j] = "in_progress"
        /\ at'[j] = "cancelled" => "starting" \in missed'[j]
    BY <1>0, <1>1 DEF TaskStart, Goto, Miss, TypeOK
  <2> QED
    BY <2>1 DEF RowOk, Final, Accounted, Ended
<1>2. CASE CallReturns(j)
  <2>1. /\ at[j] \in Body \cup Cleanup /\ at'[j] = After(at[j])
        /\ row'[j] = IF at[j] \in Saves THEN status[j] ELSE row[j]
        /\ status'[j] = IF at[j] = "review" THEN "completed" ELSE status[j]
        /\ missed' = missed
    BY <1>0, <1>2 DEF CallReturns, Goto, Effect, TypeOK, events
  <2> QED
    BY <2>1 DEF RowOk, Final, FinalRow, Accounted, After, NextAwait, Saves, Body, Cleanup, Ended
<1>3. CASE CallStale(j)
  <2>1. at[j] \in {"checkHead", "review"} /\ at'[j] = "saveStale" /\ row' = row /\ status'[j] = "cancelled"
    BY <1>0, <1>3 DEF CallStale, Goto, NoEffect, TypeOK
  <2> QED
    BY <2>1 DEF RowOk, Final, Ended
<1>4. CASE CallFails(j)
  <2>1. /\ at[j] \in Body \cup Cleanup /\ row' = row
        /\ at[j] \in Body => at'[j] = "saveFailed" /\ status'[j] = "failed"
        /\ at[j] \notin Body => /\ at'[j] = After(at[j]) /\ status' = status
                                /\ missed'[j] = missed[j] \cup {at[j]}
    BY <1>0, <1>4 DEF CallFails, Logged, Miss, Goto, NoEffect, Effect, TypeOK, Saves, Posts
  <2>2. CASE at[j] \in Body
    BY <2>1, <2>2 DEF RowOk, Final, Body, Ended
  <2>3. CASE at[j] \in Cleanup
    BY <2>1, <2>3 DEF RowOk, Final, FinalRow, Accounted, After, NextAwait, Body, Cleanup, Ended
  <2> QED
    BY <2>1, <2>2, <2>3
<1>5. CASE CancelDelivered(j)
  <2>1. /\ at[j] \in Body \cup Cleanup
        /\ row'[j] = row[j] \/ (at[j] \in Saves /\ row'[j] = status[j])
        /\ at[j] \in Body => at'[j] = "saveCancelled" /\ status'[j] = "cancelled"
        /\ at[j] \notin Body => at'[j] = "cancelled" /\ missed'[j] = missed[j] \cup {at[j]}
    <3>1. at[j] \in Body \cup Cleanup /\ OnCancel(j) /\ (NoEffect \/ Effect(j, at[j]))
      BY <1>5 DEF CancelDelivered
    <3>2. row'[j] = row[j] \/ (at[j] \in Saves /\ row'[j] = status[j])
      <4>1. row' = row \/ (at[j] \in Saves /\ row' = [row EXCEPT ![j] = status[j]])
        BY <3>1 DEF NoEffect, Effect
      <4>2. row \in [Jobs -> JobStatus \cup {"none"}]
        BY <1>0 DEF TypeOK
      <4> QED
        BY <4>1, <4>2
    <3>3. /\ at[j] \in Body => at'[j] = "saveCancelled" /\ status'[j] = "cancelled"
          /\ at[j] \notin Body => at'[j] = "cancelled" /\ missed'[j] = missed[j] \cup {at[j]}
      BY <1>0, <3>1 DEF OnCancel, Miss, Goto, TypeOK
    <3> QED
      BY <3>1, <3>2, <3>3
  <2> QED
    BY <2>1 DEF RowOk, Final, FinalRow, Accounted, Saves, Body, Cleanup, Ended
<1>6. at[j] # "settled"
  BY TaskFrame DEF Running, Body, Cleanup
<1> QED
  BY <1>1, <1>2, <1>3, <1>4, <1>5 DEF TaskStep

\* It reports a failure of the wanted job, and does not end it unreported.
LEMMA TaskWanted ==
  ASSUME IInv, NEW j \in Jobs, TaskStep(j), RowOk(j), WantedOk(j)
  PROVE  WantedOk(j)'
<1> SUFFICES ASSUME stopping' = "no", wanted'[prOf[j]] = j
             PROVE  /\ at'[j] \notin {"cancelled", "saveCancelled"}
                    /\ at'[j] = "settled" => FinalRow(j)'
                    /\ Reported(j)'
                    /\ \A i \in Jobs : at'[i] \in InTask /\ prOf[i] = prOf[j] => i = j \/ at'[j] = "queued"
  BY DEF WantedOk
<1>1. /\ stopping = "no" /\ wanted[prOf[j]] = j /\ ~cancelReq[j] /\ Reported(j)
      /\ \A i \in Jobs : at[i] \in InTask /\ prOf[i] = prOf[j] => i = j \/ at[j] = "queued"
      /\ at[j] \notin {"cancelled", "saveCancelled"}
  BY TaskFrame DEF WantedOk, IInv, WantedInv
<1>2. TypeOK /\ at[j] \in Running /\ at'[j] \in InTask /\ \A i \in Jobs \ {j} : at'[i] = at[i]
  BY TaskFrame DEF IInv
<1>3. at'[j] \notin {"cancelled", "saveCancelled"} /\ Reported(j)'
  <2>1. CASE TaskStart(j)
    <3>1. at'[j] = "saveStarted"
      BY <1>1, <1>2, <2>1 DEF TaskStart, Goto, TypeOK
    <3> QED
      BY <3>1 DEF Reported
  <2>2. CASE CallReturns(j)
    <3>1. /\ at[j] \in Body \cup Cleanup /\ at'[j] = After(at[j])
          /\ status'[j] = IF at[j] = "review" THEN "completed" ELSE status[j]
          /\ at[j] = "postError" => commit'[prOf[j]][shaOf[j]] = "error"
          /\ at[j] \notin {"postPending", "postSuccess", "postError"} => commit' = commit
          /\ at[j] = "postComment" => "errorComment" \in posted'[j]
          /\ missed' = missed /\ posted[j] \subseteq posted'[j]
      BY <1>2, <2>2, TaskFrame DEF CallReturns, Goto, Effect, TypeOK, events
    <3>2. at[j] \in {"postSuccess", "saveStale", "saveCancelled"} => status[j] # "failed"
      BY DEF RowOk
    <3> QED
      BY <1>1, <3>1, <3>2 DEF Reported, After, NextAwait, Body, Cleanup
  <2>3. CASE CallStale(j)
    <3>1. at'[j] = "saveStale"
      BY <1>2, <2>3 DEF CallStale, Goto, TypeOK
    <3> QED
      BY <3>1 DEF Reported
  <2>4. CASE CallFails(j)
    <3>1. /\ at[j] \in Body \cup Cleanup
          /\ at[j] \in Body => at'[j] = "saveFailed"
          /\ at[j] \notin Body => /\ at'[j] = After(at[j]) /\ status' = status
                                  /\ missed'[j] = missed[j] \cup {at[j]}
          /\ at[j] \notin {"postPending", "postSuccess", "postError"} => commit' = commit
          /\ posted[j] \subseteq posted'[j]
      BY <1>2, <2>4, TaskFrame DEF CallFails, Logged, Miss, Goto, NoEffect, Effect, TypeOK, github
    <3>2. at[j] \in {"postSuccess", "saveStale", "saveCancelled"} => status[j] # "failed"
      BY DEF RowOk
    <3> QED
      BY <1>1, <3>1, <3>2 DEF Reported, After, NextAwait, Body, Cleanup
  <2>5. CASE CancelDelivered(j)
    BY <1>1, <2>5 DEF CancelDelivered
  <2> QED
    BY <2>1, <2>2, <2>3, <2>4, <2>5 DEF TaskStep
<1>4. at'[j] # "settled"
  BY <1>2 DEF InTask, Running, Ended, Body, Cleanup
<1>5. \A i \in Jobs : at'[i] \in InTask /\ prOf[i] = prOf[j] => i = j
  BY <1>1, <1>2 DEF Running, Body, Cleanup
<1> QED
  BY <1>3, <1>4, <1>5

\* Green: the task posts success only after its review.
LEMMA TaskGreen ==
  ASSUME IInv, NEW j \in Jobs, TaskStep(j), GreenMeansReviewed
  PROVE  GreenMeansReviewed'
<1> SUFFICES ASSUME NEW p \in PRs, NEW s \in 1..MaxSha, commit'[p][s] = "success"
             PROVE  \E i \in Jobs : prOf[i] = p /\ shaOf[i] = s /\ "review" \in posted'[i]
  BY DEF GreenMeansReviewed
<1>1. \A i \in Jobs : posted[i] \subseteq posted'[i]
  BY TaskFrame
<1>2. CASE commit[p][s] = "success"
  BY <1>1, <1>2 DEF GreenMeansReviewed
<1>3. CASE commit[p][s] # "success"
  <2>1. p = prOf[j] /\ s = shaOf[j]
    BY <1>3, TaskFrame
  <2>2. Effect(j, at[j]) /\ commit' # commit
    BY <1>3 DEF TaskStep, TaskStart, CallReturns, CallStale, CallFails, CancelDelivered, NoEffect, github
  <2>3. commit \in [PRs -> [1..MaxSha -> CommitState]]
    BY DEF IInv, TypeOK
  <2>4. at[j] = "postSuccess"
    BY <2>1, <2>2, <2>3 DEF Effect
  <2> QED
    BY <1>1, <2>1, <2>4 DEF IInv, ReportInv
<1> QED
  BY <1>2, <1>3

LEMMA TaskResult ==
  ASSUME IInv, ResultInv, NEW j \in Jobs, TaskStep(j)
  PROVE  ResultInv' /\ \A i \in Jobs : Final(i)
<1>1. RowOk(j)' /\ Final(j) /\ WantedOk(j)' /\ GreenMeansReviewed'
  BY TaskRow, TaskWanted, TaskGreen DEF ResultInv
<1>2. ASSUME NEW i \in Jobs \ {j}
      PROVE  RowOk(i)' /\ Final(i) /\ WantedOk(i)'
  <2>1. /\ at'[i] = at[i] /\ row'[i] = row[i] /\ status'[i] = status[i] /\ posted'[i] = posted[i]
        /\ missed'[i] = missed[i]
        /\ UNCHANGED <<stopping, wanted>> /\ at[j] \in InTask
        /\ \A k \in Jobs \ {j} : at'[k] = at[k]
    BY TaskFrame DEF InTask
  <2>2. RowOk(i)' /\ Final(i)
    BY <2>1 DEF ResultInv, RowOk, FinalRow, Accounted, Final
  <2>3. ASSUME stopping = "no", wanted[prOf[i]] = i
        PROVE  /\ at[i] \notin {"cancelled", "saveCancelled"} /\ (at[i] = "settled" => FinalRow(i))
               /\ Reported(i)
               /\ \A k \in Jobs : at[k] \in InTask /\ prOf[k] = prOf[i] => k = i \/ at[i] = "queued"
    BY <2>3 DEF ResultInv, WantedOk
  <2>4. ASSUME stopping = "no", wanted[prOf[i]] = i
        PROVE  Reported(i)'
    <3>1. prOf[i] = prOf[j] => at[i] = "queued"
      BY <2>1, <2>3, <2>4
    <3>2. prOf[i] # prOf[j] => commit'[prOf[i]][shaOf[i]] = commit[prOf[i]][shaOf[i]]
      BY TaskFrame
    <3> QED
      BY <2>1, <2>3, <2>4, <3>1, <3>2 DEF Reported
  <2>5. WantedOk(i)'
    BY <2>1, <2>3, <2>4 DEF WantedOk, FinalRow
  <2> QED
    BY <2>2, <2>5
<1> QED
  BY <1>1, <1>2 DEF ResultInv

\* The other steps touch no commit status and nothing that was posted.
LEMMA OtherResult ==
  ASSUME IInv, ResultInv, UNCHANGED <<commit, posted>>,
         \A i \in Jobs : RowOk(i)' /\ Final(i) /\ WantedOk(i)'
  PROVE  ResultInv' /\ \A i \in Jobs : Final(i)
BY DEF ResultInv, GreenMeansReviewed

\* A step that moves job j alone, by the rules of its place, and no other job's row.
LEMMA MoveResult ==
  ASSUME IInv, ResultInv, NEW j \in Jobs, NEW place, Goto(j, place),
         \A i \in Jobs \ {j} : row'[i] = row[i] /\ status'[i] = status[i] /\ missed'[i] = missed[i],
         UNCHANGED <<stopping, wanted, commit, posted>>,
         place \in InTask => \A i \in Jobs \ {j} : stopping = "no" /\ wanted[prOf[i]] = i => prOf[i] # prOf[j],
         RowOk(j)' /\ Final(j), WantedOk(j)'
  PROVE  ResultInv' /\ \A i \in Jobs : Final(i)
<1>1. at' = [at EXCEPT ![j] = place] /\ DOMAIN at = Jobs
  BY DEF Goto, IInv, TypeOK
<1>2. ASSUME NEW i \in Jobs \ {j}
      PROVE  RowOk(i)' /\ Final(i) /\ WantedOk(i)'
  <2>1. at'[i] = at[i] /\ row'[i] = row[i] /\ status'[i] = status[i] /\ at'[j] = place
        /\ missed'[i] = missed[i]
        /\ \A k \in Jobs \ {j} : at'[k] = at[k]
    BY <1>1
  <2>2. RowOk(i)' /\ Final(i)
    BY <2>1 DEF ResultInv, RowOk, FinalRow, Accounted, Final
  <2>3. WantedOk(i)'
    BY <2>1 DEF ResultInv, WantedOk, Reported, FinalRow
  <2> QED
    BY <2>2, <2>3
<1> QED
  BY <1>2, OtherResult

LEMMA EnqueueResult ==
  ASSUME IInv, ResultInv, NEW j \in Jobs, EnqueueBegin(j) \/ EnqueueStep(j)
  PROVE  ResultInv' /\ \A i \in Jobs : Final(i)
<1>0. TypeOK /\ RowOk(j) /\ WantedOk(j)
  BY DEF IInv, ResultInv
<1>1. CASE EnqueueBegin(j) \/ EnqueueFails(j)
  <2>1. PICK place \in {"create", "rejected"} : Goto(j, place)
    BY <1>1 DEF EnqueueBegin, EnqueueFails
  <2>2. /\ at[j] \in Unaccepted /\ at'[j] = place
        /\ UNCHANGED <<row, status, stopping, wanted, commit, posted, missed>>
    BY <1>0, <1>1, <2>1 DEF EnqueueBegin, EnqueueFails, Goto, TypeOK, stopVars, github, events, Unaccepted
  <2>3. RowOk(j)' /\ Final(j)
    BY <1>0, <2>1, <2>2 DEF RowOk, Final, Unaccepted, Ended
  <2>4. wanted[prOf[j]] # j
    BY <2>2 DEF IInv, WantedInv
  <2>5. WantedOk(j)'
    BY <2>2, <2>4 DEF WantedOk
  <2>6. place \notin InTask
    BY <2>1 DEF InTask, Running, Ended, Body, Cleanup
  <2> QED
    BY <2>1, <2>2, <2>3, <2>5, <2>6, MoveResult
<1>2. CASE EnqueueStored(j)
  <2>1. /\ at[j] = "create" /\ row' = [row EXCEPT ![j] = status[j]] /\ at' = [at EXCEPT ![j] = "queued"]
        /\ wanted' = [wanted EXCEPT ![prOf[j]] = j] /\ UNCHANGED <<status, stopping, commit, posted, missed>>
    BY <1>2 DEF EnqueueStored, Goto, stopVars, github
  <2>2. /\ at'[j] = "queued" /\ row'[j] = status[j] /\ wanted'[prOf[j]] = j
        /\ \A i \in Jobs \ {j} : at'[i] = at[i] /\ row'[i] = row[i]
        /\ \A p \in PRs \ {prOf[j]} : wanted'[p] = wanted[p]
    BY <1>0, <2>1 DEF TypeOK
  <2>3. RowOk(j)' /\ Final(j)
    BY <1>0, <2>1, <2>2 DEF RowOk, Final, Unaccepted, Terminal, Ended
  <2>4. WantedOk(j)'
    BY <2>2 DEF WantedOk, Reported
  <2>5. ASSUME NEW i \in Jobs \ {j}
        PROVE  RowOk(i)' /\ Final(i) /\ WantedOk(i)'
    <3>1. RowOk(i)' /\ Final(i)
      BY <2>1, <2>2 DEF ResultInv, RowOk, FinalRow, Accounted, Final
    <3>2. CASE prOf[i] = prOf[j]
      <4>1. wanted'[prOf[i]] # i
        BY <2>2, <3>2
      <4> QED
        BY <3>1, <4>1 DEF WantedOk
    <3>3. CASE prOf[i] # prOf[j]
      <4>1. \A k \in Jobs : prOf[k] = prOf[i] => at'[k] = at[k]
        BY <2>2, <3>3
      <4>2. wanted'[prOf[i]] = wanted[prOf[i]]
        BY <2>2, <3>3
      <4>3. Reported(i)' <=> Reported(i)
        BY <2>1, <2>2 DEF Reported
      <4>4. FinalRow(i)' <=> FinalRow(i)
        BY <2>1, <2>2 DEF FinalRow
      <4>5. WantedOk(i)
        BY DEF ResultInv
      <4>6. WantedOk(i)'
        BY <2>1, <2>2, <4>1, <4>2, <4>3, <4>4, <4>5 DEF WantedOk
      <4> QED
        BY <3>1, <4>6
    <3> QED
      BY <3>2, <3>3
  <2> QED
    BY <2>1, <2>3, <2>4, <2>5, OtherResult
<1> QED
  BY <1>1, <1>2 DEF EnqueueStep

LEMMA WorkerResult ==
  ASSUME IInv, ResultInv, WorkerStep
  PROVE  ResultInv' /\ \A i \in Jobs : Final(i)
<1>0. TypeOK
  BY DEF IInv
<1>1. CASE WorkerGet
  <2>1. queue \in Seq(Jobs) /\ queue # <<>> /\ Head(queue) = queue[1] /\ 1 \in 1..Len(queue)
    BY <1>0, <1>1, HeadTail DEF TypeOK, WorkerGet
  <2>2. PICK j \in Jobs : j = Head(queue) /\ at[j] = "queued"
    BY <2>1 DEF IInv, QueueInv, TypeOK
  <2>3. Goto(j, "held") /\ at'[j] = "held" /\ UNCHANGED <<row, status, stopping, wanted, commit, posted, missed>>
    BY <1>0, <1>1, <2>2 DEF WorkerGet, Goto, TypeOK, stopVars, github, events
  <2>4. RowOk(j)' /\ Final(j)
    BY <2>2, <2>3 DEF ResultInv, RowOk, Final, Unaccepted, Ended
  <2>5. \A i \in Jobs : at'[i] \notin InTask
    BY <1>0, <1>1, <2>3 DEF IInv, HandInv, InHand, WorkerGet, InTask, Running, Ended, Body, Cleanup, Goto, TypeOK
  <2>6. WantedOk(j)'
    BY <2>3, <2>5 DEF WantedOk, Reported
  <2>7. "held" \notin InTask
    BY DEF InTask, Running, Ended, Body, Cleanup
  <2> QED
    BY <2>3, <2>4, <2>6, <2>7, MoveResult
<1>2. ASSUME NEW j \in Jobs, WorkerStart(j)
      PROVE  ResultInv' /\ \A i \in Jobs : Final(i)
  <2>1. /\ Goto(j, "starting") /\ at[j] = "held" /\ ~superseded[j] /\ at'[j] = "starting"
        /\ UNCHANGED <<row, status, stopping, wanted, commit, posted, missed>>
    BY <1>0, <1>2 DEF WorkerStart, Goto, TypeOK, stopVars, github, events
  <2>2. wanted[prOf[j]] = j
    BY <2>1 DEF IInv, WantedInv, OnlyWantedLive, Live
  <2>3. \A i \in Jobs \ {j} : wanted[prOf[i]] = i => prOf[i] # prOf[j]
    BY <2>2
  <2>4. RowOk(j)' /\ Final(j)
    BY <2>1 DEF ResultInv, RowOk, Final, Unaccepted, Ended
  <2>5. \A i \in Jobs : at'[i] \in InTask => i = j
    BY <1>0, <2>1 DEF IInv, HandInv, InHand, Goto, TypeOK
  <2>6. WantedOk(j)'
    BY <2>1, <2>5 DEF WantedOk, Reported
  <2> QED
    BY <2>1, <2>3, <2>4, <2>6, MoveResult
<1>3. ASSUME NEW j \in Jobs, WorkerSkip(j) \/ WorkerSkipped(j)
      PROVE  ResultInv' /\ \A i \in Jobs : Final(i)
  <2>1. PICK place \in {"saveSkipped", "settled"} : Goto(j, place) /\ at'[j] = place
    BY <1>0, <1>3 DEF WorkerSkip, WorkerSkipped, TaskDone, Goto, TypeOK
  <2>2. /\ superseded[j] /\ place \notin InTask
        /\ \A i \in Jobs \ {j} : row'[i] = row[i] /\ status'[i] = status[i] /\ missed'[i] = missed[i]
        /\ UNCHANGED <<stopping, wanted, commit, posted>>
    BY <1>0, <1>3, <2>1 DEF WorkerSkip, WorkerSkipped, Miss, TypeOK, stopVars, github, events, IInv, WantedInv,
         InTask, Running, Ended, Body, Cleanup
  <2>3. wanted[prOf[j]] # j
    BY <2>2 DEF IInv, WantedInv
  <2>4. WantedOk(j)'
    BY <2>2, <2>3 DEF WantedOk
  <2>5. CASE WorkerSkip(j)
    <3>1. at[j] = "held" /\ at'[j] = "saveSkipped" /\ status'[j] = "cancelled" /\ row' = row
      BY <1>0, <2>5 DEF WorkerSkip, Goto, TypeOK
    <3>2. RowOk(j)' /\ Final(j)
      BY <3>1 DEF ResultInv, RowOk, Final, Unaccepted, Ended
    <3> QED
      BY <2>1, <2>2, <2>4, <3>2, MoveResult
  <2>6. CASE WorkerSkipped(j)
    <3>1. /\ at[j] = "saveSkipped" /\ at'[j] = "settled"
          /\ row'[j] = status[j] \/ (row'[j] = row[j] /\ "saveSkipped" \in missed'[j])
      BY <1>0, <2>6 DEF WorkerSkipped, TaskDone, Goto, Miss, TypeOK
    <3>2. RowOk(j)' /\ Final(j)
      BY <3>1 DEF ResultInv, RowOk, Final, Accounted, Unaccepted, Terminal, Ended
    <3> QED
      BY <2>1, <2>2, <2>4, <3>2, MoveResult
  <2> QED
    BY <1>3, <2>5, <2>6
<1>4. ASSUME NEW j \in Jobs, WorkerReap(j)
      PROVE  ResultInv' /\ \A i \in Jobs : Final(i)
  <2>1. /\ Goto(j, "settled") /\ at[j] \in Ended /\ at'[j] = "settled"
        /\ UNCHANGED <<row, status, stopping, wanted, commit, posted, missed>>
    BY <1>0, <1>4 DEF WorkerReap, TaskDone, Goto, TypeOK, stopVars, github, events
  <2>2. RowOk(j)' /\ Final(j)
    BY <2>1 DEF ResultInv, RowOk, Final, FinalRow, Accounted, Unaccepted, Ended
  <2>3. \A i \in Jobs : at'[i] \notin InTask
    BY <1>0, <1>4, <2>1 DEF IInv, HandInv, InHand, WorkerReap, Goto, TypeOK, InTask, Running, Ended, Body, Cleanup
  <2>4. WantedOk(j)'
    BY <2>1, <2>3 DEF ResultInv, WantedOk, Reported, RowOk, FinalRow, Ended
  <2>5. "settled" \notin InTask
    BY DEF InTask, Running, Ended, Body, Cleanup
  <2> QED
    BY <2>1, <2>2, <2>4, <2>5, MoveResult
<1>5. CASE WorkerCancelled
  <2>1. /\ stopping' = "ending" /\ UNCHANGED <<status, commit, posted>>
        /\ \A i \in Jobs : /\ at'[i] = at[i] \/ (at[i] \in {"held", "saveSkipped"} /\ at'[i] = "settled")
                           /\ row'[i] = row[i] \/ (at[i] = "saveSkipped" /\ at'[i] = "settled" /\ row'[i] = status[i])
                           /\ at'[i] = at[i] => missed'[i] = missed[i]
                           /\ at'[i] # at[i] => missed'[i] = missed[i] \cup {at[i]}
    BY <1>0, <1>5 DEF WorkerCancelled, TaskDone, Goto, Miss, TypeOK, stopVars, github
  <2>2. ASSUME NEW i \in Jobs PROVE RowOk(i)' /\ Final(i) /\ WantedOk(i)'
    <3>1. WantedOk(i)'
      BY <2>1 DEF WantedOk
    <3>2. RowOk(i)' /\ Final(i)
      BY <2>1 DEF ResultInv, RowOk, FinalRow, Accounted, Final, Unaccepted, Terminal, Ended
    <3> QED
      BY <3>1, <3>2
  <2> QED
    BY <2>1, <2>2, OtherResult
<1> QED
  BY <1>1, <1>2, <1>3, <1>4, <1>5 DEF WorkerStep

LEMMA QuietResult ==
  ASSUME IInv, ResultInv, UNCHANGED <<at, status, row, commit, posted, missed>>,
         stopping' = "no" => /\ stopping = "no"
                             /\ \A p \in PRs : wanted'[p] = wanted[p] \/ wanted'[p] = NoJob
  PROVE  ResultInv' /\ \A i \in Jobs : Final(i)
<1>1. ASSUME NEW i \in Jobs PROVE RowOk(i)' /\ Final(i) /\ WantedOk(i)'
  <2>1. RowOk(i)' /\ Final(i)
    BY DEF ResultInv, RowOk, FinalRow, Accounted, Final
  <2>2. stopping' = "no" /\ wanted'[prOf[i]] = i => stopping = "no" /\ wanted[prOf[i]] = i
    OBVIOUS
  <2>3. WantedOk(i)'
    BY <2>2 DEF ResultInv, WantedOk, Reported, FinalRow
  <2> QED
    BY <2>1, <2>3
<1> QED
  BY <1>1, OtherResult

LEMMA NextResult == IInv /\ ResultInv /\ [Next]_vars => ResultInv' /\ \A i \in Jobs : Final(i)
<1> SUFFICES ASSUME IInv, ResultInv, [Next]_vars PROVE ResultInv' /\ \A i \in Jobs : Final(i)
  OBVIOUS
<1>1. ASSUME NEW p \in PRs, Push(p) \/ CancelPR(p) PROVE ResultInv' /\ \A i \in Jobs : Final(i)
  <2>1. /\ UNCHANGED <<at, status, row, commit, posted, missed, stopping>>
        /\ wanted' = wanted \/ wanted' = [wanted EXCEPT ![p] = NoJob]
    BY <1>1 DEF Push, CancelPR, events, github, stopVars
  <2>2. \A q \in PRs : wanted'[q] = wanted[q] \/ wanted'[q] = NoJob
    BY <2>1 DEF IInv, TypeOK
  <2> QED
    BY <2>1, <2>2, QuietResult
<1>2. CASE StopBegin \/ StopStep
  <2>1. UNCHANGED <<at, status, row, commit, posted, missed>> /\ stopping' # "no"
    BY <1>2 DEF StopStep, StopBegin, StopDrained, StopGathered, StopReturns, github, events
  <2> QED
    BY <2>1, QuietResult
<1>3. CASE UNCHANGED vars
  BY <1>3, QuietResult DEF vars, stopVars, github, events
<1> QED
  BY <1>1, <1>2, <1>3, EnqueueResult, TaskResult, WorkerResult DEF Next

LEMMA Results == Spec => [](IInv /\ ResultInv)
<1>1. Init => ResultInv
  BY DEF Init, ResultInv, RowOk, WantedOk, Reported, GreenMeansReviewed, Unaccepted, Ended
<1>2. IInv /\ ResultInv /\ [Next]_vars => IInv' /\ ResultInv'
  BY NextIInv, NextResult
<1> QED
  BY <1>1, <1>2, InitIInv, PTL DEF Spec

\* A settled job's row that is not final has one of the six causes, and the row of the
\* newest job of an open PR only the one a failing database gives it.
THEOREM RowsBecomeFinal == Spec => []RowsAreFinal
<1>1. IInv /\ ResultInv => RowsAreFinal
  <2> SUFFICES ASSUME IInv, ResultInv, NEW j \in Jobs, at[j] = "settled", row[j] \notin Terminal
               PROVE  /\ missed[j] \cap {"held", "starting", "saveSkipped",
                                         "saveCancelled", "saveStale", "saveFailed"} # {}
                      /\ wanted[prOf[j]] = j /\ stopping = "no" =>
                           missed[j] \cap {"saveStale", "saveFailed"} # {}
    BY DEF RowsAreFinal
  <2>1. Accounted(j)
    BY DEF ResultInv, RowOk
  <2>2. wanted[prOf[j]] = j /\ stopping = "no" => FinalRow(j)
    BY DEF ResultInv, WantedOk
  <2> QED
    BY <2>1, <2>2 DEF Accounted, FinalRow
<1> QED
  BY <1>1, Results, PTL

\* A failure of the wanted job is reported by a comment and its commit status does not
\* stay pending, each unless the very call that does it raised: neither depends on the
\* other or on the update of the row.
THEOREM FailuresAreReported == Spec => []FailureIsReported
<1>1. IInv /\ ResultInv => FailureIsReported
  BY DEF IInv, WantedInv, ResultInv, WantedOk, Reported, FailureIsReported
<1> QED
  BY <1>1, Results, PTL

\* A commit turns green only with the review of a job for that commit, cancellations that
\* strike while the status is posted included.
THEOREM GreenIsReviewed == Spec => []GreenMeansReviewed
<1>1. ResultInv => GreenMeansReviewed
  BY DEF ResultInv
<1> QED
  BY <1>1, Results, PTL

\* No row leaves failed or cancelled, and a settled job's row and posts stay.
THEOREM FinalIsFinal == Spec => FinalRowsStay
<1>1. (\A i \in Jobs : Final(i)) => \A j \in Jobs :
         /\ row[j] \in {"failed", "cancelled"} => row'[j] = row[j]
         /\ row[j] \in Terminal => row'[j] \in Terminal
         /\ at[j] = "settled" => row'[j] = row[j] /\ posted'[j] = posted[j]
  BY DEF Final
<1>2. IInv /\ ResultInv /\ [Next]_vars => [\A j \in Jobs :
         /\ row[j] \in {"failed", "cancelled"} => row'[j] = row[j]
         /\ row[j] \in Terminal => row'[j] \in Terminal
         /\ at[j] = "settled" => row'[j] = row[j] /\ posted'[j] = posted[j]]_vars
  BY <1>1, NextResult
<1> QED
  BY <1>2, Results, PTL DEF Spec, FinalRowsStay

-----------------------------------------------------------------------------
(* The queue implements ReviewSlots, its fairness aside.                   *)

LEMMA Phases ==
  /\ PhaseOf("new") = "new" /\ PhaseOf("create") = "new"
  /\ PhaseOf("rejected") = "rejected"
  /\ PhaseOf("queued") = "waiting" /\ PhaseOf("held") = "waiting"
  /\ PhaseOf("saveSkipped") = "waiting"
  /\ PhaseOf("settled") = "over"
  /\ \A place \in InTask : PhaseOf(place) = "running"
BY DEF PhaseOf, InTask, Running, Ended, Body, Cleanup

PhaseVar == [j \in Jobs |-> PhaseOf(at[j])]

\* A step that moves one job between places of the same phase, or of two.
LEMMA PhaseMoves ==
  ASSUME IInv, NEW j \in Jobs, NEW place, Goto(j, place)
  PROVE  /\ PhaseVar' = [PhaseVar EXCEPT ![j] = PhaseOf(place)]
         /\ PhaseVar[j] = PhaseOf(at[j])
<1>1. at' = [at EXCEPT ![j] = place] /\ DOMAIN at = Jobs
  BY DEF IInv, TypeOK, Goto
<1> QED
  BY <1>1 DEF PhaseVar

LEMMA PhaseSame ==
  ASSUME IInv, NEW j \in Jobs, NEW place, Goto(j, place), PhaseOf(place) = PhaseOf(at[j])
  PROVE  UNCHANGED PhaseVar
BY PhaseMoves DEF PhaseVar

\* Every step of the queue is a step of the slots or leaves them unchanged.
LEMMA StepSimulates ==
  ASSUME IInv, [Next]_vars
  PROVE  [Slots!Next]_(Slots!vars)
<1> USE DEF Slots!vars, PhaseVar
<1>1. ASSUME NEW p \in PRs, Push(p)
      PROVE  UNCHANGED Slots!vars
  BY <1>1 DEF Push, stopVars, events
<1>2. ASSUME NEW p \in PRs, CancelPR(p)
      PROVE  Slots!Close(p)
  BY <1>2 DEF CancelPR, stopVars, Slots!Close
<1>3. ASSUME NEW j \in Jobs, EnqueueBegin(j)
      PROVE  UNCHANGED Slots!vars
  BY <1>3, PhaseSame, Phases DEF EnqueueBegin, stopVars, events
<1>4. ASSUME NEW j \in Jobs, EnqueueStored(j)
      PROVE  Slots!Accept(j)
  <2>1. stopping = "no"
    BY <1>4 DEF IInv, LockInv, EnqueueStored
  <2> QED
    BY <1>4, <2>1, PhaseMoves, Phases DEF EnqueueStored, stopVars, Slots!Accept, Slots!Move
<1>5. ASSUME NEW j \in Jobs, EnqueueFails(j)
      PROVE  Slots!Reject(j)
  BY <1>5, PhaseMoves, Phases DEF EnqueueFails, stopVars, events, Slots!Reject, Slots!Move
<1>6. ASSUME NEW j \in Jobs, TaskStep(j)
      PROVE  UNCHANGED Slots!vars
  <2>1. PICK place \in InTask : Moves(j, place)
    BY <1>6, TaskMoves
  <2>2. PhaseOf(place) = "running" /\ PhaseOf(at[j]) = "running"
    BY <2>1, Phases DEF Moves, InTask
  <2> QED
    BY <2>1, <2>2, PhaseSame, Phases DEF Moves, Goto, stopVars, events
<1>7. CASE WorkerGet
  <2>1. Head(queue) \in Jobs /\ at[Head(queue)] = "queued"
    BY <1>7, HeadTail DEF WorkerGet, IInv, TypeOK, QueueInv
  <2>2. PhaseOf("held") = PhaseOf("queued")
    BY Phases
  <2> QED
    BY <1>7, <2>1, <2>2, PhaseSame, Phases DEF WorkerGet, stopVars, events
<1>8. ASSUME NEW j \in Jobs, WorkerStart(j)
      PROVE  Slots!Start(j)
  <2>1. wanted[prOf[j]] = j
    BY <1>8 DEF IInv, WantedInv, OnlyWantedLive, Live, WorkerStart
  <2>2. \A i \in Jobs : PhaseVar[i] # "running"
    <3> SUFFICES ASSUME NEW i \in Jobs PROVE PhaseOf(at[i]) # "running"
      OBVIOUS
    <3>1. at[i] \in {"new", "create", "rejected", "queued", "settled", "held"}
      BY <1>8 DEF IInv, TypeOK, At, HandInv, InHand, WorkerStart
    <3> QED
      BY <3>1, Phases
  <2> QED
    BY <1>8, <2>1, <2>2, PhaseMoves, Phases DEF WorkerStart, InTask, Running, stopVars, events,
         Slots!Start, Slots!Move
<1>9. ASSUME NEW j \in Jobs, WorkerSkip(j)
      PROVE  UNCHANGED Slots!vars
  BY <1>9, PhaseSame, Phases DEF WorkerSkip, stopVars, events
<1>10. ASSUME NEW j \in Jobs, WorkerSkipped(j)
       PROVE  Slots!Drop(j)
  <2>1. wanted[prOf[j]] # j
    BY <1>10 DEF IInv, WantedInv, WorkerSkipped
  <2> QED
    BY <1>10, <2>1, PhaseMoves, Phases DEF WorkerSkipped, TaskDone, stopVars, events, Slots!Drop,
       Slots!Move
<1>11. ASSUME NEW j \in Jobs, WorkerReap(j)
       PROVE  Slots!Finish(j)
  BY <1>11, PhaseMoves, Phases DEF WorkerReap, TaskDone, stopVars, events, InTask, Running,
       Ended, Body, Cleanup, Slots!Finish, Slots!Move
<1>12. CASE WorkerCancelled
  <2>1. CASE hand = NoJob /\ UNCHANGED at
    BY <1>12, <2>1 DEF WorkerCancelled, stopVars, events
  <2>2. ASSUME NEW j \in Jobs, at[j] \in {"held", "saveSkipped"}, TaskDone(j)
        PROVE  Slots!Drop(j)
    BY <1>12, <2>2, PhaseMoves, Phases DEF WorkerCancelled, TaskDone, stopVars, events, InTask,
         Running, Ended, Body, Cleanup, Slots!Drop, Slots!Move
  <2> QED
    BY <1>12, <2>1, <2>2 DEF WorkerCancelled, Slots!Next
<1>13. CASE StopBegin
  BY <1>13 DEF StopBegin, events, Slots!Next, Slots!Shut
<1>14. CASE StopStep
  BY <1>14 DEF StopStep, StopDrained, StopGathered, StopReturns, events
<1>15. CASE UNCHANGED vars
  BY <1>15 DEF vars, stopVars, events
<1> QED
  BY <1>1, <1>2, <1>3, <1>4, <1>5, <1>6, <1>7, <1>8, <1>9, <1>10, <1>11, <1>12, <1>13, <1>14,
     <1>15 DEF Next, EnqueueStep, WorkerStep, Slots!Next

\* Whatever the interleaving, the queue behaves as newest-wins slots served one
\* at a time (the safety part of KeepsItsPromise).
THEOREM Implements == Spec => Slots!Init /\ [][Slots!Next]_(Slots!vars)
<1>1. Init => Slots!Init
  BY Phases DEF Init, Slots!Init
<1>2. IInv /\ [Next]_vars => [Slots!Next]_(Slots!vars)
  BY StepSimulates
<1> QED
  BY <1>1, <1>2, Invariance, PTL DEF Spec

-----------------------------------------------------------------------------
(* Progress: the safety half of WantedGetsReviewed and StopTerminates.  A  *)
(* step never leads a job back, and until everything is settled there is a *)
(* step to take.                                                           *)

\* The awaits of a job's coroutine, in the order in which it can reach them.
Rank ==
  [place \in At |->
     CASE place = "new" -> 0            [] place = "create" -> 1
       [] place \in {"rejected", "queued"} -> 2
       [] place = "held" -> 3           [] place \in {"saveSkipped", "starting"} -> 4
       [] place = "saveStarted" -> 5    [] place = "checkHead" -> 6
       [] place = "postPending" -> 7    [] place = "review" -> 8
       [] place = "saveCompleted" -> 9  [] place = "postSuccess" -> 10
       [] place \in {"saveCancelled", "saveStale", "saveFailed"} -> 11
       [] place = "postError" -> 12     [] place = "postComment" -> 13
       [] place \in Ended -> 14         [] place = "settled" -> 15]

\* Job j goes to a later await, and no other job moves.
GoesOn(j) ==
  /\ \A i \in Jobs \ {j} : at'[i] = at[i]
  /\ Rank[at'[j]] > Rank[at[j]]

\* A step of a coroutine moves one job on; all others are a push, a close, the next
\* stage of stop() or the end of an idle worker, of which there are finitely many.
GoesForward ==
  \/ \E j \in Jobs : GoesOn(j)
  \/ /\ UNCHANGED at
     /\ \/ \E p \in PRs : Push(p) \/ CancelPR(p)
        \/ StopBegin \/ StopStep
        \/ alive /\ ~alive'

LEMMA Ranks ==
  /\ \A place \in At : Rank[place] \in 0..15
  /\ Rank["new"] = 0 /\ Rank["create"] = 1 /\ Rank["rejected"] = 2 /\ Rank["queued"] = 2
  /\ Rank["held"] = 3 /\ Rank["saveSkipped"] = 4 /\ Rank["settled"] = 15
  /\ \A place \in InTask : Rank[place] \in 4..14
  /\ \A place \in Ended : Rank[place] = 14
  /\ \A place \in Running : Rank[place] < 14
  /\ \A place \in {"starting"} \cup Body : Rank[place] < 11
  /\ \A place \in {"saveCancelled", "saveStale", "saveFailed"} : Rank[place] = 11
  /\ Rank["starting"] = 4 /\ Rank["saveStarted"] = 5
  /\ \A call \in Body \cup Cleanup : After(call) \in At /\ Rank[After(call)] > Rank[call]
BY DEF Rank, At, InTask, Running, Ended, Body, Cleanup, After, NextAwait

\* One job's move to a later await.
LEMMA MoveGoesOn ==
  ASSUME IInv, NEW j \in Jobs, NEW place, Goto(j, place), Rank[place] > Rank[at[j]]
  PROVE  GoesOn(j)
BY DEF IInv, TypeOK, Goto, GoesOn

LEMMA TaskGoesOn ==
  ASSUME IInv, NEW j \in Jobs, TaskStep(j)
  PROVE  GoesOn(j)
<1> USE Ranks, MoveGoesOn
<1>1. CASE TaskStart(j)
  BY <1>1 DEF TaskStart, Ended
<1>2. CASE CallReturns(j)
  BY <1>2 DEF CallReturns
<1>3. CASE CallStale(j)
  BY <1>3 DEF CallStale, Body
<1>4. CASE CallFails(j)
  <2>1. CASE at[j] \in Body
    BY <1>4, <2>1 DEF CallFails
  <2>2. CASE at[j] \notin Body
    BY <1>4, <2>2 DEF CallFails, Logged
  <2> QED
    BY <2>1, <2>2
<1>5. CASE CancelDelivered(j)
  <2>1. CASE at[j] \in Body
    BY <1>5, <2>1 DEF CancelDelivered, OnCancel
  <2>2. CASE at[j] \notin Body
    BY <1>5, <2>2 DEF CancelDelivered, OnCancel, Running, Ended
  <2> QED
    BY <2>1, <2>2
<1> QED
  BY <1>1, <1>2, <1>3, <1>4, <1>5 DEF TaskStep

LEMMA WorkerGoesOn ==
  ASSUME IInv, WorkerStep
  PROVE  GoesForward
<1> USE Ranks, MoveGoesOn
<1>1. CASE WorkerGet
  <2>1. Head(queue) \in Jobs /\ at[Head(queue)] = "queued"
    BY <1>1, HeadTail DEF WorkerGet, IInv, TypeOK, QueueInv
  <2> QED
    BY <1>1, <2>1 DEF WorkerGet, GoesForward
<1>2. ASSUME NEW j \in Jobs, WorkerStart(j) PROVE GoesForward
  BY <1>2 DEF WorkerStart, GoesForward
<1>3. ASSUME NEW j \in Jobs, WorkerSkip(j) PROVE GoesForward
  BY <1>3 DEF WorkerSkip, GoesForward
<1>4. ASSUME NEW j \in Jobs, WorkerSkipped(j) PROVE GoesForward
  BY <1>4 DEF WorkerSkipped, TaskDone, GoesForward
<1>5. ASSUME NEW j \in Jobs, WorkerReap(j) PROVE GoesForward
  BY <1>5 DEF WorkerReap, TaskDone, GoesForward
<1>6. CASE WorkerCancelled
  <2>1. ASSUME NEW j \in Jobs, at[j] \in {"held", "saveSkipped"}, TaskDone(j)
        PROVE  GoesForward
    BY <2>1 DEF TaskDone, GoesForward
  <2>2. CASE UNCHANGED at
    BY <1>6, <2>2 DEF WorkerCancelled, GoesForward
  <2> QED
    BY <1>6, <2>1, <2>2 DEF WorkerCancelled
<1> QED
  BY <1>1, <1>2, <1>3, <1>4, <1>5, <1>6 DEF WorkerStep

LEMMA StepGoesForward ==
  ASSUME IInv, Next
  PROVE  GoesForward
<1>1. ASSUME NEW p \in PRs, Push(p) \/ CancelPR(p) PROVE GoesForward
  BY <1>1 DEF Push, CancelPR, GoesForward
<1>2. ASSUME NEW j \in Jobs, EnqueueBegin(j) \/ EnqueueStep(j) PROVE GoesForward
  BY <1>2, Ranks, MoveGoesOn
     DEF EnqueueBegin, EnqueueStep, EnqueueStored, EnqueueFails, GoesForward
<1>3. ASSUME NEW j \in Jobs, TaskStep(j) PROVE GoesForward
  BY <1>3, TaskGoesOn DEF GoesForward
<1>4. CASE StopBegin \/ StopStep
  BY <1>4 DEF StopBegin, StopStep, StopDrained, StopGathered, StopReturns, GoesForward
<1> QED
  BY <1>1, <1>2, <1>3, <1>4, WorkerGoesOn DEF Next

\* No job is run twice or sent back, by whatever interleaving of handlers, worker,
\* cancellations and failures: _run_job and its except blocks make at most nine
\* awaits, and every step of the queue uses up one, an event or a stage of stop().
EachStepGoesForward == [][GoesForward]_vars

THEOREM NothingIsRunTwice == Spec => EachStepGoesForward
<1>1. IInv /\ [Next]_vars => [GoesForward]_vars
  BY StepGoesForward
<1> QED
  BY <1>1, Invariance, PTL DEF Spec, EachStepGoesForward

\* What some coroutine is ready to do, or waits for from outside the queue: each is
\* the guard of an action.
Ready ==
  \/ \E j \in Jobs :
       \/ at[j] \in Running                                         \* TaskStep
       \/ at[j] = "create" /\ \A i \in Jobs : at[i] # "starting"    \* EnqueueStored
       \/ hand = j /\ at[j] \in Ended                               \* WorkerReap
       \/ at[j] = "held" /\ lock = NoJob /\ stopping # "ending"     \* WorkerStart, WorkerSkip
       \/ at[j] = "saveSkipped" /\ stopping # "ending"              \* WorkerSkipped
       \/ at[j] \in {"held", "saveSkipped"} /\ hand = j             \* WorkerCancelled
            /\ stopping = "ending" /\ alive
  \/ alive /\ hand = NoJob /\ (queue # <<>> \/ stopping = "ending") \* WorkerGet, WorkerCancelled
  \/ stopping = "draining"                                          \* StopDrained
  \/ stopping = "gathering" /\ \A j \in doomed : at[j] \notin Running   \* StopGathered
  \/ stopping = "ending" /\ ~alive                                  \* StopReturns

\* An accepted job that is not settled, or a stop() that has not returned.
Outstanding ==
  \/ stopping = "no" /\ \E j \in Jobs : at[j] \notin {"new", "rejected", "settled"}
  \/ stopping \in {"draining", "gathering", "ending"}

\* The worker waits for the lock, its holder for the tasks about to start, stop()
\* for the tasks and the worker: never does each wait for another.
NobodyWaitsInACircle == Outstanding => Ready

THEOREM NoDeadlock == Spec => []NobodyWaitsInACircle
<1>1. ASSUME IInv, Outstanding, ~Ready PROVE FALSE
  <2>1. /\ \A j \in Jobs : at[j] \notin Running
        /\ \A j \in Jobs : at[j] # "create"
        /\ \A j \in Jobs : hand = j => at[j] \notin Ended
    BY <1>1 DEF Ready, Running
  <2>2. lock = NoJob
    BY <2>1, <1>1 DEF IInv, TypeOK, LockInv
  <2>3. \A j \in Jobs : at[j] \notin InHand
    BY <1>1, <2>1, <2>2 DEF IInv, HandInv, InHand, InTask, Ready
  <2>4. hand = NoJob
    BY <1>1, <2>3 DEF IInv, TypeOK, HandInv
  <2>5. CASE stopping = "no"
    <3>1. PICK j \in Jobs : at[j] \notin {"new", "rejected", "settled"}
      BY <1>1, <2>5 DEF Outstanding
    <3>2. at[j] = "queued"
      BY <1>1, <2>1, <2>3, <3>1 DEF IInv, TypeOK, At, InHand
    <3>3. queue # <<>> /\ alive
      BY <1>1, <2>5, <3>2 DEF IInv, QueueInv, HandInv
    <3> QED
      BY <1>1, <2>4, <3>3 DEF Ready
  <2>6. CASE stopping # "no"
    <3>1. \A j \in doomed : at[j] \notin Running
      BY <1>1, <2>1 DEF IInv, TypeOK
    <3> QED
      BY <1>1, <2>4, <2>6, <3>1 DEF Outstanding, Ready, IInv, TypeOK
  <2> QED
    BY <2>5, <2>6
<1>2. IInv => NobodyWaitsInACircle
  BY <1>1 DEF NobodyWaitsInACircle
<1> QED
  BY <1>2, Invariance, PTL

=============================================================================
