---------------------------- MODULE LifespanProofs ----------------------------
(***************************************************************************)
(* Proofs about Lifespan: what CodeIndexProofs shows of the index tasks    *)
(* holds through shutdowns, cancellations, crashes and restarts, and no    *)
(* task outlives the clients it uses.  The steps of CodeIndex are steps    *)
(* here, so only those of the process need an argument.                    *)
(***************************************************************************)
EXTENDS Lifespan, CodeIndexProofs

\* What the process adds: no request is handled once it stops serving, the loop
\* over `pending` has every task that is left, each of them has begun, so that its
\* finally clause will run, and none is left at the end.
ProcessInv ==
  /\ phase # "serving" => \A t \in Tasks : stage[t] # "sha"
  /\ phase = "cancelling" => bg_tasks \subseteq pending /\ \A t \in Tasks : ~Unbegun(t)
  /\ phase = "closed" => \A t \in Tasks : ~Active(t)

IndexInv == TypeOK /\ OneFullIndex /\ ReindexInv

LifeInv == IndexInv /\ ProcessInv

\* Some tasks end where they are, or never begin; nothing else changes.
Halt(H) ==
  /\ stage' = [t \in Tasks |-> IF t \in H THEN "done" ELSE stage[t]]
  /\ UNCHANGED <<head, store, indexed, target, progress, alone>>

LEMMA HaltKeepsTypes ==
  ASSUME TypeOK, NEW H \in SUBSET Tasks, Halt(H), inFlight' \in BOOLEAN
  PROVE  TypeOK'
<1>1. stage' \in [Tasks -> Stages]
  BY DEF Halt, TypeOK, Stages, Indexing
<1>2. ASSUME NEW t \in Tasks, stage'[t] \in Indexing \cup {"fired", "begin"} PROVE target'[t] # 0
  BY <1>2 DEF Halt, TypeOK, Indexing
<1> QED
  BY <1>1, <1>2 DEF Halt, progress, TypeOK

LEMMA HaltKeepsReindex ==
  ASSUME TypeOK, ReindexInv, NEW H \in SUBSET Tasks, Halt(H)
  PROVE  ReindexInv'
<1>1. UNCHANGED <<store, target, calls, failed, wrote, before, alone>>
  BY DEF Halt, progress
<1>2. \A t \in Tasks : stage'[t] = stage[t] \/ stage'[t] = "done"
  BY DEF Halt
<1>3. PointsAreTrue'
  BY <1>1 DEF ReindexInv, PointsAreTrue
<1>4. AloneIsAlone'
  BY <1>1, <1>2 DEF ReindexInv, AloneIsAlone, Active
<1>5. FullShape'
  BY <1>1, <1>2 DEF ReindexInv, FullShape, IsFull, FilesAt
<1>6. ASSUME NEW t \in Tasks, Undisturbed(t)' PROVE Progress(t)'
  <2>1. stage'[t] = stage[t] /\ Undisturbed(t)
    BY <1>1, <1>2, <1>6 DEF Undisturbed, IsFull
  <2>2. Progress(t)
    BY <2>1 DEF ReindexInv
  <2> QED
    BY <1>1, <2>1, <2>2 DEF Progress, IsPut, HasPoints
<1> QED
  BY <1>3, <1>4, <1>5, <1>6 DEF ReindexInv

LEMMA InitLife == LifeInit => LifeInv
  BY InitTypeOK, InitKey, InitReindex DEF LifeInit, LifeInv, IndexInv, ProcessInv

\* The index's own steps.
LEMMA OwnSteps == IndexInv /\ [Next]_vars => IndexInv'
  BY StepTypeOK, StepKey, StepReindex DEF IndexInv

LEMMA CancelSteps ==
  ASSUME IndexInv, NEW t \in Tasks, Active(t), ~Unbegun(t), stage[t] # "sha", Cancelled(t)
  PROVE  IndexInv'
<1>1. stage \in [Tasks -> Stages] /\ inFlight \in BOOLEAN
  BY DEF IndexInv, TypeOK
<1>2. Halt({t})
  BY <1>1 DEF Cancelled, End, Goto, Halt
<1>3. inFlight' \in BOOLEAN
  BY <1>1 DEF Cancelled, End, DiscardKey
<1>4. /\ \A u \in Tasks \ {t} : FullIndexing(u)' <=> FullIndexing(u)
      /\ ~FullIndexing(t)'
  BY <1>2 DEF Halt, FullIndexing, IsFull, Indexing
<1>5. OneFullIndex'
  <2>1. CASE FullIndexing(t)
    <3>1. inFlight' = FALSE
      BY <2>1 DEF Cancelled, End, DiscardKey, FullIndexing, Indexing
    <3>2. \A u \in Tasks : FullIndexing(u) => u = t
      BY <2>1 DEF IndexInv, OneFullIndex
    <3> QED
      BY <1>4, <3>1, <3>2 DEF OneFullIndex
  <2>2. CASE ~FullIndexing(t)
    <3>1. ~IsFull(t)
      BY <1>1, <2>2 DEF IndexInv, ReindexInv, FullShape, FullIndexing, Active, Unbegun, Stages, Indexing
    <3>2. inFlight' = inFlight
      BY <3>1 DEF Cancelled, End
    <3>3. \A u \in Tasks : FullIndexing(u)' <=> FullIndexing(u)
      BY <1>4, <2>2
    <3> QED
      BY <3>2, <3>3 DEF IndexInv, OneFullIndex
  <2> QED
    BY <2>1, <2>2
<1> QED
  BY <1>2, <1>3, <1>5, HaltKeepsTypes, HaltKeepsReindex DEF IndexInv

LEMMA CrashSteps == IndexInv /\ Crash => IndexInv'
<1> SUFFICES ASSUME IndexInv, Crash PROVE IndexInv'
  OBVIOUS
<1>1. Halt({t \in Tasks : Active(t)})
  BY DEF Crash, Halt
<1>2. inFlight' = FALSE
  BY DEF Crash
<1>3. \A t \in Tasks : ~FullIndexing(t)'
  BY DEF Crash, FullIndexing, Active, Indexing
<1>4. OneFullIndex'
  BY <1>2, <1>3 DEF OneFullIndex
<1> QED
  BY <1>1, <1>2, <1>4, HaltKeepsTypes, HaltKeepsReindex DEF IndexInv

LEMMA LossSteps ==
  ASSUME IndexInv, NEW t \in Tasks, EventLost(t) \/ PushIgnored(t)
  PROVE  IndexInv'
<1>1. stage \in [Tasks -> Stages] /\ inFlight' = inFlight /\ inFlight \in BOOLEAN
  BY DEF IndexInv, TypeOK, EventLost, PushIgnored
<1>2. Halt({t}) /\ stage[t] = "idle"
  BY <1>1 DEF EventLost, PushIgnored, Goto, Halt
<1>3. \A u \in Tasks : FullIndexing(u)' <=> FullIndexing(u)
  BY <1>2 DEF Halt, FullIndexing, IsFull, Indexing
<1>4. OneFullIndex'
  BY <1>1, <1>3 DEF IndexInv, OneFullIndex
<1> QED
  BY <1>1, <1>2, <1>4, HaltKeepsTypes, HaltKeepsReindex DEF IndexInv

LEMMA StepIndex == LifeInv /\ [LifeNext]_lifeVars => IndexInv'
<1> SUFFICES ASSUME LifeInv, [LifeNext]_lifeVars PROVE IndexInv'
  OBVIOUS
<1>0. IndexInv /\ ProcessInv
  BY DEF LifeInv
<1>1. CASE UNCHANGED vars
  BY <1>1, <1>0, OwnSteps
<1>2. CASE Advance
  BY <1>2, <1>0, OwnSteps DEF Next
<1>3. ASSUME NEW t \in Tasks, Event(t) \/ TaskRuns(t) PROVE IndexInv'
  BY <1>3, <1>0, OwnSteps DEF Event, TaskRuns, Next
<1>4. ASSUME NEW t \in Tasks, CancelPending(t) PROVE IndexInv'
  BY <1>0, <1>1, <1>4, CancelSteps DEF CancelPending, CancelAndAwait, ProcessInv
<1> QED
  BY <1>0, <1>1, <1>2, <1>3, <1>4, CrashSteps, LossSteps
     DEF LifeNext, ShutdownBegins, ShutdownStep, DrainEnds, CloseClients, Restart, lifeVars

\* A task's step wakes up no task, and none goes back to reading the branch.
LEMMA TasksOnlyEnd ==
  ASSUME TypeOK, NEW t \in Tasks, TaskStep(t)
  PROVE  /\ Active(t)
         /\ \A u \in Tasks : Active(u)' => Active(u)
         /\ \A u \in Tasks : stage'[u] = "sha" => stage[u] = "sha"
         /\ \A u \in Tasks : Unbegun(u)' => Unbegun(u) \/ stage[u] = "sha"
<1>1. stage \in [Tasks -> Stages]
  BY DEF TypeOK
<1>2. Active(t)
  BY DEF TaskStep, Active, PushTask, AdminSha, AdminTask, Tree, RemovalsDone, FilesDone, RemoveFile,
         ClearFile, PutFile, Sweep, SaveSha, DropPoints, ForgetBranch
<1>3. UNCHANGED stage \/ \E place \in Stages \ {"sha"} : Goto(t, place)
  BY DEF TaskStep, PushTask, AdminSha, AdminTask, Tree, RemovalsDone, FilesDone, RemoveFile,
         ClearFile, PutFile, Sweep, SaveSha, DropPoints, ForgetBranch, End, AfterFiles,
         Stages, Indexing
<1>4. \A u \in Tasks \ {t} : stage'[u] = stage[u]
  BY <1>1, <1>3 DEF Goto
<1>5. stage'[t] = "sha" => stage[t] = "sha"
  BY <1>1, <1>3 DEF Goto
<1>6. UNCHANGED stage \/ AdminSha(t) \/ \E place \in Stages \ {"fired", "begin"} : Goto(t, place)
  BY DEF TaskStep, PushTask, AdminTask, Tree, RemovalsDone, FilesDone, RemoveFile,
         ClearFile, PutFile, Sweep, SaveSha, DropPoints, ForgetBranch, End, AfterFiles,
         Stages, Indexing
<1>7. Unbegun(t)' => Unbegun(t) \/ stage[t] = "sha"
  BY <1>1, <1>6 DEF Unbegun, Goto, AdminSha
<1> QED
  BY <1>2, <1>4, <1>5, <1>7 DEF Active, Unbegun

LEMMA StepProcess == LifeInv /\ [LifeNext]_lifeVars => ProcessInv'
<1> SUFFICES ASSUME LifeInv, [LifeNext]_lifeVars PROVE ProcessInv'
  OBVIOUS
<1>1. TypeOK /\ ProcessInv /\ stage \in [Tasks -> Stages]
  BY DEF LifeInv, IndexInv, TypeOK
\* The process stays where it is and no task is woken up.
<1>2. ASSUME UNCHANGED <<phase, pending>>,
             \A u \in Tasks : Active(u)' => Active(u),
             \A u \in Tasks : stage'[u] = "sha" => stage[u] = "sha",
             \A u \in Tasks : Unbegun(u)' => Unbegun(u) \/ stage[u] = "sha"
      PROVE  ProcessInv'
  BY <1>1, <1>2 DEF ProcessInv, bg_tasks, Active
<1>3. CASE UNCHANGED <<stage, phase, pending>>
  BY <1>2, <1>3 DEF Active, Unbegun
<1>4. ASSUME NEW t \in Tasks, Event(t), UNCHANGED process PROVE ProcessInv'
  BY <1>4 DEF Event, process, ProcessInv
<1>5. ASSUME NEW t \in Tasks, TaskRuns(t) PROVE ProcessInv'
  BY <1>1, <1>2, <1>5, TasksOnlyEnd DEF TaskRuns, process
<1>6. CASE ShutdownBegins
  BY <1>6 DEF ShutdownBegins, ProcessInv, bg_tasks, vars, Active
<1>7. CASE DrainEnds
  BY <1>1, <1>7 DEF DrainEnds, ProcessInv, bg_tasks, vars, Active, Unbegun
<1>8. ASSUME NEW t \in Tasks, CancelPending(t) PROVE ProcessInv'
  <2>1. /\ phase = "cancelling" /\ phase' = "cancelling" /\ pending' = pending \ {t}
        /\ \A u \in Tasks : stage[u] # "sha" /\ ~Unbegun(u) /\ (Active(u) => u \in pending)
    BY <1>1, <1>8 DEF CancelPending, ProcessInv, bg_tasks
  <2>2. /\ \A u \in Tasks \ {t} : stage'[u] = stage[u]
        /\ ~Active(t)' /\ stage'[t] # "sha" /\ ~Unbegun(t)'
    BY <1>1, <1>8, <2>1
       DEF CancelPending, CancelAndAwait, Cancelled, End, Goto, Active, Unbegun, vars
  <2> QED
    BY <2>1, <2>2 DEF ProcessInv, bg_tasks, Active, Unbegun
<1>9. CASE CloseClients
  BY <1>1, <1>9 DEF CloseClients, AllAwaited, ProcessInv, bg_tasks, vars, Active
<1>10. CASE Crash
  BY <1>1, <1>10 DEF Crash, ProcessInv, Active
<1>11. CASE Restart
  BY <1>11 DEF Restart, ProcessInv
<1>12. ASSUME NEW t \in Tasks, EventLost(t) \/ PushIgnored(t) PROVE ProcessInv'
  BY <1>1, <1>2, <1>12 DEF EventLost, PushIgnored, Goto, process, Active, Unbegun
<1> QED
  BY <1>3, <1>4, <1>5, <1>6, <1>7, <1>8, <1>9, <1>10, <1>11, <1>12
     DEF LifeNext, ShutdownStep, Advance, process, vars, lifeVars

THEOREM LifeInvariant == LifeSpec => []LifeInv
<1>1. LifeInv /\ [LifeNext]_lifeVars => LifeInv'
  BY StepIndex, StepProcess DEF LifeInv
<1> QED
  BY <1>1, InitLife, PTL DEF LifeSpec

\* No index task outlives the clients: at the end of lifespan, and while the
\* process is down, none is active and the branch is not locked.
THEOREM ClosedMeansQuiet == LifeSpec => []NothingUsesClosedClients
<1>1. LifeInv => NothingUsesClosedClients
  <2> SUFFICES ASSUME LifeInv, phase = "closed" PROVE bg_tasks = {} /\ ~inFlight
    BY DEF NothingUsesClosedClients
  <2>1. \A t \in Tasks : ~Active(t)
    BY DEF LifeInv, ProcessInv
  <2>2. \A t \in Tasks : ~FullIndexing(t)
    BY <2>1 DEF FullIndexing, Active, Indexing
  <2> QED
    BY <2>1, <2>2 DEF bg_tasks, LifeInv, IndexInv, OneFullIndex
<1> QED
  BY <1>1, LifeInvariant, PTL

\* Across shutdowns, crashes and restarts the key says exactly whether a full
\* re-index is under way, so no restart leaves the branch locked.
THEOREM KeySurvivesRestarts == LifeSpec => []OneFullIndex
<1>1. LifeInv => OneFullIndex
  BY DEF LifeInv, IndexInv
<1> QED
  BY <1>1, LifeInvariant, PTL

\* Whatever cancelled and crashed tasks left in the index, a full re-index that
\* runs alone makes it exact before it records its commit.
THEOREM RepairsAfterCrash == LifeSpec => []FullIndexRepairs
<1>1. LifeInv => FullIndexRepairs
  BY InvRepairs DEF LifeInv, IndexInv
<1> QED
  BY <1>1, LifeInvariant, PTL

\* ... and takes no file's points away on the way, if the file keeps content.
THEOREM NeverEmptyAfterCrash == LifeSpec => []NeverEmptyMidReindex
<1>1. LifeInv => NeverEmptyMidReindex
  BY InvNeverEmpty DEF LifeInv, IndexInv
<1> QED
  BY <1>1, LifeInvariant, PTL

\* No cancellation or crash, between whichever two calls, leaves a point whose text or
\* place is not what the commit it is tagged with gives it.
THEOREM TruthSurvivesCrashes == LifeSpec => []PointsAreTrue
<1>1. LifeInv => PointsAreTrue
  BY DEF LifeInv, IndexInv, ReindexInv
<1> QED
  BY <1>1, LifeInvariant, PTL

LEMMA HaltKeepsCalls ==
  ASSUME CallsFit, NEW H \in SUBSET Tasks, Halt(H)
  PROVE  CallsFit'
BY DEF CallsFit, Halt, progress

LEMMA StepCalls == IndexInv /\ CallsFit /\ [LifeNext]_lifeVars => CallsFit'
<1> SUFFICES ASSUME IndexInv, CallsFit, [LifeNext]_lifeVars PROVE CallsFit'
  OBVIOUS
<1>1. TypeOK /\ stage \in [Tasks -> Stages]
  BY DEF IndexInv, TypeOK
<1>2. CASE [Next]_vars
  BY <1>1, <1>2, StepCallsFit
<1>3. ASSUME NEW t \in Tasks, Event(t) \/ TaskRuns(t) PROVE [Next]_vars
  BY <1>3 DEF Event, TaskRuns, Next
<1>4. ASSUME NEW t \in Tasks, Goto(t, "done"), UNCHANGED calls PROVE CallsFit'
  BY <1>1, <1>4 DEF CallsFit, Goto
<1>5. ASSUME NEW t \in Tasks, CancelPending(t) PROVE CallsFit'
  BY <1>2, <1>4, <1>5 DEF CancelPending, CancelAndAwait, Cancelled, End, progress
<1>6. ASSUME NEW t \in Tasks, EventLost(t) \/ PushIgnored(t) PROVE CallsFit'
  BY <1>4, <1>6 DEF EventLost, PushIgnored, progress
<1>7. CASE Crash
  <2>1. Halt({t \in Tasks : Active(t)})
    BY <1>7 DEF Crash, Halt
  <2> QED
    BY <2>1, HaltKeepsCalls
<1> QED
  BY <1>2, <1>3, <1>5, <1>6, <1>7
     DEF LifeNext, Next, ShutdownBegins, ShutdownStep, DrainEnds, CloseClients, Restart, lifeVars

\* Through cancellations, crashes and restarts: a task under way waits for an answer,
\* and so does the one that holds the branch's key.
THEOREM NeverStuckAfterCrash == LifeSpec => []NoTaskIsStuck
<1>1. LifeInit => CallsFit
  BY DEF LifeInit, Init, CallsFit
<1>2. LifeInv => IndexInv
  BY DEF LifeInv
<1>3. IndexInv /\ CallsFit => NoTaskIsStuck
  BY InvNeverStuck DEF IndexInv
<1> QED
  BY <1>1, <1>2, <1>3, StepCalls, LifeInvariant, PTL DEF LifeSpec

(***************************************************************************)
(* What is whole stays whole                                               *)
(*                                                                         *)
(* RepairedStaysComplete looks at the index between tasks; the invariant   *)
(* also says how far an undisturbed update has come: a file is as the new  *)
(* commit has it, or is still to be removed or cleared, or has no points   *)
(* and is still to be put.                                                 *)
(***************************************************************************)

ExactAt(c, f) ==
  \A s \in Slots : store[<<f, s>>].ver = IF s \in ChunksAt(c, f) THEN text[c][f] ELSE 0

Updating == {"fired", "removing", "files", "save"}

\* Task t takes an index that is whole one commit further, or repeats the last.
Continues(t) ==
  intact /\ alone[t] /\ ~IsFull(t) /\ stage[t] \in Updating /\ target[t] \in {indexed, indexed + 1}

FileIsOn(t, f) ==
  \/ ExactAt(target[t], f)
  \/ stage[t] = "removing" /\ (f \in Edited(target[t]) \/ <<"remove", f>> \in calls[t])
  \/ stage[t] = "files" /\ (<<"clear", f>> \in calls[t] \/ <<"put", f>> \in calls[t])

UpdateProgress(t) ==
  /\ stage[t] = "fired" => Complete(indexed)
  /\ stage[t] = "removing" => \A f \in Files : <<"remove", f>> \in calls[t] => f \in Removed(target[t])
  /\ stage[t] = "files" => \A f \in Files : <<"put", f>> \in calls[t] => ~HasPoints(f)
  /\ stage[t] # "fired" /\ ~failed[t] => \A f \in Files : FileIsOn(t, f)
  /\ stage[t] = "save" => ~failed[t]

FullOnly == \A t \in Tasks : stage[t] \in {"sha", "begin", "tree", "sweep"} => IsFull(t)

WholeInv ==
  /\ RepairedStaysComplete
  /\ FullOnly
  /\ \A t \in Tasks : Continues(t) => UpdateProgress(t)
  /\ \A t \in Tasks : alone[t] /\ stage[t] = "forget" => \A p \in Files \X Slots : store[p] = NoPoint

LEMMA CompleteIsExact ==
  ASSUME NEW c
  PROVE  Complete(c) <=> \A f \in Files : ExactAt(c, f)
  BY DEF Complete, ExactAt

\* A file that a commit does not touch is the same before and after it.
LEMMA UntouchedStays ==
  ASSUME NEW c \in Commits, NEW f \in Files, f \notin Edited(c), f \notin Removed(c),
         NEW i \in 0..MaxCommit, c \in {i, i + 1}, ExactAt(i, f)
  PROVE  ExactAt(c, f)
<1>1. MaxCommit \in Nat /\ text[c][f] \in {0, c, text[c - 1][f]}
  BY CommitsAssumption DEF Commits
<1>2. text[c][f] = text[c - 1][f]
  BY <1>1 DEF Edited, Removed
<1>3. i = c \/ i = c - 1
  BY <1>1 DEF Commits
<1>4. text[i][f] = text[c][f]
  BY <1>2, <1>3
<1>5. ChunksAt(i, f) = ChunksAt(c, f)
  BY <1>4 DEF ChunksAt
<1> QED
  BY <1>4, <1>5 DEF ExactAt

\* No points is exact for a file that is not there.
LEMMA AbsentIsExact ==
  ASSUME NEW c, NEW f \in Files, text[c][f] = 0, \A s \in Slots : store'[<<f, s>>] = NoPoint
  PROVE  ExactAt(c, f)'
  BY DEF ExactAt, ChunksAt, NoPoint

\* What does not touch the points of a file leaves it as exact as it was.
LEMMA ExactStays ==
  ASSUME NEW c, NEW f \in Files, \A s \in Slots : store'[<<f, s>>] = store[<<f, s>>]
  PROVE  /\ ExactAt(c, f)' <=> ExactAt(c, f)
         /\ HasPoints(f)' <=> HasPoints(f)
  BY DEF ExactAt, ChunksAt, HasPoints, NoPoint

LEMMA InitWhole == LifeInit => WholeInv
<1> SUFFICES ASSUME LifeInit PROVE WholeInv
  OBVIOUS
<1>1. MaxCommit \in Nat /\ \A f \in Files : text[0][f] = 0
  BY CommitsAssumption
<1>2. \A f \in Files : ChunksAt(0, f) = {}
  BY <1>1 DEF ChunksAt
<1>3. \A f \in Files : \A s \in Slots : store[<<f, s>>].ver = 0
  BY DEF LifeInit, Init, NoPoint
<1>4. Complete(indexed)
  BY <1>2, <1>3 DEF Complete, LifeInit, Init
<1> QED
  BY <1>4 DEF WholeInv, RepairedStaysComplete, FullOnly, Continues, Updating, LifeInit, Init

\* Steps that change neither the index nor the tasks.
LEMMA WholeUnchanged ==
  ASSUME WholeInv, UNCHANGED <<store, indexed, stage, target, calls, failed, alone, intact>>
  PROVE  WholeInv'
  BY DEF WholeInv, RepairedStaysComplete, Quiet, Active, Complete, ChunksAt, FullOnly, IsFull, Continues,
         UpdateProgress, FileIsOn, ExactAt, HasPoints, Edited, Removed

\* Tasks end with the index in an unknown state.
LEMMA WholeHalted ==
  ASSUME TypeOK, WholeInv, NEW H \in SUBSET Tasks, Halt(H),
         intact' => intact /\ \A t \in H : ~Active(t)
  PROVE  WholeInv'
<1>1. UNCHANGED <<store, indexed, target, calls, failed, alone>>
  BY DEF Halt, progress
<1>2. \A t \in Tasks : stage'[t] = stage[t] \/ (t \in H /\ stage'[t] = "done")
  BY DEF Halt
<1>3. RepairedStaysComplete'
  <2>1. SUFFICES ASSUME Quiet', intact' PROVE Complete(indexed)'
    BY DEF RepairedStaysComplete
  <2>2. Quiet /\ intact
    BY <1>2, <2>1 DEF Quiet, Active
  <2>3. Complete(indexed)
    BY <2>2 DEF WholeInv, RepairedStaysComplete
  <2> QED
    BY <1>1, <2>3 DEF Complete, ChunksAt
<1>4. FullOnly'
  BY <1>2 DEF WholeInv, FullOnly, IsFull
<1>5. ASSUME NEW t \in Tasks, Continues(t)' PROVE UpdateProgress(t)'
  <2>1. stage'[t] = stage[t] /\ Continues(t)
    BY <1>1, <1>2, <1>5 DEF Continues, Updating, IsFull
  <2>2. UpdateProgress(t)
    BY <2>1 DEF WholeInv
  <2> QED
    BY <1>1, <2>1, <2>2 DEF UpdateProgress, Complete, ChunksAt, FileIsOn, ExactAt, HasPoints, Edited, Removed
<1>6. \A t \in Tasks : alone'[t] /\ stage'[t] = "forget" => \A p \in Files \X Slots : store'[p] = NoPoint
  BY <1>1, <1>2 DEF WholeInv
<1> QED
  BY <1>3, <1>4, <1>5, <1>6 DEF WholeInv, NoPoint

\* A task that arrives while another is active disturbs it; one that arrives
\* when all is quiet finds the index as it was left.
LEMMA WholeArrival ==
  ASSUME IndexInv, WholeInv, NEW t \in Tasks, Event(t), UNCHANGED intact
  PROVE  WholeInv'
<1>1. stage \in [Tasks -> Stages] /\ alone \in [Tasks -> BOOLEAN] /\ target \in [Tasks -> 0..MaxCommit]
  BY DEF IndexInv, TypeOK
<1>2. PICK place \in {"fired", "sha", "done", "drop"} : Arrive(t, place)
  BY DEF Event, PushWebhook, AdminRequest, DeleteWebhook
<1>3. /\ stage[t] = "idle" /\ stage'[t] = place
      /\ \A u \in Tasks \ {t} : stage'[u] = stage[u]
      /\ alone'[t] <=> Quiet
      /\ \A u \in Tasks \ {t} : alone'[u] <=> alone[u] /\ ~Active(u)
  BY <1>1, <1>2 DEF Arrive, Goto, Quiet
<1>4. UNCHANGED <<store, indexed, calls, failed>>
  BY DEF Event, PushWebhook, AdminRequest, DeleteWebhook, progress
<1>5. Complete(indexed)' <=> Complete(indexed)
  BY <1>4 DEF Complete, ChunksAt
<1>6. place = "done" => inFlight /\ ~Quiet
  <2>1. SUFFICES ASSUME place = "done" PROVE inFlight /\ ~Quiet
    OBVIOUS
  <2>2. inFlight
    <3>1. \A other \in {"fired", "drop", "sha"} : ~Arrive(t, other)
      BY <1>1, <1>3, <2>1 DEF Arrive, Goto
    <3> QED
      BY <3>1 DEF Event, PushWebhook, AdminRequest, DeleteWebhook
  <2> QED
    BY <2>2 DEF IndexInv, OneFullIndex, FullIndexing, Quiet, Active, Indexing
<1>7. RepairedStaysComplete'
  <2>1. ~Quiet'
    <3>1. CASE place = "done"
      <4>1. PICK u \in Tasks : Active(u)
        BY <1>6, <3>1 DEF Quiet
      <4>2. u # t
        BY <1>3, <4>1 DEF Active
      <4> QED
        BY <1>3, <4>1, <4>2 DEF Quiet, Active
    <3>2. CASE place # "done"
      BY <1>2, <1>3, <3>2 DEF Quiet, Active
    <3> QED
      BY <3>1, <3>2
  <2> QED
    BY <2>1 DEF RepairedStaysComplete
<1>8. FullOnly'
  <2>1. place = "sha" => IsFull(t)
    BY <1>2, <1>3 DEF Event, PushWebhook, AdminRequest, DeleteWebhook, Arrive, Goto, IsFull
  <2> QED
    BY <1>2, <1>3, <2>1 DEF WholeInv, FullOnly, IsFull
<1>9. ASSUME NEW u \in Tasks, Continues(u)' PROVE UpdateProgress(u)'
  <2>1. u = t
    BY <1>3, <1>9 DEF Continues, Updating, Active
  <2>2. stage'[u] = "fired"
    BY <1>2, <1>3, <1>9, <2>1 DEF Continues, Updating
  <2>3. Quiet /\ intact
    BY <1>3, <1>9, <2>1 DEF Continues
  <2>4. Complete(indexed)'
    BY <1>5, <2>3 DEF WholeInv, RepairedStaysComplete
  <2> QED
    BY <2>2, <2>4 DEF UpdateProgress
<1>10. ASSUME NEW u \in Tasks, alone'[u], stage'[u] = "forget" PROVE FALSE
  BY <1>2, <1>3, <1>10 DEF Active
<1> QED
  BY <1>7, <1>8, <1>9, <1>10 DEF WholeInv

\* An undisturbed task's own step: it is enough to look at that task.
LEMMA WholeOwnStep ==
  ASSUME IndexInv, WholeInv, NEW t \in Tasks, Active(t), NEW place \in Stages \ {"idle"},
         Goto(t, place), UNCHANGED alone,
         \A u \in Tasks \ {t} : target'[u] = target[u],
         place \in {"sha", "begin", "tree", "sweep"} => IsFull(t),
         place = "done" /\ intact' => Complete(indexed)',
         alone[t] /\ place = "forget" => \A p \in Files \X Slots : store'[p] = NoPoint,
         Continues(t)' => UpdateProgress(t)'
  PROVE  WholeInv'
<1>1. /\ stage'[t] = place
      /\ \A u \in Tasks \ {t} : stage'[u] = stage[u]
  BY DEF Goto, IndexInv, TypeOK
<1>2. ASSUME NEW u \in Tasks \ {t}, alone'[u] PROVE ~Active(u)'
  BY <1>1, <1>2 DEF IndexInv, ReindexInv, AloneIsAlone, Active
<1>3. RepairedStaysComplete'
  BY <1>1 DEF RepairedStaysComplete, Quiet, Active
<1>4. FullOnly'
  BY <1>1 DEF WholeInv, FullOnly, IsFull
<1>5. \A u \in Tasks \ {t} : ~Continues(u)'
  BY <1>2 DEF Continues, Updating, Active
<1>6. \A u \in Tasks \ {t} : alone'[u] => stage'[u] # "forget"
  BY <1>2 DEF Active
<1> QED
  BY <1>1, <1>3, <1>4, <1>5, <1>6 DEF WholeInv

\* A step of the task that leaves it in an update of the same commit.
LEMMA StillContinues ==
  ASSUME NEW t \in Tasks, Continues(t)', Active(t), stage[t] \in Updating,
         UNCHANGED <<indexed, target, alone>>,
         intact' = IF Active(t) /\ stage'[t] = "done" THEN Outcome(t) ELSE intact
  PROVE  Continues(t)
<1>1. stage'[t] # "done"
  BY DEF Continues, Updating
<1> QED
  BY <1>1 DEF Continues, IsFull

LEMMA WholeTaskStep ==
  ASSUME IndexInv, WholeInv, NEW t \in Tasks, TaskRuns(t)
  PROVE  WholeInv'
<1>1. /\ stage \in [Tasks -> Stages] /\ target \in [Tasks -> 0..MaxCommit]
      /\ calls \in [Tasks -> SUBSET CallSet] /\ failed \in [Tasks -> BOOLEAN]
      /\ indexed \in 0..MaxCommit /\ MaxCommit \in Nat
  BY CommitsAssumption DEF IndexInv, TypeOK, CallSet
<1>2. Active(t) /\ intact' = IF Active(t) /\ stage'[t] = "done" THEN Outcome(t) ELSE intact
  BY TasksOnlyEnd DEF TaskRuns, IndexInv
<1>3. stage[t] \in Indexing \cup {"fired", "begin"} => target[t] \in Commits
  BY <1>1 DEF IndexInv, TypeOK, Commits
\* The task ends: it is whole only by one of the ways Outcome lists.
<1>4. ASSUME Goto(t, "done"), UNCHANGED <<target, alone>>, UNCHANGED store,
             stage[t] = "save" /\ ~IsFull(t) /\ Continues(t) => Complete(target[t])'
      PROVE  WholeInv'
  <2>1. stage'[t] = "done"
    BY <1>1, <1>4 DEF Goto
  <2>2. ASSUME intact' PROVE Complete(indexed)'
    <3>1. Outcome(t)
      BY <1>2, <2>1, <2>2
    <3>2. CASE stage[t] = "save" /\ IsFull(t) /\ wrote[t]
      <4>1. Complete(target[t])
        BY <3>1, <3>2, InvRepairs DEF IndexInv, FullIndexRepairs, Outcome
      <4> QED
        BY <1>4, <3>1, <3>2, <4>1 DEF Outcome, Complete, ChunksAt
    <3>3. CASE stage[t] = "save" /\ ~IsFull(t)
      <4>1. Continues(t) /\ indexed' = target[t]
        BY <3>1, <3>3 DEF Outcome, Continues, Updating
      <4> QED
        BY <1>4, <3>3, <4>1 DEF Complete, ChunksAt
    <3>4. CASE stage[t] = "forget"
      <4>1. \A p \in Files \X Slots : store'[p] = NoPoint
        BY <1>4, <3>1, <3>4 DEF WholeInv, Outcome
      <4>2. \A f \in Files : text[0][f] = 0
        BY CommitsAssumption
      <4>3. indexed' = 0
        BY <3>1, <3>4 DEF Outcome
      <4> QED
        BY <4>1, <4>2, <4>3 DEF Complete, ChunksAt, NoPoint
    <3> QED
      BY <3>1, <3>2, <3>3, <3>4 DEF Outcome
  <2>3. ~Continues(t)'
    BY <2>1 DEF Continues, Updating
  <2> QED
    BY <1>2, <1>4, <2>2, <2>3, WholeOwnStep DEF Stages
\* The task goes on, outside of an update.
<1>5. ASSUME NEW place \in {"begin", "tree", "files", "sweep", "save"}, Goto(t, place), IsFull(t),
             \A u \in Tasks \ {t} : target'[u] = target[u], UNCHANGED alone
      PROVE  WholeInv'
  <2>1. ~Continues(t)'
    BY <1>5 DEF Continues, IsFull
  <2> QED
    BY <1>2, <1>5, <2>1, WholeOwnStep DEF Stages, Indexing
\* A call for one of the task's files: it is enough to look at that file.
<1>6. ASSUME NEW f \in Files, NEW call, Made(t, call) \/ calls' = [calls EXCEPT ![t] = (@ \ {<<"clear", f>>}) \cup {<<"put", f>>}],
             stage[t] \in {"removing", "files"}, UNCHANGED <<stage, target, alone, indexed>>,
             \A u \in Tasks \ {t} : target'[u] = target[u],
             call \in {"remove", "clear", "put"} \X {f},
             failed[t] => failed'[t],
             \A g \in Files \ {f} : \A s \in Slots : store'[<<g, s>>] = store[<<g, s>>],
             Continues(t) /\ UpdateProgress(t) =>
               /\ ~failed'[t] => FileIsOn(t, f)'
               /\ stage[t] = "files" => (<<"put", f>> \in calls'[t] => ~HasPoints(f)')
               /\ stage[t] = "removing" => (<<"remove", f>> \in calls'[t] => f \in Removed(target[t]))
      PROVE  WholeInv'
  <2>1. ASSUME Continues(t)' PROVE UpdateProgress(t)'
    <3>1. Continues(t) /\ UpdateProgress(t)
      BY <1>2, <1>6, <2>1, StillContinues DEF Updating, WholeInv
    <3>2. ASSUME NEW g \in Files \ {f}
          PROVE  /\ \A c : ExactAt(c, g)' <=> ExactAt(c, g)
                 /\ HasPoints(g)' <=> HasPoints(g)
                 /\ \A k \in {"remove", "clear", "put"} : <<k, g>> \in calls'[t] <=> <<k, g>> \in calls[t]
      <4>1. \A s \in Slots : store'[<<g, s>>] = store[<<g, s>>]
        BY <1>6
      <4>2. \A c : (ExactAt(c, g)' <=> ExactAt(c, g)) /\ (HasPoints(g)' <=> HasPoints(g))
        BY <4>1, ExactStays
      <4>3. \A k \in {"remove", "clear", "put"} : <<k, g>> \in calls'[t] <=> <<k, g>> \in calls[t]
        BY <1>1, <1>6 DEF Made
      <4> QED
        BY <4>2, <4>3
    <3>3. ASSUME NEW g \in Files \ {f}, ~failed'[t] PROVE FileIsOn(t, g)'
      <4>1. FileIsOn(t, g) /\ target'[t] = target[t] /\ stage'[t] = stage[t]
        BY <1>6, <3>1, <3>3 DEF UpdateProgress
      <4> QED
        BY <3>2, <4>1 DEF FileIsOn, Edited
    <3> QED
      BY <1>6, <3>1, <3>2, <3>3 DEF UpdateProgress, Removed
  <2>2. Goto(t, stage[t])
    BY <1>1, <1>6 DEF Goto
  <2> QED
    BY <1>2, <1>6, <2>1, <2>2, WholeOwnStep DEF Stages, Indexing
<1>7. CASE PushTask(t)
  <2>1. stage[t] = "fired" /\ UNCHANGED <<store, indexed, target, failed, alone>>
    BY <1>7, TasksOnlyEnd DEF PushTask
  <2>2. CASE Goto(t, "done")
    BY <1>4, <2>1, <2>2
  <2>3. CASE Goto(t, "tree") /\ IsFull(t)
    BY <1>5, <2>1, <2>3
  <2>4. CASE /\ Goto(t, "removing") /\ ~IsFull(t)
             /\ calls' = [calls EXCEPT ![t] = {"remove"} \X Removed(target[t])]
    <3>1. calls'[t] = {"remove"} \X Removed(target[t]) /\ stage'[t] = "removing"
      BY <1>1, <2>4 DEF Goto
    <3>2. ASSUME Continues(t)' PROVE UpdateProgress(t)'
      <4>1. Continues(t) /\ Complete(indexed)
        BY <1>2, <2>1, <3>2, StillContinues DEF Updating, WholeInv, UpdateProgress
      <4>2. ASSUME NEW f \in Files PROVE FileIsOn(t, f)'
        <5>1. CASE f \in Edited(target[t]) \/ f \in Removed(target[t])
          BY <2>1, <3>1, <5>1 DEF FileIsOn, Edited
        <5>2. CASE f \notin Edited(target[t]) /\ f \notin Removed(target[t])
          <6>1. ExactAt(indexed, f)
            BY <4>1, CompleteIsExact
          <6>2. ExactAt(target[t], f)
            BY <1>1, <1>3, <2>1, <4>1, <5>2, <6>1, UntouchedStays DEF Continues
          <6> QED
            BY <2>1, <6>2 DEF FileIsOn, ExactAt, ChunksAt
        <5> QED
          BY <5>1, <5>2
      <4> QED
        BY <2>1, <3>1, <4>2 DEF UpdateProgress, Removed
    <3> QED
      BY <1>2, <2>1, <2>4, <3>2, WholeOwnStep DEF Stages, Indexing
  <2> QED
    BY <1>7, <2>2, <2>3, <2>4 DEF PushTask
<1>8. CASE AdminSha(t)
  <2>1. IsFull(t) /\ stage[t] = "sha" /\ UNCHANGED <<store, alone>>
    BY <1>8 DEF AdminSha, WholeInv, FullOnly
  <2>2. CASE Goto(t, "begin") /\ target' = [target EXCEPT ![t] = head]
    BY <1>1, <1>5, <2>1, <2>2
  <2>3. CASE End(t) /\ UNCHANGED target
    BY <1>4, <2>1, <2>3 DEF End
  <2> QED
    BY <1>8, <2>2, <2>3 DEF AdminSha
<1>9. CASE Tree(t)
  <2>1. IsFull(t) /\ UNCHANGED <<store, target, alone>>
    BY <1>9 DEF Tree, WholeInv, FullOnly
  <2> QED
    BY <1>4, <1>5, <1>9, <2>1 DEF Tree, End
<1>10. CASE RemovalsDone(t)
  <2>1. /\ stage[t] = "removing" /\ calls[t] = {} /\ UNCHANGED <<store, indexed, target, failed, alone>>
        /\ Goto(t, "files") /\ stage'[t] = "files"
        /\ calls'[t] = FileCalls(t, Edited(target[t]))
    BY <1>1, <1>10 DEF RemovalsDone, Goto
  <2>2. ASSUME Continues(t)' PROVE UpdateProgress(t)'
    <3>1. Continues(t) /\ UpdateProgress(t)
      BY <1>2, <2>1, <2>2, StillContinues DEF Updating, WholeInv
    <3>2. calls'[t] = {"clear"} \X Edited(target[t])
      BY <2>1, <3>1 DEF FileCalls, PreDelete, Continues
    <3>3. ASSUME NEW f \in Files, ~failed'[t] PROVE FileIsOn(t, f)'
      <4>1. FileIsOn(t, f)
        BY <2>1, <3>1, <3>3 DEF UpdateProgress
      <4>2. ExactAt(target[t], f) \/ f \in Edited(target[t])
        BY <2>1, <4>1 DEF FileIsOn
      <4>3. ExactAt(target[t], f)' <=> ExactAt(target[t], f)
        BY <2>1 DEF ExactAt, ChunksAt
      <4> QED
        BY <2>1, <3>2, <4>2, <4>3 DEF FileIsOn
    <3> QED
      BY <2>1, <3>2, <3>3 DEF UpdateProgress
  <2> QED
    BY <1>2, <2>1, <2>2, WholeOwnStep DEF Stages, Indexing
<1>11. CASE FilesDone(t)
  <2>1. /\ stage[t] = "files" /\ calls[t] = {}
        /\ UNCHANGED <<store, indexed, target, calls, failed, alone>>
    BY <1>11 DEF FilesDone, progress
  <2>2. CASE AfterFiles(t) = "done"
    BY <1>4, <1>11, <2>1, <2>2 DEF FilesDone, End
  <2>3. CASE AfterFiles(t) # "done"
    <3>1. Goto(t, AfterFiles(t)) /\ ~failed[t]
      BY <1>11, <2>3 DEF FilesDone, AfterFiles
    <3>2. CASE IsFull(t)
      BY <1>5, <2>1, <2>3, <3>1, <3>2 DEF AfterFiles
    <3>3. CASE ~IsFull(t)
      <4>1. Goto(t, "save") /\ stage'[t] = "save"
        BY <1>1, <2>3, <3>1, <3>3 DEF AfterFiles, Goto
      <4>2. ASSUME Continues(t)' PROVE UpdateProgress(t)'
        <5>1. Continues(t) /\ UpdateProgress(t)
          BY <1>2, <2>1, <4>2, StillContinues DEF Updating, WholeInv
        <5>2. \A f \in Files : ExactAt(target[t], f)
          BY <2>1, <3>1, <5>1 DEF UpdateProgress, FileIsOn
        <5>3. \A f \in Files : FileIsOn(t, f)'
          BY <2>1, <5>2 DEF FileIsOn, ExactAt, ChunksAt
        <5> QED
          BY <2>1, <3>1, <4>1, <5>3 DEF UpdateProgress
      <4> QED
        BY <1>2, <2>1, <4>1, <4>2, WholeOwnStep DEF Stages, Indexing
    <3> QED
      BY <3>2, <3>3
  <2> QED
    BY <2>2, <2>3
<1>12. ASSUME NEW f \in Files, RemoveFile(t, f) PROVE WholeInv'
  <2>1. /\ stage[t] = "removing" /\ <<"remove", f>> \in calls[t] /\ Made(t, <<"remove", f>>)
        /\ UNCHANGED <<stage, target, alone, indexed>> /\ (failed[t] => failed'[t])
        /\ \A g \in Files \ {f} : \A s \in Slots : store'[<<g, s>>] = store[<<g, s>>]
    BY <1>1, <1>12 DEF RemoveFile
  <2>2. <<"remove", f>> \notin calls'[t]
    BY <1>1, <2>1 DEF Made
  <2>3. ASSUME Continues(t), UpdateProgress(t), ~failed'[t] PROVE FileIsOn(t, f)'
    <3>1. text[target[t]][f] = 0
      BY <2>1, <2>3 DEF UpdateProgress, Removed
    <3>2. \A s \in Slots : store'[<<f, s>>] = NoPoint
      BY <1>1, <1>12, <2>3 DEF RemoveFile
    <3>3. ExactAt(target[t], f)'
      BY <2>1, <3>1, <3>2, AbsentIsExact
    <3> QED
      BY <3>3 DEF FileIsOn
  <2> QED
    BY <1>6, <2>1, <2>2, <2>3
<1>13. ASSUME NEW f \in Files, ClearFile(t, f) PROVE WholeInv'
  <2>1. /\ stage[t] = "files" /\ <<"clear", f>> \in calls[t]
        /\ UNCHANGED <<stage, target, alone, indexed>> /\ (failed[t] => failed'[t])
        /\ \A g \in Files \ {f} : \A s \in Slots : store'[<<g, s>>] = store[<<g, s>>]
    BY <1>1, <1>13 DEF ClearFile
  <2>2. CASE /\ \A s \in Slots : store'[<<f, s>>] = NoPoint
             /\ calls' = [calls EXCEPT ![t] = (@ \ {<<"clear", f>>}) \cup {<<"put", f>>}]
    <3>1. <<"put", f>> \in calls'[t] /\ ~HasPoints(f)'
      BY <1>1, <2>2 DEF HasPoints, NoPoint
    <3>2. FileIsOn(t, f)'
      BY <2>1, <3>1 DEF FileIsOn
    <3>3. <<"clear", f>> \in {"remove", "clear", "put"} \X {f}
      OBVIOUS
    <3>4. \A u \in Tasks \ {t} : target'[u] = target[u]
      BY <2>1
    <3>5. stage[t] # "removing" /\ stage[t] \in {"removing", "files"}
      BY <2>1
    <3> QED
      BY <1>6, <2>1, <2>2, <3>1, <3>2, <3>3, <3>4, <3>5
  <2>3. CASE Made(t, <<"clear", f>>) /\ failed' = [failed EXCEPT ![t] = TRUE] /\ UNCHANGED store
    <3>1. failed'[t]
      BY <1>1, <2>3
    <3>2. <<"put", f>> \in calls'[t] <=> <<"put", f>> \in calls[t]
      BY <1>1, <2>3 DEF Made
    <3>3. HasPoints(f)' <=> HasPoints(f)
      BY <2>3 DEF HasPoints, NoPoint
    <3>4. Continues(t) /\ UpdateProgress(t) => (<<"put", f>> \in calls'[t] => ~HasPoints(f)')
      BY <2>1, <3>2, <3>3 DEF UpdateProgress
    <3> QED
      BY <1>6, <2>1, <2>3, <3>1, <3>4
  <2> QED
    BY <1>13, <2>2, <2>3 DEF ClearFile
<1>14. ASSUME NEW f \in Files, PutFile(t, f) PROVE WholeInv'
  <2>1. /\ stage[t] = "files" /\ <<"put", f>> \in calls[t] /\ Made(t, <<"put", f>>)
        /\ UNCHANGED <<stage, target, alone, indexed>> /\ (failed[t] => failed'[t])
    BY <1>1, <1>14 DEF PutFile
  <2>2. PICK S \in SUBSET ChunksAt(target[t], f) :
          store' = Written(t, f, S) /\ (S = ChunksAt(target[t], f) \/ failed'[t])
    BY <1>1, <1>14 DEF PutFile
  <2>3. \A g \in Files \ {f} : \A s \in Slots : store'[<<g, s>>] = store[<<g, s>>]
    BY <2>2 DEF Written
  <2>4. <<"put", f>> \notin calls'[t]
    BY <1>1, <2>1 DEF Made
  <2>5. ASSUME Continues(t), UpdateProgress(t), ~failed'[t] PROVE FileIsOn(t, f)'
    <3>1. \A s \in Slots : store[<<f, s>>] = NoPoint
      BY <2>1, <2>5 DEF UpdateProgress, HasPoints
    <3>2. \A s \in Slots :
            store'[<<f, s>>].ver = IF s \in ChunksAt(target[t], f) THEN text[target[t]][f] ELSE 0
      BY <2>2, <2>5, <3>1 DEF Written, NoPoint
    <3>3. ExactAt(target[t], f)'
      BY <2>1, <3>2 DEF ExactAt, ChunksAt
    <3> QED
      BY <2>1, <3>3 DEF FileIsOn
  <2> QED
    BY <1>6, <2>1, <2>3, <2>4, <2>5
<1>15. CASE Sweep(t)
  <2>1. IsFull(t) /\ stage[t] = "sweep" /\ UNCHANGED <<target, alone>>
    BY <1>15 DEF Sweep, WholeInv, FullOnly
  <2> QED
    BY <1>4, <1>5, <1>15, <2>1 DEF Sweep, End
<1>16. CASE SaveSha(t)
  <2>1. stage[t] = "save" /\ Goto(t, "done") /\ UNCHANGED <<store, target, alone>>
    BY <1>16 DEF SaveSha, End
  <2>2. ASSUME Continues(t) PROVE Complete(target[t])'
    <3>1. UpdateProgress(t)
      BY <2>2 DEF WholeInv
    <3>2. \A f \in Files : ExactAt(target[t], f)
      BY <2>1, <3>1 DEF UpdateProgress, FileIsOn
    <3>3. Complete(target[t])
      BY <3>2, CompleteIsExact
    <3> QED
      BY <2>1, <3>3 DEF Complete, ChunksAt
  <2> QED
    BY <1>4, <2>1, <2>2
<1>17. CASE DropPoints(t)
  <2>1. stage[t] = "drop" /\ UNCHANGED <<target, alone>>
    BY <1>17 DEF DropPoints
  <2>2. CASE Goto(t, "done") /\ UNCHANGED store
    BY <1>4, <2>1, <2>2
  <2>3. CASE Goto(t, "forget") /\ store' = [p \in Files \X Slots |-> NoPoint]
    <3>1. ~Continues(t)'
      BY <1>1, <2>3 DEF Goto, Continues, Updating
    <3> QED
      BY <1>2, <2>1, <2>3, <3>1, WholeOwnStep DEF Stages, Indexing
  <2> QED
    BY <1>17, <2>2, <2>3 DEF DropPoints
<1>18. CASE ForgetBranch(t)
  BY <1>4, <1>18 DEF ForgetBranch
<1>19. CASE AdminTask(t)
  <2>1. IsFull(t) /\ UNCHANGED <<target, alone>>
    BY <1>19 DEF AdminTask, WholeInv, FullOnly
  <2> QED
    BY <1>5, <1>19, <2>1 DEF AdminTask
<1> QED
  BY <1>7, <1>8, <1>9, <1>10, <1>11, <1>12, <1>13, <1>14, <1>15, <1>16, <1>17, <1>18, <1>19
     DEF TaskRuns, TaskStep

LEMMA StepWhole == IndexInv /\ WholeInv /\ [LifeNext]_lifeVars => WholeInv'
<1> SUFFICES ASSUME IndexInv, WholeInv, [LifeNext]_lifeVars PROVE WholeInv'
  OBVIOUS
<1>1. CASE UNCHANGED <<vars, intact>>
  BY <1>1, WholeUnchanged DEF vars, progress
<1>2. CASE Advance /\ UNCHANGED intact
  BY <1>2, WholeUnchanged DEF Advance, progress
<1>3. ASSUME NEW t \in Tasks, CancelPending(t) PROVE WholeInv'
  <2>1. CASE Active(t)
    <3>1. Halt({t}) /\ ~intact'
      BY <1>3, <2>1 DEF CancelPending, CancelAndAwait, Cancelled, End, Goto, Halt, IndexInv, TypeOK
    <3> QED
      BY <3>1, WholeHalted DEF IndexInv
  <2>2. CASE ~Active(t)
    <3>1. Halt({})
      BY <1>3, <2>2 DEF CancelPending, CancelAndAwait, Halt, IndexInv, TypeOK, vars, progress
    <3>2. intact' => intact
      BY <1>3 DEF CancelPending
    <3> QED
      BY <3>1, <3>2, WholeHalted DEF IndexInv
  <2> QED
    BY <2>1, <2>2
<1>4. CASE Crash
  <2>1. Halt({t \in Tasks : Active(t)})
    BY <1>4 DEF Crash, Halt
  <2>2. intact' => intact /\ Quiet
    BY <1>4 DEF Crash
  <2> QED
    BY <2>1, <2>2, WholeHalted DEF IndexInv, Quiet
<1>5. ASSUME NEW t \in Tasks, EventLost(t) \/ PushIgnored(t) PROVE WholeInv'
  <2>1. Halt({t}) /\ ~Active(t) /\ intact' = intact
    BY <1>5 DEF EventLost, PushIgnored, Goto, Halt, IndexInv, TypeOK, Active
  <2> QED
    BY <2>1, WholeHalted DEF IndexInv
<1> QED
  BY <1>1, <1>2, <1>3, <1>4, <1>5, WholeArrival, WholeTaskStep
     DEF LifeNext, ShutdownBegins, ShutdownStep, DrainEnds, CloseClients, Restart, lifeVars

\* An index that a full re-index has made whole is exactly that of its recorded
\* commit between tasks, while updates are in order and none is cut short.
THEOREM RepairLasts == LifeSpec => []RepairedStaysComplete
<1>1. LifeInv /\ WholeInv /\ [LifeNext]_lifeVars => WholeInv'
  BY StepWhole DEF LifeInv
<1>2. LifeSpec => []WholeInv
  BY <1>1, InitWhole, LifeInvariant, PTL DEF LifeSpec
<1>3. WholeInv => RepairedStaysComplete
  BY DEF WholeInv
<1> QED
  BY <1>2, <1>3, PTL

=============================================================================
