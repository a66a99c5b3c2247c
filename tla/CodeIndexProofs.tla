---------------------------- MODULE CodeIndexProofs ----------------------------
(***************************************************************************)
(* Proofs about CodeIndex, for any files, commits, chunks, tasks and       *)
(* failures.  Three inductive invariants, each used by the next: the types,*)
(* the in-flight key, and what a full re-index has achieved so far.        *)
(***************************************************************************)
EXTENDS CodeIndex, TLAPS

(***************************************************************************)
(* Types                                                                   *)
(***************************************************************************)

Points == [ver : 0..MaxCommit, tag : 0..MaxCommit]
CallSet == {"remove", "clear", "put"} \X Files

LEMMA InitTypeOK == Init => TypeOK
<1> SUFFICES ASSUME Init PROVE TypeOK
  OBVIOUS
<1>1. MaxCommit \in Nat
  BY CommitsAssumption
<1>2. store \in [Files \X Slots -> Points]
  BY <1>1 DEF Init, NoPoint, Points
<1>3. head \in 0..MaxCommit /\ indexed \in 0..MaxCommit /\ target \in [Tasks -> 0..MaxCommit]
  BY <1>1 DEF Init
<1>4. calls \in [Tasks -> SUBSET CallSet]
  BY DEF Init
<1> QED
  BY <1>2, <1>3, <1>4 DEF Init, TypeOK, Stages, Indexing, Points, CallSet

\* What deletes points, or writes some of a file's chunks, keeps the store's type.
LEMMA StoreTypes ==
  ASSUME TypeOK
  PROVE  /\ [p \in Files \X Slots |-> NoPoint] \in [Files \X Slots -> Points]
         /\ \A f : [p \in Files \X Slots |-> IF p[1] = f THEN NoPoint ELSE store[p]]
                     \in [Files \X Slots -> Points]
         /\ \A c : [p \in Files \X Slots |-> IF store[p].tag = c THEN store[p] ELSE NoPoint]
                     \in [Files \X Slots -> Points]
         /\ \A t \in Tasks, f \in Files, S \in SUBSET Slots :
              Written(t, f, S) \in [Files \X Slots -> Points]
<1>1. NoPoint \in Points
  BY CommitsAssumption DEF NoPoint, Points
<1>2. store \in [Files \X Slots -> Points]
  BY DEF TypeOK, Points
<1>3. ASSUME NEW t \in Tasks, NEW f \in Files, NEW S \in SUBSET Slots
      PROVE  Written(t, f, S) \in [Files \X Slots -> Points]
  <2>1. target[t] \in 0..MaxCommit
    BY DEF TypeOK
  <2>2. text[target[t]][f] \in 0..MaxCommit
    BY <2>1, CommitsAssumption
  <2>3. [ver |-> text[target[t]][f], tag |-> target[t]] \in Points
    BY <2>1, <2>2 DEF Points
  <2> QED
    BY <1>2, <2>3 DEF Written
<1> QED
  BY <1>1, <1>2, <1>3

LEMMA ChunkSlots ==
  ASSUME NEW c \in 0..MaxCommit, NEW f \in Files
  PROVE  ChunksAt(c, f) \in SUBSET Slots
<1>1. text[c][f] \in 0..MaxCommit
  BY CommitsAssumption
<1>2. CASE text[c][f] = 0
  BY <1>2 DEF ChunksAt
<1>3. CASE text[c][f] # 0
  <2>1. text[c][f] \in 1..MaxCommit
    BY <1>1, <1>3, CommitsAssumption
  <2>2. chunks \in [Commits -> [Files -> SUBSET Slots]]
    BY CommitsAssumption
  <2> QED
    BY <1>3, <2>1, <2>2 DEF ChunksAt, Commits
<1> QED
  BY <1>2, <1>3

LEMMA StepTypeOK == TypeOK /\ [Next]_vars => TypeOK'
<1> SUFFICES ASSUME TypeOK, [Next]_vars PROVE TypeOK'
  OBVIOUS
<1>0. MaxCommit \in Nat
  BY CommitsAssumption
<1>a. store \in [Files \X Slots -> Points]
  BY DEF TypeOK, Points
<1>b. calls \in [Tasks -> SUBSET CallSet]
  BY DEF TypeOK, CallSet
\* It is enough to type the new points and the new calls.
<1>c. ASSUME store' \in [Files \X Slots -> Points], calls' \in [Tasks -> SUBSET CallSet],
             head' \in 0..MaxCommit, indexed' \in 0..MaxCommit, inFlight' \in BOOLEAN,
             stage' \in [Tasks -> Stages], target' \in [Tasks -> 0..MaxCommit],
             \A t \in Tasks : stage'[t] \in Indexing \cup {"fired", "begin"} => target'[t] # 0,
             failed' \in [Tasks -> BOOLEAN], wrote' \in [Tasks -> BOOLEAN],
             alone' \in [Tasks -> BOOLEAN], before' \in [Tasks -> SUBSET Files]
      PROVE  TypeOK'
  BY <1>c DEF TypeOK, Points, CallSet
<1> DEFINE Small ==
      /\ head' \in 0..MaxCommit /\ indexed' \in 0..MaxCommit /\ inFlight' \in BOOLEAN
      /\ stage' \in [Tasks -> Stages] /\ target' \in [Tasks -> 0..MaxCommit]
      /\ \A t \in Tasks : stage'[t] \in Indexing \cup {"fired", "begin"} => target'[t] # 0
      /\ failed' \in [Tasks -> BOOLEAN] /\ wrote' \in [Tasks -> BOOLEAN]
      /\ alone' \in [Tasks -> BOOLEAN] /\ before' \in [Tasks -> SUBSET Files]
<1>d. ASSUME Small, UNCHANGED <<store, calls>> PROVE TypeOK'
  BY <1>a, <1>b, <1>c, <1>d
<1>1. CASE Advance
  <2>1. Small
    BY <1>0, <1>1 DEF Advance, progress, TypeOK
  <2> QED
    BY <1>1, <1>d, <2>1 DEF Advance, progress
<1>2. ASSUME NEW t \in Tasks, PushWebhook(t) PROVE TypeOK'
  <2>1. commitOf[t] \in 1..MaxCommit
    BY TasksAssumption DEF Commits
  <2>2. target' = [target EXCEPT ![t] = commitOf[t]] /\ target' \in [Tasks -> 0..MaxCommit]
    BY <1>0, <1>2, <2>1 DEF PushWebhook, After, TypeOK
  <2>3. stage' = [stage EXCEPT ![t] = "fired"] /\ stage' \in [Tasks -> Stages]
    BY <1>2 DEF PushWebhook, Arrive, Goto, TypeOK, Stages
  <2>4. ASSUME NEW u \in Tasks, stage'[u] \in Indexing \cup {"fired", "begin"} PROVE target'[u] # 0
    BY <1>0, <2>1, <2>2, <2>3, <2>4 DEF TypeOK
  <2>5. Small
    BY <1>2, <2>2, <2>3, <2>4 DEF PushWebhook, Arrive, progress, TypeOK
  <2> QED
    BY <1>2, <1>d, <2>5 DEF PushWebhook, progress
<1>3. ASSUME NEW t \in Tasks, AdminRequest(t) PROVE TypeOK'
  <2>1. Small
    BY <1>3 DEF AdminRequest, Arrive, ClaimKey, Goto, progress, TypeOK, Stages, Indexing
  <2> QED
    BY <1>3, <1>d, <2>1 DEF AdminRequest, progress
<1>4. ASSUME NEW t \in Tasks, DeleteWebhook(t) PROVE TypeOK'
  <2>1. Small
    BY <1>4 DEF DeleteWebhook, Arrive, Goto, progress, TypeOK, Stages, Indexing
  <2> QED
    BY <1>4, <1>d, <2>1 DEF DeleteWebhook, progress
<1>5. ASSUME NEW t \in Tasks, PushTask(t) PROVE TypeOK'
  <2>1. Small
    BY <1>5 DEF PushTask, Goto, TypeOK, Stages, Indexing
  <2>2. {"remove"} \X Removed(target[t]) \in SUBSET CallSet
    BY DEF Removed, CallSet
  <2>3. calls' \in [Tasks -> SUBSET CallSet]
    BY <1>5, <1>b, <2>2 DEF PushTask
  <2> QED
    BY <1>5, <1>a, <1>c, <2>1, <2>3 DEF PushTask
<1>6. ASSUME NEW t \in Tasks, AdminSha(t) PROVE TypeOK'
  <2>1. CASE /\ head > 0 /\ Goto(t, "begin")
             /\ target' = [target EXCEPT ![t] = head] /\ UNCHANGED inFlight
    <3>1. target' \in [Tasks -> 0..MaxCommit] /\ stage' \in [Tasks -> Stages]
      BY <2>1 DEF Goto, TypeOK, Stages
    <3>2. ASSUME NEW u \in Tasks, stage'[u] \in Indexing \cup {"fired", "begin"} PROVE target'[u] # 0
      BY <2>1, <3>2 DEF Goto, TypeOK
    <3>3. Small
      BY <1>6, <2>1, <3>1, <3>2 DEF AdminSha, progress, TypeOK
    <3> QED
      BY <1>6, <1>d, <3>3 DEF AdminSha, progress
  <2>2. CASE End(t) /\ UNCHANGED target
    <3>1. Small
      BY <1>6, <2>2 DEF AdminSha, End, DiscardKey, Goto, progress, TypeOK, Stages, Indexing
    <3> QED
      BY <1>6, <1>d, <3>1 DEF AdminSha, progress
  <2> QED
    BY <1>6, <2>1, <2>2 DEF AdminSha
<1>7. ASSUME NEW t \in Tasks, Tree(t) PROVE TypeOK'
  <2>1. Small
    BY <1>7 DEF Tree, End, DiscardKey, Goto, TypeOK, Stages, Indexing
  <2>2. FileCalls(t, FilesAt(target[t])) \in SUBSET CallSet
    BY DEF FileCalls, FilesAt, CallSet
  <2>3. calls' \in [Tasks -> SUBSET CallSet]
    BY <1>7, <1>b, <2>2 DEF Tree
  <2> QED
    BY <1>7, <1>a, <1>c, <2>1, <2>3 DEF Tree
<1>8. ASSUME NEW t \in Tasks, RemovalsDone(t) PROVE TypeOK'
  <2>1. Small
    BY <1>8 DEF RemovalsDone, Goto, TypeOK, Stages, Indexing
  <2>2. FileCalls(t, Edited(target[t])) \in SUBSET CallSet
    BY DEF FileCalls, Edited, CallSet
  <2>3. calls' \in [Tasks -> SUBSET CallSet]
    BY <1>8, <1>b, <2>2 DEF RemovalsDone
  <2> QED
    BY <1>8, <1>a, <1>c, <2>1, <2>3 DEF RemovalsDone
<1>9. ASSUME NEW t \in Tasks, FilesDone(t) PROVE TypeOK'
  <2>1. Small
    BY <1>9 DEF FilesDone, AfterFiles, End, DiscardKey, Goto, progress, TypeOK, Stages, Indexing
  <2> QED
    BY <1>9, <1>d, <2>1 DEF FilesDone, progress
<1>10. ASSUME NEW t \in Tasks, NEW f \in Files, RemoveFile(t, f) PROVE TypeOK'
  <2>1. Small
    BY <1>10 DEF RemoveFile, TypeOK
  <2>2. calls' \in [Tasks -> SUBSET CallSet]
    BY <1>10, <1>b DEF RemoveFile, Made
  <2>3. store' \in [Files \X Slots -> Points]
    BY <1>10, <1>a, StoreTypes DEF RemoveFile
  <2> QED
    BY <1>c, <2>1, <2>2, <2>3
<1>11. ASSUME NEW t \in Tasks, NEW f \in Files, ClearFile(t, f) PROVE TypeOK'
  <2>1. Small
    BY <1>11 DEF ClearFile, TypeOK
  <2>2. calls' \in [Tasks -> SUBSET CallSet]
    <3>1. <<"put", f>> \in CallSet
      BY DEF CallSet
    <3> QED
      BY <1>11, <1>b, <3>1 DEF ClearFile, Made
  <2>3. store' \in [Files \X Slots -> Points]
    BY <1>11, <1>a, StoreTypes DEF ClearFile
  <2> QED
    BY <1>c, <2>1, <2>2, <2>3
<1>12. ASSUME NEW t \in Tasks, NEW f \in Files, PutFile(t, f) PROVE TypeOK'
  <2>1. Small
    BY <1>12 DEF PutFile, TypeOK
  <2>2. calls' \in [Tasks -> SUBSET CallSet]
    BY <1>12, <1>b DEF PutFile, Made
  <2>3. ChunksAt(target[t], f) \in SUBSET Slots
    BY ChunkSlots DEF TypeOK
  <2>4. \E S \in SUBSET ChunksAt(target[t], f) : store' = Written(t, f, S)
    BY <1>12 DEF PutFile
  <2>5. store' \in [Files \X Slots -> Points]
    BY <2>3, <2>4, StoreTypes
  <2> QED
    BY <1>c, <2>1, <2>2, <2>5
<1>13. ASSUME NEW t \in Tasks, Sweep(t) PROVE TypeOK'
  <2>1. Small
    BY <1>13 DEF Sweep, End, DiscardKey, Goto, progress, TypeOK, Stages, Indexing
  <2>2. store' \in [Files \X Slots -> Points]
    BY <1>13, <1>a, StoreTypes DEF Sweep
  <2> QED
    BY <1>13, <1>b, <1>c, <2>1, <2>2 DEF Sweep, progress
<1>14. ASSUME NEW t \in Tasks, SaveSha(t) PROVE TypeOK'
  <2>1. Small
    BY <1>14 DEF SaveSha, End, DiscardKey, Goto, progress, TypeOK, Stages, Indexing
  <2> QED
    BY <1>14, <1>d, <2>1 DEF SaveSha, progress
<1>15. ASSUME NEW t \in Tasks, DropPoints(t) PROVE TypeOK'
  <2>1. Small
    BY <1>15 DEF DropPoints, Goto, progress, TypeOK, Stages, Indexing
  <2>2. store' \in [Files \X Slots -> Points]
    BY <1>15, <1>a, StoreTypes DEF DropPoints
  <2> QED
    BY <1>15, <1>b, <1>c, <2>1, <2>2 DEF DropPoints, progress
<1>16. ASSUME NEW t \in Tasks, ForgetBranch(t) PROVE TypeOK'
  <2>1. Small
    BY <1>0, <1>16 DEF ForgetBranch, Goto, progress, TypeOK, Stages, Indexing
  <2> QED
    BY <1>16, <1>d, <2>1 DEF ForgetBranch, progress
<1>17. ASSUME NEW t \in Tasks, AdminTask(t) PROVE TypeOK'
  <2>1. Small
    BY <1>17 DEF AdminTask, Goto, progress, TypeOK, Stages, Indexing
  <2> QED
    BY <1>17, <1>d, <2>1 DEF AdminTask, progress
<1>18. CASE UNCHANGED vars
  BY <1>18 DEF vars, TypeOK
<1> QED
  BY <1>1, <1>2, <1>3, <1>4, <1>5, <1>6, <1>7, <1>8, <1>9, <1>10, <1>11, <1>12, <1>13,
     <1>14, <1>15, <1>16, <1>17, <1>18 DEF Next, TaskStep

\* Every variable has its type in every reachable state, and a task that indexes
\* has a commit to index.
THEOREM TypeCorrect == Spec => []TypeOK
<1> QED
  BY InitTypeOK, StepTypeOK, PTL DEF Spec

(***************************************************************************)
(* The in-flight key                                                       *)
(***************************************************************************)

LEMMA InitKey == Init => OneFullIndex
  BY DEF Init, OneFullIndex, FullIndexing, Indexing

LEMMA StepKey == TypeOK /\ OneFullIndex /\ [Next]_vars => OneFullIndex'
<1> SUFFICES ASSUME TypeOK, OneFullIndex, [Next]_vars PROVE OneFullIndex'
  OBVIOUS
<1>1. stage \in [Tasks -> Stages] /\ inFlight \in BOOLEAN
  BY DEF TypeOK
\* Neither the key nor the tasks that hold it change.
<1>2. ASSUME \A t \in Tasks : FullIndexing(t)' <=> FullIndexing(t), UNCHANGED inFlight
      PROVE  OneFullIndex'
  BY <1>2 DEF OneFullIndex
\* A task takes the free key.
<1>3. ASSUME NEW t \in Tasks, ~inFlight, inFlight', FullIndexing(t)',
             \A u \in Tasks \ {t} : FullIndexing(u)' <=> FullIndexing(u)
      PROVE  OneFullIndex'
  BY <1>3 DEF OneFullIndex
\* A task ends: the key is returned if it held it.
<1>4. ASSUME NEW t \in Tasks, End(t), stage[t] \in Indexing \cup {"sha", "begin"} PROVE OneFullIndex'
  <2>1. \A u \in Tasks \ {t} : FullIndexing(u)' <=> FullIndexing(u)
    BY <1>1, <1>4 DEF End, Goto, FullIndexing, IsFull
  <2>2. ~FullIndexing(t)'
    BY <1>1, <1>4 DEF End, Goto, FullIndexing, Indexing
  <2>3. CASE IsFull(t)
    BY <1>4, <2>1, <2>2, <2>3 DEF End, DiscardKey, OneFullIndex, FullIndexing
  <2>4. CASE ~IsFull(t)
    BY <1>2, <1>4, <2>1, <2>2, <2>4 DEF End, FullIndexing
  <2> QED
    BY <2>3, <2>4
\* A task moves between two awaits of a re-index, or outside of one.
<1>5. ASSUME NEW t \in Tasks, NEW place, Goto(t, place), UNCHANGED inFlight,
             IsFull(t) => ( place \in Indexing \cup {"sha", "begin"}
                             <=> stage[t] \in Indexing \cup {"sha", "begin"} )
      PROVE  OneFullIndex'
  <2>1. \A u \in Tasks : FullIndexing(u)' <=> FullIndexing(u)
    BY <1>1, <1>5 DEF Goto, FullIndexing, IsFull
  <2> QED
    BY <1>2, <1>5, <2>1
<1>6. ASSUME UNCHANGED <<stage, inFlight>> PROVE OneFullIndex'
  BY <1>2, <1>6 DEF FullIndexing, IsFull
<1>7. CASE Advance
  BY <1>6, <1>7 DEF Advance
<1>8. ASSUME NEW t \in Tasks, PushWebhook(t) PROVE OneFullIndex'
  BY <1>5, <1>8 DEF PushWebhook, Arrive, Indexing
<1>9. ASSUME NEW t \in Tasks, AdminRequest(t) PROVE OneFullIndex'
  <2>1. CASE inFlight
    BY <1>5, <1>9, <2>1 DEF AdminRequest, Arrive, Indexing
  <2>2. CASE ~inFlight
    <3>1. FullIndexing(t)'
      BY <1>1, <1>9, <2>2 DEF AdminRequest, Arrive, Goto, FullIndexing, IsFull
    <3>2. \A u \in Tasks \ {t} : FullIndexing(u)' <=> FullIndexing(u)
      BY <1>1, <1>9, <2>2 DEF AdminRequest, Arrive, Goto, FullIndexing, IsFull
    <3> QED
      BY <1>3, <1>9, <2>2, <3>1, <3>2 DEF AdminRequest, ClaimKey
  <2> QED
    BY <2>1, <2>2
<1>10. ASSUME NEW t \in Tasks, DeleteWebhook(t) PROVE OneFullIndex'
  BY <1>5, <1>10 DEF DeleteWebhook, Arrive, Indexing
<1>11. ASSUME NEW t \in Tasks, PushTask(t) PROVE OneFullIndex'
  <2>1. CASE inFlight \/ ~IsFull(t)
    BY <1>5, <1>11, <2>1 DEF PushTask, Skipped, Indexing
  <2>2. CASE ~inFlight /\ IsFull(t)
    <3>1. FullIndexing(t)'
      BY <1>1, <1>11, <2>2 DEF PushTask, Skipped, Goto, FullIndexing, IsFull, Indexing
    <3>2. \A u \in Tasks \ {t} : FullIndexing(u)' <=> FullIndexing(u)
      BY <1>1, <1>11, <2>2 DEF PushTask, Skipped, Goto, FullIndexing, IsFull
    <3> QED
      BY <1>3, <1>11, <2>2, <3>1, <3>2 DEF PushTask, Skipped
  <2> QED
    BY <2>1, <2>2
<1>12. ASSUME NEW t \in Tasks, AdminSha(t) PROVE OneFullIndex'
  <2>1. CASE Goto(t, "begin") /\ UNCHANGED inFlight
    BY <1>5, <1>12, <2>1 DEF AdminSha, Indexing
  <2>2. CASE End(t)
    BY <1>4, <1>12, <2>2 DEF AdminSha
  <2> QED
    BY <1>12, <2>1, <2>2 DEF AdminSha
<1>13. ASSUME NEW t \in Tasks, Tree(t) PROVE OneFullIndex'
  <2>1. CASE Goto(t, "files") /\ UNCHANGED inFlight
    BY <1>5, <1>13, <2>1 DEF Tree, Indexing
  <2>2. CASE End(t)
    BY <1>4, <1>13, <2>2 DEF Tree, Indexing
  <2> QED
    BY <1>13, <2>1, <2>2 DEF Tree
<1>14. ASSUME NEW t \in Tasks, RemovalsDone(t) PROVE OneFullIndex'
  BY <1>5, <1>14 DEF RemovalsDone, Indexing
<1>15. ASSUME NEW t \in Tasks, FilesDone(t) PROVE OneFullIndex'
  <2>1. CASE AfterFiles(t) = "done"
    BY <1>4, <1>15, <2>1 DEF FilesDone, Indexing
  <2>2. CASE AfterFiles(t) # "done"
    <3>1. AfterFiles(t) \in Indexing
      BY <2>2 DEF AfterFiles, Indexing
    <3> QED
      BY <1>5, <1>15, <2>2, <3>1 DEF FilesDone, Indexing
  <2> QED
    BY <2>1, <2>2
<1>16. ASSUME NEW t \in Tasks, NEW f \in Files,
              RemoveFile(t, f) \/ ClearFile(t, f) \/ PutFile(t, f)
       PROVE  OneFullIndex'
  BY <1>6, <1>16 DEF RemoveFile, ClearFile, PutFile
<1>17. ASSUME NEW t \in Tasks, Sweep(t) PROVE OneFullIndex'
  <2>1. CASE Goto(t, "save") /\ UNCHANGED inFlight
    BY <1>5, <1>17, <2>1 DEF Sweep, Indexing
  <2>2. CASE End(t)
    BY <1>4, <1>17, <2>2 DEF Sweep, Indexing
  <2> QED
    BY <1>17, <2>1, <2>2 DEF Sweep
<1>18. ASSUME NEW t \in Tasks, SaveSha(t) PROVE OneFullIndex'
  BY <1>4, <1>18 DEF SaveSha, Indexing
<1>19. ASSUME NEW t \in Tasks, DropPoints(t) PROVE OneFullIndex'
  BY <1>5, <1>19 DEF DropPoints, Indexing
<1>20. ASSUME NEW t \in Tasks, ForgetBranch(t) PROVE OneFullIndex'
  BY <1>5, <1>20 DEF ForgetBranch, Indexing
<1>21. ASSUME NEW t \in Tasks, AdminTask(t) PROVE OneFullIndex'
  BY <1>5, <1>21 DEF AdminTask, Indexing
<1>22. CASE UNCHANGED vars
  BY <1>6, <1>22 DEF vars
<1> QED
  BY <1>7, <1>8, <1>9, <1>10, <1>11, <1>12, <1>13, <1>14, <1>15, <1>16, <1>17, <1>18,
     <1>19, <1>20, <1>21, <1>22 DEF Next, TaskStep

\* Two full re-indexes of the branch never run at once, and the key is set
\* exactly while there is one: main.py's in_flight_indexes.
THEOREM KeyIsExact == Spec => []OneFullIndex
<1> QED
  BY InitTypeOK, StepTypeOK, InitKey, StepKey, PTL DEF Spec

(***************************************************************************)
(* What a full re-index has achieved                                       *)
(*                                                                         *)
(* FullIndexRepairs and NeverEmptyMidReindex say nothing of how the index  *)
(* gets there.  The invariant below adds it: a point's text and place are  *)
(* those its commit gives it, whatever raced; a task that is alone is the  *)
(* only active one; and an undisturbed full re-index has put every file    *)
(* that it is not still going to put or has noted as failed.               *)
(***************************************************************************)

PointsAreTrue ==
  \A p \in Files \X Slots :
    \/ store[p] = NoPoint
    \/ /\ store[p].tag # 0
       /\ p[2] \in ChunksAt(store[p].tag, p[1])
       /\ store[p].ver = text[store[p].tag][p[1]]

AloneIsAlone == \A t, u \in Tasks : alone[t] /\ Active(t) /\ Active(u) => t = u

FullShape ==
  \A t \in Tasks : IsFull(t) =>
    /\ stage[t] \notin {"removing", "drop", "forget"}
    /\ stage[t] = "files" => calls[t] \subseteq {"put"} \X FilesAt(target[t])

Undisturbed(t) == IsFull(t) /\ alone[t] /\ stage[t] \in {"files", "sweep", "save"}

IsPut(t, f) == \A s \in ChunksAt(target[t], f) : store[<<f, s>>].tag = target[t]

Progress(t) ==
  /\ \A f \in FilesAt(target[t]) :
       \/ stage[t] = "files" /\ (<<"put", f>> \in calls[t] \/ failed[t])
       \/ IsPut(t, f)
  /\ stage[t] = "sweep" => wrote[t]
  /\ stage[t] = "save" /\ wrote[t] =>
       \A p \in Files \X Slots : store[p] = NoPoint \/ store[p].tag = target[t]
  /\ ~(stage[t] = "save" /\ wrote[t]) => \A f \in before[t] : HasPoints(f)

ReindexInv ==
  /\ PointsAreTrue
  /\ AloneIsAlone
  /\ FullShape
  /\ \A t \in Tasks : Undisturbed(t) => Progress(t)

LEMMA InitReindex == Init => ReindexInv
  BY DEF Init, ReindexInv, PointsAreTrue, AloneIsAlone, FullShape, Undisturbed, Active

\* An event's arrival disturbs whatever is active, and starts no full re-index.
LEMMA ArrivalKeepsInv ==
  ASSUME TypeOK, ReindexInv, NEW t \in Tasks, NEW place \in {"fired", "sha", "done", "drop"},
         Arrive(t, place), place = "drop" => ~IsFull(t),
         UNCHANGED <<store, calls, failed, wrote, before>>,
         \A u \in Tasks \ {t} : target'[u] = target[u]
  PROVE  ReindexInv'
<1>1. stage \in [Tasks -> Stages] /\ alone \in [Tasks -> BOOLEAN]
  BY DEF TypeOK
<1>2. /\ stage' = [stage EXCEPT ![t] = place] /\ stage[t] = "idle"
      /\ \A u \in Tasks \ {t} : stage'[u] = stage[u]
      /\ stage'[t] = place
  BY <1>1 DEF Arrive, Goto
<1>3. /\ alone'[t] <=> \A v \in Tasks : ~Active(v)
      /\ \A u \in Tasks \ {t} : alone'[u] <=> (alone[u] /\ ~Active(u))
  BY DEF Arrive
<1>4. \A u \in Tasks \ {t} : Active(u)' <=> Active(u)
  BY <1>2 DEF Active
<1>5. PointsAreTrue'
  BY DEF ReindexInv, PointsAreTrue
<1>6. AloneIsAlone'
  BY <1>3, <1>4 DEF AloneIsAlone
<1>7. FullShape'
  BY <1>2 DEF ReindexInv, FullShape, IsFull
<1>8. \A u \in Tasks : ~Undisturbed(u)'
  BY <1>2, <1>3 DEF Undisturbed, Active
<1> QED
  BY <1>5, <1>6, <1>7, <1>8 DEF ReindexInv

\* A step of a task's own keeps the invariant if it keeps points true and the
\* shape of the calls, and if the task's own progress is kept: whoever else is
\* active is not alone.
LEMMA OwnStepKeepsInv ==
  ASSUME TypeOK, ReindexInv, NEW t \in Tasks, Active(t), NEW place \in Stages \ {"idle"},
         Goto(t, place), UNCHANGED alone,
         PointsAreTrue',
         \A u \in Tasks \ {t} : calls'[u] = calls[u] /\ target'[u] = target[u],
         IsFull(t) => /\ place \notin {"removing", "drop", "forget"}
                      /\ place = "files" => calls'[t] \subseteq {"put"} \X FilesAt(target'[t]),
         Undisturbed(t)' => Progress(t)'
  PROVE  ReindexInv'
<1>1. stage \in [Tasks -> Stages]
  BY DEF TypeOK
<1>2. /\ \A u \in Tasks \ {t} : stage'[u] = stage[u]
      /\ stage'[t] = place
  BY <1>1 DEF Goto
<1>3. \A u \in Tasks : Active(u)' => Active(u)
  BY <1>2 DEF Active
<1>4. AloneIsAlone'
  BY <1>3 DEF ReindexInv, AloneIsAlone
<1>5. FullShape'
  <2>1. ASSUME NEW u \in Tasks \ {t}, IsFull(u)
        PROVE  /\ stage'[u] \notin {"removing", "drop", "forget"}
               /\ stage'[u] = "files" => calls'[u] \subseteq {"put"} \X FilesAt(target'[u])
    BY <1>2, <2>1 DEF ReindexInv, FullShape
  <2>2. FullShape' <=>
          \A u \in Tasks : IsFull(u) =>
            /\ stage'[u] \notin {"removing", "drop", "forget"}
            /\ stage'[u] = "files" => calls'[u] \subseteq {"put"} \X FilesAt(target'[u])
    BY DEF FullShape, IsFull, FilesAt
  <2> QED
    BY <1>2, <2>1, <2>2
<1>6. ASSUME NEW u \in Tasks \ {t} PROVE ~Undisturbed(u)'
  <2>1. SUFFICES ASSUME Undisturbed(u)' PROVE FALSE
    OBVIOUS
  <2>2. alone[u] /\ Active(u)
    BY <1>2, <2>1 DEF Undisturbed, Active
  <2> QED
    BY <2>2 DEF ReindexInv, AloneIsAlone
<1> QED
  BY <1>4, <1>5, <1>6 DEF ReindexInv

\* A step that only moves task t to a place that is no place of a re-index.
LEMMA LeavingKeepsInv ==
  ASSUME TypeOK, ReindexInv, NEW t \in Tasks, Active(t),
         NEW place \in {"done", "begin", "tree", "removing", "forget"},
         IsFull(t) => place \in {"done", "begin", "tree"},
         Goto(t, place), UNCHANGED alone, PointsAreTrue',
         \A u \in Tasks \ {t} : calls'[u] = calls[u] /\ target'[u] = target[u]
  PROVE  ReindexInv'
<1>1. stage'[t] = place
  BY DEF TypeOK, Goto
<1>2. ~Undisturbed(t)'
  BY <1>1 DEF Undisturbed
<1> QED
  BY <1>2, OwnStepKeepsInv DEF Stages

\* Writing some chunks of f keeps points true and takes nobody's points away.
LEMMA WritingIsTrue ==
  ASSUME TypeOK, PointsAreTrue, NEW t \in Tasks, stage[t] = "files", NEW f \in Files,
         NEW S \in SUBSET ChunksAt(target[t], f), store' = Written(t, f, S)
  PROVE  /\ PointsAreTrue'
         /\ \A g \in Files : HasPoints(g) => HasPoints(g)'
         /\ \A p \in Files \X Slots : store[p].tag = target[t] => store'[p].tag = target[t]
         /\ \A s \in S : store'[<<f, s>>].tag = target[t]
<1>1. target[t] \in Nat /\ target[t] # 0
  BY CommitsAssumption DEF TypeOK, Indexing
<1>2. S \subseteq Slots
  BY ChunkSlots DEF TypeOK
<1>3. ASSUME NEW p \in Files \X Slots
      PROVE  store'[p] = IF p[1] = f /\ p[2] \in S
                         THEN [ver |-> text[target[t]][f], tag |-> target[t]] ELSE store[p]
  BY DEF Written
<1>4. PointsAreTrue'
  <2>1. ASSUME NEW p \in Files \X Slots
        PROVE  \/ store'[p] = NoPoint
               \/ /\ store'[p].tag # 0
                  /\ p[2] \in ChunksAt(store'[p].tag, p[1])
                  /\ store'[p].ver = text[store'[p].tag][p[1]]
    <3>1. CASE p[1] = f /\ p[2] \in S
      BY <1>1, <1>3, <3>1
    <3>2. CASE ~(p[1] = f /\ p[2] \in S)
      BY <1>3, <3>2 DEF PointsAreTrue
    <3> QED
      BY <3>1, <3>2
  <2> QED
    BY <2>1 DEF PointsAreTrue, NoPoint, ChunksAt
<1>5. \A g \in Files : HasPoints(g) => HasPoints(g)'
  <2>1. SUFFICES ASSUME NEW g \in Files, NEW s \in Slots, store[<<g, s>>] # NoPoint
                 PROVE  store'[<<g, s>>] # NoPoint
    BY DEF HasPoints, NoPoint
  <2> QED
    BY <1>1, <1>3, <2>1 DEF NoPoint
<1>6. \A p \in Files \X Slots : store[p].tag = target[t] => store'[p].tag = target[t]
  BY <1>3
<1>7. \A s \in S : store'[<<f, s>>].tag = target[t]
  BY <1>2, <1>3
<1> QED
  BY <1>4, <1>5, <1>6, <1>7

\* Deleting points keeps those that remain true.
LEMMA DeletingIsTrue ==
  ASSUME PointsAreTrue, \A p \in Files \X Slots : store'[p] \in {store[p], NoPoint}
  PROVE  PointsAreTrue'
<1>1. ASSUME NEW p \in Files \X Slots
      PROVE  \/ store'[p] = NoPoint
             \/ /\ store'[p].tag # 0
                /\ p[2] \in ChunksAt(store'[p].tag, p[1])
                /\ store'[p].ver = text[store'[p].tag][p[1]]
  BY DEF PointsAreTrue
<1> QED
  BY <1>1 DEF PointsAreTrue, NoPoint, ChunksAt

\* A call for one file moves no task.
LEMMA StayingPut ==
  ASSUME TypeOK, NEW t \in Tasks, UNCHANGED stage
  PROVE  Goto(t, stage[t])
  BY DEF TypeOK, Goto

LEMMA StepReindex == TypeOK /\ ReindexInv /\ [Next]_vars => ReindexInv'
<1> SUFFICES ASSUME TypeOK, ReindexInv, [Next]_vars PROVE ReindexInv'
  OBVIOUS
<1>a. stage \in [Tasks -> Stages] /\ calls \in [Tasks -> SUBSET CallSet]
      /\ target \in [Tasks -> 0..MaxCommit] /\ failed \in [Tasks -> BOOLEAN]
      /\ wrote \in [Tasks -> BOOLEAN]
  BY DEF TypeOK, CallSet
<1>b. PointsAreTrue
  BY DEF ReindexInv
<1>c. ASSUME UNCHANGED store PROVE PointsAreTrue'
  BY <1>b, <1>c DEF PointsAreTrue
<1>d. ASSUME NEW t \in Tasks, stage[t] \notin {"idle", "done"} PROVE Active(t)
  BY <1>d DEF Active
\* A task that ends, or never begins, an index.
<1>e. ASSUME NEW t \in Tasks, Active(t), End(t), UNCHANGED <<store, calls, target, alone>>
      PROVE  ReindexInv'
  BY <1>c, <1>e, LeavingKeepsInv DEF End
<1>1. CASE Advance
  <2>1. UNCHANGED <<store, stage, target, calls, failed, wrote, alone, before>>
    BY <1>1 DEF Advance, progress
  <2> QED
    BY <2>1 DEF ReindexInv, PointsAreTrue, AloneIsAlone, Active, FullShape, IsFull,
                Undisturbed, Progress, IsPut, HasPoints
<1>2. ASSUME NEW t \in Tasks, PushWebhook(t) PROVE ReindexInv'
  BY <1>a, <1>2, ArrivalKeepsInv DEF PushWebhook, progress
<1>3. ASSUME NEW t \in Tasks, AdminRequest(t) PROVE ReindexInv'
  BY <1>3, ArrivalKeepsInv DEF AdminRequest, progress
<1>4. ASSUME NEW t \in Tasks, DeleteWebhook(t) PROVE ReindexInv'
  BY <1>4, ArrivalKeepsInv DEF DeleteWebhook, progress, IsFull
<1>5. ASSUME NEW t \in Tasks, PushTask(t) PROVE ReindexInv'
  <2>1. \E place \in {"done", "tree", "removing"} :
          Goto(t, place) /\ (IsFull(t) => place \in {"done", "tree"})
    BY <1>5 DEF PushTask
  <2>2. \A u \in Tasks \ {t} : calls'[u] = calls[u] /\ target'[u] = target[u]
    BY <1>5, <1>a DEF PushTask
  <2>3. Active(t) /\ UNCHANGED <<store, alone>>
    BY <1>5 DEF PushTask, Active
  <2> QED
    BY <1>c, <2>1, <2>2, <2>3, LeavingKeepsInv
<1>6. ASSUME NEW t \in Tasks, AdminSha(t) PROVE ReindexInv'
  <2>1. Active(t) /\ UNCHANGED <<store, calls, alone>>
    BY <1>6 DEF AdminSha, Active, progress
  <2>2. \A u \in Tasks \ {t} : target'[u] = target[u]
    BY <1>6, <1>a DEF AdminSha
  <2>3. Goto(t, "begin") \/ Goto(t, "done")
    BY <1>6 DEF AdminSha, End
  <2> QED
    BY <1>c, <2>1, <2>2, <2>3, LeavingKeepsInv
<1>7. ASSUME NEW t \in Tasks, Tree(t) PROVE ReindexInv'
  <2>1. Active(t) /\ UNCHANGED <<store, target, failed, wrote, alone>>
    BY <1>7 DEF Tree, Active
  <2>2. CASE End(t) /\ UNCHANGED <<calls, before>>
    BY <1>e, <2>1, <2>2
  <2>3. CASE /\ Goto(t, "files")
             /\ calls' = [calls EXCEPT ![t] = FileCalls(t, FilesAt(target[t]))]
             /\ before' = [before EXCEPT ![t] = {f \in Files : HasPoints(f)}]
    <3>1. \A u \in Tasks \ {t} : calls'[u] = calls[u]
      BY <1>a, <2>3
    <3>2. calls'[t] = FileCalls(t, FilesAt(target[t])) /\ stage'[t] = "files"
      BY <1>a, <2>3 DEF Goto
    <3>3. IsFull(t) => calls'[t] = {"put"} \X FilesAt(target[t])
      BY <3>2 DEF FileCalls, PreDelete
    <3>4. before'[t] = {f \in Files : HasPoints(f)}
      BY <2>3 DEF TypeOK
    <3>5. \A f \in Files : HasPoints(f)' <=> HasPoints(f)
      BY <2>1 DEF HasPoints, NoPoint
    <3>6. IsFull(t) => Progress(t)'
      BY <2>1, <3>2, <3>3, <3>4, <3>5 DEF Progress, FilesAt
    <3>7. FilesAt(target[t]) = FilesAt(target'[t])
      BY <2>1
    <3>8. Undisturbed(t)' => IsFull(t)
      BY DEF Undisturbed, IsFull
    <3>9. PointsAreTrue'
      BY <1>c, <2>1
    <3> QED
      BY <2>1, <2>3, <3>1, <3>3, <3>6, <3>7, <3>8, <3>9, OwnStepKeepsInv DEF Stages
  <2> QED
    BY <1>7, <2>2, <2>3 DEF Tree
<1>8. ASSUME NEW t \in Tasks, RemovalsDone(t) PROVE ReindexInv'
  <2>1. ~IsFull(t)
    BY <1>8 DEF RemovalsDone, ReindexInv, FullShape
  <2>2. /\ Active(t) /\ UNCHANGED <<store, target, alone>> /\ Goto(t, "files")
        /\ \A u \in Tasks \ {t} : calls'[u] = calls[u]
    BY <1>8, <1>a DEF RemovalsDone, Active
  <2>3. PointsAreTrue' /\ ~Undisturbed(t)'
    BY <1>c, <2>1, <2>2 DEF Undisturbed, IsFull
  <2> QED
    BY <2>1, <2>2, <2>3, OwnStepKeepsInv DEF Stages
<1>9. ASSUME NEW t \in Tasks, FilesDone(t) PROVE ReindexInv'
  <2>1. /\ stage[t] = "files" /\ calls[t] = {}
        /\ Active(t) /\ UNCHANGED <<store, target, calls, failed, wrote, before, alone>>
    BY <1>9 DEF FilesDone, Active, progress
  <2>2. CASE AfterFiles(t) = "done"
    BY <1>9, <1>e, <2>1, <2>2 DEF FilesDone
  <2>3. CASE AfterFiles(t) # "done"
    <3> DEFINE place == AfterFiles(t)
    <3>1. /\ Goto(t, place) /\ stage'[t] = place /\ place \in {"sweep", "save"} /\ ~failed[t]
          /\ place = "sweep" <=> IsFull(t) /\ wrote[t]
      BY <1>9, <1>a, <2>3 DEF FilesDone, AfterFiles, Goto
    <3>2. ASSUME Undisturbed(t)' PROVE Progress(t)'
      <4>1. IsFull(t) /\ Progress(t)
        BY <2>1, <3>2 DEF ReindexInv, Undisturbed, IsFull
      <4>2. \A f \in FilesAt(target[t]) : IsPut(t, f)
        BY <2>1, <3>1, <4>1 DEF Progress
      <4>3. /\ \A f \in Files : HasPoints(f)' <=> HasPoints(f)
            /\ \A f \in FilesAt(target[t]) : IsPut(t, f)' <=> IsPut(t, f)
            /\ FilesAt(target'[t]) = FilesAt(target[t])
        BY <2>1 DEF HasPoints, NoPoint, IsPut, ChunksAt
      <4>4. before'[t] = before[t] /\ before[t] \in SUBSET Files
        BY <2>1 DEF TypeOK
      <4>5. \A f \in before'[t] : HasPoints(f)'
        BY <2>1, <4>1, <4>3, <4>4 DEF Progress
      <4>6. ~(stage'[t] = "save" /\ wrote'[t]) /\ (stage'[t] = "sweep" => wrote'[t])
        BY <2>1, <3>1, <4>1
      <4> QED
        BY <2>1, <4>2, <4>3, <4>5, <4>6 DEF Progress, FilesAt
    <3>3. PointsAreTrue'
      BY <1>c, <2>1
    <3> QED
      BY <2>1, <3>1, <3>2, <3>3, OwnStepKeepsInv DEF Stages
  <2> QED
    BY <2>2, <2>3
<1>10. ASSUME NEW t \in Tasks, NEW f \in Files, RemoveFile(t, f) PROVE ReindexInv'
  <2>1. ~IsFull(t) /\ Active(t) /\ stage[t] = "removing" /\ UNCHANGED <<stage, target, alone>>
    BY <1>10 DEF RemoveFile, ReindexInv, FullShape, Active
  <2>2. \A p \in Files \X Slots : store'[p] \in {store[p], NoPoint}
    BY <1>10 DEF RemoveFile
  <2>3. PointsAreTrue' /\ ~Undisturbed(t)' /\ Goto(t, stage[t])
    BY <1>b, <2>1, <2>2, DeletingIsTrue, StayingPut DEF Undisturbed, IsFull
  <2>4. \A u \in Tasks \ {t} : calls'[u] = calls[u]
    BY <1>10, <1>a DEF RemoveFile, Made
  <2> QED
    BY <2>1, <2>3, <2>4, OwnStepKeepsInv DEF Stages
<1>11. ASSUME NEW t \in Tasks, NEW f \in Files, ClearFile(t, f) PROVE ReindexInv'
  <2>1. Active(t) /\ stage[t] = "files" /\ UNCHANGED <<stage, target, alone>>
        /\ <<"clear", f>> \in calls[t]
    BY <1>11 DEF ClearFile, Active
  <2>2. ~IsFull(t)
    BY <2>1 DEF ReindexInv, FullShape
  <2>3. \A p \in Files \X Slots : store'[p] \in {store[p], NoPoint}
    BY <1>11 DEF ClearFile
  <2>4. PointsAreTrue' /\ ~Undisturbed(t)' /\ Goto(t, stage[t])
    BY <1>b, <2>1, <2>2, <2>3, DeletingIsTrue, StayingPut DEF Undisturbed, IsFull
  <2>5. \A u \in Tasks \ {t} : calls'[u] = calls[u]
    BY <1>11, <1>a DEF ClearFile, Made
  <2> QED
    BY <2>1, <2>2, <2>4, <2>5, OwnStepKeepsInv DEF Stages
<1>12. ASSUME NEW t \in Tasks, NEW f \in Files, PutFile(t, f) PROVE ReindexInv'
  <2>1. /\ Active(t) /\ stage[t] = "files" /\ UNCHANGED <<stage, target, alone, before>>
        /\ Goto(t, "files")
    BY <1>12, StayingPut DEF PutFile, Active
  <2>2. /\ \A u \in Tasks \ {t} : calls'[u] = calls[u]
        /\ calls'[t] = calls[t] \ {<<"put", f>>}
    BY <1>12, <1>a DEF PutFile, Made
  <2>3. PICK S \in SUBSET ChunksAt(target[t], f) :
          /\ store' = Written(t, f, S)
          /\ S = ChunksAt(target[t], f) \/ failed'[t]
          /\ failed[t] => failed'[t]
    BY <1>12, <1>a DEF PutFile
  <2>4. /\ PointsAreTrue'
        /\ \A g \in Files : HasPoints(g) => HasPoints(g)'
        /\ \A p \in Files \X Slots : store[p].tag = target[t] => store'[p].tag = target[t]
        /\ \A s \in S : store'[<<f, s>>].tag = target[t]
    BY <1>b, <2>1, <2>3, WritingIsTrue
  <2>5. ASSUME Undisturbed(t)' PROVE Progress(t)'
    <3>1. IsFull(t) /\ Progress(t)
      BY <2>1, <2>5 DEF ReindexInv, Undisturbed, IsFull
    <3>2. ASSUME NEW g \in FilesAt(target[t])
          PROVE  \/ stage'[t] = "files" /\ (<<"put", g>> \in calls'[t] \/ failed'[t])
                 \/ IsPut(t, g)'
      <4>1. g \in Files /\ ChunksAt(target[t], g) \subseteq Slots
        BY ChunkSlots DEF TypeOK, FilesAt
      <4>2. IsPut(t, g)' <=> \A s \in ChunksAt(target[t], g) : store'[<<g, s>>].tag = target[t]
        BY <2>1 DEF IsPut, ChunksAt
      <4>3. CASE g = f
        BY <2>1, <2>3, <2>4, <4>2, <4>3
      <4>4. CASE g # f
        <5>1. CASE IsPut(t, g)
          BY <2>4, <4>1, <4>2, <5>1 DEF IsPut
        <5>2. CASE <<"put", g>> \in calls[t] \/ failed[t]
          BY <2>1, <2>2, <2>3, <4>4, <5>2
        <5> QED
          BY <3>1, <5>1, <5>2 DEF Progress
      <4> QED
        BY <4>3, <4>4
    <3>3. before'[t] \in SUBSET Files /\ before'[t] = before[t]
      BY <2>1 DEF TypeOK
    <3>4. \A g \in before'[t] : HasPoints(g)'
      BY <2>1, <2>4, <3>1, <3>3 DEF Progress
    <3> QED
      BY <2>1, <3>2, <3>4 DEF Progress, FilesAt
  <2>6. IsFull(t) => calls'[t] \subseteq {"put"} \X FilesAt(target'[t])
    BY <2>1, <2>2 DEF ReindexInv, FullShape
  <2> QED
    BY <2>1, <2>2, <2>4, <2>5, <2>6, OwnStepKeepsInv DEF Stages
<1>13. ASSUME NEW t \in Tasks, Sweep(t) PROVE ReindexInv'
  <2>1. /\ Active(t) /\ stage[t] = "sweep"
        /\ UNCHANGED <<target, calls, failed, wrote, before, alone>>
    BY <1>13 DEF Sweep, Active, progress
  <2>2. CASE End(t) /\ UNCHANGED store
    BY <1>e, <2>1, <2>2
  <2>3. CASE /\ Goto(t, "save")
             /\ store' = [p \in Files \X Slots |->
                           IF store[p].tag = target[t] THEN store[p] ELSE NoPoint]
    <3>1. /\ \A p \in Files \X Slots : store'[p] \in {store[p], NoPoint}
          /\ \A p \in Files \X Slots : store[p].tag = target[t] => store'[p].tag = target[t]
          /\ \A p \in Files \X Slots : store'[p] = NoPoint \/ store'[p].tag = target[t]
      BY <2>3
    <3>2. PointsAreTrue' /\ stage'[t] = "save"
      BY <1>a, <1>b, <2>3, <3>1, DeletingIsTrue DEF Goto
    <3>3. ASSUME Undisturbed(t)' PROVE Progress(t)'
      <4>1. IsFull(t) /\ Progress(t)
        BY <2>1, <3>3 DEF ReindexInv, Undisturbed, IsFull
      <4>2. ASSUME NEW g \in FilesAt(target[t]) PROVE IsPut(t, g)'
        <5>1. g \in Files /\ ChunksAt(target[t], g) \subseteq Slots
          BY ChunkSlots DEF TypeOK, FilesAt
        <5>2. IsPut(t, g)
          BY <2>1, <4>1 DEF Progress
        <5>3. IsPut(t, g)' <=> \A s \in ChunksAt(target[t], g) : store'[<<g, s>>].tag = target[t]
          BY <2>1 DEF IsPut, ChunksAt
        <5> QED
          BY <3>1, <5>1, <5>2, <5>3 DEF IsPut
      <4>3. wrote'[t]
        BY <2>1, <4>1 DEF Progress
      <4>4. \A p \in Files \X Slots : store'[p] = NoPoint \/ store'[p].tag = target'[t]
        BY <2>1, <3>1
      <4> QED
        BY <2>1, <3>2, <4>2, <4>3, <4>4 DEF Progress, FilesAt, NoPoint
    <3> QED
      BY <2>1, <2>3, <3>2, <3>3, OwnStepKeepsInv DEF Stages
  <2> QED
    BY <1>13, <2>2, <2>3 DEF Sweep
<1>14. ASSUME NEW t \in Tasks, SaveSha(t) PROVE ReindexInv'
  BY <1>14, <1>d, <1>e DEF SaveSha, progress
<1>15. ASSUME NEW t \in Tasks, DropPoints(t) PROVE ReindexInv'
  <2>1. Active(t) /\ ~IsFull(t) /\ UNCHANGED <<calls, target, alone>>
    BY <1>15 DEF DropPoints, Active, ReindexInv, FullShape, progress
  <2>2. \A p \in Files \X Slots : store'[p] \in {store[p], NoPoint}
    BY <1>15 DEF DropPoints
  <2>3. Goto(t, "forget") \/ Goto(t, "done")
    BY <1>15 DEF DropPoints
  <2> QED
    BY <1>b, <2>1, <2>2, <2>3, DeletingIsTrue, LeavingKeepsInv
<1>16. ASSUME NEW t \in Tasks, ForgetBranch(t) PROVE ReindexInv'
  BY <1>16, <1>c, <1>d, LeavingKeepsInv DEF ForgetBranch, progress
<1>17. ASSUME NEW t \in Tasks, AdminTask(t) PROVE ReindexInv'
  BY <1>17, <1>c, <1>d, LeavingKeepsInv DEF AdminTask, progress
<1>18. CASE UNCHANGED vars
  BY <1>18 DEF vars, ReindexInv, PointsAreTrue, AloneIsAlone, Active, FullShape, IsFull,
               Undisturbed, Progress, IsPut, HasPoints
<1> QED
  BY <1>1, <1>2, <1>3, <1>4, <1>5, <1>6, <1>7, <1>8, <1>9, <1>10, <1>11, <1>12, <1>13,
     <1>14, <1>15, <1>16, <1>17, <1>18 DEF Next, TaskStep

THEOREM ReindexInvariant == Spec => [](TypeOK /\ ReindexInv)
<1> QED
  BY InitTypeOK, StepTypeOK, InitReindex, StepReindex, PTL DEF Spec

LEMMA InvRepairs == TypeOK /\ ReindexInv => FullIndexRepairs
<1> SUFFICES ASSUME TypeOK, ReindexInv, NEW t \in Tasks,
                    IsFull(t), stage[t] = "save", alone[t], wrote[t],
                    NEW f \in Files, NEW s \in Slots
             PROVE  store[<<f, s>>].ver =
                      IF s \in ChunksAt(target[t], f) THEN text[target[t]][f] ELSE 0
  BY DEF FullIndexRepairs, Complete
<1>1. Progress(t)
  BY DEF ReindexInv, Undisturbed
<1>2. target[t] # 0 /\ target[t] \in 0..MaxCommit
  BY DEF TypeOK, Indexing
<1>3. CASE s \in ChunksAt(target[t], f)
  <2>1. f \in FilesAt(target[t])
    BY <1>3 DEF FilesAt, ChunksAt
  <2>2. store[<<f, s>>].tag = target[t]
    BY <1>1, <1>3, <2>1 DEF Progress, IsPut
  <2> QED
    BY <1>2, <1>3, <2>2 DEF ReindexInv, PointsAreTrue, NoPoint
<1>4. CASE s \notin ChunksAt(target[t], f)
  <2>1. store[<<f, s>>] = NoPoint \/ store[<<f, s>>].tag = target[t]
    BY <1>1 DEF Progress
  <2>2. store[<<f, s>>] = NoPoint
    BY <1>4, <2>1 DEF ReindexInv, PointsAreTrue
  <2> QED
    BY <1>4, <2>2 DEF NoPoint
<1> QED
  BY <1>3, <1>4

LEMMA InvNeverEmpty == TypeOK /\ ReindexInv => NeverEmptyMidReindex
<1> SUFFICES ASSUME TypeOK, ReindexInv, NEW t \in Tasks, Undisturbed(t),
                    NEW f \in before[t], ChunksAt(target[t], f) # {}
             PROVE  HasPoints(f)
  BY DEF NeverEmptyMidReindex, Undisturbed
<1>1. Progress(t) /\ f \in Files
  BY DEF ReindexInv, TypeOK
<1>2. CASE ~(stage[t] = "save" /\ wrote[t])
  BY <1>1, <1>2 DEF Progress
<1>3. CASE stage[t] = "save" /\ wrote[t]
  <2>1. PICK s \in ChunksAt(target[t], f) : TRUE
    OBVIOUS
  <2>2. f \in FilesAt(target[t]) /\ s \in Slots
    BY <1>1, ChunkSlots DEF FilesAt, ChunksAt, TypeOK
  <2>3. store[<<f, s>>].tag = target[t] /\ target[t] # 0
    BY <1>1, <1>3, <2>2 DEF Progress, IsPut, TypeOK, Indexing
  <2> QED
    BY <2>2, <2>3 DEF HasPoints, NoPoint
<1> QED
  BY <1>2, <1>3

\* Whatever ghosts and gaps were there, a full re-index that ran alone has the
\* exact index of its commit when it records it.
THEOREM Repairs == Spec => []FullIndexRepairs
<1> QED
  BY ReindexInvariant, InvRepairs, PTL

\* While a full re-index runs alone, no file that had points and keeps content
\* is without points.
THEOREM NeverEmpty == Spec => []NeverEmptyMidReindex
<1> QED
  BY ReindexInvariant, InvNeverEmpty, PTL

\* Whatever tasks race and fail, nothing false is in the index: each point has the
\* text and the place that the commit it is tagged with gives it.
THEOREM IndexHoldsOnlyTruth == Spec => []PointsAreTrue
<1>1. ReindexInv => PointsAreTrue
  BY DEF ReindexInv
<1> QED
  BY <1>1, ReindexInvariant, PTL

(***************************************************************************)
(* Progress: the safety half of KeyIsReleased                              *)
(*                                                                         *)
(* A task never goes back and never repeats a call, and while it is active *)
(* it awaits a call that a step answers: it has no call left over that its *)
(* stage does not make.                                                    *)
(***************************************************************************)

\* The stages in an order in which a task can reach them.
Rank ==
  [place \in Stages |->
     CASE place = "idle" -> 0     [] place = "fired" -> 1   [] place = "sha" -> 2
       [] place = "begin" -> 3    [] place = "tree" -> 4    [] place = "removing" -> 5
       [] place = "files" -> 6    [] place = "sweep" -> 7   [] place = "save" -> 8
       [] place = "drop" -> 9     [] place = "forget" -> 10 [] place = "done" -> 11]

\* Task t has made the call for file f; a file that was cleared is put next.
Makes(t, f) ==
  \/ \E what \in {"remove", "clear", "put"} :
       <<what, f>> \in calls[t] /\ calls'[t] = calls[t] \ {<<what, f>>}
  \/ /\ <<"clear", f>> \in calls[t]
     /\ calls'[t] = (calls[t] \ {<<"clear", f>>}) \cup {<<"put", f>>}

TaskGoesOn(t) ==
  /\ \A u \in Tasks \ {t} : stage'[u] = stage[u] /\ calls'[u] = calls[u]
  /\ \/ Rank[stage'[t]] > Rank[stage[t]]
     \/ stage'[t] = stage[t] /\ \E f \in Files : Makes(t, f)

GoesForward ==
  \/ UNCHANGED <<stage, calls>> /\ head' = head + 1 /\ head' <= MaxCommit
  \/ \E t \in Tasks : TaskGoesOn(t)

\* A task that moves to a later stage.
LEMMA MoveGoesOn ==
  ASSUME TypeOK, NEW t \in Tasks, NEW place, Goto(t, place), Rank[place] > Rank[stage[t]],
         \A u \in Tasks \ {t} : calls'[u] = calls[u]
  PROVE  TaskGoesOn(t)
BY DEF TypeOK, Goto, TaskGoesOn

\* A task that makes one call for a file of its stage.
LEMMA CallGoesOn ==
  ASSUME TypeOK, NEW t \in Tasks, NEW f \in Files, UNCHANGED stage,
         \A u \in Tasks \ {t} : calls'[u] = calls[u], Makes(t, f)
  PROVE  TaskGoesOn(t)
BY DEF TaskGoesOn

LEMMA Ranks ==
  /\ Rank["idle"] = 0 /\ Rank["fired"] = 1 /\ Rank["sha"] = 2 /\ Rank["begin"] = 3
  /\ Rank["tree"] = 4 /\ Rank["removing"] = 5 /\ Rank["files"] = 6 /\ Rank["sweep"] = 7
  /\ Rank["save"] = 8 /\ Rank["drop"] = 9 /\ Rank["forget"] = 10 /\ Rank["done"] = 11
BY DEF Rank, Stages

LEMMA StepGoesForward == TypeOK /\ Next => GoesForward
<1> SUFFICES ASSUME TypeOK, Next PROVE GoesForward
  OBVIOUS
<1> USE Ranks, MoveGoesOn
<1>0. ASSUME NEW t \in Tasks, TaskGoesOn(t) PROVE GoesForward
  BY <1>0 DEF GoesForward
<1>1. CASE Advance
  BY <1>1, CommitsAssumption DEF Advance, GoesForward, TypeOK, progress
<1>2. ASSUME NEW t \in Tasks, PushWebhook(t) PROVE TaskGoesOn(t)
  BY <1>2 DEF PushWebhook, Arrive, progress
<1>3. ASSUME NEW t \in Tasks, AdminRequest(t) PROVE TaskGoesOn(t)
  <2>1. stage[t] = "idle" /\ UNCHANGED calls /\ (Goto(t, "done") \/ Goto(t, "sha"))
    BY <1>3 DEF AdminRequest, Arrive, progress
  <2> QED
    BY <2>1
<1>4. ASSUME NEW t \in Tasks, DeleteWebhook(t) PROVE TaskGoesOn(t)
  BY <1>4 DEF DeleteWebhook, Arrive, progress
<1>5. ASSUME NEW t \in Tasks, PushTask(t) PROVE TaskGoesOn(t)
  <2>1. \A u \in Tasks \ {t} : calls'[u] = calls[u]
    BY <1>5 DEF PushTask, TypeOK
  <2> QED
    BY <1>5, <2>1 DEF PushTask
<1>6. ASSUME NEW t \in Tasks, AdminSha(t) PROVE TaskGoesOn(t)
  BY <1>6 DEF AdminSha, End, progress
<1>7. ASSUME NEW t \in Tasks, Tree(t) PROVE TaskGoesOn(t)
  <2>1. \A u \in Tasks \ {t} : calls'[u] = calls[u]
    BY <1>7 DEF Tree, TypeOK
  <2> QED
    BY <1>7, <2>1 DEF Tree, End
<1>8. ASSUME NEW t \in Tasks, RemovalsDone(t) PROVE TaskGoesOn(t)
  <2>1. \A u \in Tasks \ {t} : calls'[u] = calls[u]
    BY <1>8 DEF RemovalsDone, TypeOK
  <2> QED
    BY <1>8, <2>1 DEF RemovalsDone
<1>9. ASSUME NEW t \in Tasks, FilesDone(t) PROVE TaskGoesOn(t)
  BY <1>9 DEF FilesDone, AfterFiles, End, progress
<1>10. ASSUME NEW t \in Tasks, NEW f \in Files, RemoveFile(t, f) PROVE TaskGoesOn(t)
  <2>1. Makes(t, f) /\ UNCHANGED stage /\ \A u \in Tasks \ {t} : calls'[u] = calls[u]
    BY <1>10 DEF RemoveFile, Made, Makes, TypeOK
  <2> QED
    BY <2>1, CallGoesOn
<1>11. ASSUME NEW t \in Tasks, NEW f \in Files, ClearFile(t, f) PROVE TaskGoesOn(t)
  <2>1. Makes(t, f) /\ UNCHANGED stage /\ \A u \in Tasks \ {t} : calls'[u] = calls[u]
    BY <1>11 DEF ClearFile, Made, Makes, TypeOK
  <2> QED
    BY <2>1, CallGoesOn
<1>12. ASSUME NEW t \in Tasks, NEW f \in Files, PutFile(t, f) PROVE TaskGoesOn(t)
  <2>1. Makes(t, f) /\ UNCHANGED stage /\ \A u \in Tasks \ {t} : calls'[u] = calls[u]
    BY <1>12 DEF PutFile, Made, Makes, TypeOK
  <2> QED
    BY <2>1, CallGoesOn
<1>13. ASSUME NEW t \in Tasks, Sweep(t) PROVE TaskGoesOn(t)
  BY <1>13 DEF Sweep, End, progress
<1>14. ASSUME NEW t \in Tasks, SaveSha(t) PROVE TaskGoesOn(t)
  BY <1>14 DEF SaveSha, End, progress
<1>15. ASSUME NEW t \in Tasks, DropPoints(t) PROVE TaskGoesOn(t)
  BY <1>15 DEF DropPoints, progress
<1>16. ASSUME NEW t \in Tasks, ForgetBranch(t) PROVE TaskGoesOn(t)
  BY <1>16 DEF ForgetBranch, progress
<1>17. ASSUME NEW t \in Tasks, AdminTask(t) PROVE TaskGoesOn(t)
  BY <1>17 DEF AdminTask, progress
<1> QED
  BY <1>0, <1>1, <1>2, <1>3, <1>4, <1>5, <1>6, <1>7, <1>8, <1>9, <1>10, <1>11, <1>12, <1>13,
     <1>14, <1>15, <1>16, <1>17 DEF Next, TaskStep

\* The background tasks of main.py and code_indexer.py: for any files, commits and
\* failures, each step uses up a stage or a call of one task, and none is repeated.
EachStepGoesForward == [][GoesForward]_vars

THEOREM NoCallIsRepeated == Spec => EachStepGoesForward
<1>1. TypeOK /\ [Next]_vars => [GoesForward]_vars
  BY StepGoesForward
<1> QED
  BY <1>1, TypeCorrect, PTL DEF Spec, EachStepGoesForward

\* A task's calls are those its stage makes.
CallsFit ==
  \A t \in Tasks :
    /\ stage[t] = "removing" => calls[t] \subseteq {"remove"} \X Files
    /\ stage[t] = "files" => calls[t] \subseteq {"clear", "put"} \X Files

\* What task t waits for: an answer that always comes, or one for a file.
Waits(t) ==
  \/ stage[t] \in {"fired", "sha", "begin", "tree", "sweep", "save", "drop", "forget"}
  \/ stage[t] = "removing" /\ (calls[t] = {} \/ \E f \in Files : <<"remove", f>> \in calls[t])
  \/ stage[t] = "files" /\ (calls[t] = {} \/ \E f \in Files, what \in {"clear", "put"} :
                                               <<what, f>> \in calls[t])

NoTaskIsStuck ==
  /\ \A t \in Tasks : Active(t) => Waits(t)
  /\ inFlight => \E t \in Tasks : FullIndexing(t) /\ Waits(t)

\* A step that changes one task's stage or calls keeps the calls of all others.
LEMMA StepCallsFit == TypeOK /\ CallsFit /\ [Next]_vars => CallsFit'
<1> SUFFICES ASSUME TypeOK, CallsFit, [Next]_vars PROVE CallsFit'
  OBVIOUS
<1> DEFINE Fits(t) == /\ stage[t] = "removing" => calls[t] \subseteq {"remove"} \X Files
                      /\ stage[t] = "files" => calls[t] \subseteq {"clear", "put"} \X Files
<1>0. CASE UNCHANGED vars
  BY <1>0 DEF CallsFit, vars
<1>1. CASE Advance
  BY <1>1 DEF Advance, CallsFit, progress
<1>2. ASSUME NEW t \in Tasks, \A u \in Tasks \ {t} : stage'[u] = stage[u] /\ calls'[u] = calls[u],
             Fits(t)'
      PROVE  CallsFit'
  BY <1>2 DEF CallsFit
<1>3. ASSUME NEW t \in Tasks, NEW place, Goto(t, place), place \notin {"removing", "files"},
             \A u \in Tasks \ {t} : calls'[u] = calls[u]
      PROVE  CallsFit'
  BY <1>3 DEF CallsFit, Goto, TypeOK
<1>4. ASSUME NEW t \in Tasks, PushWebhook(t) \/ AdminRequest(t) \/ DeleteWebhook(t)
      PROVE  CallsFit'
  BY <1>3, <1>4 DEF PushWebhook, AdminRequest, DeleteWebhook, Arrive, progress
<1>5. ASSUME NEW t \in Tasks, PushTask(t) PROVE CallsFit'
  <2>1. CASE Goto(t, "removing")
    <3>1. calls'[t] = {"remove"} \X Removed(target[t])
      BY <1>5, <2>1 DEF PushTask, TypeOK, Goto
    <3>2. Removed(target[t]) \subseteq Files
      BY DEF Removed
    <3>3. \A u \in Tasks \ {t} : stage'[u] = stage[u] /\ calls'[u] = calls[u]
      BY <1>5, <2>1 DEF PushTask, TypeOK, Goto
    <3> QED
      BY <1>2, <2>1, <3>1, <3>2, <3>3 DEF TypeOK, Goto
  <2>2. CASE ~Goto(t, "removing")
    BY <1>3, <1>5, <2>2 DEF PushTask
  <2> QED
    BY <2>1, <2>2
<1>6. ASSUME NEW t \in Tasks, NEW fs, fs \subseteq Files, Goto(t, "files"),
             calls' = [calls EXCEPT ![t] = FileCalls(t, fs)]
      PROVE  CallsFit'
  <2>1. FileCalls(t, fs) \subseteq {"clear", "put"} \X Files
    BY <1>6 DEF FileCalls
  <2>2. \A u \in Tasks \ {t} : stage'[u] = stage[u] /\ calls'[u] = calls[u]
    BY <1>6 DEF TypeOK, Goto
  <2> QED
    BY <1>2, <1>6, <2>1, <2>2 DEF TypeOK, Goto
<1>7. ASSUME NEW t \in Tasks, Tree(t) \/ RemovalsDone(t) PROVE CallsFit'
  <2>1. FilesAt(target[t]) \subseteq Files /\ Edited(target[t]) \subseteq Files
    BY DEF FilesAt, Edited
  <2> QED
    BY <1>3, <1>6, <1>7, <2>1 DEF Tree, RemovalsDone, End
<1>8. ASSUME NEW t \in Tasks, AdminSha(t) \/ AdminTask(t) \/ FilesDone(t) \/ Sweep(t)
                              \/ SaveSha(t) \/ DropPoints(t) \/ ForgetBranch(t)
      PROVE  CallsFit'
  BY <1>3, <1>8 DEF AdminSha, AdminTask, FilesDone, AfterFiles, Sweep, SaveSha, DropPoints,
                    ForgetBranch, End, progress
<1>9. ASSUME NEW t \in Tasks, NEW f \in Files,
             RemoveFile(t, f) \/ ClearFile(t, f) \/ PutFile(t, f)
      PROVE  CallsFit'
  <2>1. UNCHANGED stage
    BY <1>9 DEF RemoveFile, ClearFile, PutFile
  <2>2. \A u \in Tasks \ {t} : calls'[u] = calls[u]
    BY <1>9 DEF RemoveFile, ClearFile, PutFile, Made, TypeOK
  <2>3. \/ calls'[t] \subseteq calls[t]
        \/ stage[t] = "files" /\ calls'[t] \subseteq calls[t] \cup {<<"put", f>>}
    BY <1>9 DEF RemoveFile, ClearFile, PutFile, Made, TypeOK
  <2>4. Fits(t)'
    BY <2>1, <2>3 DEF CallsFit
  <2> QED
    BY <1>2, <2>1, <2>2, <2>4
<1> QED
  BY <1>0, <1>1, <1>4, <1>5, <1>7, <1>8, <1>9 DEF Next, TaskStep

LEMMA InvNeverStuck ==
  ASSUME TypeOK, CallsFit, OneFullIndex
  PROVE  NoTaskIsStuck
<1>1. ASSUME NEW t \in Tasks, Active(t) PROVE Waits(t)
  <2>1. CASE stage[t] = "removing"
    <3>1. calls[t] \subseteq {"remove"} \X Files
      BY <2>1 DEF CallsFit
    <3> QED
      BY <2>1, <3>1 DEF Waits
  <2>2. CASE stage[t] = "files"
    <3>1. calls[t] \subseteq {"clear", "put"} \X Files
      BY <2>2 DEF CallsFit
    <3> QED
      BY <2>2, <3>1 DEF Waits
  <2> QED
    BY <1>1, <2>1, <2>2 DEF TypeOK, Active, Waits, Stages
<1>2. \A t \in Tasks : FullIndexing(t) => Active(t)
  BY DEF FullIndexing, Active, Indexing
<1> QED
  BY <1>1, <1>2 DEF NoTaskIsStuck, OneFullIndex

\* A task under way waits for an answer, and the branch's key is held by one that
\* does: no interleaving leaves a task with a call that no step makes.
THEOREM TasksAreNeverStuck == Spec => []NoTaskIsStuck
<1>1. Init => CallsFit
  BY DEF Init, CallsFit
<1> QED
  BY <1>1, InvNeverStuck, StepCallsFit, TypeCorrect, KeyIsExact, PTL DEF Spec

=============================================================================
