------------------------------- MODULE CodeIndex -------------------------------
(***************************************************************************)
(* The index of one branch (code_indexer.py) and the background tasks that *)
(* maintain it (main.py): incremental updates for pushes, full re-indexes  *)
(* for forced pushes and for /admin/index, and the deletion of the branch. *)
(* The tasks run concurrently on one event loop; each action is one call   *)
(* to GitHub, to Qdrant or to the database.                                *)
(*                                                                         *)
(* A file is cut into chunks, each stored under a point identity that      *)
(* depends on its place, not on its text; a point carries the commit that  *)
(* last changed the file (`ver`, its text) and the commit it was indexed   *)
(* for (`tag`, the sha payload).  Fetching, chunking and embedding a file  *)
(* read nothing that changes, so they belong to the upsert that follows.   *)
(***************************************************************************)
EXTENDS Integers

CONSTANTS Files, Slots,   \* indexable files and point identities within a file
          MaxCommit,      \* bound: the branch advances through commits 1..MaxCommit
          text,           \* the commit that last changed a file, as of each commit;
                          \* 0 while the file does not exist
          chunks,         \* the slots a commit's text fills: {} if empty or oversized
          Tasks, kind,    \* the events, and what each is
          commitOf,       \* the commit a push event announces
          FailingCalls,   \* the calls that may raise
          InOrder,        \* whether pushes are delivered in the order of their commits
          Concurrent      \* whether an event may arrive while a task is running

Commits == 1..MaxCommit
Kinds == {"push", "forced", "admin", "delete"}
Calls == {"sha", "tree", "remove", "clear", "put", "sweep", "save", "drop", "forget"}

ASSUME CommitsAssumption ==
  /\ MaxCommit \in Nat
  /\ text \in [0..MaxCommit -> [Files -> 0..MaxCommit]]
  /\ \A f \in Files :
       text[0][f] = 0 /\ \A c \in Commits : text[c][f] \in {0, c, text[c - 1][f]}
  /\ chunks \in [Commits -> [Files -> SUBSET Slots]]
ASSUME TasksAssumption == kind \in [Tasks -> Kinds] /\ commitOf \in [Tasks -> Commits]
ASSUME EnvAssumption ==
  FailingCalls \subseteq Calls /\ InOrder \in BOOLEAN /\ Concurrent \in BOOLEAN

\* aggregate_push_files: what the push of commit c adds or modifies, and removes.
Edited(c) == {f \in Files : text[c][f] = c}
Removed(c) == {f \in Files : text[c][f] = 0 /\ text[c - 1][f] # 0}

\* The file tree of commit c, and the points a complete index of it has.
FilesAt(c) == {f \in Files : text[c][f] # 0}
ChunksAt(c, f) == IF text[c][f] = 0 THEN {} ELSE chunks[text[c][f]][f]

VARIABLES
  head,      \* GitHub: the branch's newest commit
  store,     \* Qdrant: the point of each file and slot
  indexed,   \* the indexed_branches row: its last_indexed_sha, 0 for no row
  inFlight,  \* the branch's key is in in_flight_indexes
  stage,     \* the await each task is suspended in
  target,    \* the commit a task indexes
  calls,     \* the per-file calls a task still has to make
  failed,    \* had_failures or had_delete_failures
  wrote,     \* total > 0
  alone,     \* history: no other task has run since this one began
  before     \* history: the files with points when a full re-index began

vars == <<head, store, indexed, inFlight, stage, target, calls, failed, wrote, alone, before>>

NoPoint == [ver |-> 0, tag |-> 0]
Stages == {"idle", "fired", "sha", "begin", "tree", "removing", "files", "sweep", "save",
           "drop", "forget", "done"}
Indexing == {"tree", "removing", "files", "sweep", "save"}

TypeOK ==
  /\ head \in 0..MaxCommit
  /\ store \in [Files \X Slots -> [ver : 0..MaxCommit, tag : 0..MaxCommit]]
  /\ indexed \in 0..MaxCommit
  /\ inFlight \in BOOLEAN
  /\ stage \in [Tasks -> Stages]
  /\ target \in [Tasks -> 0..MaxCommit]
  /\ \A t \in Tasks : stage[t] \in Indexing \cup {"fired", "begin"} => target[t] # 0
  /\ calls \in [Tasks -> SUBSET ({"remove", "clear", "put"} \X Files)]
  /\ failed \in [Tasks -> BOOLEAN] /\ wrote \in [Tasks -> BOOLEAN]
  /\ alone \in [Tasks -> BOOLEAN] /\ before \in [Tasks -> SUBSET Files]

Init ==
  /\ head = 0 /\ indexed = 0 /\ inFlight = FALSE
  /\ store = [p \in Files \X Slots |-> NoPoint]
  /\ stage = [t \in Tasks |-> "idle"]
  /\ target = [t \in Tasks |-> 0]
  /\ calls = [t \in Tasks |-> {}]
  /\ failed = [t \in Tasks |-> FALSE] /\ wrote = [t \in Tasks |-> FALSE]
  /\ alone = [t \in Tasks |-> TRUE] /\ before = [t \in Tasks |-> {}]

IsFull(t) == kind[t] \in {"forced", "admin"}
Active(t) == stage[t] \notin {"idle", "done"}
HasPoints(f) == \E s \in Slots : store[<<f, s>>] # NoPoint

Goto(t, place) == stage' = [stage EXCEPT ![t] = place]

progress == <<calls, failed, wrote, before>>

-----------------------------------------------------------------------------
(* Events: a commit reaches GitHub, a webhook or a request reaches main.py.*)

Advance ==
  /\ head < MaxCommit
  /\ head' = head + 1
  /\ UNCHANGED <<store, indexed, inFlight, stage, target, progress, alone>>

\* Task t begins: whatever else is active is no longer alone.
Arrive(t, place) ==
  /\ stage[t] = "idle"
  /\ Concurrent \/ \A u \in Tasks : ~Active(u)
  /\ Goto(t, place)
  /\ alone' = [u \in Tasks |->
                 IF u = t THEN \A v \in Tasks : ~Active(v) ELSE alone[u] /\ ~Active(u)]

\* Faulty variant: the payload's "before".
BeforePush(t) == commitOf[t] - 1

\* The commit a push webhook asks to index: the payload's "after".
After(t) == commitOf[t]

\* _handle_push_background: a push webhook is delivered and fires a task.
PushWebhook(t) ==
  /\ kind[t] \in {"push", "forced"}
  /\ commitOf[t] <= head
  /\ InOrder => \A u \in Tasks :
       kind[u] \in {"push", "forced"} /\ commitOf[u] < commitOf[t] => stage[u] # "idle"
  /\ Arrive(t, "fired")
  /\ target' = [target EXCEPT ![t] = After(t)]
  /\ UNCHANGED <<head, store, indexed, inFlight, progress>>

\* Faulty variant: a forced push does not look at the key.
SkippedUnlessFull(t) == inFlight /\ ~IsFull(t)

\* A full re-index is skipped when one is in flight, and so is an incremental
\* update: its delta would race the stale-generation sweep.
Skipped(t) == inFlight

\* The fired task starts.
PushTask(t) ==
  /\ stage[t] = "fired"
  /\ IF Skipped(t)
     THEN Goto(t, "done") /\ UNCHANGED <<inFlight, calls>>
     ELSE IF IsFull(t)
     THEN Goto(t, "tree") /\ inFlight' = TRUE /\ UNCHANGED calls
     ELSE /\ Goto(t, "removing")
          /\ calls' = [calls EXCEPT ![t] = {"remove"} \X Removed(target[t])]
          /\ UNCHANGED inFlight
  /\ UNCHANGED <<head, store, indexed, target, failed, wrote, alone, before>>

\* The key is added before the first await, so a concurrent request sees it.
ClaimKey == inFlight' = TRUE

\* admin_index: 409 when a full re-index is in flight, else the branch's sha is
\* read; a branch without commits is not found.
AdminRequest(t) ==
  /\ kind[t] = "admin"
  /\ IF inFlight
     THEN Arrive(t, "done") /\ UNCHANGED inFlight
     ELSE Arrive(t, "sha") /\ ClaimKey
  /\ UNCHANGED <<head, store, indexed, target, progress>>

DeleteWebhook(t) ==
  /\ kind[t] = "delete"
  /\ Arrive(t, "drop")
  /\ UNCHANGED <<head, store, indexed, inFlight, target, progress>>

-----------------------------------------------------------------------------
(* A full re-index: index_branch.                                          *)

\* Faulty variant: the key is kept when the task ends.
KeepKey == UNCHANGED inFlight

\* The finally clause of a full re-index discards the key.
DiscardKey == inFlight' = FALSE

End(t) ==
  /\ Goto(t, "done")
  /\ IF IsFull(t) THEN DiscardKey ELSE UNCHANGED inFlight

\* get_branch_sha answers, and the task is fired, or it 404s or raises.
AdminSha(t) ==
  /\ stage[t] = "sha"
  /\ \/ /\ head > 0
        /\ Goto(t, "begin")
        /\ target' = [target EXCEPT ![t] = head]
        /\ UNCHANGED inFlight
     \/ (head = 0 \/ "sha" \in FailingCalls) /\ End(t) /\ UNCHANGED target
  /\ UNCHANGED <<head, store, indexed, progress, alone>>

\* The fired task starts; only from here on does its finally clause discard the key.
AdminTask(t) ==
  /\ stage[t] = "begin"
  /\ Goto(t, "tree")
  /\ UNCHANGED <<head, store, indexed, inFlight, target, progress, alone>>

\* Faulty variants: pre_delete is left at its default; it is False everywhere.
PreDeleteAlways(t) == TRUE
PreDeleteNever(t) == FALSE

\* A full re-index relies on the sweep; it deletes nothing beforehand.
PreDelete(t) == ~IsFull(t)

FileCalls(t, fs) == {IF PreDelete(t) THEN "clear" ELSE "put"} \X fs

\* get_file_tree at the task's commit.
Tree(t) ==
  /\ stage[t] = "tree"
  /\ \/ /\ Goto(t, "files")
        /\ calls' = [calls EXCEPT ![t] = FileCalls(t, FilesAt(target[t]))]
        /\ before' = [before EXCEPT ![t] = {f \in Files : HasPoints(f)}]
        /\ UNCHANGED inFlight
     \/ "tree" \in FailingCalls /\ End(t) /\ UNCHANGED <<calls, before>>
  /\ UNCHANGED <<head, store, indexed, target, failed, wrote, alone>>

\* delete_stale_generations.
Sweep(t) ==
  /\ stage[t] = "sweep"
  /\ \/ /\ Goto(t, "save")
        /\ store' = [p \in Files \X Slots |->
                       IF store[p].tag = target[t] THEN store[p] ELSE NoPoint]
        /\ UNCHANGED inFlight
     \/ "sweep" \in FailingCalls /\ End(t) /\ UNCHANGED store
  /\ UNCHANGED <<head, indexed, target, progress, alone>>

-----------------------------------------------------------------------------
(* The per-file calls of _index_file_list and of index_files.              *)

Made(t, call) == calls' = [calls EXCEPT ![t] = @ \ {call}]

\* delete_file for a removed file; a failure is collected and noted.
RemoveFile(t, f) ==
  /\ stage[t] = "removing" /\ <<"remove", f>> \in calls[t]
  /\ Made(t, <<"remove", f>>)
  /\ \/ /\ store' = [p \in Files \X Slots |-> IF p[1] = f THEN NoPoint ELSE store[p]]
        /\ UNCHANGED failed
     \/ "remove" \in FailingCalls /\ failed' = [failed EXCEPT ![t] = TRUE] /\ UNCHANGED store
  /\ UNCHANGED <<head, indexed, inFlight, stage, target, wrote, alone, before>>

\* All removals have been gathered: the changed files are next.
RemovalsDone(t) ==
  /\ stage[t] = "removing" /\ calls[t] = {}
  /\ Goto(t, "files")
  /\ calls' = [calls EXCEPT ![t] = FileCalls(t, Edited(target[t]))]
  /\ UNCHANGED <<head, store, indexed, inFlight, target, failed, wrote, alone, before>>

\* _index_one, first half: the file's points are deleted before it is fetched.
ClearFile(t, f) ==
  /\ stage[t] = "files" /\ <<"clear", f>> \in calls[t]
  /\ \/ /\ store' = [p \in Files \X Slots |-> IF p[1] = f THEN NoPoint ELSE store[p]]
        /\ calls' = [calls EXCEPT ![t] = (@ \ {<<"clear", f>>}) \cup {<<"put", f>>}]
        /\ UNCHANGED failed
     \/ /\ "clear" \in FailingCalls
        /\ Made(t, <<"clear", f>>)
        /\ failed' = [failed EXCEPT ![t] = TRUE]
        /\ UNCHANGED store
  /\ UNCHANGED <<head, indexed, inFlight, stage, target, wrote, alone, before>>

\* The points of file f, slots S, as task t writes them.
Written(t, f, S) ==
  [p \in Files \X Slots |->
     IF p[1] = f /\ p[2] \in S
     THEN [ver |-> text[target[t]][f], tag |-> target[t]] ELSE store[p]]

\* _index_one, second half: fetch, chunk, embed, upsert.  A failure may come
\* after some batches of points were written.
PutFile(t, f) ==
  LET all == ChunksAt(target[t], f) IN
  /\ stage[t] = "files" /\ <<"put", f>> \in calls[t]
  /\ Made(t, <<"put", f>>)
  /\ \/ /\ store' = Written(t, f, all)
        /\ wrote' = [wrote EXCEPT ![t] = @ \/ all # {}]
        /\ UNCHANGED failed
     \/ /\ "put" \in FailingCalls
        /\ \E S \in SUBSET all : store' = Written(t, f, S)
        /\ failed' = [failed EXCEPT ![t] = TRUE]
        /\ UNCHANGED wrote
  /\ UNCHANGED <<head, indexed, inFlight, stage, target, alone, before>>

\* Faulty variant: the sweep is left out.
AfterFilesUnswept(t) == IF failed[t] THEN "done" ELSE "save"

\* What follows the last file: nothing after a failure; the sweep when a full
\* re-index has written points; the sha otherwise.
AfterFiles(t) ==
  IF failed[t] THEN "done" ELSE IF IsFull(t) /\ wrote[t] THEN "sweep" ELSE "save"

FilesDone(t) ==
  /\ stage[t] = "files" /\ calls[t] = {}
  /\ IF AfterFiles(t) = "done" THEN End(t) ELSE Goto(t, AfterFiles(t)) /\ UNCHANGED inFlight
  /\ UNCHANGED <<head, store, indexed, target, progress, alone>>

\* upsert_indexed_branch.
SaveSha(t) ==
  /\ stage[t] = "save"
  /\ \/ indexed' = target[t]
     \/ "save" \in FailingCalls /\ UNCHANGED indexed
  /\ End(t)
  /\ UNCHANGED <<head, store, target, progress, alone>>

-----------------------------------------------------------------------------
(* The deletion of the branch's index: first Qdrant, then the row.         *)

DropPoints(t) ==
  /\ stage[t] = "drop"
  /\ \/ Goto(t, "forget") /\ store' = [p \in Files \X Slots |-> NoPoint]
     \/ "drop" \in FailingCalls /\ Goto(t, "done") /\ UNCHANGED store
  /\ UNCHANGED <<head, indexed, inFlight, target, progress, alone>>

ForgetBranch(t) ==
  /\ stage[t] = "forget"
  /\ Goto(t, "done")
  /\ \/ indexed' = 0
     \/ "forget" \in FailingCalls /\ UNCHANGED indexed
  /\ UNCHANGED <<head, store, inFlight, target, progress, alone>>

-----------------------------------------------------------------------------
TaskStep(t) ==
  \/ PushTask(t) \/ AdminSha(t) \/ AdminTask(t) \/ Tree(t) \/ RemovalsDone(t) \/ FilesDone(t)
  \/ \E f \in Files : RemoveFile(t, f) \/ ClearFile(t, f) \/ PutFile(t, f)
  \/ Sweep(t) \/ SaveSha(t) \/ DropPoints(t) \/ ForgetBranch(t)

Next ==
  \/ Advance
  \/ \E t \in Tasks : PushWebhook(t) \/ AdminRequest(t) \/ DeleteWebhook(t) \/ TaskStep(t)

\* Every call ends, by an answer or a timeout; events come or do not.
Spec == Init /\ [][Next]_vars /\ \A t \in Tasks : WF_vars(TaskStep(t))

-----------------------------------------------------------------------------
(* Properties.                                                             *)

\* The index is exactly what indexing commit c from nothing would leave.
Complete(c) ==
  \A f \in Files : \A s \in Slots :
    store[<<f, s>>].ver = IF s \in ChunksAt(c, f) THEN text[c][f] ELSE 0

Quiet == \A t \in Tasks : ~Active(t)

\* A full re-index that no other task disturbed leaves the exact index of its
\* commit before it records it, whatever ghosts and gaps earlier races and
\* failures had left ("run /admin/index to clean up ghost vectors").
FullIndexRepairs ==
  \A t \in Tasks :
    IsFull(t) /\ stage[t] = "save" /\ alone[t] /\ wrote[t] => Complete(target[t])

\* "the collection is never empty mid-reindex": a file that had points when an
\* undisturbed full re-index began, and still has content, has points throughout.
NeverEmptyMidReindex ==
  \A t \in Tasks :
    IsFull(t) /\ stage[t] \in {"files", "sweep", "save"} /\ alone[t] =>
      \A f \in before[t] : ChunksAt(target[t], f) # {} => HasPoints(f)

\* At most one full re-index of the branch is past its claim, and the key says
\* exactly whether there is one: requests neither double up nor are locked out.
FullIndexing(t) == IsFull(t) /\ stage[t] \in Indexing \cup {"sha", "begin"}
OneFullIndex ==
  /\ \A t, u \in Tasks : FullIndexing(t) /\ FullIndexing(u) => t = u
  /\ inFlight <=> \E t \in Tasks : FullIndexing(t)

\* Every task ends, so the branch never stays locked against a re-index.
KeyIsReleased == inFlight ~> ~inFlight

-----------------------------------------------------------------------------
(* Two comments of the repository, which the code does not keep in general.*)

\* code_indexer.py: a recorded commit is never that of a partial index, once no
\* task is under way.  It is so while pushes are handled one after the other, no
\* call fails and no commit leaves the branch without content.
RecordedIsComplete == Quiet /\ indexed # 0 => Complete(indexed)

\* main.py: an incremental update may be skipped, since the full re-index in
\* flight will produce the complete snapshot: no pushed commit is lost.
NoPushIsLost ==
  (\A t \in Tasks : stage[t] = "done") /\ head = MaxCommit => indexed = head

=============================================================================
