-------------------------------- MODULE PushFiles --------------------------------
(***************************************************************************)
(* The files of a push (code_indexer.py, aggregate_push_files): the lists  *)
(* of files that the commits of a push add, modify and remove, made into   *)
(* the files to index again and the files to remove.  CodeIndex takes the  *)
(* result for what changed between two commits (Edited and Removed); that  *)
(* it is, for commits that touch a file again, is shown here.              *)
(*                                                                         *)
(* A tree gives the text of every path, 0 for a path that is not there.    *)
(* Each step is a commit: what GitHub lists for it, and what the loop then *)
(* does.  The commits of a push follow one another.                        *)
(***************************************************************************)
EXTENDS Naturals

CONSTANTS Paths, Texts,    \* the files, and what may be in one
          MaxListed        \* bound: the commits of a push

ASSUME TextsAssumption == 0 \notin Texts
ASSUME ListedAssumption == MaxListed \in Nat

VARIABLES
  oldTree, newTree,    \* the trees before the push and as of the last commit read
  added_or_modified, removed,
  listed_commits       \* how many commits have been read

pushVars == <<oldTree, newTree, added_or_modified, removed, listed_commits>>

Trees == [Paths -> Texts \cup {0}]

PushInit ==
  /\ oldTree \in Trees /\ newTree = oldTree
  /\ added_or_modified = {} /\ removed = {} /\ listed_commits = 0

\* A commit's lists: "added" and "modified" together, and "removed".
Touched(tree) == {p \in Paths : tree[p] # 0 /\ tree[p] # newTree[p]}
Gone(tree) == {p \in Paths : tree[p] = 0 /\ newTree[p] # 0}

\* Faulty variant: a file that is added again stays among the removed.
DiscardKept(paths) == removed

\* removed.discard(path)
DiscardTouched(paths) == removed \ paths

ReadCommit ==
  /\ listed_commits < MaxListed
  /\ listed_commits' = listed_commits + 1
  /\ newTree' \in Trees
  /\ added_or_modified' = (added_or_modified \cup Touched(newTree')) \ Gone(newTree')
  /\ removed' = DiscardTouched(Touched(newTree')) \cup Gone(newTree')
  /\ UNCHANGED oldTree

PushSpec == PushInit /\ [][ReadCommit]_pushVars

-----------------------------------------------------------------------------
(* Properties.                                                             *)

\* What index_files makes of the two lists takes the index of the old tree to that
\* of the new one: what is to be indexed exists, what is to be removed does not, and
\* all else is as it was, however often the commits touched a file in between.
AggregateIsNet ==
  \A p \in Paths :
    /\ p \in added_or_modified => newTree[p] # 0
    /\ p \in removed => newTree[p] = 0
    /\ p \notin added_or_modified \cup removed => newTree[p] = oldTree[p]
=============================================================================
