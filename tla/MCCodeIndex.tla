----------------------------- MODULE MCCodeIndex -----------------------------
(* Small instances of CodeIndex: two files of up to two chunks, up to four *)
(* commits that add, shrink, empty, remove and re-add them.                *)
EXTENDS CodeIndex, TLC

CONSTANTS a, b, push1, push2, push3, push4, forced2, forced3, admin1, delete1

Text == [c \in 0..MaxCommit |->
  << a :> 0 @@ b :> 0, a :> 1 @@ b :> 1, a :> 2 @@ b :> 1, a :> 0 @@ b :> 3,
     a :> 4 @@ b :> 4 >>[c + 1]]
Chunks == [c \in Commits |->
  << a :> {1, 2} @@ b :> {1}, a :> {1} @@ b :> {}, a :> {} @@ b :> {2},
     a :> {2} @@ b :> {1} >>[c]]

\* The second commit removes file a and empties b; the third re-adds a.
SerialText == [c \in 0..MaxCommit |->
  << a :> 0 @@ b :> 0, a :> 1 @@ b :> 1, a :> 0 @@ b :> 2, a :> 3 @@ b :> 2 >>[c + 1]]
SerialChunks == [c \in Commits |->
  << a :> {1, 2} @@ b :> {1}, a :> {} @@ b :> {}, a :> {2} @@ b :> {} >>[c]]

\* The second commit removes file b.
ShortText == [c \in 0..MaxCommit |->
  << a :> 0 @@ b :> 0, a :> 1 @@ b :> 1, a :> 2 @@ b :> 0 >>[c + 1]]

KindOf == push1 :> "push" @@ push2 :> "push" @@ push3 :> "push" @@ push4 :> "push"
            @@ forced2 :> "forced" @@ forced3 :> "forced" @@ admin1 :> "admin" @@ delete1 :> "delete"
PushCommit == push1 :> 1 @@ push2 :> 2 @@ push3 :> 3 @@ push4 :> 4
                @@ forced2 :> 2 @@ forced3 :> 3 @@ admin1 :> 1 @@ delete1 :> 1
TaskKind == [t \in Tasks |-> KindOf[t]]
TaskCommit == [t \in Tasks |-> PushCommit[t]]
=============================================================================
