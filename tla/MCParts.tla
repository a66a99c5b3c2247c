-------------------------------- MODULE MCParts --------------------------------
(* Small instances of six parts that share no state: a behaviour is one of *)
(* the model manager, of a collection, of the chunker, of the search for a *)
(* review's context, of the reading of a push or of the static analysis.   *)
EXTENDS ModelManager, Collections, CodeChunker, Prefetch, PushFiles,
        Analysis, Functions, TLC

CONSTANTS small, big, big2, vague, huge, up1, up2, del1, find1, f, g, main, feat

VARIABLE part

partVars == <<part, modelVars, collVars, chunkVars, fetchVars, pushVars,
              analysisVars>>

\* Two instances of one model, one model of unknown size, one that is too large.
Key == small :> small @@ big :> big @@ big2 :> big @@ vague :> vague @@ huge :> huge
Full == small :> 2 @@ big :> 8 @@ big2 :> 8 @@ vague :> 8 @@ huge :> 9
Short == small :> 2 @@ big :> 4 @@ big2 :> 8 @@ vague :> 8 @@ huge :> 9
Bytes == small :> 3 @@ big :> 0 @@ big2 :> 0 @@ vague :> 0 @@ huge :> 7
Params == small :> 0 @@ big :> 2 @@ big2 :> 2 @@ vague :> 0 @@ huge :> 0

KindOf == up1 :> "upsert" @@ up2 :> "upsert" @@ del1 :> "delete" @@ find1 :> "search"
FileOf == up1 :> f @@ up2 :> g @@ del1 :> f @@ find1 :> f

\* Files of up to five lines, each empty, short or too long.
Marks(w, n) == [k \in 0..n |-> k + FoldFunctionOnSet(+, 0, w, 1..k)]

SomeTexts == {[lines |-> n, mark |-> Marks(w, n), python |-> FALSE, body |-> {}] :
            n \in {0, 2, 5}, w \in [1..5 -> {0, 2, 7}]}

Def(name, a, b) == [def |-> TRUE, name |-> name, first |-> a, last |-> b]
Plain(a, b) == [def |-> FALSE, name |-> f, first |-> a, last |-> b]
Bodies == { {}, {Plain(1, 1), Plain(1, 2), Plain(4, 4), Def(f, 5, 6)},
            {Def(f, 1, 3), Plain(4, 4), Plain(6, 6)}, {Def(f, 1, 3), Def(f, 4, 6)},
            {Plain(1, 1), Def(f, 2, 2), Plain(3, 3), Def(g, 4, 4), Plain(5, 6)} }

Programs == {[lines |-> 6, mark |-> Marks(w, 6), python |-> TRUE, body |-> b] :
               b \in Bodies, w \in [1..6 -> {0, 2}]}

SomeFiles == SomeTexts \cup Programs

\* f is the same in both branches, and a second chunk of its name is in main; g
\* differs.
SomeChunks == {[branch |-> main, name |-> f, text |-> up1],
               [branch |-> main, name |-> f, text |-> up2],
               [branch |-> main, name |-> g, text |-> up1],
               [branch |-> feat, name |-> f, text |-> up1],
               [branch |-> feat, name |-> g, text |-> up2]}

Init ==
  /\ part \in {"models", "collection", "chunks", "context", "push", "analysis"}
  /\ ModelInit /\ CollInit /\ ChunkInit /\ FetchInit /\ PushInit
  /\ AnalysisInit
  /\ part # "push" => newTree = [p \in Paths |-> 0]

Next ==
  \/ /\ part = "models" /\ ModelNext
     /\ UNCHANGED <<part, collVars, chunkVars, fetchVars, pushVars, analysisVars>>
  \/ /\ part = "collection" /\ CollNext
     /\ UNCHANGED <<part, modelVars, chunkVars, fetchVars, pushVars, analysisVars>>
  \/ /\ part = "chunks" /\ step # "done" /\ ChunkNext
     /\ UNCHANGED <<part, modelVars, collVars, fetchVars, pushVars, analysisVars>>
  \/ /\ part = "context" /\ FetchNext
     /\ UNCHANGED <<part, modelVars, collVars, chunkVars, pushVars, analysisVars>>
  \/ /\ part = "push" /\ ReadCommit
     /\ UNCHANGED <<part, modelVars, collVars, chunkVars, fetchVars, analysisVars>>
  \/ /\ part = "analysis" /\ AnalysisNext
     /\ UNCHANGED <<part, modelVars, collVars, chunkVars, fetchVars, pushVars>>

Spec == Init /\ [][Next]_partVars
=============================================================================
