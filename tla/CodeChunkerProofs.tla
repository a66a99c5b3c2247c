--------------------------- MODULE CodeChunkerProofs ---------------------------
(***************************************************************************)
(* Proofs about CodeChunker: for every file, budget and overlap, no line   *)
(* is lost, the parts fit, their identities differ and splitting ends.     *)
(***************************************************************************)
EXTENDS CodeChunker, WellFoundedInduction, TLAPS

RawChunk(f) == [name : FuncNames \cup {Module, Lines}, from : Nat, to : Nat,
                first : 1..f.lines, last : 1..f.lines]

\* The chunks of the first cut.
Raw(f) == IF f.python THEN PythonChunks(f) ELSE Windows(f)

Apart(c, d) == c.last < d.first \/ d.last < c.first

-----------------------------------------------------------------------------
(* Numbers.                                                                *)

LEMMA LeastOf ==
  ASSUME NEW T \in SUBSET Nat, T # {}
  PROVE  \E x \in T : \A y \in T : x <= y
<1>1. PICK x \in T : \A y \in T : ~(<<y, x>> \in OpToRel(<, Nat))
  BY NatLessThanWellFounded, WFMin
<1>2. \A y \in T : ~(y < x)
  BY <1>1 DEF OpToRel
<1> QED
  BY <1>2

LEMMA GreatestOf ==
  ASSUME NEW n \in Nat, NEW T \in SUBSET (0..n), T # {}
  PROVE  \E x \in T : \A y \in T : y <= x
<1> DEFINE D == {n - x : x \in T}
<1>1. D \in SUBSET Nat /\ D # {}
  <2>1. \A x \in T : n - x \in Nat
    OBVIOUS
  <2> QED
    BY <2>1
<1>2. PICK z \in D : \A y \in D : z <= y
  BY <1>1, LeastOf
<1>3. PICK x \in T : z = n - x
  OBVIOUS
<1>4. ASSUME NEW y \in T PROVE y <= x
  <2>1. z <= n - y
    BY <1>2
  <2> QED
    BY <1>3, <2>1
<1> QED
  BY <1>4

LEMMA Division ==
  ASSUME NEW a \in Nat, NEW b \in Nat \ {0}
  PROVE  /\ a \div b \in Nat
         /\ (a \div b) * b <= a /\ a < (a \div b) * b + b
  OBVIOUS

\* Windows overlap, and two steps reach at least a window's length.
LEMMA Strides ==
  /\ max_lines \in Nat /\ max_lines >= 2
  /\ stride \in Nat /\ 1 <= stride /\ stride < max_lines /\ max_lines <= 2 * stride
<1>1. max_chars \div CHARS_PER_LINE \in Nat
  BY SizesPositive, Division
<1>2. max_lines \in Nat /\ max_lines >= 2
  BY <1>1 DEF max_lines, Larger
<1> DEFINE o == max_lines \div OVERLAP_FRACTION
<1>3. o \in Nat /\ o * OVERLAP_FRACTION <= max_lines
  BY <1>2, SizesPositive, Division
<1>4. o * 2 <= o * OVERLAP_FRACTION
  BY <1>3, SizesPositive
<1>5. o * 2 <= max_lines
  BY <1>2, <1>3, <1>4, SizesPositive
<1> HIDE DEF o
<1> QED
  BY <1>2, <1>3, <1>5 DEF stride, Larger, o
-----------------------------------------------------------------------------
(* The first cut.                                                          *)

LEMMA StmtTypes ==
  ASSUME NEW f, WellFormed(f), NEW s \in f.body
  PROVE  /\ f.lines \in Nat
         /\ s.def \in BOOLEAN /\ s.name \in FuncNames
         /\ s.first \in 1..f.lines /\ s.last \in 1..f.lines /\ s.first <= s.last
  BY DEF WellFormed, Stmts

LEMMA PythonTypes ==
  ASSUME NEW f, WellFormed(f), NEW c \in PythonChunks(f)
  PROVE  c \in RawChunk(f) /\ c.first <= c.last
<1>1. CASE \E d \in f.body : c = [name |-> d.name, from |-> 0, to |-> 0,
                                 first |-> d.first, last |-> d.last]
  BY <1>1, StmtTypes DEF RawChunk
<1>2. ASSUME NEW s \in f.body, NEW t \in f.body,
             c \in [name : {Module}, from : {0}, to : {0}, first : 1..f.lines, last : 1..f.lines],
             Together(f, s, t), c.first = s.first, c.last = t.last,
             \A u \in f.body : Together(f, s, u) => s.first <= u.first /\ u.last <= t.last
      PROVE  c \in RawChunk(f) /\ c.first <= c.last
  <2>1. c \in RawChunk(f)
    BY <1>2 DEF RawChunk
  <2>2. s.first <= t.first /\ t.first <= t.last
    BY <1>2, StmtTypes
  <2> QED
    BY <1>2, <2>1, <2>2, StmtTypes
<1> QED
  BY <1>1, <1>2 DEF PythonChunks

\* A run of statements lies between the definitions before and after it.
LEMMA RunsAreApart ==
  ASSUME NEW f, WellFormed(f),
         NEW s \in f.body, NEW t \in f.body, Together(f, s, t), s.first <= t.last,
         NEW d \in f.body, d.def
  PROVE  d.last < s.first \/ t.last < d.first
<1>1. d.last < s.first \/ s.last < d.first
  BY StmtTypes DEF WellFormed, Together
<1>2. d.last < t.first \/ t.last < d.first
  BY StmtTypes DEF WellFormed, Together
<1>3. d.last < s.first <=> d.last < t.first
  BY DEF Together
<1> QED
  BY <1>1, <1>2, <1>3, StmtTypes

LEMMA PythonApart ==
  ASSUME NEW f, WellFormed(f), NEW c \in PythonChunks(f), NEW d \in PythonChunks(f), c # d
  PROVE  Apart(c, d)
<1> DEFINE OfDef(x, s) == /\ s \in f.body /\ s.def
                          /\ x = [name |-> s.name, from |-> 0, to |-> 0,
                                  first |-> s.first, last |-> s.last]
           OfRun(x, s, t) ==
             /\ x \in [name : {Module}, from : {0}, to : {0}, first : 1..f.lines, last : 1..f.lines]
             /\ s \in f.body /\ t \in f.body
             /\ Together(f, s, t) /\ x.first = s.first /\ x.last = t.last
             /\ \A u \in f.body : Together(f, s, u) => s.first <= u.first /\ u.last <= t.last
<1>1. \A x \in PythonChunks(f) : (\E s : OfDef(x, s)) \/ (\E s, t : OfRun(x, s, t))
  BY DEF PythonChunks
<1>2. ASSUME NEW x, NEW y, NEW s, NEW t, OfDef(x, s), OfDef(y, t), x # y PROVE Apart(x, y)
  <2>1. s # t /\ x.first = s.first /\ x.last = s.last /\ y.first = t.first /\ y.last = t.last
    BY <1>2
  <2> QED
    BY <1>2, <2>1 DEF WellFormed, Apart
<1>3. ASSUME NEW x, NEW y, NEW s, NEW t, NEW e, OfDef(x, e), OfRun(y, s, t)
      PROVE  Apart(x, y) /\ Apart(y, x)
  <2>1. x.first = e.first /\ x.last = e.last /\ y.first = s.first /\ y.last = t.last
    BY <1>3
  <2>2. s.first <= t.first /\ t.first <= t.last
    BY <1>3, StmtTypes
  <2>3. e.last < s.first \/ t.last < e.first
    BY <1>3, <2>2, RunsAreApart, StmtTypes
  <2> QED
    BY <2>1, <2>3 DEF Apart
<1>4. ASSUME NEW x, NEW y, NEW s, NEW t, NEW v, NEW w, OfRun(x, s, t), OfRun(y, v, w), x # y
      PROVE  Apart(x, y)
  <2>1. ~Together(f, s, v)
    <3> SUFFICES ASSUME Together(f, s, v) PROVE FALSE
      OBVIOUS
    <3>1. Together(f, v, s) /\ Together(f, s, w) /\ Together(f, v, t)
      BY <1>4 DEF Together
    <3>2. s.first = v.first /\ t.last = w.last
      BY <1>4, <3>1, StmtTypes
    <3> QED
      BY <1>4, <3>2
  <2>2. PICK e \in f.body : e.def /\ ~(e.last < s.first <=> e.last < v.first)
    BY <1>4, <2>1 DEF Together
  <2>3. (s.first <= t.first /\ t.first <= t.last) /\ (v.first <= w.first /\ w.first <= w.last)
    BY <1>4, StmtTypes
  <2>4. (e.last < s.first \/ t.last < e.first) /\ (e.last < v.first \/ w.last < e.first)
    BY <1>4, <2>2, <2>3, RunsAreApart, StmtTypes
  <2>5. t.last < v.first \/ w.last < s.first
    BY <1>4, <2>2, <2>4, StmtTypes
  <2> QED
    BY <1>4, <2>5 DEF Apart
<1> HIDE DEF OfDef, OfRun
<1> QED
  BY <1>1, <1>2, <1>3, <1>4

\* Every statement is in a chunk: a definition in its own, any other in its run's.
LEMMA PythonCovers ==
  ASSUME NEW f, WellFormed(f), NEW p \in f.body
  PROVE  \E c \in PythonChunks(f) : c.first <= p.first /\ p.last <= c.last
<1>1. CASE p.def
  <2> DEFINE c == [name |-> p.name, from |-> 0, to |-> 0, first |-> p.first, last |-> p.last]
  <2>1. c \in PythonChunks(f) /\ c.first = p.first /\ c.last = p.last
    BY <1>1 DEF PythonChunks
  <2> QED
    BY <2>1, StmtTypes
<1>2. CASE ~p.def
  <2> DEFINE G == {u \in f.body : Together(f, p, u)}
  <2>1. p \in G
    BY <1>2 DEF Together
  <2>2. {u.first : u \in G} \in SUBSET Nat /\ {u.first : u \in G} # {}
    <3>1. \A u \in G : u.first \in Nat
      BY StmtTypes
    <3> QED
      BY <2>1, <3>1
  <2>3. PICK s \in G : \A u \in G : s.first <= u.first
    <3>1. PICK x \in {u.first : u \in G} : \A y \in {u.first : u \in G} : x <= y
      BY <2>2, LeastOf
    <3> QED
      BY <3>1
  <2>4. f.lines \in Nat /\ {u.last : u \in G} \in SUBSET (0..f.lines) /\ {u.last : u \in G} # {}
    <3>1. \A u \in G : u.last \in 0..f.lines
      BY StmtTypes
    <3> QED
      BY <2>1, <3>1 DEF WellFormed
  <2>5. PICK t \in G : \A u \in G : u.last <= t.last
    <3>1. PICK x \in {u.last : u \in G} : \A y \in {u.last : u \in G} : y <= x
      BY <2>4, GreatestOf
    <3> QED
      BY <3>1
  <2>6. Together(f, s, t) /\ \A u \in f.body : Together(f, s, u) => u \in G
    BY DEF Together
  <2> DEFINE c == [name |-> Module, from |-> 0, to |-> 0, first |-> s.first, last |-> t.last]
  <2>7. c \in [name : {Module}, from : {0}, to : {0}, first : 1..f.lines, last : 1..f.lines]
    BY StmtTypes
  <2>8. c.first = s.first /\ c.last = t.last
    OBVIOUS
  <2>9. c \in PythonChunks(f)
    BY <2>3, <2>5, <2>6, <2>7, <2>8 DEF PythonChunks
  <2> QED
    BY <2>1, <2>3, <2>5, <2>8, <2>9
<1> QED
  BY <1>1, <1>2, StmtTypes

\* A window is given by its first line and its last.
LEMMA WindowTypes ==
  ASSUME NEW f, WellFormed(f), NEW c \in Windows(f)
  PROVE  /\ c \in RawChunk(f) /\ c.first <= c.last
         /\ c = [name |-> Lines, from |-> c.from, to |-> c.to, first |-> c.from, last |-> c.to]
<1>1. PICK k \in 0..f.lines :
        /\ k * stride < f.lines
        /\ c = [name |-> Lines, from |-> k * stride + 1,
                to |-> Smaller(k * stride + max_lines, f.lines),
                first |-> k * stride + 1, last |-> Smaller(k * stride + max_lines, f.lines)]
  BY DEF Windows
<1>2. f.lines \in Nat /\ k * stride \in Nat
  BY Strides DEF WellFormed
<1>3. Smaller(k * stride + max_lines, f.lines) \in 1..f.lines
  BY <1>1, <1>2, Strides DEF Smaller
<1>4. k * stride + 1 \in 1..f.lines
        /\ k * stride + 1 <= Smaller(k * stride + max_lines, f.lines)
  BY <1>1, <1>2, Strides DEF Smaller
<1> HIDE DEF Smaller
<1> QED
  BY <1>1, <1>3, <1>4, <1>2 DEF RawChunk

\* The line n, n - 1 = k * stride + rest, is in the k-th window, or in the one
\* before if that reaches the end of the file.
LEMMA WindowsCover ==
  ASSUME NEW f, WellFormed(f), NEW n \in 1..f.lines
  PROVE  \E c \in Windows(f) : c.first <= n /\ n <= c.last
<1> DEFINE k == (n - 1) \div stride
           Window(s) == [name |-> Lines, from |-> s + 1, to |-> Smaller(s + max_lines, f.lines),
                         first |-> s + 1, last |-> Smaller(s + max_lines, f.lines)]
           Begins(s) == s < f.lines /\ (s = 0 \/ s - stride + max_lines < f.lines)
<1>0. f.lines \in Nat /\ n \in Nat /\ n - 1 \in Nat
  BY DEF WellFormed
<1>1. k \in Nat /\ k * stride <= n - 1 /\ n - 1 < k * stride + stride
  BY <1>0, Strides, Division
<1>2. \A j \in 0..f.lines : Begins(j * stride) => Window(j * stride) \in Windows(f)
  BY DEF Windows
<1> HIDE DEF k
<1>3. k <= k * stride /\ k * stride \in Nat
  BY <1>1, Strides
<1>4. k \in 0..f.lines
  BY <1>0, <1>1, <1>3
<1>5. CASE Begins(k * stride)
  <2>1. Window(k * stride) \in Windows(f)
    BY <1>2, <1>4, <1>5
  <2>2. k * stride + 1 <= n /\ n <= Smaller(k * stride + max_lines, f.lines)
    BY <1>0, <1>1, <1>3, Strides DEF Smaller
  <2> QED
    BY <2>1, <2>2
<1>6. CASE ~Begins(k * stride)
  <2>1. k * stride # 0 /\ k * stride - stride + max_lines >= f.lines
    BY <1>0, <1>1, <1>3, <1>6, Strides
  <2>2. k # 0
    BY <2>1, Strides
  <2>3. k - 1 \in 0..f.lines /\ (k - 1) * stride = k * stride - stride /\ (k - 1) * stride \in Nat
    BY <1>0, <1>1, <1>4, <2>2, Strides
  <2>4. Begins((k - 1) * stride)
    BY <1>0, <1>1, <1>3, <2>3, Strides
  <2>5. Window((k - 1) * stride) \in Windows(f)
    BY <1>2, <2>3, <2>4
  <2>6. (k - 1) * stride + 1 <= n /\ n <= Smaller((k - 1) * stride + max_lines, f.lines)
    BY <1>0, <1>1, <1>3, <2>1, <2>3, Strides DEF Smaller
  <2> QED
    BY <2>5, <2>6
<1> QED
  BY <1>5, <1>6

\* What the state machine uses of the first cut.
LEMMA RawFacts ==
  ASSUME NEW f, WellFormed(f)
  PROVE  /\ \A c \in Raw(f) : c \in RawChunk(f) /\ c.first <= c.last
         /\ \A c, d \in Raw(f) :
              c.name = d.name /\ c.from = d.from /\ c.to = d.to => c = d \/ Apart(c, d)
         /\ \A s \in f.body : f.python =>
              \E c \in Raw(f) : c.first <= s.first /\ s.last <= c.last
         /\ \A n \in 1..f.lines : ~f.python =>
              \E c \in Raw(f) : c.first <= n /\ n <= c.last
<1>1. CASE f.python
  BY <1>1, PythonTypes, PythonApart, PythonCovers DEF Raw
<1>2. CASE ~f.python
  <2>1. \A c, d \in Windows(f) : c.from = d.from /\ c.to = d.to => c = d
    BY WindowTypes
  <2> QED
    BY <1>2, <2>1, WindowTypes, WindowsCover DEF Raw
<1> QED
  BY <1>1, <1>2
-----------------------------------------------------------------------------
(* Splitting.                                                              *)

\* The chunks of the first cut that are in `out`, or on their way into it.
Taken == Raw(file) \ raw

\* A returned chunk e is c, or a part of c; parts of the chunk being split have
\* smaller numbers than the next.
IsFrom(e, c) ==
  /\ e.name = c.name /\ e.from = c.from /\ e.to = c.to
  /\ e.first \in c.first..c.last /\ e.last \in e.first..c.last
  /\ c = chunk => e.part < idx

Stages ==
  /\ step \in {"idle", "cutting", "done"}
  /\ step = "idle" => raw = {} /\ out = {} /\ chunk = None
  /\ step # "idle" => file \in Files
  /\ step = "done" => raw = {} /\ chunk = None

Splitting ==
  chunk # None =>
    /\ step = "cutting" /\ chunk \in Taken
    /\ first \in chunk.first..LastLine(chunk)
    /\ idx \in Nat /\ idx <= first - chunk.first + 1

Origins == \A e \in out : e.part \in Nat /\ \E c \in Taken : IsFrom(e, c)

In(n, e) == e.first <= n /\ n <= e.last

\* A chunk that was taken is returned up to its last line, or, while it is being
\* split, up to the line where the next part begins.
Kept == \A c \in Taken : \A n \in c.first..LastLine(c) :
          (c = chunk => n < first) => \E e \in out : In(n, e)

ChunkInv ==
  /\ Stages
  /\ step # "idle" => raw \subseteq Raw(file) /\ Splitting /\ Origins /\ Kept
  /\ IdsAreUnique /\ ChunksFit

LEMMA FileFacts ==
  ASSUME NEW f \in Files
  PROVE  WellFormed(f)
  BY FilesAssumption

LEMMA CharsAreLess ==
  ASSUME file \in Files, NEW c \in RawChunk(file), c.first <= c.last
  PROVE  /\ file.lines \in Nat
         /\ c.first \in 1..file.lines /\ c.last \in 1..file.lines
         /\ \A a, b \in 1..file.lines : Chars(a, b) \in Int
         /\ \A a, b \in 1..file.lines : b - 1 \in 1..file.lines => Chars(a, b - 1) < Chars(a, b)
         /\ LastLine(c) \in c.first..c.last
         /\ c.last - 1 <= LastLine(c)
         /\ LastLine(c) = c.last \/ Chars(c.last, c.last) = 0
<1>1. c.first \in 1..file.lines /\ c.last \in 1..file.lines /\ file.lines \in Nat
  BY FileFacts DEF RawChunk, WellFormed
<1>2. file.mark \in [0..file.lines -> Nat] /\ \A n \in 1..file.lines : file.mark[n] > file.mark[n - 1]
  BY FileFacts DEF WellFormed
<1>m. \A n \in 1..file.lines : file.mark[n] \in Nat /\ file.mark[n - 1] \in Nat
  <2>1. \A n \in 1..file.lines : n \in 0..file.lines /\ n - 1 \in 0..file.lines
    BY <1>1
  <2> QED
    BY <1>2, <2>1
<1>3. \A a, b \in 1..file.lines : Chars(a, b) \in Int
  BY <1>m DEF Chars
<1>4. ASSUME NEW a \in 1..file.lines, NEW b \in 1..file.lines, b - 1 \in 1..file.lines
      PROVE  Chars(a, b - 1) < Chars(a, b)
  <2>1. file.mark[b] > file.mark[b - 1] /\ file.mark[b] \in Nat /\ file.mark[b - 1] \in Nat
        /\ file.mark[a - 1] \in Nat
    BY <1>2, <1>4, <1>m
  <2> QED
    BY <2>1 DEF Chars
<1> QED
  BY <1>1, <1>3, <1>4 DEF LastLine

LEMMA InitChunkInv == ChunkInit => ChunkInv
  BY DEF ChunkInit, ChunkInv, Stages, IdsAreUnique, ChunksFit

LEMMA CutInv ==
  ASSUME ChunkInv, Cut
  PROVE  ChunkInv'
<1>1. file' \in Files /\ raw' = Raw(file') /\ out' = {} /\ chunk' = None /\ step' = "cutting"
  BY DEF Cut, Raw
<1>2. Taken' = {}
  BY <1>1 DEF Taken, Raw, PythonChunks, Windows, Together
<1> QED
  BY <1>1, <1>2 DEF ChunkInv, Stages, Splitting, Origins, Kept, IdsAreUnique, ChunksFit

\* A chunk c is returned as a whole.
LEMMA KeepInv ==
  ASSUME ChunkInv, NEW c \in raw, KeepWhole(c)
  PROVE  ChunkInv'
<1> DEFINE e == Part(c, 0, c.first, c.last)
<1>1. file' = file /\ chunk' = None /\ chunk = None /\ step = "cutting" /\ step' = "cutting"
      /\ raw' = raw \ {c} /\ out' = out \cup {e}
  BY DEF KeepWhole
<1>2. file \in Files /\ raw \subseteq Raw(file) /\ c \in Raw(file)
  BY <1>1 DEF ChunkInv, Stages
<1>3. Taken' = Taken \cup {c} /\ c \notin Taken
  BY <1>1, <1>2 DEF Taken, Raw, PythonChunks, Windows, Together
<1>4. c \in RawChunk(file) /\ c.first <= c.last
  BY <1>2, FileFacts, RawFacts
<1>5. c.first \in Int /\ c.last \in Int /\ LastLine(c) \in c.first..c.last
  BY <1>2, <1>4, CharsAreLess
<1>6. e.name = c.name /\ e.from = c.from /\ e.to = c.to /\ e.part = 0
      /\ e.first = c.first /\ e.last = c.last
  BY DEF Part
<1> HIDE DEF e
<1>7. c # None /\ None \notin Taken
  <2>1. \A d \in Raw(file) : d.first >= 1
    BY <1>2, FileFacts, RawFacts DEF RawChunk
  <2>2. None.first = 0
    BY DEF None
  <2> QED
    BY <1>2, <2>1, <2>2 DEF Taken
<1>8. Origins'
  <2>1. \A d \in out, b \in Taken : IsFrom(d, b) => IsFrom(d, b)'
    BY <1>1, <1>7 DEF IsFrom
  <2>2. IsFrom(e, c)'
    BY <1>1, <1>4, <1>5, <1>6, <1>7 DEF IsFrom
  <2> QED
    BY <1>1, <1>3, <1>6, <2>1, <2>2 DEF ChunkInv, Origins
<1>9. Kept'
  <2>1. \A b \in Taken' : LastLine(b)' = LastLine(b)
    BY <1>1 DEF LastLine, Chars
  <2>2. \A n \in c.first..LastLine(c) : In(n, e)
    BY <1>5, <1>6 DEF In
  <2>3. \A b \in Taken : b # chunk /\ b # chunk'
    BY <1>1, <1>7
  <2> QED
    BY <1>1, <1>3, <2>1, <2>2, <2>3 DEF ChunkInv, Kept, In
<1>10. IdsAreUnique'
  <2>1. ASSUME NEW d \in out, PointId(d) = PointId(e) PROVE FALSE
    <3>1. d.name = c.name /\ d.from = c.from /\ d.to = c.to /\ d.first = c.first
      BY <1>6, <2>1 DEF PointId
    <3>2. PICK b \in Taken : IsFrom(d, b)
      BY <1>1 DEF ChunkInv, Origins
    <3>3. b = c \/ Apart(b, c)
      BY <1>2, <3>1, <3>2, FileFacts, RawFacts DEF IsFrom, Taken
    <3>4. b.first <= c.first /\ c.first <= b.last
      BY <1>5, <3>1, <3>2 DEF IsFrom
    <3>5. b \in RawChunk(file)
      BY <1>2, <3>2, FileFacts, RawFacts DEF Taken
    <3> QED
      BY <1>3, <1>4, <1>5, <3>2, <3>3, <3>4, <3>5 DEF Apart, RawChunk
  <2> QED
    BY <1>1, <2>1 DEF ChunkInv, IdsAreUnique, PointId
<1>11. ChunksFit'
  <2>1. \A d \in out : Chars(d.first, LastLine(d)) <= max_chars \/ d.first = LastLine(d)
    BY DEF ChunkInv, ChunksFit, Fitting
  <2>2. LastLine(e) = LastLine(c)
    BY <1>6 DEF LastLine
  <2>3. CASE c.first = LastLine(c)
    BY <1>1, <1>6, <2>1, <2>2, <2>3 DEF ChunksFit, Fitting, LastLine, Chars
  <2>4. CASE Chars(c.first, c.last) <= max_chars /\ c.first # LastLine(c)
    <3>1. LastLine(c) = c.last \/ LastLine(c) = c.last - 1
      BY DEF LastLine
    <3>2. Chars(c.first, LastLine(c)) <= max_chars
      <4>1. file.lines \in Nat /\ c.first \in 1..file.lines /\ c.last \in 1..file.lines
        BY <1>2, <1>4, CharsAreLess
      <4>2. CASE LastLine(c) = c.last - 1
        <5>1. c.last - 1 \in 1..file.lines
          BY <1>5, <4>1, <4>2
        <5>2. /\ Chars(c.first, c.last - 1) < Chars(c.first, c.last)
              /\ Chars(c.first, c.last - 1) \in Int /\ Chars(c.first, c.last) \in Int
          BY <1>2, <1>4, <4>1, <5>1, CharsAreLess
        <5> QED
          BY <2>4, <4>2, <5>2, SizesPositive
      <4> QED
        BY <2>4, <3>1, <4>2
    <3> QED
      BY <1>1, <1>6, <2>1, <2>2, <3>2 DEF ChunksFit, Fitting, LastLine, Chars
  <2> QED
    BY <2>3, <2>4 DEF KeepWhole
<1>12. Stages' /\ raw' \subseteq Raw(file)' /\ Splitting'
  BY <1>1, <1>2 DEF ChunkInv, Stages, Splitting, Raw, PythonChunks, Windows, Together
<1> QED
  BY <1>1, <1>8, <1>9, <1>10, <1>11, <1>12 DEF ChunkInv

\* Splitting of c begins; nothing is returned yet.
LEMMA StartInv ==
  ASSUME ChunkInv, NEW c \in raw, StartSplit(c)
  PROVE  ChunkInv'
<1>1. file' = file /\ chunk' = c /\ chunk = None /\ step = "cutting" /\ step' = "cutting"
      /\ raw' = raw \ {c} /\ out' = out /\ first' = c.first /\ idx' = 1
  BY DEF StartSplit
<1>2. file \in Files /\ raw \subseteq Raw(file) /\ c \in Raw(file)
  BY <1>1 DEF ChunkInv, Stages
<1>3. Taken' = Taken \cup {c} /\ c \notin Taken
  BY <1>1, <1>2 DEF Taken, Raw, PythonChunks, Windows, Together
<1>4. c \in RawChunk(file) /\ c.first <= c.last
  BY <1>2, FileFacts, RawFacts
<1>5. c.first \in Int /\ c.last \in Int /\ LastLine(c) \in c.first..c.last
  BY <1>2, <1>4, CharsAreLess
<1>6. \A b \in Taken : b # chunk /\ b # chunk'
  <2>1. \A d \in Raw(file) : d.first >= 1
    BY <1>2, FileFacts, RawFacts DEF RawChunk
  <2>2. None.first = 0
    BY DEF None
  <2> QED
    BY <1>1, <1>3, <2>1, <2>2 DEF Taken
<1>7. \A b \in Raw(file) : LastLine(b)' = LastLine(b)
  BY <1>1 DEF LastLine, Chars
<1>8. Origins'
  <2>1. \A d \in out, b \in Taken : IsFrom(d, b) => IsFrom(d, b)'
    BY <1>1, <1>6 DEF IsFrom
  <2> QED
    BY <1>1, <1>3, <2>1 DEF ChunkInv, Origins
<1>9. Splitting'
  <2>1. first' \in c.first..LastLine(c) /\ idx' <= first' - c.first + 1 /\ idx' \in Nat
    BY <1>1, <1>5
  <2> QED
    BY <1>1, <1>2, <1>3, <1>7, <2>1 DEF Splitting
<1>10. Kept'
  <2>1. \A b \in Taken' : LastLine(b)' = LastLine(b)
    BY <1>2, <1>3, <1>7 DEF Taken
  <2>2. \A n \in c.first..LastLine(c) : ~(n < first')
    BY <1>1, <1>5
  <2> QED
    BY <1>1, <1>3, <1>6, <2>1, <2>2 DEF ChunkInv, Kept, In
<1>11. IdsAreUnique' /\ ChunksFit'
  BY <1>1 DEF ChunkInv, IdsAreUnique, PointId, ChunksFit, Fitting, LastLine, Chars
<1>12. Stages' /\ raw' \subseteq Raw(file)'
  BY <1>1, <1>2 DEF ChunkInv, Stages, Raw, PythonChunks, Windows, Together
<1> QED
  BY <1>1, <1>8, <1>9, <1>10, <1>11, <1>12 DEF ChunkInv

\* The next part begins after this one's first line and leaves no gap.
LEMMA NextIsNear ==
  ASSUME first \in Nat, NEW b \in Nat, first <= b
  PROVE  NextFirst(b) \in Int /\ first + 1 <= NextFirst(b) /\ NextFirst(b) <= b + 1
<1>1. (b - first + 1) \div OVERLAP_FRACTION \in Nat
  BY SizesPositive, Division
<1> QED
  BY <1>1 DEF NextFirst, Larger

\* Lines first..b of the chunk are returned as its part idx.
LEMMA PartInv ==
  ASSUME ChunkInv, SplitOff
  PROVE  ChunkInv'
<1>1. PICK b \in first..LastLine(chunk) :
        /\ Fills(b)
        /\ out' = out \cup {Part(chunk, idx, first, b)}
        /\ IF b = LastLine(chunk)
           THEN chunk' = None /\ UNCHANGED <<first, idx>>
           ELSE first' = NextFirst(b) /\ idx' = idx + 1 /\ UNCHANGED chunk
  BY DEF SplitOff
<1>e. PICK c, e : c = chunk /\ e = Part(chunk, idx, first, b)
  OBVIOUS
<1>2. chunk # None /\ UNCHANGED <<file, raw, step>>
  BY DEF SplitOff
<1>3. /\ step = "cutting" /\ file \in Files /\ raw \subseteq Raw(file)
      /\ chunk \in Taken /\ chunk \in Raw(file)
      /\ first \in chunk.first..LastLine(chunk) /\ idx \in Nat /\ idx <= first - chunk.first + 1
  BY <1>2 DEF ChunkInv, Stages, Splitting, Taken
<1>4. chunk \in RawChunk(file) /\ chunk.first <= chunk.last
  BY <1>3, FileFacts, RawFacts
<1>5. /\ chunk.first \in Nat /\ chunk.last \in Nat /\ LastLine(chunk) \in chunk.first..chunk.last
      /\ first \in Nat /\ b \in Nat /\ first <= b /\ b <= LastLine(chunk)
  BY <1>1, <1>3, <1>4, CharsAreLess DEF RawChunk
<1>6. Taken' = Taken /\ Raw(file)' = Raw(file)
  BY <1>2 DEF Taken, Raw, PythonChunks, Windows, Together
<1>7. e.name = chunk.name /\ e.from = chunk.from /\ e.to = chunk.to /\ e.part = idx
      /\ e.first = first /\ e.last = b
  BY <1>e DEF Part
<1>8. NextFirst(b) \in Int /\ first + 1 <= NextFirst(b) /\ NextFirst(b) <= b + 1
  BY <1>5, NextIsNear
<1>9. \A d \in Raw(file) : LastLine(d)' = LastLine(d) /\ d # None
  <2>1. \A d \in Raw(file) : d.first >= 1
    BY <1>3, FileFacts, RawFacts DEF RawChunk
  <2>2. None.first = 0
    BY DEF None
  <2> QED
    BY <1>2, <2>1, <2>2 DEF LastLine, Chars
<1>10. chunk' = None \/ (chunk' = chunk /\ idx' = idx + 1 /\ first' = NextFirst(b) /\ b # LastLine(chunk))
  BY <1>1
<1>11. Splitting'
  <2>1. CASE chunk' = None
    BY <2>1 DEF Splitting
  <2>2. CASE chunk' = chunk /\ idx' = idx + 1 /\ first' = NextFirst(b) /\ b # LastLine(chunk)
    <3>1. first' \in chunk.first..LastLine(chunk) /\ idx' \in Nat /\ idx' <= first' - chunk.first + 1
      BY <1>3, <1>5, <1>8, <2>2
    <3> QED
      BY <1>2, <1>3, <1>6, <1>9, <2>2, <3>1 DEF Splitting
  <2> QED
    BY <1>10, <2>1, <2>2
<1>12. Origins'
  <2>1. ASSUME NEW d \in out, NEW g \in Taken, IsFrom(d, g), d.part \in Nat PROVE IsFrom(d, g)'
    BY <1>3, <1>9, <1>10, <2>1 DEF IsFrom, Taken
  <2>2. IsFrom(e, c)'
    BY <1>e, <1>3, <1>5, <1>7, <1>9, <1>10 DEF IsFrom
  <2>3. \A d \in out' : d \in out \/ d = e
    BY <1>1, <1>e
  <2>4. ASSUME NEW d \in out PROVE d.part \in Nat /\ \E g \in Taken' : IsFrom(d, g)'
    BY <1>3, <1>6, <2>1 DEF ChunkInv, Origins
  <2>5. e.part \in Nat /\ c \in Taken'
    BY <1>e, <1>3, <1>6, <1>7
  <2> QED
    BY <2>2, <2>3, <2>4, <2>5 DEF Origins
<1>13. Kept'
  <2>1. \A n \in first..b : In(n, e)
    BY <1>5, <1>7 DEF In
  <2>2. e \in out' /\ out \subseteq out'
    BY <1>1, <1>e
  <2>3. ASSUME NEW g \in Taken, NEW n \in g.first..LastLine(g), g = chunk' => n < first'
        PROVE  \E d \in out' : In(n, d)
    <3>1. CASE (g = chunk => n < first)
      BY <1>2, <1>3, <2>2, <2>3, <3>1 DEF ChunkInv, Kept
    <3>2. CASE g = chunk /\ ~(n < first)
      <4>1. n \in Int /\ n <= LastLine(chunk)
        BY <1>5, <2>3, <3>2
      <4>2. n <= b
        BY <1>1, <1>5, <1>8, <1>10, <2>3, <3>2, <4>1
      <4> QED
        BY <1>5, <2>1, <2>2, <3>2, <4>1, <4>2
    <3> QED
      BY <3>1, <3>2
  <2> QED
    BY <1>6, <1>9, <2>3 DEF Kept, Taken, In
<1>14. IdsAreUnique'
  <2>1. ASSUME NEW d \in out, PointId(d) = PointId(e) PROVE FALSE
    <3>1. d.name = chunk.name /\ d.from = chunk.from /\ d.to = chunk.to
          /\ d.first = first /\ d.part = idx
      BY <1>7, <2>1 DEF PointId
    <3>2. PICK g \in Taken : IsFrom(d, g) /\ d.part \in Nat
      BY <1>3 DEF ChunkInv, Origins
    <3>3. g = chunk \/ Apart(g, chunk)
      BY <1>3, <3>1, <3>2, FileFacts, RawFacts DEF IsFrom, Taken
    <3>4. g.first <= first /\ first <= g.last /\ g \in RawChunk(file)
      BY <1>3, <1>5, <3>1, <3>2, FileFacts, RawFacts DEF IsFrom, Taken
    <3>5. g # chunk
      BY <1>3, <3>1, <3>2 DEF IsFrom
    <3> QED
      BY <1>3, <1>5, <3>3, <3>4, <3>5 DEF Apart, RawChunk
  <2> QED
    BY <1>1, <1>e, <2>1 DEF ChunkInv, IdsAreUnique, PointId
<1>15. ChunksFit'
  <2>1. Chars(e.first, LastLine(e)) <= max_chars \/ e.first = LastLine(e)
    <3>1. CASE b = first
      BY <1>5, <1>7, <3>1 DEF LastLine
    <3>2. CASE b # first /\ Chars(first, b) <= max_chars
      <4>1. file.lines \in Nat /\ first \in 1..file.lines /\ b \in 1..file.lines
        BY <1>3, <1>4, <1>5, CharsAreLess
      <4>2. CASE LastLine(e) = b - 1
        <5>1. b - 1 \in 1..file.lines
          BY <1>5, <3>2, <4>1
        <5>2. /\ Chars(first, b - 1) < Chars(first, b)
              /\ Chars(first, b - 1) \in Int /\ Chars(first, b) \in Int
          BY <1>3, <1>4, <4>1, <5>1, CharsAreLess
        <5> QED
          BY <1>7, <3>2, <4>2, <5>2, SizesPositive
      <4> QED
        BY <1>7, <3>2, <4>2 DEF LastLine
    <3> QED
      BY <1>1, <3>1, <3>2 DEF Fills
  <2> QED
    BY <1>1, <1>e, <1>2, <2>1 DEF ChunkInv, ChunksFit, Fitting, LastLine, Chars
<1>16. Stages' /\ raw' \subseteq Raw(file)'
  BY <1>2, <1>3, <1>6 DEF ChunkInv, Stages
<1> QED
  BY <1>2, <1>3, <1>11, <1>12, <1>13, <1>14, <1>15, <1>16 DEF ChunkInv

LEMMA ChunkStepInv == ChunkInv /\ [ChunkNext]_chunkVars => ChunkInv'
<1> SUFFICES ASSUME ChunkInv, [ChunkNext]_chunkVars PROVE ChunkInv'
  OBVIOUS
<1>1. CASE Cut
  BY <1>1, CutInv
<1>2. ASSUME NEW c \in raw, KeepWhole(c) \/ StartSplit(c) PROVE ChunkInv'
  BY <1>2, KeepInv, StartInv
<1>3. CASE SplitOff
  BY <1>3, PartInv
<1>4. CASE UNCHANGED <<file, raw, chunk, first, idx, out>> /\ step' \in {step, "done"}
        /\ (step' = step \/ (step = "cutting" /\ chunk = None /\ raw = {}))
  <2>1. Taken' = Taken /\ Raw(file)' = Raw(file)
    BY <1>4 DEF Taken, Raw, PythonChunks, Windows, Together
  <2>2. Stages' /\ (step' # "idle" => step # "idle")
    BY <1>4 DEF ChunkInv, Stages
  <2>3. step' # "idle" => raw' \subseteq Raw(file)' /\ Origins' /\ Kept'
    BY <1>4, <2>1, <2>2 DEF ChunkInv, Origins, IsFrom, Kept, In, LastLine, Chars
  <2>4. step' # "idle" => Splitting'
    BY <1>4, <2>1, <2>2 DEF ChunkInv, Splitting, LastLine, Chars
  <2>5. IdsAreUnique' /\ ChunksFit'
    BY <1>4 DEF ChunkInv, IdsAreUnique, PointId, ChunksFit, Fitting, LastLine, Chars
  <2> QED
    BY <2>2, <2>3, <2>4, <2>5 DEF ChunkInv
<1>5. CASE Return
  BY <1>4, <1>5 DEF Return
<1>6. CASE UNCHANGED chunkVars
  BY <1>4, <1>6 DEF chunkVars
<1> QED
  BY <1>1, <1>2, <1>3, <1>5, <1>6 DEF ChunkNext

LEMMA AlwaysChunkInv == ChunkSpec => []ChunkInv
  BY InitChunkInv, ChunkStepInv, PTL DEF ChunkSpec

-----------------------------------------------------------------------------
\* Two different chunks of a file never share an identity: functions of one name
\* begin at different lines, and the parts of a chunk are numbered.
THEOREM UniqueIds == ChunkSpec => []IdsAreUnique
<1>1. ChunkInv => IdsAreUnique
  BY DEF ChunkInv
<1> QED
  BY <1>1, AlwaysChunkInv, PTL

\* split_to_fit ends: every part begins at least a line further on, so there are
\* at most as many as lines, whatever the overlap.
THEOREM SplittingIsFinite == ChunkSpec => []SplittingEnds
<1>1. ASSUME ChunkInv, chunk # None PROVE idx <= chunk.last - chunk.first + 1
  <2>1. /\ file \in Files /\ chunk \in Raw(file) /\ first \in chunk.first..LastLine(chunk)
        /\ idx \in Nat /\ idx <= first - chunk.first + 1
    BY <1>1 DEF ChunkInv, Stages, Splitting, Taken
  <2>2. chunk \in RawChunk(file) /\ chunk.first <= chunk.last
    BY <2>1, FileFacts, RawFacts
  <2>3. /\ file.lines \in Nat /\ chunk.first \in 1..file.lines /\ chunk.last \in 1..file.lines
        /\ LastLine(chunk) \in chunk.first..chunk.last
    BY <2>1, <2>2, CharsAreLess
  <2> QED
    BY <2>1, <2>3
<1>2. ChunkInv => SplittingEnds
  BY <1>1 DEF SplittingEnds
<1> QED
  BY <1>2, AlwaysChunkInv, PTL

\* No returned chunk is longer than the budget, unless it is a single line.
THEOREM AllFit == ChunkSpec => []ChunksFit
<1>1. ChunkInv => ChunksFit
  BY DEF ChunkInv
<1> QED
  BY <1>1, AlwaysChunkInv, PTL

\* No line gets lost, between two windows, two statements or two parts.
THEOREM LinesAreKept == ChunkSpec => []NoLineIsLost
<1>1. ASSUME ChunkInv, step = "done", NEW n \in Wanted, Chars(n, n) > 0
      PROVE  \E e \in out : e.first <= n /\ n <= e.last /\ Fitting(e)
  <2>1. file \in Files /\ raw = {} /\ chunk = None /\ Kept
    BY <1>1 DEF ChunkInv, Stages
  <2>2. WellFormed(file)
    BY <2>1, FileFacts
  <2>3. n \in Nat /\ \E c \in Raw(file) : c.first <= n /\ n <= c.last
    <3>1. CASE file.python
      <4>1. PICK s \in file.body : n \in s.first..s.last
        BY <1>1, <3>1 DEF Wanted
      <4>2. PICK c \in Raw(file) : c.first <= s.first /\ s.last <= c.last
        BY <2>2, <3>1, RawFacts
      <4>3. c \in RawChunk(file) /\ s.first \in Nat /\ s.last \in Nat /\ file.lines \in Nat
        BY <2>2, RawFacts, StmtTypes
      <4> QED
        BY <4>1, <4>2, <4>3 DEF RawChunk
    <3>2. CASE ~file.python
      BY <1>1, <2>2, <3>2, RawFacts DEF Wanted, WellFormed
    <3> QED
      BY <3>1, <3>2
  <2>4. PICK c \in Raw(file) : c.first <= n /\ n <= c.last
    BY <2>3
  <2>5. c \in RawChunk(file) /\ c.first <= c.last
    BY <2>2, RawFacts
  <2>6. /\ c.first \in Nat /\ c.last \in Nat /\ LastLine(c) \in c.first..c.last
        /\ c.last - 1 <= LastLine(c) /\ (LastLine(c) = c.last \/ Chars(c.last, c.last) = 0)
    BY <2>1, <2>5, CharsAreLess
  <2>7. n \in c.first..LastLine(c)
    <3>1. CASE n = c.last
      BY <1>1, <2>3, <2>4, <2>6, <3>1
    <3>2. CASE n # c.last
      BY <2>3, <2>4, <2>6, <3>2
    <3> QED
      BY <3>1, <3>2
  <2>8. c \in Taken /\ c # chunk
    <3>1. c.first >= 1 /\ None.first = 0
      BY <2>5 DEF RawChunk, None
    <3> QED
      BY <2>1, <2>4, <3>1 DEF Taken
  <2>9. \E e \in out : e.first <= n /\ n <= e.last
    BY <2>1, <2>7, <2>8 DEF Kept, In
  <2> QED
    BY <1>1, <2>9 DEF ChunkInv, ChunksFit
<1>2. ChunkInv => NoLineIsLost
  BY <1>1 DEF NoLineIsLost
<1> QED
  BY <1>2, AlwaysChunkInv, PTL
=============================================================================
