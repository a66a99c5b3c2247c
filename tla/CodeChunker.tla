------------------------------- MODULE CodeChunker -------------------------------
(***************************************************************************)
(* Cutting a source file into chunks (code_chunker.py).  A Python file is  *)
(* cut at its top-level functions and classes, any other file, and one     *)
(* that does not parse, into overlapping windows of lines; a chunk that is *)
(* too long is then split further, line by line.                           *)
(*                                                                         *)
(* A file is given by where its lines end: mark[n] is the number of        *)
(* characters of the first n lines, each with its newline, so the text of  *)
(* lines a to b joined by newlines has mark[b] - mark[a - 1] - 1 of them.  *)
(* Names are model values; the name lines_a_b of a window is given by a    *)
(* and b, the suffix [k] of a part by k, and 0 stands for having none.     *)
(***************************************************************************)
EXTENDS Integers

CONSTANTS Files,     \* the files: lines, mark, python, body (see FileType)
          max_chars,
          CHARS_PER_LINE, OVERLAP_FRACTION,   \* 80 and 6 in the code
          FuncNames, Module, Lines            \* names; Module is <module>

\* A top-level statement of a Python file; a definition starts at its first
\* decorator.
Stmts(n) == [def : BOOLEAN, name : FuncNames, first : 1..n, last : 1..n]

\* Statements may share lines, but not with a definition.
WellFormed(file) ==
  /\ file.lines \in Nat
  /\ file.mark \in [0..file.lines -> Nat]
  /\ \A n \in 1..file.lines : file.mark[n] > file.mark[n - 1]
  /\ file.python \in BOOLEAN
  /\ file.body \subseteq Stmts(file.lines)
  /\ \A s \in file.body : s.first <= s.last
  /\ \A s, t \in file.body : s.def => s = t \/ s.last < t.first \/ t.last < s.first

ASSUME FilesAssumption == \A file \in Files : WellFormed(file)
ASSUME SizesPositive ==
  max_chars \in Nat /\ CHARS_PER_LINE \in Nat \ {0} /\ OVERLAP_FRACTION \in Nat \ {0, 1}
ASSUME NamesDiffer == Module \notin FuncNames /\ Lines \notin FuncNames /\ Module # Lines

VARIABLES
  file,    \* the file being cut
  raw,     \* the chunks not looked at yet
  chunk,   \* the chunk being split, or none
  first,   \* its line the next part begins with (i)
  idx,     \* the number of that part
  out,     \* the chunks returned
  step     \* "idle", "cutting" or "done"

chunkVars == <<file, raw, chunk, first, idx, out, step>>

None == [name |-> Module, from |-> 0, to |-> 0, first |-> 0, last |-> 0]

EmptyFile == [lines |-> 0, mark |-> [n \in {0} |-> 0], python |-> FALSE, body |-> {}]

ChunkInit ==
  /\ file = EmptyFile /\ raw = {} /\ chunk = None
  /\ first = 1 /\ idx = 1 /\ out = {} /\ step = "idle"

-----------------------------------------------------------------------------
(* The first cut.                                                          *)

Larger(a, b) == IF a >= b THEN a ELSE b
Smaller(a, b) == IF a <= b THEN a ELSE b

max_lines == Larger(2, max_chars \div CHARS_PER_LINE)

\* Faulty variant: the windows leave a line out.
stride_wide == max_lines + 1

\* step: how far apart windows begin, so that they overlap.
stride == Larger(1, max_lines - Larger(1, max_lines \div OVERLAP_FRACTION))

\* _chunk_heuristic: a window begins a stride after the last unless that one
\* reached the end of the file.
Windows(f) ==
  LET Starts == {k * stride : k \in 0..f.lines} IN
  {[name |-> Lines, from |-> s + 1, to |-> Smaller(s + max_lines, f.lines),
    first |-> s + 1, last |-> Smaller(s + max_lines, f.lines)] :
     s \in {s \in Starts : s < f.lines /\ (s = 0 \/ s - stride + max_lines < f.lines)}}

\* Statements between which no definition comes.
Together(f, s, t) ==
  ~s.def /\ ~t.def
  /\ \A d \in f.body : d.def => (d.last < s.first <=> d.last < t.first)

\* _chunk_python: a chunk for each definition and for each run of other statements.
PythonChunks(f) ==
  {[name |-> d.name, from |-> 0, to |-> 0, first |-> d.first, last |-> d.last] :
     d \in {d \in f.body : d.def}}
  \cup
  {c \in [name : {Module}, from : {0}, to : {0}, first : 1..f.lines, last : 1..f.lines] :
     \E s, t \in f.body :
       /\ Together(f, s, t) /\ c.first = s.first /\ c.last = t.last
       /\ \A u \in f.body : Together(f, s, u) => s.first <= u.first /\ u.last <= t.last}

\* chunk_file, up to split_to_fit.
Cut ==
  /\ step \in {"idle", "done"}
  /\ \E f \in Files :
       /\ file' = f
       /\ raw' = IF f.python THEN PythonChunks(f) ELSE Windows(f)
  /\ chunk' = None /\ first' = 1 /\ idx' = 1 /\ out' = {}
  /\ step' = "cutting"

-----------------------------------------------------------------------------
(* split_to_fit.                                                           *)

Chars(a, b) == file.mark[b] - file.mark[a - 1] - 1

\* The lines that splitlines() finds in a chunk: an empty last one is lost.
LastLine(c) ==
  IF c.first < c.last /\ Chars(c.last, c.last) = 0 THEN c.last - 1 ELSE c.last

Part(c, k, a, b) ==
  [name |-> c.name, from |-> c.from, to |-> c.to, part |-> k, first |-> a, last |-> b]

\* A chunk that fits, or that is a single line, is returned as it is.
KeepWhole(c) ==
  /\ step = "cutting" /\ chunk = None /\ c \in raw
  /\ Chars(c.first, c.last) <= max_chars \/ c.first = LastLine(c)
  /\ raw' = raw \ {c}
  /\ out' = out \cup {Part(c, 0, c.first, c.last)}
  /\ UNCHANGED <<file, chunk, first, idx, step>>

StartSplit(c) ==
  /\ step = "cutting" /\ chunk = None /\ c \in raw
  /\ Chars(c.first, c.last) > max_chars /\ c.first # LastLine(c)
  /\ raw' = raw \ {c}
  /\ chunk' = c /\ first' = c.first /\ idx' = 1
  /\ UNCHANGED <<file, out, step>>

\* Faulty variant: the budget is checked after the line was added.
FillsOver(b) == b = first \/ Chars(first, b - 1) <= max_chars

\* Lines first..b fit, or are a single line.
Fills(b) == b = first \/ Chars(first, b) <= max_chars

\* Faulty variant: a part of one line repeats itself.
NextFirstBack(b) == b + 1 - Larger(1, (b - first + 1) \div OVERLAP_FRACTION)

\* Where the next part begins: some lines back, but always further on.
NextFirst(b) ==
  Larger(first + 1, b + 1 - Larger(1, (b - first + 1) \div OVERLAP_FRACTION))

\* One part: as many lines as fit.
SplitOff ==
  /\ chunk # None
  /\ \E b \in first..LastLine(chunk) :
       /\ Fills(b) /\ (b # LastLine(chunk) => ~Fills(b + 1))
       /\ out' = out \cup {Part(chunk, idx, first, b)}
       /\ IF b = LastLine(chunk)
          THEN chunk' = None /\ UNCHANGED <<first, idx>>
          ELSE first' = NextFirst(b) /\ idx' = idx + 1 /\ UNCHANGED chunk
  /\ UNCHANGED <<file, raw, step>>

Return ==
  /\ step = "cutting" /\ chunk = None /\ raw = {}
  /\ step' = "done"
  /\ UNCHANGED <<file, raw, chunk, first, idx, out>>

ChunkNext == Cut \/ (\E c \in raw : KeepWhole(c) \/ StartSplit(c)) \/ SplitOff \/ Return

ChunkSpec == ChunkInit /\ [][ChunkNext]_chunkVars

-----------------------------------------------------------------------------
(* Properties.                                                             *)

\* The lines that are to be found in some chunk: those of the statements of a
\* Python file, all of any other.
Wanted == IF file.python
          THEN UNION {s.first..s.last : s \in file.body} ELSE 1..file.lines

\* A returned chunk is within the budget, but for a line too long by itself.
Fitting(c) == Chars(c.first, LastLine(c)) <= max_chars \/ c.first = LastLine(c)

\* Every line that is not empty is in a chunk that fits, unless the line alone
\* does not: none is lost between two windows or two parts, or left to a chunk
\* that the embedding model would truncate.
NoLineIsLost ==
  step = "done" =>
    \A n \in Wanted : Chars(n, n) > 0 =>
      \E c \in out : c.first <= n /\ n <= c.last /\ Fitting(c)

\* "each fitting within max_chars": except for a line that is too long by itself.
ChunksFit == \A c \in out : Fitting(c)

\* Faulty variant: the first line is left out of the key.
PointIdByName(c) == <<c.name, c.from, c.to, c.part>>

\* CodeChunk.point_id: the name and the first line of a chunk, within a file.
PointId(c) == <<c.name, c.from, c.to, c.part, c.first>>

\* Chunks that share an identity would overwrite one another in the index: "so
\* their point IDs remain unique", overlapping parts, windows and functions of one
\* name included.
IdsAreUnique == \A c, d \in out : PointId(c) = PointId(d) => c = d

\* A chunk is split into at most as many parts as it has lines, however long
\* these are: the loop advances and comes to its end.
SplittingEnds == chunk # None => idx <= chunk.last - chunk.first + 1
=============================================================================
