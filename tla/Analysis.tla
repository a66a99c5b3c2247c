-------------------------------- MODULE Analysis --------------------------------
(***************************************************************************)
(* Static analysis of a pull request's Python files (static_analyzer.py    *)
(* and the step of review_orchestrator.py around it).  The files are read  *)
(* from GitHub and written to a temporary directory; then ruff and mypy    *)
(* run there, each as a process of its own with 30 seconds to end.  A file *)
(* that cannot be read and a tool that does not work are left out.         *)
(***************************************************************************)
CONSTANTS PyFiles,   \* the Python files of the diff
          Unsafe     \* those whose path leads out of the directory

ASSUME FilesAreOfTheDiff == Unsafe \subseteq PyFiles

Tools == {"ruff", "mypy"}

VARIABLES
  analysis,   \* the await the analysis is in, or how it ended
  enabled,    \* the tools the configuration switches on
  unread,     \* the files still to be read
  contents,   \* the files that were read
  tool,       \* the tool whose turn it is
  proc,       \* the process of each tool; a reaped one is gone
  tmpdir,     \* the temporary directory is there
  reported,   \* the tools whose findings were kept
  unheard     \* history: the tools whose talk with their process raised

analysisVars == <<analysis, enabled, unread, contents, tool, proc, tmpdir, reported, unheard>>

\* "swallowed": the analysis raised, which the orchestrator logs.
AnalysisEnded == {"returned", "swallowed", "cancelled"}

AnalysisTypeOK ==
  /\ analysis \in {"idle", "read", "spawn", "communicate", "wait"} \cup AnalysisEnded
  /\ enabled \subseteq Tools /\ unread \subseteq PyFiles /\ contents \subseteq PyFiles
  /\ tool \in Tools
  /\ proc \in [Tools -> {"none", "running", "killed", "exited", "reaped"}]
  /\ tmpdir \in BOOLEAN /\ reported \subseteq Tools /\ unheard \subseteq Tools

AnalysisInit ==
  /\ analysis = "idle" /\ enabled = {} /\ unread = {} /\ contents = {} /\ tool = "ruff"
  /\ proc = [t \in Tools |-> "none"] /\ tmpdir = FALSE /\ reported = {} /\ unheard = {}

\* The directory is removed on every way out.
Leave(how) == analysis' = how /\ tmpdir' = FALSE

-----------------------------------------------------------------------------
BeginAnalysis ==
  /\ analysis = "idle"
  /\ enabled' \in SUBSET Tools
  /\ unread' = PyFiles
  /\ analysis' = IF enabled' = {} THEN "returned" ELSE "read"
  /\ UNCHANGED <<contents, tool, proc, tmpdir, reported, unheard>>

\* get_file_content: a text, nothing for a large file, or an error.
ReadFile(p) ==
  /\ analysis = "read" /\ p \in unread
  /\ unread' = unread \ {p}
  /\ contents' = contents \cup {p} \/ UNCHANGED contents
  /\ UNCHANGED <<analysis, enabled, tool, proc, tmpdir, reported, unheard>>

\* The files are written, unless there are none or writing one fails.
WriteFiles ==
  /\ analysis = "read" /\ unread = {}
  /\ \/ /\ contents \ Unsafe # {}
        /\ analysis' = "spawn" /\ tmpdir' = TRUE
        /\ tool' = IF "ruff" \in enabled THEN "ruff" ELSE "mypy"
     \/ contents \ Unsafe = {} /\ Leave("returned") /\ UNCHANGED tool
     \/ Leave("swallowed") /\ UNCHANGED tool
  /\ UNCHANGED <<enabled, unread, contents, proc, reported, unheard>>

\* mypy follows ruff.
NextTool ==
  IF tool = "ruff" /\ "mypy" \in enabled
  THEN analysis' = "spawn" /\ tool' = "mypy" /\ UNCHANGED tmpdir
  ELSE Leave("returned") /\ UNCHANGED tool

\* create_subprocess_exec; a tool that cannot be started is skipped.
Spawn ==
  /\ analysis = "spawn"
  /\ \/ /\ analysis' = "communicate"
        /\ proc' = [proc EXCEPT ![tool] = "running"]
        /\ UNCHANGED <<tool, tmpdir>>
     \/ NextTool /\ UNCHANGED proc
  /\ UNCHANGED <<enabled, unread, contents, reported, unheard>>

\* The operating system: a process ends by itself, or because it was killed.
ToolExits(t) ==
  /\ proc[t] \in {"running", "killed"}
  /\ proc' = [proc EXCEPT ![t] = "exited"]
  /\ UNCHANGED <<analysis, enabled, unread, contents, tool, tmpdir, reported, unheard>>

\* communicate returns: findings, or output without any, which is skipped.  Output of
\* ruff that is JSON of another form raises, and then nothing is reported at all.
ToolAnswers ==
  /\ analysis = "communicate" /\ proc[tool] = "exited"
  /\ proc' = [proc EXCEPT ![tool] = "reaped"]
  /\ \/ NextTool /\ reported' \in {reported, reported \cup {tool}}
     \/ tool = "ruff" /\ Leave("swallowed") /\ UNCHANGED <<tool, reported>>
  /\ UNCHANGED <<enabled, unread, contents, unheard>>

\* wait_for gives up: the process is killed if it has not just ended.
ToolTimesOut ==
  /\ analysis = "communicate"
  /\ analysis' = "wait"
  /\ proc' = [proc EXCEPT ![tool] = IF @ = "running" THEN "killed" ELSE @]
  /\ UNCHANGED <<enabled, unread, contents, tool, tmpdir, reported, unheard>>

\* proc.wait() returns, and the tool is skipped.
ToolReaped ==
  /\ analysis = "wait" /\ proc[tool] = "exited"
  /\ proc' = [proc EXCEPT ![tool] = "reaped"]
  /\ NextTool
  /\ UNCHANGED <<enabled, unread, contents, reported, unheard>>

\* communicate raises anything else, or kill or wait does after a timeout: the tool
\* is skipped, and nobody waits for its process.
ToolRaises ==
  /\ analysis \in {"communicate", "wait"}
  /\ unheard' = unheard \cup {tool}
  /\ NextTool
  /\ UNCHANGED <<enabled, unread, contents, proc, reported>>

\* The review is cancelled: no except clause stops the process.
AnalysisCancelled ==
  /\ analysis \notin AnalysisEnded \cup {"idle"}
  /\ Leave("cancelled")
  /\ UNCHANGED <<enabled, unread, contents, tool, proc, reported, unheard>>

AnalysisNext ==
  \/ BeginAnalysis \/ WriteFiles \/ Spawn \/ ToolAnswers \/ ToolTimesOut \/ ToolReaped
  \/ ToolRaises \/ AnalysisCancelled
  \/ \E p \in PyFiles : ReadFile(p)
  \/ \E t \in Tools : ToolExits(t)

AnalysisSpec == AnalysisInit /\ [][AnalysisNext]_analysisVars

-----------------------------------------------------------------------------
(* Properties.                                                             *)

Alive(t) == proc[t] \notin {"none", "reaped"}

\* A tool that hangs, or ends just as its time is up, leaves no process behind and
\* never runs beside the other or without its directory; only a cancelled review
\* leaves one, and a tool whose process could not be talked to.
NoToolIsLeft ==
  analysis # "cancelled" =>
    \A t \in Tools \ unheard :
      Alive(t) => t = tool /\ tmpdir /\ analysis \in {"communicate", "wait"}
=============================================================================
