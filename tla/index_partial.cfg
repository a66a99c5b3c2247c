SPECIFICATION Spec
CONSTANTS
  a = a
  b = b
  push1 = push1
  push2 = push2
  push3 = push3
  push4 = push4
  forced2 = forced2
  forced3 = forced3
  admin1 = admin1
  delete1 = delete1
  Files = {a, b}
  Slots = {1, 2}
  kind <- TaskKind
  commitOf <- TaskCommit
  MaxCommit = 3
  text <- Text
  chunks <- Chunks
  Tasks = {push1, push2, push3}
  FailingCalls = {"sha", "tree", "remove", "clear", "put", "sweep", "save", "drop", "forget"}
  InOrder = TRUE
  Concurrent = FALSE
INVARIANTS
  RecordedIsComplete
\* Every task may have ended.
CHECK_DEADLOCK FALSE
