SPECIFICATION LifeSpec
CONSTANTS
  a = a
  b = b
  push1 = push1
  push2 = push2
  push3 = push3
  push4 = push4
  forced2 = forced2
  forced3 = forced3
  admin1 = admin1
  delete1 = delete1
  Files = {a, b}
  Slots = {1, 2}
  kind <- TaskKind
  commitOf <- TaskCommit
  MaxCommit = 2
  text <- ShortText
  chunks <- Chunks
  Tasks = {push1, forced2, admin1, delete1}
  FailingCalls = {"sha", "sweep"}
  MaxStarts = 2
  InOrder = FALSE
  Concurrent = TRUE
INVARIANTS
  NothingUsesClosedClients
  FullIndexRepairs
  NeverEmptyMidReindex
  OneFullIndex
PROPERTIES
  ShutdownEnds
\* Every task may have ended.
CHECK_DEADLOCK FALSE
