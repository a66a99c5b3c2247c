SPECIFICATION Spec
CONSTANTS
  j1 = j1
  j2 = j2
  j3 = j3
  p1 = p1
  p2 = p2
  NoJob = NoJob
  Jobs = {j1, j2}
  PRs = {p1}
  prOf <- PrOne
  shaOf <- ShaInOrder
  MaxSha = 2
  MaxCloses = 0
  MayStop = TRUE
  FailingCalls <- NoFailure
INVARIANTS
  DrainKeepsWorker
CHECK_DEADLOCK FALSE
