SPECIFICATION Spec
CONSTANTS
  j1 = j1
  j2 = j2
  j3 = j3
  p1 = p1
  p2 = p2
  NoJob = NoJob
  Jobs = {j1}
  PRs = {p1}
  prOf <- PrOne
  shaOf <- ShaOne
  MaxSha = 1
  MaxCloses = 1
  MayStop = FALSE
  FailingCalls <- NoFailure
INVARIANTS
  DrainedRowsAreFinal
CHECK_DEADLOCK FALSE
