SPECIFICATION PromptSpec
CONSTANTS
  j1 = j1
  j2 = j2
  j3 = j3
  p1 = p1
  p2 = p2
  NoJob = NoJob
  Jobs = {j1, j2}
  PRs = {p1}
  prOf <- PrOne
  shaOf <- ShaInOrder
  MaxSha = 2
  MaxCloses = 1
  MayStop = TRUE
  FailingCalls <- EveryCall
INVARIANTS
  NothingRunsAfterStop
  RowsAreFinal
  FailureIsReported
PROPERTIES
  FinalRowsStay
  StopTerminates
CHECK_DEADLOCK FALSE
