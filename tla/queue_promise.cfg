SPECIFICATION Spec
CONSTANTS
  j1 = j1
  j2 = j2
  j3 = j3
  p1 = p1
  p2 = p2
  NoJob = NoJob
  Jobs = {j1, j2, j3}
  PRs = {p1, p2}
  prOf <- PrTwo
  shaOf <- ShaTwo
  MaxSha = 2
  MaxCloses = 0
  MayStop = TRUE
  FailingCalls <- SavesWork
PROPERTIES
  KeepsItsPromise
  WantedGetsReviewed
CHECK_DEADLOCK FALSE
