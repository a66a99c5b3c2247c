SPECIFICATION Spec
CONSTANTS
  j1 = j1
  j2 = j2
  j3 = j3
  p1 = p1
  p2 = p2
  NoJob = NoJob
  Jobs = {j1, j2, j3}
  PRs = {p1}
  prOf <- PrOne
  shaOf <- ShaRepeated
  MaxSha = 2
  MaxCloses = 1
  MayStop = FALSE
  FailingCalls <- AllButReports
INVARIANTS
  OnlyWantedLive
  WantedIsKept
  DrainedMeansSettled
  GreenMeansReviewed
CHECK_DEADLOCK FALSE
