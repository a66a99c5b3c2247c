SPECIFICATION Spec
CONSTANTS
  MaxTurns = 3
  MaxCalls = 2
  MaxPieces = 2
INVARIANTS
  RequestsAreWellFormed
  LimitMeansTools
  AnalysisSurvives
  CallsAreWhole
  SubmitIsFinal
PROPERTIES
  ReviewEnds
\* A conversation ends.
CHECK_DEADLOCK FALSE
