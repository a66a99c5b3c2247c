SPECIFICATION Spec
CONSTANTS
  s1 = s1
  s2 = s2
  s3 = s3
  l1 = l1
  l2 = l2
  l3 = l3
  Shas = {s1, s2, s3}
  MaxPush = 2
  shaAt <- Moves
  Places = {l1, l2, l3}
  pages <- DiffPages
INVARIANTS
  PostsAreAboutTheirCommit
  CommentsAreOnTheDiff
  OneReviewThenSummary
  StaleIsTrue
  OkIsComplete
  GoodWeatherSucceeds
PROPERTIES
  RunEnds
  IsTheQueuesAwait
CHECK_DEADLOCK FALSE
