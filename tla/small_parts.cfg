SPECIFICATION Spec
CONSTANTS
  small = small
  big = big
  big2 = big2
  vague = vague
  huge = huge
  NoName = NoName
  Names = {small, big, big2, vague, huge}
  keyOf <- Key
  maxContext <- Full
  context <- Short
  size_bytes <- Bytes
  params <- Params
  bytes_per_param = 2
  vram_budget = 6
  Prompts = {1, 3, 12}
  MaxReviews = 2
  MaxOthers = 2
  up1 = up1
  up2 = up2
  del1 = del1
  find1 = find1
  Ops = {up1, up2, del1, find1}
  opKind <- KindOf
  fileOf <- FileOf
  Batches = 2
  MaxDeletions = 2
  f = f
  g = g
  Files <- SomeFiles
  max_chars = 6
  CHARS_PER_LINE = 2
  OVERLAP_FRACTION = 2
  FuncNames = {f, g}
  Module = Module
  Lines = Lines
  main = main
  feat = feat
  identifiers = 2
  base_branch = main
  head_branch = feat
  Chunks <- SomeChunks
  Scores = {1, 2}
  Limits = {0, 1, 2, 5}
  BATCH_SIZE = 1
  PER_QUERY_LIMIT = 2
  MAX_CONCURRENT_SEARCHES = 2
  Paths = {f, g}
  Texts = {1, 2}
  MaxListed = 3
  PyFiles = {f, g}
  Unsafe = {g}
INVARIANTS
  BudgetHolds
  RaisesForCause
  OutsideDeletionIsHarmless
  NoLineIsLost
  IdsAreUnique
  SplittingEnds
  ContextIsBest
  AggregateIsNet
CHECK_DEADLOCK FALSE
