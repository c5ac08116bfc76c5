\* Three paths, files of two lines, two workers, one retry, two sets of allowances.
SPECIFICATION FairSpec
CONSTANTS
  Names <- McNames
  RelatedKey <- McRelatedKey
  TextBytes <- McTextBytes
  HeaderBytes = 1
  BatchBytes = 3
  Cases <- McCases
  Streams <- McStreams
  Parallelism = 2
  HTTPRetries = 1
  MaxBatches = 3
  RequestTokens = 2
  Allowances <- McAllowances
INVARIANTS
  TreesExplained
  PlanIsWhole
  ReportIsTrue
  SuccessIsCovered
PROPERTY
  Terminates
