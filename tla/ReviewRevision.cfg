\* The pull request moves while its raw diff is fetched, and comes back.
SPECIFICATION Spec
CONSTANTS
  Names <- McNames
  RelatedKey <- McRelatedKey
  TextBytes <- McTextBytes
  HeaderBytes = 1
  BatchBytes = 3
  Cases <- McCases
  Streams <- McStreams
  Parallelism = 2
  HTTPRetries = 1
  MaxBatches = 3
  RequestTokens = 2
  Allowances <- McAllowances
INVARIANTS
  SuccessIsOfThisRevision
