SPECIFICATION FairSpec
CONSTANTS
  NumRecords = 3
  BatchSize = 2
  Columns <- MCColumns
  HttpCells <- MCHttpCells
  FetchConcurrency = 2
  NumIndices = 2
  MaxAttempts = 2
INVARIANTS
  NothingLostOrDuplicated
  BlobsInPlace
  CountsAgree
  ResultAccepted
PROPERTIES
  ImplementsContract
  ConversionEnds
CHECK_DEADLOCK FALSE
