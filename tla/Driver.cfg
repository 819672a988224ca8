CONSTANTS
  Functions = 3
  BufferSize = 2
SPECIFICATION FairSpec
INVARIANTS TypeOK StatusTellsDiagnostics SuccessIsComplete ReleasedAtExit
PROPERTIES TruncatedAfterCleanParse Termination
