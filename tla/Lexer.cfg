CONSTANTS
  Alphabet = {"a", "1", ".", "/", "*", "=", "nl", ";"}
  Keywords <- MCKeywords
  MaxValue = 3
  InputLen = 5
  MaxRewinds = 1
SPECIFICATION FairSpec
INVARIANTS TypeOK TokensCutTheText LinesAreExactUntilRewound RewindRepeatsTheToken TruncatedIdentifierIsAnError
PROPERTY EveryCallReturns
CHECK_DEADLOCK FALSE
