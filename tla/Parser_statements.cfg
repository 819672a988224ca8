CONSTANTS
  MaxDepth = 3
  InputLen = 17
  Alphabet = {"type", "if", "else", "while", "for", "continue", "id", "=", "++", "(", ")", "{", "}", ";"}
SPECIFICATION FairSpec
INVARIANTS TypeOK DepthCountsActivations LoopDepthCountsOpenLoops
  JumpInsideLoop NodeOwnership
PROPERTIES NoStatementAfterError ImplementsContract
