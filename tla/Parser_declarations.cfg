CONSTANTS
  MaxDepth = 3
  InputLen = 13
  Alphabet = {"struct", "type", "void", "return", "id", "longid", "num", "=", "||", "-", "*", "!", "%", ".", "[", "]", ",", "(", ")", "{", "}", ";"}
SPECIFICATION FairSpec
INVARIANT StackBoundedButForUnary
PROPERTY ImplementsContract
