CONSTANTS
  MaxDepth = 3
  InputLen = 12
  Alphabet = {"type", "struct", "num", "id", "=", "(", ")", "{", "}", ";"}
SPECIFICATION Spec
INVARIANT AcceptedInputParsed
