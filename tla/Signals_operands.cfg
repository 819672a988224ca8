CONSTANTS
  MaxStructs = 2
  MaxStructFields = 2
  NameLength = 4
  Names <- PlainNames
  StructNames = {}
  FieldLists = {}
  Words <- AllWords
  Reserved <- OnlyIn
  Positions <- Operands
  MaxVariables = 1
  MaxParameters = 1
  ArrayNameSize = 4
SPECIFICATION Spec
INVARIANT OperandsResolve
CHECK_DEADLOCK FALSE
