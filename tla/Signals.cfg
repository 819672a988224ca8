CONSTANTS
  MaxStructs = 2
  MaxStructFields = 2
  NameLength = 4
  Names <- AnyName
  StructNames <- Structs
  FieldLists <- Lists
  Words <- AllWords
  Reserved <- OnlyIn
  Positions <- Unnegated
  MaxVariables = 2
  MaxParameters = 1
  ArrayNameSize = 4
SPECIFICATION Spec
INVARIANTS TypeOK NamesAreLegal RecordsMatchDefinitions ResetMirrorsSignals ReferencesResolve
CHECK_DEADLOCK FALSE
