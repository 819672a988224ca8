CONSTANTS
  Name <- MCName
  Stored <- MCStored
  MaxArrays = 3
  IntMax = 3
SPECIFICATION Spec
INVARIANT TypeOK
PROPERTY ImplementsArrayScope
