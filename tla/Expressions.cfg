CONSTANTS
  BitWidth = 3
  Sources <- AllSources
  Trees <- AllTrees
  Environments <- SomeValues
SPECIFICATION ExpressionsSpec
INVARIANTS WellTyped SameMeaning
CHECK_DEADLOCK FALSE
