CONSTANT Functions <- WithSkips
CONSTANT Outside <- AllOutside
CONSTANT Inside <- AllInside
CONSTANT Names <- AllNames
SPECIFICATION StatementsSpec
PROPERTY ImplementsFunction
CHECK_DEADLOCK FALSE
