CONSTANT Functions <- WithoutSkips
CONSTANT Outside <- AllOutside
CONSTANT Inside <- AllInside
CONSTANT Names <- AllNames
SPECIFICATION StatementsSpec
INVARIANTS LinesNest PcOK
PROPERTIES WritesProcess ImplementsFunction
CHECK_DEADLOCK FALSE
