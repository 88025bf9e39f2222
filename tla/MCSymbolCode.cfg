SPECIFICATION Spec
CONSTANTS
    Starts <- From2019
    LastYear = 2029
    Strikes <- ThreeStrikes
    Unit = 100
INVARIANTS TypeOK WeekOfItsFriday SameSymbolSameDate
CHECK_DEADLOCK FALSE
