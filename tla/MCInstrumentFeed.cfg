SPECIFICATION Spec
CONSTANTS
    Plans <- MCPlans
    KnownSets <- AnyCsv
    Corise <- MCCorise
    Room = 4
    IsOption = TRUE
    None = None
INVARIANTS TypeOK
PROPERTIES AcceptedRouted UnderlyingIsTodays CodeNeverChanges FailsOnlyWhenDamaged
CHECK_DEADLOCK FALSE
