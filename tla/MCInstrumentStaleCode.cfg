SPECIFICATION Spec
CONSTANTS
    Plans <- OptionsSwap
    KnownSets <- AnyCsv
    Corise <- MCCorise
    Room = 4
    IsOption = TRUE
    None = None
PROPERTY RoutedToday
CHECK_DEADLOCK FALSE
