SPECIFICATION FairSpec
CONSTANTS
    Base = 8
    SizeMod = 128
    Cap = 4
    FileLists <- MCFileLists
    QueueLen = 1
    FileNames <- MCFileNames
    Quiet = {3}
    Risky = {1}
    Week = 2
    Year = 5
    DayLength = 2
    e2lt = 1
    MaxTime = 4
    MaxRuns = 2
    MaxStops = 1
INVARIANTS TypeOK OneDayPerFile HeaderFirst LogKeepsDay
PROPERTIES FeedSpec ReplayEnds AllHandled
CHECK_DEADLOCK FALSE
