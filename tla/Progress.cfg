\* Two scenes with a request each, or one set of two frames; one generation of
\* up to three attempts; recipes of two passes; three days and two copies kept.
SPECIFICATION ProgressSpec
CONSTANTS
    Set1 = Set1
    Scenes <- MCScenes
    Sets = {Set1}
    Requests <- MCRequests
    Sessions = {}
    MaxJobs = 1
    MaxRestarts = 1
    FrameCount = 2
    MaxPerRun = 1
    MaxAttempts = 3
    MaxScore = 2
    Graphs <- MCGraphs
    MaxPasses = 2
    Photos = 2
    MaxPolls = 2
    Days = {1, 2, 3}
    DailyLimit = 2
INVARIANTS
    BackgroundInvariant
    MediaInvariant
    StagedInvariant
PROPERTIES
    PicturesEnd
    MaintenanceHolds
CHECK_DEADLOCK FALSE
