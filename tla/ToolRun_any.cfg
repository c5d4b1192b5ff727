SPECIFICATION FairSpec
CONSTANTS
    read = read
    look = look
    submit = submit
    Tools = {read, look, submit}
    Reads = {read, look}
    Resource <- MCResource
    Sides = {submit}
    Submits = {submit}
    Risky = {submit}
    MaxIds = 2
    Slots = 4
    MaxTurns = 1
    MaxCalls = 2
    MaxRuns = 3
    MaxCrashes = 2
INVARIANTS HistoryRepaired ExecutionsAccounted
PROPERTIES RecordedNotRepeated AnswerReachesCall
CHECK_DEADLOCK FALSE
