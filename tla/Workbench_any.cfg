SPECIFICATION MCSpec
CONSTANTS
    p1 = p1
    p2 = p2
    Projects <- MCProjects
    Verdicts <- MCVerdicts
    Payloads <- MCPayloads
    FirstFollowUp = 4
    LastFollowUp = 7
    MaxDecisions = 4
    MaxKills = 1
    SkillDirs = {"a", "b", "c", "d"}
    DirOrder <- MCDirOrder
    SkillName <- MCSkillName
    FoundIn <- MCFoundIn
    NeedsOf <- MCNeeds
    SizeOf <- MCSizes
    Room = 10
    ShareMin = 2
    MaxEdits = 2
    Versions = {"v1", "v2"}
    MaxTurnRuns = 2
    MaxSkillEdits = 2
    MaxTurnFaults = 1
    Shelves = {"n", "o"}
    Gits = {"g"}
    Locals = {"d"}
    SkillTexts = {"c1", "c2"}
    Stock <- MCStock
    Flags <- MCFlags
    MaxPanelOps = 2
    MaxPushes = 1
    Procs = {p1, p2}
    Options <- MCOptions
    Edits <- MCEdits
    ProjectFile <- MCProject
    OldFiles <- MCOlds
    Requests <- MCRequests
    Offers <- MCOffers
    MaxOps = 3
    Paths = {"f", "g"}
    Texts = {"t"}
    Larges = {"L1", "L2", "H"}
    Huges = {"H"}
    MaxBlobs = 1
    MaxCalls = 2
    MaxRuns = 2
INVARIANTS ProjectSound ShelfSound SettingsSound ChangesSound
CHECK_DEADLOCK FALSE
