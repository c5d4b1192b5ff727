SPECIFICATION MCSpec
CONSTANTS
    Bodies = {b1, b2}
    Resources = {r1, r2}
    Backups = {k1}
    MaxInstalls = 1
    MaxChanges = 1
    MaxReloads = 2
    Activations = {a1, a2}
    SkillDigests = {s1, s2}
    MaxMountFaults = 2
    Threshold = 10
    Reserve = 3
    KeepRecent = 2
    KeepTail = 3
    SummarySize = 2
    Sizes = {1, 3}
    MaxChat = 7
    MaxTokens = 9
    Steers = {i1}
    MaxSubs = 2
    MaxMainRuns = 2
    CallLimit = 1
    TokenLimit = 1
    BatchMax = 2
    MaxAnswers = 3
    Systems = {1, 2}
    MaxRuns = 2
    Commands = {e1}
    Writes = {f1}
    Replaces = {g1}
    Straying = {e1}
    RestartMax = 1
    MaxEnvs = 2
    MaxFaults = 2
SYMMETRY MCSymmetry
INVARIANTS TurnSound FramesSound ChainSound SandboxSound
CHECK_DEADLOCK FALSE
