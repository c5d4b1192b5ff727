SPECIFICATION MCSpec
CONSTANTS
    Keys = {k1, k2}
    MaxJobs = 3
    Contents = {a, b}
    MaxVersion = 2
    MaxEntries = 3
    MaxFaults = 2
    Digests = {good, bad}
    Sound = {good}
    MaxVersions = 2
    MaxClaims = 1
    Agents = {a1, a2}
    t1 = t1
    t2 = t2
    Tasks = {t1, t2}
    Projects <- MCProjects
    Clash <- MCClash
    MaxOverlaps = 0
SYMMETRY MCSymmetry
INVARIANTS JobsAccounted AgreementsKept FileKept LeasesSound
PROPERTIES LedgerKept ArtifactsSound
CHECK_DEADLOCK FALSE
