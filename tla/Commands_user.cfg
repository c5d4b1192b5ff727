SPECIFICATION MCSpec
CONSTANTS
    t1 = t1
    t2 = t2
    k1 = k1
    m1 = m1
    m2 = m2
    m3 = m3
    Message = {m1, m2, m3}
    Run = {1, 2, 3, 4}
    NoRun = 0
    Runner = {x1, x2, x3}
    NoRunner = none
    Approval = {ap}
    Call = {c1}
    ReceiptLimit = 1
    Thread = {t1, t2}
    NoThread = nt
    Key = {k1}
    KeyOf <- MCKeyOf
    Inputs <- MCInputs
    ReadInput = {m2}
    View = {v1, v2}
    MaxUiRuns = 2
    MaxSends = 3
    MaxPresses = 2
    Tools = {d1}
    Widths = {w1, w2}
    MaxItems = 3
    MaxChunks = 3
    Threads = {1, 2}
    Objects = {1, 2}
    StartedWith = "container"
    MaxWaiting = 1
    MaxCommands = 5
    Dialogues = {d1, d2}
    MaxClients = 3
    MaxJobs = 2
INVARIANTS UserCommandRuns
CHECK_DEADLOCK FALSE
