\* Crashes at every point, also during the recovery; old clients.
SPECIFICATION Spec
CONSTANTS
  m1 = m1
  m2 = m2
  m3 = m3
  r1 = r1
  r2 = r2
  r3 = r3
  x1 = x1
  NoRun = NoRun
  NoRunner = NoRunner
  Message <- MCMessage
  Run <- MCRun
  Runner = {x1}
  Approval = {}
  Call = {}
  ReceiptLimit = 2
  MaxCrashes = 2
SYMMETRY Symm
INVARIANTS InputsAccounted StateFileCurrent RetriesRecognised
CHECK_DEADLOCK FALSE
