\* Callers ask has_active_run before they call start_run.
SPECIFICATION Spec
CONSTANTS
  m1 = m1
  m2 = m2
  m3 = m3
  r1 = r1
  r2 = r2
  a1 = a1
  c1 = c1
  x1 = x1
  NoRun = NoRun
  NoRunner = NoRunner
  Message <- MCMessage
  Run <- MCRun
  Runner <- MCRunner
  Approval <- MCApproval
  Call <- MCCall
  ReceiptLimit = 1
  CallersCheck = TRUE
  MaxAccepts = 4
SYMMETRY Symm
INVARIANTS LanesInOrder RunsLeaveNothing
CHECK_DEADLOCK FALSE
