\* Two writing threads, one workspace: every exit releases, nobody waits forever.
SPECIFICATION FairSpec
CONSTANTS
  t1 = t1
  t2 = t2
  k1 = k1
  m1 = m1
  m2 = m2
  m3 = m3
  m4 = m4
  x1 = x1
  x2 = x2
  NoRun = 0
  NoRunner = NoRunner
  NoThread = NoThread
  NoMessage = NoMessage
  Thread = {t1, t2}
  Key = {k1}
  KeyOf <- MCKeyOf
  Message = {m1, m2, m3}
  Run = {1, 2, 3}
  Runner = {x1, x2}
  Owner <- MCOwner
  ReadInput = {}
  Inputs <- MCInputs
  MaxTurns = 1
  Features = {"cancel", "fail"}
  Approval = {}
  Call = {}
  ReceiptLimit = 0
INVARIANT ExitsReleaseAll
PROPERTIES WaiterServed RunsEnd
CHECK_DEADLOCK FALSE
