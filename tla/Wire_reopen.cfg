\* One thread that is resumed while it is active: its runner is lost, and an input with it.
SPECIFICATION Spec
CONSTANTS
  t1 = t1
  t2 = t2
  k1 = k1
  m1 = m1
  m2 = m2
  m3 = m3
  m4 = m4
  x1 = x1
  x2 = x2
  NoRun = 0
  NoRunner = NoRunner
  NoThread = NoThread
  NoMessage = NoMessage
  Thread = {t1}
  Key = {k1}
  KeyOf <- MCKeyOf
  Message = {m1, m2, m3}
  Run = {1, 2}
  Runner = {x1, x2}
  Owner <- MCOwnerReopen
  ReadInput = {}
  Inputs <- MCInputsReopen
  MaxTurns = 1
  Features = {"fail", "reopen"}
  Approval = {}
  Call = {}
  ReceiptLimit = 0
INVARIANT NoInputLost
CHECK_DEADLOCK FALSE
