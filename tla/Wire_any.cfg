\* Two writing threads, one workspace; cancels, failures, early ends, returns to a waiting thread.
SPECIFICATION Spec
CONSTANTS
  t1 = t1
  t2 = t2
  k1 = k1
  m1 = m1
  m2 = m2
  m3 = m3
  m4 = m4
  x1 = x1
  x2 = x2
  NoRun = 0
  NoRunner = NoRunner
  NoThread = NoThread
  NoMessage = NoMessage
  Thread = {t1, t2}
  Key = {k1}
  KeyOf <- MCKeyOf
  Message = {m1, m2, m3, m4}
  Run = {1, 2, 3, 4}
  Runner = {x1, x2}
  Owner <- MCOwner
  ReadInput = {}
  Inputs <- MCInputsLong
  MaxTurns = 1
  Features = {"cancel", "fail", "early", "return"}
  Approval = {}
  Call = {}
  ReceiptLimit = 0
INVARIANTS WriteExclusion OneLoopPerThread InputsAccounted AppliedWasGiven CancelStaysInThread
CHECK_DEADLOCK FALSE
