\* Five scenarios of one session.
SPECIFICATION FairSpec
CONSTANTS
  None = None  c1 = c1  c2 = c2  t1 = t1  t2 = t2  f1 = f1  f2 = f2
  Fresh = {f1, f2}
  Cmds = {c1, c2}
  MaxDepth = 1
  Scenarios <- MCScenarios
INVARIANTS
  StepOnce
  LineageSound
  FreshConfirmation
PROPERTIES
  ReconciliationResumes
CHECK_DEADLOCK FALSE
