\* Two runs of one plan and a third under another consent with the same code,
\* one caller of recover() and a power failure.
SPECIFICATION Spec
CONSTANTS
  r1 = r1  r2 = r2  r3 = r3  k1 = k1
  Runs = {r1, r2, r3}
  PlanOf <- MCPlanOf
  ConsentOf <- MCConsentOf
  SourceOf <- MCSourceOf
  CodeOf <- MCCodeOf
  Recoverers = {k1}
  MaxPower = 1
INVARIANTS
  PlanOnce
  CodeOnce
  IntentRecoverable
  EffectsHaveCause
SYMMETRY MCSymmetry
CHECK_DEADLOCK FALSE
