SPECIFICATION Spec
CONSTANTS
  Subsystem = {s1, s2}
  Referral = ref
  BadPort = bad
  MaxLen = 2
  MaxGen = 2
  MaxLoss = 1
  Attempts = 3
  Kato = FALSE
SYMMETRY Symmetry
INVARIANTS ConnectsOneLog AllAttempted ReportedOnce
CHECK_DEADLOCK FALSE
