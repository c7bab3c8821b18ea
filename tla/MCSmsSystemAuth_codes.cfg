SPECIFICATION Spec
CONSTANTS
  Requests = {k1, k2}
  Phones = {p1, p2}
  ConsumptionKeys = {c1}
  NoKey = NoKey
  Sweepers = {}
  MaxAttempts = 1
  ReportLimit = 1
\* Every code may be spent or expired and every message settled.
CHECK_DEADLOCK FALSE
SYMMETRY Interchangeable
INVARIANTS
  ChallengeInv
  OneActivePerPhone
