SPECIFICATION Spec
CONSTANTS
  a1 = a1
  a2 = a2
  b1 = b1
  c1 = c1
  k1 = k1
  k2 = k2
  k3 = k3
  p1 = p1
  p2 = p2
  NoKey = NoKey
  Callers = {a1, a2, b1, c1}
  Keys = {k1, k2, k3}
  KeyOf <- Keyed
  Phones = {p1, p2}
  PhoneOf <- Phoned
  Hosts = {h1, h2}
  ConsumptionKeys = {o1, o2}
  MaxAttempts = 1
  PhoneLimit = 1
  TenantLimit = 2
\* Every call may have ended and every code be spent or expired.
CHECK_DEADLOCK FALSE
SYMMETRY Interchangeable
INVARIANTS
  ProofInv
  LimitsInv
  AnswersAgree
PROPERTIES
  DecisionsStand
