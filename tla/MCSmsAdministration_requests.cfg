SPECIFICATION Spec
CONSTANTS
  Requests = {1, 2, 3}
  Signatures = {1}
  Templates = {1, 2}
  Keys = {1, 2}
  Inputs = {i1, i2}
  OperationKeys = {a, b}
  Mixes <- MCMixes
SYMMETRY Interchangeable
INVARIANTS
  SetupInv
  LocksAreAcyclic
  OneEffectPerKey
PROPERTIES
  SendsAreUsable
CHECK_DEADLOCK FALSE
