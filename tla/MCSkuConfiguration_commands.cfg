SPECIFICATION Spec
CONSTANTS
  c1 = c1
  c2 = c2
  Commands = {c1, c2, c3}
  IdOf <- SharedId
  Operations = {"save", "patch", "copy", "stock", "external"}
  Spus = {p, q}
  SpuCodes = {"A", "B"}
  Authorities = {"local", "external"}
  Capacity = 2
  OwnIds = {}
  MaxValues = 0
  MaxChoices = 1
  ReceiptsLapse = TRUE
  NoDocument = NoDocument
  NoSku = NoSku
  NoPayload = NoPayload
  Unbound = Unbound
SYMMETRY Products
INVARIANTS
  CommandInv
