SPECIFICATION Spec
CONSTANTS
  c1 = c1
  c2 = c2
  Commands = {c1, c2, c3}
  IdOf <- DifferentIds
  Operations = {"save", "stock", "copy"}
  Spus = {p}
  SpuCodes = {"A"}
  Authorities = {"local"}
  Capacity = 3
  OwnIds <- OneId
  MaxValues = 2
  MaxChoices = 2
  ReceiptsLapse = FALSE
  NoDocument = NoDocument
  NoSku = NoSku
  NoPayload = NoPayload
  Unbound = Unbound
SYMMETRY Symmetry
CONSTRAINT FewWithOwnIds
INVARIANTS
  ProductInv
PROPERTIES
  SavesAreForeseen
  ReferencesStayGood
