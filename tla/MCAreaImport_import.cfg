SPECIFICATION FairSpec
CONSTANTS
  Importers = {i1, i2}
  Manifests = {m1, m2}
  m1 = m1
  m2 = m2
  RowsOf <- Library
  Sources = {s1}
  Target = Target
  SameMeaning <- SamePath
  BatchSizes = {2}
  Edited = {2, 3}
  NoManifest = NoManifest
  NoDataset = NoDataset
  NoOne = NoOne
INVARIANTS
  ImportInv
PROPERTIES
  ImportsStand
  ImportsComplete
