SPECIFICATION FairSpec
CONSTANTS
  Requests = {k1}
  Phones = {p1}
  ConsumptionKeys = {}
  NoKey = NoKey
  Sweepers = {s1, s2}
  MaxAttempts = 1
  ReportLimit = 1
\* Every code may be spent or expired and every message settled.
CHECK_DEADLOCK FALSE
INVARIANTS
  ReportsAreBacked
PROPERTIES
  OnlyTheAnswerMovesBack
  MessagesSettle
