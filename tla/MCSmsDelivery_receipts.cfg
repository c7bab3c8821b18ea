SPECIFICATION OneOffSpec
CONSTANTS
  Messages = {m1}
  Reconcilers = {r1, r2}
  NoMessage = NoMessage
  NoOne = NoOne
  BatchLimit = 1
  ReportLimit = 2
  Requests = {tester, operator}
  Testers = {tester}
  Crews <- TwoCrews
  Nothing = Nothing
\* Every message may be settled and every report acknowledged.
CHECK_DEADLOCK FALSE
INVARIANTS
  OneOffInv
PROPERTIES
  StatusesNeverRegress
  ImplementsPromise
  WaitingEnds
