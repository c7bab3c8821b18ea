SPECIFICATION FairSpec
CONSTANTS
  Notifications = {n1}
  Otps = {o1}
  Workers = {w1, w2}
  Callers = {c1}
  LeaseTokens = {t1, t2}
  NoMessage = NoMessage
  NoToken = NoToken
  MaxAttempts = 2
  SystemDailyBudget = 1
  LastDay = 1
  OldMessages = {n1}
  RecoveryLimit = 2
INVARIANTS
  DispatchInv
  SingleAcceptedSend
  RetriesBounded
  CompanionInv
PROPERTIES
  NeverResent
  ImplementsPromise
  MessagesAreDecided
