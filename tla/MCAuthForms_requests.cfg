SPECIFICATION FormSpec
CONSTANTS
  u1 = u1
  p1 = p1
  None = None
  Requests = {r1, r2, r3}
  Kinds = {"password", "sms", "send-login", "send-reset", "reset", "change", "sign-out"}
  Users = {u1, u2}
  Phones = {p1}
  BoundAtFirst <- FirstBound
  PoolSize = 2
  SmsPoolSize = 1
  SendInterval = 1
  SendWindow = 3
  SendLimit = 2
  PendingFence = 2
  CaptchaLife = 2
  Skew = 2
  Horizon = 4
  Mixes <- SomeMixes
\* Every request may have been answered, and time is up.
CHECK_DEADLOCK FALSE
SYMMETRY Interchangeable
INVARIANTS
  SessionInv
  SomeoneGoesOn
  FormInv
  SendInv
