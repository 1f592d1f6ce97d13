CONSTANTS
  w1 = w1
  w2 = w2
  a = a
  b = b
  ra = ra
  rb = rb
  rb2 = rb2
  ka = ka
  kb = kb
  d1 = d1
  d2 = d2
  p1 = p1
  s1 = s1
  s2 = s2
  NoKey = NoKey
  NoIntent = NoIntent
  NoOwner = NoOwner
  NoWork = NoWork
  NoJob = NoJob
  Works = {w1, w2}
  Intents = {a, b}
  Keys = {ka, kb}
  KeyOf <- TwoTargets
  Idempotent = {b}
  Owners = {d1, d2, p1}
  Unregistered = {kb}
  MaxAttempts = 1
  MaxManualRetries = 1
  ClaimLease = 1
  HandlerLease = 2
  RetryDelay = 1
  Requests = {ra, rb, rb2}
  StageDelays = {0}
  Dispatchers = {d1, d2}
  Slots = {s1}
  IntentOf <- IntentOfRequest
  ProcessOf <- OneProcess
SPECIFICATION Spec
SYMMETRY RowSymmetry
PROPERTY TerminalWorkRests
CHECK_DEADLOCK FALSE
