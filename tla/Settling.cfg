CONSTANTS
  w1 = w1
  w2 = w2
  a = a
  b = b
  ra = ra
  rb = rb
  rb2 = rb2
  ka = ka
  kb = kb
  d1 = d1
  d2 = d2
  p1 = p1
  s1 = s1
  s2 = s2
  NoKey = NoKey
  NoIntent = NoIntent
  NoOwner = NoOwner
  NoWork = NoWork
  NoJob = NoJob
  Works = {w1}
  Intents = {a, b}
  Keys = {ka}
  KeyOf <- OneTarget
  Idempotent = {}
  Owners = {d1, p1}
  Unregistered = {}
  MaxAttempts = 2
  MaxManualRetries = 0
  ClaimLease = 1
  HandlerLease = 2
  RetryDelay = 1
  Requests = {ra, rb}
  StageDelays = {0, 1}
  Dispatchers = {d1}
  Slots = {s1}
  IntentOf <- IntentOfRequest
  ProcessOf <- OneProcess
SPECIFICATION FairSpec
PROPERTY WorkSettles
CHECK_DEADLOCK FALSE
