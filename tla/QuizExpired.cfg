\* One call at a time: the page of a first attempt wakes up after its expiry.
SPECIFICATION FairSpec
CONSTANTS
  Handlers = {h1}
  Questions = 1
  TimeLimit = 15
  MaxAttempts = 2
  HasCooldown = FALSE
  MaxRows = 2
  MaxFaults = 0
PROPERTY ExpiredIsFinal
CHECK_DEADLOCK FALSE
