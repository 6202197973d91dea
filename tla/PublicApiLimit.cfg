\* One client, two tokens and two requests at once, a limit of one request an hour,
\* an outage or restart. All requests may be used up: deadlock is not checked.
SPECIFICATION Spec
CONSTANTS
  Clients = {k1}
  Bearers = {b1, b2}
  Lines = {x1, x2}
  NoClient = NoClient
  NoBearer = NoBearer
  Limit = 1
  MaxHits = 4
  MaxSecrets = 2
  MaxHours = 1
  MaxDrops = 1
SYMMETRY PublicApiSymmetry
INVARIANT LimitEnforced
CHECK_DEADLOCK FALSE
