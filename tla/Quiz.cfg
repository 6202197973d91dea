\* Two calls at once on a timed quiz of one question, at most two attempts
\* (a third row would fit), one crash. The system may come to rest.
SPECIFICATION Spec
CONSTANTS
  Handlers = {h1, h2}
  Questions = 1
  TimeLimit = 15
  MaxAttempts = 2
  HasCooldown = TRUE
  MaxRows = 3
  MaxFaults = 1
SYMMETRY HandlerSymmetry
INVARIANT IInv
INVARIANT GradesInv
PROPERTY AttemptsSpec
PROPERTY SubmittedIsFinal
CHECK_DEADLOCK FALSE
