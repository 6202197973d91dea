\* A course of at most two lessons, two calls at once, two certificate numbers,
\* one edit of the course, one crash or storage failure. The system may come to
\* rest.
SPECIFICATION Spec
CONSTANTS
  Lessons = {l1, l2}
  Handlers = {h1, h2}
  Numbers = {n1, n2}
  None = None
  MaxEdits = 1
  MaxFaults = 1
SYMMETRY LearningSymmetry
INVARIANT IInv
PROPERTY GatesHold
PROPERTY AwardSpec
CHECK_DEADLOCK FALSE
