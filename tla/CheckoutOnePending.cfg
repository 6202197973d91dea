\* Two createOrder calls of one learner for one course at once.
SPECIFICATION FairSpec
CONSTANTS
  Learners = {amina}
  Courses = {stats}
  Providers = {"stripe"}
  Handlers = {h1, h2}
  MaxOrders = 2
  MaxFaults = 0
INVARIANT OnePending
CHECK_DEADLOCK FALSE
