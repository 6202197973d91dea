\* Two calls at once, two orders of one learner for one course, one fault. The
\* system may come to rest: every order settled, every learner enrolled.
SPECIFICATION Spec
CONSTANTS
  Learners = {amina}
  Courses = {stats}
  Providers = {"stripe", "mpesa", "paypal", "mock"}
  Handlers = {h1, h2}
  MaxOrders = 2
  MaxFaults = 1
SYMMETRY HandlerSymmetry
INVARIANT IInv
INVARIANT PaidHasAccess
PROPERTY PurchaseSpec
CHECK_DEADLOCK FALSE
