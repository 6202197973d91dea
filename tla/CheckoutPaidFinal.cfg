\* Two notifications of one PayPal approval at once.
SPECIFICATION FairSpec
CONSTANTS
  Learners = {amina}
  Courses = {stats}
  Providers = {"paypal"}
  Handlers = {h1, h2}
  MaxOrders = 1
  MaxFaults = 0
PROPERTY PaidIsFinal
CHECK_DEADLOCK FALSE
