\* Each service with a few rows and at most two calls in flight (one for the
\* configuration and checkout), two to four calls in all and one crash or outage.
\* The calls are used up in the end: deadlock is not checked.
SPECIFICATION Spec
CONSTANTS
  Calls = {c1, c2}
  None = None
  Sections = {"payments", "features"}
  Nodes = {"node1", "node2"}
  Lookups = {"call"}
  Ttl = 2
  MaxEdits = 2
  MaxOutages = 1
  Posts = {"p1", "p2", "p3"}
  People = {"amina", "juma", "zuri"}
  Enrolled = {"amina"}
  Staff = {"juma"}
  MaxMessages = 3
  MaxUpsets = 1
  Readers = {"amina"}
  Slips = {1, 2}
  MaxErrands = 2
  MaxDays = 1
  MaxGlitches = 1
  Clients = {"client"}
  Bearers = {1, 2}
  Limit = 1
  MaxHits = 3
  MaxSecrets = 2
  MaxHours = 1
  MaxDrops = 1
  Drafts = {"d1", "d2"}
  Chapters = {"m1", "m2"}
  Pages = {"l1", "l2"}
  MaxChanges = 4
  MaxBreaks = 1
  Titles = {1, 2, 3}
  Weeks = {0, 4}
  Asked <- MCAsked
  PageSize = 2
  MaxReshelvings = 1
  Tabs = {"tab1", "tab2"}
  Beats = {"beat"}
  LastDay = 3
  Lookback = 2
  Size = 2
  Quizzes = {1}
  Questions = 2
  MaxRuns = 2
  MaxTweaks = 1
  MaxDeaths = 1
  Learners = {"amina"}
  Courses = {"stats"}
  Providers = {"stripe", "mpesa", "paypal", "mock"}
  TheCall = "call"
  MaxOrders = 2
  MaxFaults = 1
SYMMETRY ServicesSymmetry
CONSTRAINTS InOrder Claimed
INVARIANT SettingsInv
INVARIANT ForumInv
INVARIANT NotificationsInv
INVARIANT PublicApiInv
INVARIANT AuthoringInv
INVARIANT CatalogueInv
INVARIANT ActivityInv
INVARIANT SeedInv
INVARIANT OrdersInv
CHECK_DEADLOCK FALSE
