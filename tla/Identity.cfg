\* Two accounts, two data requests and three calls of administrators and users;
\* three calls of a browser; three calls of an LTI platform; two sign-ins over
\* SAML; two round trips over Google or Microsoft; one mishap of each.  The calls
\* are used up in the end: deadlock is not checked.
SPECIFICATION IdentitySpec
CONSTANTS
  Users = {ana, leo}
  Handlers = {h1, h2}
  Nobody = Nobody
  MaxRequests = 2
  MaxTasks = 3
  MaxMishaps = 1
  Tabs = {"tab1", "tab2"}
  MaxSessions = 3
  MaxResets = 1
  MaxVisits = 3
  MaxLost = 1
  Platforms = {"canvas"}
  States = {"state1"}
  Subjects = {"sub1"}
  Tickets = {1, 2}
  MaxTurns = 3
  MaxTroubles = 1
  IdPs = {"okta"}
  Members = {"amina"}
  MaxVersion = 2
  MaxSignIns = 2
  MaxOrders = 1
  Providers = {"google", "microsoft"}
  Logins = {"g1", "g2", "m1"}
  ProviderOf <- MCProviderOf
  MaxMoves = 1
SYMMETRY IdentitySymmetry
CONSTRAINT InOrder
INVARIANT AccountsInv
INVARIANT SessionsInv
INVARIANT LaunchInv
INVARIANT SamlInv
INVARIANT SocialSignInInv
PROPERTY DemotionLeavesAdmin
PROPERTY SettledOnce
PROPERTY RightsSpec
CHECK_DEADLOCK FALSE
