------------------------------ MODULE Identity ------------------------------
(* Who a person is to the platform: accounts under administration and data *)
(* requests (the module extended), sessions, LTI launches, SAML sign-in    *)
(* and sign-in with Google or Microsoft.  They share no state here and are *)
(* explored next to each other: `moves' names the one a behaviour is       *)
(* about, and the others stay as they are at the start.                    *)
EXTENDS Accounts

CONSTANTS
  Tabs, MaxSessions, MaxResets, MaxVisits, MaxLost,             \* of sessions
  Platforms, States, Subjects, Tickets, MaxTurns, MaxTroubles,  \* of launches
  IdPs, Members, MaxVersion, MaxSignIns, MaxOrders,             \* of SAML sign-in
  Providers, Logins, ProviderOf, MaxMoves                       \* of Google and Microsoft

ASSUME IdentityAssumption ==
  /\ MaxSessions \in Nat /\ MaxResets \in Nat /\ MaxVisits \in Nat /\ MaxLost \in Nat
  /\ MaxTurns \in Nat /\ MaxTroubles \in Nat
  /\ MaxVersion \in Nat /\ MaxSignIns \in Nat /\ MaxOrders \in Nat
  /\ Nobody \notin Logins /\ Nobody \notin Subjects
  /\ MaxMoves \in Nat

VARIABLES
  moves,
  person, letter, links, sessions, cookie, access, visit, mixed, visits, lost,
  platforms, launches, accounts, onCourse, tickets, pilot, signedIn, tangled, turns, troubles,
  idps, members, signIn, refresh, due, improper, overlap, signIns, orders,
  owner, jar, trip, keys, discovered, fetched, firstLink, interwoven

sessionVars ==
  <<person, letter, links, sessions, cookie, access, visit, mixed, visits, lost>>
launchVars ==
  <<platforms, launches, accounts, onCourse, tickets, pilot, signedIn, tangled, turns, troubles>>
samlVars == <<idps, members, signIn, refresh, due, improper, overlap, signIns, orders>>
socialVars == <<owner, jar, trip, keys, discovered, fetched, firstLink, interwoven>>
everything == <<moves, vars, sessionVars, launchVars, samlVars, socialVars>>

SignIn == INSTANCE Sessions WITH Visitors <- Handlers, NoTab <- Nobody

Lti == INSTANCE Launch WITH
  Emails <- Users, Pilots <- Handlers, NoPlatform <- Nobody, NoState <- Nobody,
  NoEmail <- Nobody, NoSubject <- Nobody, NoTicket <- Nobody

Sso == INSTANCE Saml WITH
  Visits <- Handlers, NoIdP <- Nobody, NoMember <- Nobody, visit <- signIn, mixed <- overlap

Social == INSTANCE SocialSignIn WITH
  Subjects <- Logins, Trips <- Handlers, NoOne <- Nobody, NoTrip <- Nobody

(* Where sign-in is not what the behaviour is about, one initial state.    *)
StillSocial ==
  owner.exists /\ \A t \in Handlers : trip[t].provider = CHOOSE p \in Providers : TRUE

IdentityInit ==
  /\ moves \in {"accounts", "sessions", "launches", "saml", "social"}
  /\ moves = "accounts" \/ account = [u \in Users |-> [role |-> "admin", status |-> "active"]]
  /\ moves = "launches" \/ accounts = [e \in Users |-> [status |-> "none", subject |-> Nobody]]
  /\ moves = "saml" \/ members = [m \in Members |-> [status |-> "none", role |-> 0]]
  /\ Init /\ SignIn!Init /\ Lti!Init /\ Sso!Init /\ Social!Init
  /\ moves = "social" \/ StillSocial

IdentityNext ==
  \/ /\ moves = "accounts" /\ Next
     /\ UNCHANGED <<moves, sessionVars, launchVars, samlVars, socialVars>>
  \/ /\ moves = "sessions" /\ SignIn!Next
     /\ UNCHANGED <<moves, vars, launchVars, samlVars, socialVars>>
  \/ /\ moves = "launches" /\ Lti!Next
     /\ UNCHANGED <<moves, vars, sessionVars, samlVars, socialVars>>
  \/ /\ moves = "saml" /\ Sso!Next
     /\ UNCHANGED <<moves, vars, sessionVars, launchVars, socialVars>>
  \/ /\ moves = "social" /\ Social!Next
     /\ UNCHANGED <<moves, vars, sessionVars, launchVars, samlVars>>

IdentitySpec == IdentityInit /\ [][IdentityNext]_everything

-----------------------------------------------------------------------------
(* Properties *)

(* Of sessions: rotated tokens are dead and have one successor, a reset    *)
(* ends the sessions of the old password.                                  *)
SessionsInv == SignIn!SessionsInv

(* Of launches: one session per launch, one account per subject, tickets   *)
(* of enrolled people only.                                                *)
LaunchInv == Lti!LaunchInv

(* Of SAML sign-in: logins sent to the address of the current metadata,    *)
(* roles never lowered, no session for a suspended account.                *)
SamlInv == Sso!SamlInv

(* Of sign-in with Google or Microsoft: trips end where they were started, *)
(* an account stays linked with whom it was linked first.                  *)
SocialSignInInv == Social!SocialSignInInv
=============================================================================
