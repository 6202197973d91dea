---------------------------- MODULE SocialSignIn ----------------------------
(***************************************************************************)
(* Sign-in with Google or Microsoft (apps/api/src/modules/auth/sso.ts and  *)
(* registerSsoRoutes): the round trip of a browser over the provider, and  *)
(* the account it ends in.  The browser keeps the state and the page to    *)
(* return to in one pair of cookies, which every trip it starts overwrites.*)
(* A trip's statements and fetches are awaited one by one.                 *)
(***************************************************************************)
EXTENDS Naturals

CONSTANTS
  Providers,   \* google, microsoft
  Subjects,    \* accounts at the providers, all of one e-mail address
  ProviderOf,  \* [Subjects -> Providers]
  Trips,       \* round trips of the browser
  NoOne,       \* no subject
  NoTrip,      \* no cookie
  MaxMoves     \* bound: times a provider moves its keys

VARIABLES
  owner,       \* the row of users of the address
  jar,         \* the cookies: the trip whose state and page they hold
  trip,        \* the round trips
  keys,        \* the key set a provider publishes and signs with, by number
  discovered,  \* discoveryCache: the key set the cached document names; 0: none
  fetched,     \* jwksCache: the key set of the provider; 0: none
  firstLink,   \* history: the subject the account was first linked with
  interwoven      \* history: have two callbacks ever been in flight at once?

caches == <<discovered, fetched>>
vars == <<owner, jar, trip, keys, caches, firstLink, interwoven>>

KeySets == 1..(MaxMoves + 1)
Step == {"none", "asked", "away", "back", "exchange", "verify", "find", "link", "create",
         "issue", "home", "refused"}
Callback == {"exchange", "verify", "find", "link", "create", "issue"}

(* A trip: its provider, the subject that signed in there, the subject     *)
(* linked with the account when it was read, the trip on whose page it     *)
(* ends.                                                                   *)
Trip == [pc : Step, provider : Providers, subject : Subjects \union {NoOne},
         linked : Subjects \union {NoOne}, page : Trips \union {NoTrip}]

(* The account, cookies, trips and caches have their types. *)
TypeOK ==
  /\ owner \in [exists : BOOLEAN, linked : Subjects \union {NoOne}, verified : BOOLEAN]
  /\ jar \in Trips \union {NoTrip}
  /\ trip \in [Trips -> Trip]
  /\ keys \in [Providers -> KeySets]
  /\ discovered \in [Providers -> KeySets \union {0}]
  /\ fetched \in [Providers -> KeySets \union {0}]
  /\ firstLink \in Subjects \union {NoOne}
  /\ interwoven \in BOOLEAN

(* The address may have an account, made with a password.                  *)
Init ==
  /\ \E there \in BOOLEAN : owner = [exists |-> there, linked |-> NoOne, verified |-> FALSE]
  /\ jar = NoTrip
  /\ \E p \in [Trips -> Providers] :
       trip = [t \in Trips |-> [pc |-> "none", provider |-> p[t], subject |-> NoOne,
                                linked |-> NoOne, page |-> NoTrip]]
  /\ keys = [p \in Providers |-> 1]
  /\ discovered = [p \in Providers |-> 0] /\ fetched = discovered
  /\ firstLink = NoOne
  /\ interwoven = FALSE

-----------------------------------------------------------------------------
(* Helpers *)

At(t, step) == trip[t].pc = step
Goto(t, step) == trip' = [trip EXCEPT ![t].pc = step]
Refuse(t) == Goto(t, "refused")

(* getDiscovery: from the cache, or fetched into it.                       *)
GetDiscovery(p) ==
  discovered' = IF discovered[p] = 0 THEN [discovered EXCEPT ![p] = keys[p]] ELSE discovered

-----------------------------------------------------------------------------
(* GET /auth/sso/:provider: a new state and the page to return to, in the  *)
(* cookies of the answer, ...                                              *)
Ask(t) ==
  /\ At(t, "none")
  /\ Goto(t, "asked")
  /\ UNCHANGED <<owner, jar, keys, caches, firstLink, interwoven>>

(* ... which redirects to the provider.  *)
SsoAuthorizationUrl(t) ==
  /\ At(t, "asked")
  /\ GetDiscovery(trip[t].provider)
  /\ jar' = t
  /\ Goto(t, "away")
  /\ UNCHANGED <<owner, keys, fetched, firstLink, interwoven>>

(* The document cannot be fetched: the answer is an error. *)
DiscoveryFails(t) ==
  /\ At(t, "asked") /\ discovered[trip[t].provider] = 0
  /\ Refuse(t)
  /\ jar' \in {jar, t}
  /\ UNCHANGED <<owner, keys, caches, firstLink, interwoven>>

(* At the provider, the person chooses an account there, or declines.      *)
Consent(t) ==
  /\ At(t, "away")
  /\ \/ \E s \in Subjects : /\ ProviderOf[s] = trip[t].provider
                            /\ trip' = [trip EXCEPT ![t].pc = "back", ![t].subject = s]
     \/ Refuse(t)
  /\ UNCHANGED <<owner, jar, keys, caches, firstLink, interwoven>>

-----------------------------------------------------------------------------
(* GET /auth/sso/:provider/callback *)

Mutant_CheckState_AnyCookie(t) ==
  /\ At(t, "back")
  /\ IF jar # NoTrip
       THEN trip' = [trip EXCEPT ![t].pc = "exchange", ![t].page = jar]
       ELSE Refuse(t)
  /\ interwoven' = (interwoven \/ \E o \in Trips \ {t} : trip[o].pc \in Callback)
  /\ UNCHANGED <<owner, jar, keys, caches, firstLink>>

(* The state must be the one in the cookie; the page is the other cookie's.*)
CheckState(t) ==
  /\ At(t, "back")
  /\ IF jar = t
       THEN trip' = [trip EXCEPT ![t].pc = "exchange", ![t].page = jar]
       ELSE Refuse(t)
  /\ interwoven' = (interwoven \/ \E o \in Trips \ {t} : trip[o].pc \in Callback)
  /\ UNCHANGED <<owner, jar, keys, caches, firstLink>>

(* ssoExchangeCode: the code for an ID token, ... *)
ExchangeCode(t) ==
  /\ At(t, "exchange")
  /\ \/ GetDiscovery(trip[t].provider) /\ Goto(t, "verify")
     \/ UNCHANGED discovered /\ Refuse(t)
  /\ UNCHANGED <<owner, jar, keys, fetched, firstLink, interwoven>>

(* ... verified with the provider's key set: the one of the first document *)
(* ever read, for as long as the process lives.                            *)
VerifyToken(t) ==
  LET p == trip[t].provider
      used == IF fetched[p] = 0 THEN discovered[p] ELSE fetched[p]
  IN
  /\ At(t, "verify")
  /\ fetched' = [fetched EXCEPT ![p] = used]
  /\ IF used = keys[p] THEN Goto(t, "find") ELSE Refuse(t)
  /\ UNCHANGED <<owner, jar, keys, discovered, firstLink, interwoven>>

(* findOrCreateSsoUser: an account linked with another subject is refused. *)
FindUser(t) ==
  /\ At(t, "find")
  /\ IF ~owner.exists
       THEN Goto(t, "create")
       ELSE IF owner.linked \in {NoOne, trip[t].subject}
         THEN trip' = [trip EXCEPT ![t].pc = "link", ![t].linked = owner.linked]
         ELSE Refuse(t)
  /\ UNCHANGED <<owner, jar, keys, caches, firstLink, interwoven>>

(* By id, whatever was written since. *)
LinkUser(t) ==
  /\ At(t, "link")
  /\ owner' = [owner EXCEPT !.linked = trip[t].subject, !.verified = TRUE]
  /\ firstLink' = IF firstLink = NoOne THEN trip[t].subject ELSE firstLink
  /\ Goto(t, "issue")
  /\ UNCHANGED <<jar, keys, caches, interwoven>>

(* The address is unique. *)
CreateUser(t) ==
  /\ At(t, "create")
  /\ IF owner.exists
       THEN Refuse(t) /\ UNCHANGED <<owner, firstLink>>
       ELSE /\ owner' = [exists |-> TRUE, linked |-> trip[t].subject, verified |-> TRUE]
            /\ firstLink' = trip[t].subject
            /\ Goto(t, "issue")
  /\ UNCHANGED <<jar, keys, caches, interwoven>>

(* issueSessionPair, and the redirect to the page.  The cookies stay.      *)
IssueSession(t) ==
  /\ At(t, "issue")
  /\ Goto(t, "home")
  /\ UNCHANGED <<owner, jar, keys, caches, firstLink, interwoven>>

-----------------------------------------------------------------------------
(* Surroundings *)

(* The cookies' ten minutes are over. *)
CookiesExpire ==
  /\ jar # NoTrip
  /\ jar' = NoTrip
  /\ UNCHANGED <<owner, trip, keys, caches, firstLink, interwoven>>

(* The address is registered with a password. *)
Register ==
  /\ ~owner.exists
  /\ owner' = [owner EXCEPT !.exists = TRUE]
  /\ UNCHANGED <<jar, trip, keys, caches, firstLink, interwoven>>

(* A provider publishes its keys elsewhere, and signs with those. *)
MoveKeys(p) ==
  /\ keys[p] <= MaxMoves
  /\ keys' = [keys EXCEPT ![p] = @ + 1]
  /\ UNCHANGED <<owner, jar, trip, caches, firstLink, interwoven>>

(* The document is a day old. *)
DiscoveryExpires(p) ==
  /\ discovered[p] # 0
  /\ discovered' = [discovered EXCEPT ![p] = 0]
  /\ UNCHANGED <<owner, jar, trip, keys, fetched, firstLink, interwoven>>

(* The process restarts: its caches are gone, and calls in flight end.     *)
Restart ==
  /\ \E p \in Providers : fetched[p] # 0
  /\ discovered' = [p \in Providers |-> 0] /\ fetched' = discovered'
  /\ trip' = [t \in Trips |-> IF trip[t].pc \in Callback \union {"asked"}
                                THEN [trip[t] EXCEPT !.pc = "refused"] ELSE trip[t]]
  /\ UNCHANGED <<owner, jar, keys, firstLink, interwoven>>

TripStep(t) ==
  \/ Ask(t) \/ SsoAuthorizationUrl(t) \/ DiscoveryFails(t) \/ Consent(t)
  \/ CheckState(t) \/ ExchangeCode(t) \/ VerifyToken(t)
  \/ FindUser(t) \/ LinkUser(t) \/ CreateUser(t) \/ IssueSession(t)

Next ==
  \/ \E t \in Trips : TripStep(t)
  \/ \E p \in Providers : MoveKeys(p) \/ DiscoveryExpires(p)
  \/ CookiesExpire \/ Register \/ Restart

Spec == Init /\ [][Next]_vars

-----------------------------------------------------------------------------
(* Properties *)

(* However many trips a browser has under way, the one that comes home was *)
(* started in it and lands on the page it was started from.                *)
HomeIsOwn == \A t \in Trips : trip[t].pc \in Callback \union {"home"} => trip[t].page = t

(* As long as callbacks do not overlap, an account once linked is not      *)
(* linked with another subject, and every trip home is of the subject it   *)
(* is linked with.                                                         *)
LinkIsFinal ==
  ~interwoven =>
    /\ owner.linked = firstLink
    /\ \A t \in Trips : At(t, "home") => trip[t].subject = owner.linked

(* A session is of an account that exists, with a verified address, and    *)
(* the subject it was issued for consented on that trip.                   *)
SessionsAreOfTheAddress ==
  \A t \in Trips : trip[t].pc \in {"issue", "home"} =>
    owner.exists /\ owner.verified /\ trip[t].subject # NoOne
      /\ ProviderOf[trip[t].subject] = trip[t].provider

(* What a callback relies on: a subject that consented, an account that is *)
(* there, and, when it is the only one, that the account is not linked     *)
(* with another subject meanwhile.                                         *)
Alone ==
  ~interwoven => \A t, o \in Trips : trip[t].pc \in Callback /\ trip[o].pc \in Callback => t = o
TripOK(t) ==
  LET c == trip[t] IN
  /\ c.pc \in Callback \union {"back", "home"} =>
       c.subject \in Subjects /\ ProviderOf[c.subject] = c.provider
  /\ c.pc = "link" => owner.exists
  /\ ~interwoven /\ c.pc = "link" => owner.linked \in {NoOne, c.subject}
  /\ ~interwoven /\ c.pc = "issue" => owner.linked = c.subject

(* The inductive invariant. *)
SocialSignInInv ==
  /\ TypeOK /\ HomeIsOwn /\ LinkIsFinal /\ SessionsAreOfTheAddress
  /\ ~owner.exists => owner.linked = NoOne
  /\ Alone /\ \A t \in Trips : TripOK(t)
=============================================================================
